-------------------------- MODULE LiveClientProofs --------------------------
(* Proofs about LiveClient and the cache under it, for every set of rows,     *)
(* calls and workloads: what readers see (LayeredView), what is stored, and   *)
(* that a live query's rows are the ones the server described.                *)
EXTENDS LiveClient, FiniteSetTheorems, SequenceTheorems, TLAPS

LEMMA Counting ==
  ASSUME NEW S, 0 \in S, \A n \in Nat : n \in S => n + 1 \in S
  PROVE  Nat \subseteq S
<1> SUFFICES ASSUME NEW n \in Nat, n \notin S PROVE FALSE
  OBVIOUS
<1> DEFINE A == S \cap (0..n)
           up == [i \in A |-> i + 1]
<1>1. IsFiniteSet(A)
  BY FS_Interval, FS_Subset, 0 \in Int, n \in Int, A \subseteq 0..n
<1>2. up \in Injection(A, A \ {0})
  <2>1. \A i \in A : i + 1 \in A \ {0}
    OBVIOUS
  <2>2. \A i, j \in A : i + 1 = j + 1 => i = j
    OBVIOUS
  <2> QED BY <2>1, <2>2 DEF Injection, IsInjective
<1>3. 0 \in A
  OBVIOUS
<1>4. /\ IsFiniteSet(A \ {0}) /\ Cardinality(A \ {0}) = Cardinality(A) - 1
  BY <1>1, <1>3, FS_RemoveElement
<1>5. Cardinality(A) <= Cardinality(A \ {0})
  BY <1>1, <1>2, <1>4, FS_Injection
<1>6. Cardinality(A) \in Nat
  BY <1>1, FS_CardinalityType
<1> QED BY <1>4, <1>5, <1>6

-----------------------------------------------------------------------------
Under(g, layers, k, e, j) ==
  IF j = 0 THEN e
  ELSE IF k \in DOMAIN layers[j].ops THEN On(layers[j].ops[k], g[j - 1]) ELSE g[j - 1]

LaysOut(g, layers, k, e, n) == g = [j \in 0..n |-> Under(g, layers, k, e, j)]

LEMMA LaidExists ==
  ASSUME NEW layers, NEW k, NEW e, NEW n \in Nat
  PROVE  \E g : LaysOut(g, layers, k, e, n)
<1> DEFINE S == {m \in Nat : \E g : LaysOut(g, layers, k, e, m)}
<1>1. 0 \in S
  <2> DEFINE g == [j \in 0..0 |-> e]
  <2>1. LaysOut(g, layers, k, e, 0)
    <3>1. \A j \in 0..0 : Under(g, layers, k, e, j) = e
      BY DEF Under
    <3> QED BY <3>1 DEF LaysOut
  <2> QED BY <2>1
<1>2. \A m \in Nat : m \in S => m + 1 \in S
  <2> SUFFICES ASSUME NEW m \in Nat, NEW g, LaysOut(g, layers, k, e, m) PROVE \E h : LaysOut(h, layers, k, e, m + 1)
    OBVIOUS
  <2> DEFINE h == [j \in 0..m + 1 |-> Under(g, layers, k, e, j)]
  <2>1. \A j \in 0..m : h[j] = g[j]
    BY DEF LaysOut
  <2>2. \A j \in 0..m + 1 : Under(h, layers, k, e, j) = Under(g, layers, k, e, j)
    BY <2>1 DEF Under
  <2>3. LaysOut(h, layers, k, e, m + 1)
    BY <2>2 DEF LaysOut
  <2> QED BY <2>3
<1>3. n \in S
  BY <1>1, <1>2, Counting
<1> QED BY <1>3

LEMMA LaidAgree ==
  ASSUME NEW layers, NEW k, NEW e, NEW n \in Nat, NEW g, NEW h, LaysOut(g, layers, k, e, n),
         NEW m \in Nat, m <= n, LaysOut(h, layers, k, e, m)
  PROVE  \A j \in 0..m : g[j] = h[j]
<1> DEFINE S == {j \in Nat : j <= m => g[j] = h[j]}
<1>1. 0 \in S
  BY DEF LaysOut, Under
<1>2. \A j \in Nat : j \in S => j + 1 \in S
  <2> SUFFICES ASSUME NEW j \in Nat, j + 1 <= m, g[j] = h[j] PROVE g[j + 1] = h[j + 1]
    OBVIOUS
  <2>0. j + 1 \in 0..n /\ j + 1 \in 0..m
    OBVIOUS
  <2>1. g[j + 1] = Under(g, layers, k, e, j + 1) /\ h[j + 1] = Under(h, layers, k, e, j + 1)
    BY <2>0, Zenon DEF LaysOut
  <2>2. j + 1 - 1 = j
    OBVIOUS
  <2> QED BY <2>1, <2>2 DEF Under
<1>3. Nat \subseteq S
  BY <1>1, <1>2, Counting
<1> QED BY <1>3

\* What lies out the predictions ends in what is read.
LEMMA LaidIs ==
  ASSUME NEW layers, NEW k, NEW e, Len(layers) \in Nat, NEW g, LaysOut(g, layers, k, e, Len(layers))
  PROVE  Laid(layers, k, e) = g[Len(layers)]
<1> DEFINE F == CHOOSE f : f = [j \in 0..Len(layers) |-> IF j = 0 THEN e
        ELSE IF k \in DOMAIN layers[j].ops THEN On(layers[j].ops[k], f[j - 1]) ELSE f[j - 1]]
<1>1. F = [j \in 0..Len(layers) |-> IF j = 0 THEN e
        ELSE IF k \in DOMAIN layers[j].ops THEN On(layers[j].ops[k], F[j - 1]) ELSE F[j - 1]]
  <2>1. \E f : f = [j \in 0..Len(layers) |-> IF j = 0 THEN e
        ELSE IF k \in DOMAIN layers[j].ops THEN On(layers[j].ops[k], f[j - 1]) ELSE f[j - 1]]
    BY DEF LaysOut, Under
  <2> QED BY <2>1, Zenon
<1>2. LaysOut(F, layers, k, e, Len(layers))
  BY <1>1, Zenon DEF LaysOut, Under
<1>3. F[Len(layers)] = g[Len(layers)]
  BY <1>2, LaidAgree
<1>4. Laid(layers, k, e) = F[Len(layers)]
  BY Zenon DEF Laid
<1> QED BY <1>3, <1>4

LEMMA ReaderLaid == \A layers, k, e : Reader!Laid(e, layers, k) = Laid(layers, k, e)
  BY Zenon DEF Laid, Reader!Laid, On, Reader!On

LEMMA LaidSame ==
  ASSUME NEW layers, NEW others, NEW k, NEW e, Len(layers) \in Nat, Len(others) = Len(layers),
         \A j \in 1..Len(layers) :
           /\ k \in DOMAIN others[j].ops <=> k \in DOMAIN layers[j].ops
           /\ k \in DOMAIN layers[j].ops => others[j].ops[k] = layers[j].ops[k]
  PROVE  Laid(others, k, e) = Laid(layers, k, e)
<1>1. PICK g : LaysOut(g, layers, k, e, Len(layers))
  BY LaidExists
<1>2. \A j \in 0..Len(layers) : Under(g, others, k, e, j) = Under(g, layers, k, e, j)
  <2> TAKE j \in 0..Len(layers)
  <2>1. CASE j = 0
    BY <2>1 DEF Under
  <2>2. CASE j # 0
    <3>1. j \in 1..Len(layers)
      BY <2>2
    <3> QED BY <3>1 DEF Under
  <2> QED BY <2>1, <2>2
<1>3. LaysOut(g, others, k, e, Len(layers))
  BY <1>1, <1>2 DEF LaysOut
<1>4. Laid(layers, k, e) = g[Len(layers)]
  BY <1>1, LaidIs
<1>5. Laid(others, k, e) = g[Len(layers)]
  BY <1>3, LaidIs
<1> QED BY <1>4, <1>5

LEMMA LaidUncovered ==
  ASSUME NEW layers, NEW k, NEW e, Len(layers) \in Nat,
         \A j \in 1..Len(layers) : k \notin DOMAIN layers[j].ops
  PROVE  Laid(layers, k, e) = e
<1> DEFINE g == [j \in 0..Len(layers) |-> e]
<1>1. \A j \in 0..Len(layers) : Under(g, layers, k, e, j) = e
  <2> TAKE j \in 0..Len(layers)
  <2>1. CASE j = 0
    BY <2>1 DEF Under
  <2>2. CASE j # 0
    <3>1. j \in 1..Len(layers) /\ j - 1 \in 0..Len(layers)
      BY <2>2
    <3> QED BY <3>1 DEF Under
  <2> QED BY <2>1, <2>2
<1>2. LaysOut(g, layers, k, e, Len(layers))
  BY <1>1 DEF LaysOut
<1>3. Laid(layers, k, e) = g[Len(layers)]
  BY <1>2, LaidIs
<1> QED BY <1>3

LEMMA LaidAppend ==
  ASSUME NEW L, NEW layers \in Seq(L), NEW last \in L, NEW k, NEW e, k \notin DOMAIN last.ops
  PROVE  Laid(Append(layers, last), k, e) = Laid(layers, k, e)
<1> DEFINE n == Len(layers)
           more == Append(layers, last)
<1>0. n \in Nat /\ Len(more) = n + 1 /\ (\A j \in 1..n : more[j] = layers[j]) /\ more[n + 1] = last
  OBVIOUS
<1> HIDE DEF n, more
<1>1. PICK g : LaysOut(g, layers, k, e, n)
  BY <1>0, LaidExists
<1> DEFINE h == [j \in 0..n + 1 |-> IF j <= n THEN g[j] ELSE g[n]]
<1>2. \A j \in 0..n : h[j] = g[j] /\ g[j] = Under(g, layers, k, e, j)
  <2>1. \A j \in 0..n : g[j] = Under(g, layers, k, e, j)
    BY <1>1, Zenon DEF LaysOut
  <2>2. \A j \in 0..n : h[j] = g[j]
    BY <1>0
  <2> QED BY <2>1, <2>2
<1>3. \A j \in 0..n + 1 : Under(h, more, k, e, j) = h[j]
  <2> TAKE j \in 0..n + 1
  <2>1. CASE j = 0
    <3>1. 0 \in 0..n
      BY <1>0
    <3>2. h[0] = g[0] /\ g[0] = Under(g, layers, k, e, 0)
      BY <1>2, <3>1
    <3>3. Under(g, layers, k, e, 0) = e /\ Under(h, more, k, e, 0) = e
      BY DEF Under
    <3> QED BY <2>1, <3>2, <3>3
  <2>2. CASE j \in 1..n
    <3>1. j - 1 \in 0..n /\ j \in 0..n /\ j # 0
      BY <1>0, <2>2
    <3>2. more[j] = layers[j] /\ h[j - 1] = g[j - 1] /\ h[j] = g[j]
      BY <1>0, <1>2, <2>2, <3>1
    <3> QED BY <1>2, <3>1, <3>2 DEF Under
  <2>3. CASE j = n + 1
    <3>1. j - 1 = n /\ j # 0 /\ h[n] = g[n] /\ h[n + 1] = g[n]
      BY <1>0, <1>2, <2>3
    <3> QED BY <1>0, <2>3, <3>1 DEF Under
  <2> QED BY <1>0, <2>1, <2>2, <2>3
<1>4. LaysOut(h, more, k, e, n + 1)
  BY <1>3 DEF LaysOut
<1>5. Laid(more, k, e) = h[n + 1]
  <2>1. Len(more) \in Nat /\ LaysOut(h, more, k, e, Len(more))
    BY <1>0, <1>4
  <2>2. Laid(more, k, e) = h[Len(more)]
    BY <2>1, LaidIs
  <2> QED BY <1>0, <2>2
<1>6. Laid(layers, k, e) = g[n]
  BY <1>0, <1>1, LaidIs DEF n
<1>7. h[n + 1] = g[n]
  BY <1>0
<1> QED BY <1>5, <1>6, <1>7 DEF more

LEMMA Removing ==
  ASSUME NEW L, NEW s \in Seq(L), NEW i \in 1..Len(s)
  PROVE  /\ RemoveAt(s, i) \in Seq(L)
         /\ Len(RemoveAt(s, i)) = Len(s) - 1
         /\ \A j \in 1..Len(s) - 1 : RemoveAt(s, i)[j] = IF j < i THEN s[j] ELSE s[j + 1]
<1> DEFINE before == SubSeq(s, 1, i - 1)
           after == SubSeq(s, i + 1, Len(s))
<1>1. /\ before \in Seq(L) /\ Len(before) = i - 1
      /\ \A j \in 1..i - 1 : before[j] = s[j]
  OBVIOUS
<1>2. /\ after \in Seq(L) /\ Len(after) = Len(s) - i
      /\ \A j \in 1..Len(s) - i : after[j] = s[j + i]
  OBVIOUS
<1>3. RemoveAt(s, i) = before \o after
  BY DEF RemoveAt
<1> HIDE DEF before, after
<1>4. Len(before \o after) = Len(s) - 1 /\ before \o after \in Seq(L)
  BY <1>1, <1>2
<1>5. \A j \in 1..Len(s) - 1 : (before \o after)[j] = IF j < i THEN s[j] ELSE s[j + 1]
  <2> TAKE j \in 1..Len(s) - 1
  <2>1. CASE j < i
    BY <1>1, <1>2, <2>1
  <2>2. CASE j >= i
    <3>1. (before \o after)[j] = after[j - (i - 1)]
      BY <1>1, <1>2, <2>2
    <3>2. j - (i - 1) \in 1..Len(s) - i /\ j - (i - 1) + i = j + 1
      BY <2>2
    <3> QED BY <1>2, <2>2, <3>1, <3>2
  <2>3. j < i \/ j >= i
    OBVIOUS
  <2> QED BY <2>1, <2>2, <2>3, Zenon
<1> QED BY <1>3, <1>4, <1>5

LEMMA LaidRemove ==
  ASSUME NEW L, NEW layers \in Seq(L), NEW i \in 1..Len(layers), NEW k, NEW e, k \notin DOMAIN layers[i].ops
  PROVE  Laid(RemoveAt(layers, i), k, e) = Laid(layers, k, e)
<1> DEFINE n == Len(layers)
           fewer == RemoveAt(layers, i)
<1>0. /\ n \in Nat /\ Len(fewer) = n - 1 /\ n - 1 \in Nat /\ i \in 1..n
      /\ \A j \in 1..n - 1 : fewer[j] = IF j < i THEN layers[j] ELSE layers[j + 1]
  <2>1. n \in Nat /\ i \in 1..n /\ n - 1 \in Nat
    OBVIOUS
  <2> HIDE DEF n
  <2>2. Len(fewer) = n - 1 /\ \A j \in 1..n - 1 : fewer[j] = IF j < i THEN layers[j] ELSE layers[j + 1]
    BY Removing, Zenon DEF n
  <2> QED BY <2>1, <2>2
<1> HIDE DEF n, fewer
<1>1. PICK g : LaysOut(g, layers, k, e, n)
  BY <1>0, LaidExists
<1> DEFINE h == [j \in 0..n - 1 |-> IF j < i THEN g[j] ELSE g[j + 1]]
<1>2. \A j \in 0..n : g[j] = Under(g, layers, k, e, j)
  BY <1>0, <1>1 DEF LaysOut
<1>3. g[i] = g[i - 1]
  <2>1. g[i] = Under(g, layers, k, e, i)
    BY <1>0, <1>2
  <2> QED BY <1>0, <2>1 DEF Under
<1>4. \A j \in 0..n - 1 : Under(h, fewer, k, e, j) = h[j]
  <2> TAKE j \in 0..n - 1
  <2>1. CASE j = 0
    <3>1. 0 \in 0..n /\ 0 \in 0..n - 1 /\ 0 < i
      BY <1>0
    <3>2. h[0] = g[0] /\ g[0] = Under(g, layers, k, e, 0)
      BY <1>2, <3>1
    <3>3. Under(g, layers, k, e, 0) = e /\ Under(h, fewer, k, e, 0) = e
      BY DEF Under
    <3> QED BY <2>1, <3>2, <3>3
  <2>2. CASE j # 0 /\ j < i
    <3>1. h[j] = g[j] /\ h[j - 1] = g[j - 1] /\ fewer[j] = layers[j] /\ g[j] = Under(g, layers, k, e, j)
      BY <1>0, <1>2, <2>2
    <3> QED BY <2>2, <3>1 DEF Under
  <2>3. CASE j # 0 /\ j >= i
    <3>1. h[j] = g[j + 1] /\ fewer[j] = layers[j + 1] /\ g[j + 1] = Under(g, layers, k, e, j + 1)
      BY <1>0, <1>2, <2>3
    <3>2. h[j - 1] = g[j]
      <4>1. CASE j = i
        BY <1>0, <1>3, <2>3, <4>1
      <4>2. CASE j # i
        BY <1>0, <2>3, <4>2
      <4> QED BY <4>1, <4>2
    <3>3. j + 1 - 1 = j /\ j + 1 # 0
      BY <1>0
    <3> QED BY <2>3, <3>1, <3>2, <3>3 DEF Under
  <2> QED BY <1>0, <2>1, <2>2, <2>3
<1>5. LaysOut(h, fewer, k, e, n - 1)
  BY <1>4 DEF LaysOut
<1>6. Laid(fewer, k, e) = h[n - 1]
  <2>1. Len(fewer) \in Nat /\ LaysOut(h, fewer, k, e, Len(fewer))
    BY <1>0, <1>5
  <2>2. Laid(fewer, k, e) = h[Len(fewer)]
    BY <2>1, LaidIs
  <2> QED BY <1>0, <2>2
<1>7. Laid(layers, k, e) = g[n]
  BY <1>0, <1>1, LaidIs DEF n
<1>8. h[n - 1] = g[n]
  <2>1. CASE i = n
    BY <1>0, <1>3, <2>1
  <2>2. CASE i # n
    BY <1>0, <2>2
  <2> QED BY <2>1, <2>2
<1> QED BY <1>6, <1>7, <1>8 DEF fewer

-----------------------------------------------------------------------------
WordSet == UNION {[S -> {0, 1}] : S \in SUBSET Fields}
OpsSet  == UNION {[S -> WordSet] : S \in SUBSET CacheKeys}
Layers  == [id : Calls, ops : OpsSet]
Entity  == {e \in UNION {[S -> {0, 1, None} \union CacheKeys] : S \in SUBSET (Fields \union {"next"})} :
              \A f \in DOMAIN e : e[f] \in IF f = "next" THEN CacheKeys \union {None} ELSE {0, 1}}

LEMMA WordSetIs ==
  \A w : w \in WordSet <=> /\ w = [f \in DOMAIN w |-> w[f]] /\ DOMAIN w \subseteq Fields
                           /\ \A f \in DOMAIN w : w[f] \in {0, 1}
<1> TAKE w
<1>1. ASSUME w \in WordSet
      PROVE  /\ w = [f \in DOMAIN w |-> w[f]] /\ DOMAIN w \subseteq Fields
             /\ \A f \in DOMAIN w : w[f] \in {0, 1}
  BY <1>1 DEF WordSet
<1>2. ASSUME w = [f \in DOMAIN w |-> w[f]], DOMAIN w \subseteq Fields, \A f \in DOMAIN w : w[f] \in {0, 1}
      PROVE  w \in WordSet
  <2>1. w \in [DOMAIN w -> {0, 1}]
    BY <1>2
  <2> QED BY <1>2, <2>1 DEF WordSet
<1> QED BY <1>1, <1>2

LEMMA OpsSetIs ==
  \A o : o \in OpsSet <=> /\ o = [k \in DOMAIN o |-> o[k]] /\ DOMAIN o \subseteq CacheKeys
                          /\ \A k \in DOMAIN o : o[k] \in WordSet
<1> TAKE o
<1>1. ASSUME o \in OpsSet
      PROVE  /\ o = [k \in DOMAIN o |-> o[k]] /\ DOMAIN o \subseteq CacheKeys
             /\ \A k \in DOMAIN o : o[k] \in WordSet
  BY <1>1 DEF OpsSet
<1>2. ASSUME o = [k \in DOMAIN o |-> o[k]], DOMAIN o \subseteq CacheKeys, \A k \in DOMAIN o : o[k] \in WordSet
      PROVE  o \in OpsSet
  <2>1. o \in [DOMAIN o -> WordSet]
    BY <1>2
  <2> QED BY <1>2, <2>1 DEF OpsSet
<1> QED BY <1>1, <1>2

LEMMA EntityIs ==
  \A e : e \in Entity <=> /\ e = [f \in DOMAIN e |-> e[f]] /\ DOMAIN e \subseteq Fields \union {"next"}
                          /\ \A f \in DOMAIN e : e[f] \in IF f = "next" THEN CacheKeys \union {None} ELSE {0, 1}
<1> TAKE e
<1>1. ASSUME e \in Entity
      PROVE  /\ e = [f \in DOMAIN e |-> e[f]] /\ DOMAIN e \subseteq Fields \union {"next"}
             /\ \A f \in DOMAIN e : e[f] \in IF f = "next" THEN CacheKeys \union {None} ELSE {0, 1}
  BY <1>1 DEF Entity
<1>2. ASSUME e = [f \in DOMAIN e |-> e[f]], DOMAIN e \subseteq Fields \union {"next"},
             \A f \in DOMAIN e : e[f] \in IF f = "next" THEN CacheKeys \union {None} ELSE {0, 1}
      PROVE  e \in Entity
  <2>1. \A f \in DOMAIN e : e[f] \in {0, 1, None} \union CacheKeys
    BY <1>2
  <2>2. e \in [DOMAIN e -> {0, 1, None} \union CacheKeys]
    BY <1>2, <2>1
  <2> QED BY <1>2, <2>2 DEF Entity
<1> QED BY <1>1, <1>2

LEMMA NoneIsNoEntity == None \notin Entity
  BY NoneAssumption DEF Entity

LEMMA OnIsEntity ==
  ASSUME NEW w, w \in Entity, NEW e \in Entity \union {None}
  PROVE  /\ On(w, e) \in Entity
         /\ DOMAIN On(w, e) = Reader!Known(e) \union DOMAIN w
         /\ \A f \in Reader!Known(e) \ DOMAIN w : On(w, e)[f] = e[f]
         /\ \A f \in DOMAIN w : On(w, e)[f] = w[f]
<1>1. CASE e = None
  <2>1. On(w, e) = [f \in DOMAIN w |-> w[f]]
    BY <1>1 DEF On
  <2> QED BY <1>1, <2>1, EntityIs DEF Reader!Known
<1>2. CASE e # None
  <2>1. On(w, e) = [f \in DOMAIN w \union DOMAIN e |-> IF f \in DOMAIN w THEN w[f] ELSE e[f]]
    BY <1>2 DEF On
  <2>2. DOMAIN w \subseteq Fields \union {"next"} /\ DOMAIN e \subseteq Fields \union {"next"}
    BY <1>2, EntityIs
  <2>3. \A f \in DOMAIN w \union DOMAIN e : On(w, e)[f] \in IF f = "next" THEN CacheKeys \union {None} ELSE {0, 1}
    BY <1>2, <2>1, EntityIs
  <2>4. On(w, e) \in Entity
    BY <2>1, <2>2, <2>3, EntityIs
  <2> QED BY <1>2, <2>1, <2>4 DEF Reader!Known
<1> QED BY <1>1, <1>2

LEMMA WordsAreEntities == WordSet \subseteq Entity
<1> SUFFICES ASSUME NEW w \in WordSet PROVE w \in Entity
  OBVIOUS
<1>1. /\ w = [f \in DOMAIN w |-> w[f]] /\ DOMAIN w \subseteq Fields
      /\ \A f \in DOMAIN w : w[f] \in {0, 1}
  BY WordSetIs
<1>2. "next" \notin Fields
  BY DEF Fields
<1> QED BY <1>1, <1>2, EntityIs

\* What the server's word leaves of a guess.
Kept(guess, fs) == [f \in DOMAIN guess \ {g \in fs : Reader!Yields(g)} |-> guess[f]]

Overrules(after, layers, spoken) ==
  /\ after \in Seq(Layers) /\ Len(after) = Len(layers)
  /\ \A j \in 1..Len(layers) :
       /\ after[j].id = layers[j].id /\ DOMAIN after[j].ops = DOMAIN layers[j].ops
       /\ \A k \in DOMAIN layers[j].ops :
            after[j].ops[k] =
              IF k \in DOMAIN spoken THEN Kept(layers[j].ops[k], spoken[k]) ELSE layers[j].ops[k]

LEMMA Overruling ==
  ASSUME NEW layers \in Seq(Layers), NEW spoken
  PROVE  Overrules(Overruled(layers, spoken), layers, spoken)
<1> DEFINE Yields(f) == Policy[f] \in {"serverWins", "lww"}
           Left(k, guess) == IF k \in DOMAIN spoken THEN PickOf(guess, {f \in DOMAIN guess : ~(f \in spoken[k] /\ Yields(f))}) ELSE guess
           after == Overruled(layers, spoken)
<1>1. after = [j \in DOMAIN layers |-> [layers[j] EXCEPT !.ops = [k \in DOMAIN layers[j].ops |-> Left(k, layers[j].ops[k])]]]
  BY DEF Overruled
<1>2. \A k, guess : k \in DOMAIN spoken => Left(k, guess) = Kept(guess, spoken[k])
  <2> SUFFICES ASSUME NEW k, NEW guess, k \in DOMAIN spoken PROVE Left(k, guess) = Kept(guess, spoken[k])
    OBVIOUS
  <2> DEFINE D == {f \in DOMAIN guess : ~(f \in spoken[k] /\ Yields(f))}
  <2>1. DOMAIN guess \intersect D = DOMAIN guess \ {g \in spoken[k] : Reader!Yields(g)}
    BY DEF Reader!Yields
  <2>2. Left(k, guess) = PickOf(guess, D)
    OBVIOUS
  <2> HIDE DEF Left, D
  <2>3. PickOf(guess, D) = [f \in DOMAIN guess \intersect D |-> guess[f]]
    BY Zenon DEF PickOf
  <2> QED BY <2>1, <2>2, <2>3 DEF Kept
<1>3. \A k, guess : k \notin DOMAIN spoken => Left(k, guess) = guess
  OBVIOUS
<1>4. \A k, guess : guess \in WordSet => Left(k, guess) \in WordSet
  <2> SUFFICES ASSUME NEW k, NEW guess \in WordSet, k \in DOMAIN spoken PROVE Left(k, guess) \in WordSet
    BY <1>3
  <2>1. DOMAIN guess \subseteq Fields /\ \A f \in DOMAIN guess : guess[f] \in {0, 1}
    BY WordSetIs
  <2>2. Kept(guess, spoken[k]) \in WordSet
    BY <2>1, WordSetIs DEF Kept
  <2> QED BY <1>2, <2>2, Zenon
<1> HIDE DEF Left
<1>5. \A j \in DOMAIN layers : layers[j] \in Layers
  OBVIOUS
<1>6. ASSUME NEW j \in DOMAIN layers
      PROVE  /\ after[j] = [id |-> layers[j].id, ops |-> [k \in DOMAIN layers[j].ops |-> Left(k, layers[j].ops[k])]]
             /\ after[j] \in Layers
  <2> DEFINE ops == [k \in DOMAIN layers[j].ops |-> Left(k, layers[j].ops[k])]
  <2>1. layers[j].id \in Calls /\ layers[j].ops \in OpsSet /\ layers[j] = [id |-> layers[j].id, ops |-> layers[j].ops]
    BY <1>5 DEF Layers
  <2>2. after[j] = [id |-> layers[j].id, ops |-> ops]
    BY <1>1, <2>1
  <2>3. DOMAIN layers[j].ops \subseteq CacheKeys /\ \A k \in DOMAIN layers[j].ops : layers[j].ops[k] \in WordSet
    BY <2>1, OpsSetIs
  <2>4. ops \in OpsSet
    BY <1>4, <2>3, OpsSetIs
  <2> QED BY <2>1, <2>2, <2>4 DEF Layers
<1>7. DOMAIN layers = 1..Len(layers) /\ Len(layers) \in Nat
  OBVIOUS
<1>8. after \in Seq(Layers) /\ Len(after) = Len(layers)
  <2>1. DOMAIN after = 1..Len(layers) /\ after = [j \in 1..Len(layers) |-> after[j]]
    <3> HIDE DEF after
    <3> QED BY <1>1, <1>7
  <2>2. after \in [1..Len(layers) -> Layers]
    BY <1>6, <1>7, <2>1
  <2> HIDE DEF after
  <2> QED BY <1>7, <2>1, <2>2
<1>9. ASSUME NEW j \in 1..Len(layers)
      PROVE  /\ after[j].id = layers[j].id /\ DOMAIN after[j].ops = DOMAIN layers[j].ops
             /\ \A k \in DOMAIN layers[j].ops : after[j].ops[k] = Left(k, layers[j].ops[k])
  <2> DEFINE ops == [k \in DOMAIN layers[j].ops |-> Left(k, layers[j].ops[k])]
  <2>1. after[j] = [id |-> layers[j].id, ops |-> ops]
    BY <1>6, <1>7
  <2> HIDE DEF after
  <2>2. after[j].id = layers[j].id /\ after[j].ops = ops
    BY <2>1
  <2> QED BY <2>2
<1> HIDE DEF after
<1>10. ASSUME NEW j \in 1..Len(layers), NEW k \in DOMAIN layers[j].ops
       PROVE  after[j].ops[k] =
                     IF k \in DOMAIN spoken
                     THEN Kept(layers[j].ops[k], spoken[k])
                     ELSE layers[j].ops[k]
  <2>1. after[j].ops[k] = Left(k, layers[j].ops[k])
    BY <1>9
  <2>2. CASE k \in DOMAIN spoken
    BY <1>2, <2>1, <2>2, Zenon
  <2>3. CASE k \notin DOMAIN spoken
    BY <1>3, <2>1, <2>3, Zenon
  <2> QED BY <2>2, <2>3
<1> QED BY <1>8, <1>9, <1>10, Zenon DEF after, Overrules

-----------------------------------------------------------------------------
Covered(layers) == UNION {DOMAIN layers[j].ops : j \in DOMAIN layers}

CacheParts(c) ==
  c = [x \in {"entities", "shadow", "layers", "list", "keys", "touched", "replaced"} |-> c[x]]

CacheInv(c) ==
  /\ CacheParts(c)
  /\ c.layers \in Seq(Layers)
  /\ DOMAIN c.shadow = Covered(c.layers)
  /\ c.entities = [k \in CacheKeys |-> c.entities[k]]
  /\ \A k \in CacheKeys : BaseOf(c, k) \in Entity \union {None}
  /\ \A k \in CacheKeys : c.entities[k] = Laid(c.layers, k, BaseOf(c, k))

LEMMA CoveredIs ==
  ASSUME NEW layers \in Seq(Layers)
  PROVE  /\ Covered(layers) \subseteq CacheKeys
         /\ \A k : k \in Covered(layers) <=> \E j \in 1..Len(layers) : k \in DOMAIN layers[j].ops
<1>1. \A j \in 1..Len(layers) : layers[j] \in Layers
  OBVIOUS
<1>2. \A j \in 1..Len(layers) : DOMAIN layers[j].ops \subseteq CacheKeys
  BY <1>1, OpsSetIs DEF Layers
<1>3. DOMAIN layers = 1..Len(layers)
  OBVIOUS
<1> QED BY <1>2, <1>3 DEF Covered

\* What setBase and overrule make of a cache that holds.
Rebases(c, r, new) ==
  /\ CacheInv(r) /\ r.list = c.list /\ r.keys = c.keys
  /\ \A k \in CacheKeys : BaseOf(r, k) = IF k \in DOMAIN new THEN new[k] ELSE BaseOf(c, k)

LEMMA SetBasesResult ==
  ASSUME NEW c, CacheInv(c), NEW new, NEW spoken, DOMAIN spoken \subseteq DOMAIN new,
         \A k \in DOMAIN new \intersect CacheKeys : new[k] \in Entity \union {None}
  PROVE  /\ Rebases(c, SetBases(c, new, spoken), new)
         /\ SetBases(c, new, spoken).layers = Overruled(c.layers, spoken)
<1> DEFINE layers == Overruled(c.layers, spoken)
           Now(k) == IF k \in DOMAIN c.shadow THEN Laid(layers, k, new[k]) ELSE new[k]
           shadow == [k \in DOMAIN c.shadow |-> IF k \in DOMAIN new THEN new[k] ELSE c.shadow[k]]
           entities == [k \in CacheKeys |-> IF k \in DOMAIN new THEN Now(k) ELSE c.entities[k]]
           r == SetBases(c, new, spoken)
<1>1. r = [c EXCEPT !.layers = layers, !.shadow = shadow, !.entities = entities,
                    !.touched = c.touched \union DOMAIN new]
  BY DEF SetBases
<1>2. /\ r.entities = entities /\ r.shadow = shadow /\ r.layers = layers /\ r.list = c.list /\ r.keys = c.keys
      /\ CacheParts(r)
  <2> HIDE DEF r, entities, shadow, layers
  <2>1. CacheParts(c)
    BY DEF CacheInv
  <2> QED BY <1>1, <2>1 DEF CacheParts
<1>3. /\ layers \in Seq(Layers) /\ Len(layers) = Len(c.layers) /\ Len(layers) \in Nat
      /\ \A j \in 1..Len(layers) : DOMAIN layers[j].ops = DOMAIN c.layers[j].ops
      /\ \A j \in 1..Len(layers) : \A k \in DOMAIN c.layers[j].ops :
           k \notin DOMAIN spoken => layers[j].ops[k] = c.layers[j].ops[k]
  <2> HIDE DEF layers
  <2>1. Overrules(layers, c.layers, spoken)
    <3>1. c.layers \in Seq(Layers)
      BY DEF CacheInv
    <3> QED BY <3>1, Overruling DEF layers
  <2>2. Len(c.layers) \in Nat
    BY DEF CacheInv
  <2> QED BY <2>1, <2>2 DEF Overrules
<1> HIDE DEF layers, r
<1>4. Covered(layers) = Covered(c.layers)
  BY <1>3, CoveredIs DEF CacheInv
<1>5. \A k \in CacheKeys : BaseOf(r, k) = IF k \in DOMAIN new THEN new[k] ELSE BaseOf(c, k)
  <2> SUFFICES ASSUME NEW k \in CacheKeys PROVE BaseOf(r, k) = IF k \in DOMAIN new THEN new[k] ELSE BaseOf(c, k)
    OBVIOUS
  <2>1. CASE k \in DOMAIN c.shadow
    BY <1>2, <2>1 DEF BaseOf
  <2>2. CASE k \notin DOMAIN c.shadow
    BY <1>2, <2>2 DEF BaseOf
  <2> QED BY <2>1, <2>2
<1>6. \A k \in CacheKeys : r.entities[k] = Laid(r.layers, k, BaseOf(r, k))
  <2> SUFFICES ASSUME NEW k \in CacheKeys PROVE entities[k] = Laid(layers, k, BaseOf(r, k))
    BY <1>2
  <2>1. CASE k \in DOMAIN c.shadow /\ k \in DOMAIN new
    BY <1>5, <2>1
  <2>2. CASE k \in DOMAIN c.shadow /\ k \notin DOMAIN new
    <3>1. \A j \in 1..Len(c.layers) : 
             /\ k \in DOMAIN layers[j].ops <=> k \in DOMAIN c.layers[j].ops
             /\ k \in DOMAIN c.layers[j].ops => layers[j].ops[k] = c.layers[j].ops[k]
      BY <1>3, <2>2
    <3>2. Laid(layers, k, BaseOf(c, k)) = Laid(c.layers, k, BaseOf(c, k))
      BY <1>3, <3>1, LaidSame
    <3>3. entities[k] = c.entities[k] /\ BaseOf(r, k) = BaseOf(c, k)
      BY <1>5, <2>2
    <3> QED BY <3>2, <3>3 DEF CacheInv
  <2>3. CASE k \notin DOMAIN c.shadow
    <3>1. \A j \in 1..Len(layers) : k \notin DOMAIN layers[j].ops
      BY <1>3, <1>4, <2>3, CoveredIs DEF CacheInv
    <3>2. Laid(layers, k, BaseOf(r, k)) = BaseOf(r, k)
      BY <1>3, <3>1, LaidUncovered
    <3>3. entities[k] = IF k \in DOMAIN new THEN new[k] ELSE c.entities[k]
      BY <2>3
    <3>4. BaseOf(c, k) = c.entities[k]
      BY <2>3 DEF BaseOf
    <3> QED BY <1>5, <3>2, <3>3, <3>4
  <2> QED BY <2>1, <2>2, <2>3
<1>7. \A k \in CacheKeys : BaseOf(r, k) \in Entity \union {None}
  BY <1>5 DEF CacheInv
<1>8. CacheInv(r)
  <2>1. DOMAIN shadow = DOMAIN c.shadow /\ DOMAIN entities = CacheKeys
    OBVIOUS
  <2> QED BY <1>2, <1>3, <1>4, <1>6, <1>7, <2>1 DEF CacheInv
<1> QED BY <1>2, <1>5, <1>8 DEF r, layers, Rebases

-----------------------------------------------------------------------------
\* The server said something of k, of its fields fs, or nothing, or that it is gone.
Hears(c, r, k, fs) ==
  /\ BaseOf(r, k) # None /\ DOMAIN BaseOf(r, k) = Reader!Known(BaseOf(c, k)) \union fs
  /\ \A f \in Reader!Known(BaseOf(c, k)) \ fs : BaseOf(r, k)[f] = BaseOf(c, k)[f]
  /\ \A j \in DOMAIN c.layers : k \in DOMAIN c.layers[j].ops =>
       r.layers[j].ops[k] = Kept(c.layers[j].ops[k], fs)
HearsNot(c, r, k) ==
  /\ BaseOf(r, k) \in {BaseOf(c, k), None}
  /\ \A j \in DOMAIN c.layers : k \in DOMAIN c.layers[j].ops => r.layers[j].ops[k] = c.layers[j].ops[k]

SameGuesses(c, r) ==
  /\ DOMAIN r.layers = DOMAIN c.layers
  /\ \A j \in DOMAIN c.layers :
       r.layers[j].id = c.layers[j].id /\ DOMAIN r.layers[j].ops = DOMAIN c.layers[j].ops
Tells(c, r) ==
  /\ SameGuesses(c, r)
  /\ \A k \in CacheKeys : HearsNot(c, r, k) \/ \E fs \in SUBSET (Fields \union {"next"}) : Hears(c, r, k, fs)

SpokenFor(c, r, spoken) ==
  \A k \in CacheKeys : \A j \in DOMAIN c.layers : k \in DOMAIN c.layers[j].ops =>
    r.layers[j].ops[k] =
      IF k \in DOMAIN spoken THEN Kept(c.layers[j].ops[k], spoken[k]) ELSE c.layers[j].ops[k]

LEMMA SetBasesTells ==
  ASSUME NEW c, CacheInv(c), NEW new, NEW spoken, DOMAIN spoken \subseteq DOMAIN new,
         \A k \in DOMAIN new \intersect CacheKeys : new[k] \in Entity \union {None}
  PROVE  SameGuesses(c, SetBases(c, new, spoken)) /\ SpokenFor(c, SetBases(c, new, spoken), spoken)
<1> DEFINE r == SetBases(c, new, spoken)
<1>1. c.layers \in Seq(Layers)
  BY DEF CacheInv
<1>2. r.layers = Overruled(c.layers, spoken)
  BY SetBasesResult, Zenon
<1> HIDE DEF r
<1>3. Overrules(r.layers, c.layers, spoken)
  BY <1>1, <1>2, Overruling
<1>4. DOMAIN c.layers = 1..Len(c.layers) /\ DOMAIN r.layers = DOMAIN c.layers
  BY <1>1, <1>3 DEF Overrules
<1> QED BY <1>3, <1>4 DEF Overrules, SameGuesses, SpokenFor, r

LEMMA StoreTells ==
  ASSUME NEW c, CacheInv(c), NEW words, \A k \in DOMAIN words \intersect CacheKeys : words[k] \in WordSet
  PROVE  LET r == Store(c, words) IN
         /\ CacheInv(r) /\ Tells(c, r) /\ r.list = c.list /\ r.keys = c.keys
         /\ SpokenFor(c, r, [k \in DOMAIN words |-> DOMAIN words[k]])
         /\ \A k \in CacheKeys : BaseOf(r, k) = IF k \in DOMAIN words THEN On(words[k], BaseOf(c, k)) ELSE BaseOf(c, k)
<1> DEFINE new == [k \in DOMAIN words |-> On(words[k], BaseOf(c, k))]
           spoken == [k \in DOMAIN words |-> DOMAIN words[k]]
           r == SetBases(c, new, spoken)
<1>1. Store(c, words) = r
  BY DEF Store
<1>2. ASSUME NEW k \in DOMAIN words \intersect CacheKeys
      PROVE  /\ words[k] \in Entity /\ DOMAIN words[k] \subseteq Fields /\ BaseOf(c, k) \in Entity \union {None}
             /\ On(words[k], BaseOf(c, k)) \in Entity
  <2>1. words[k] \in WordSet /\ words[k] \in Entity
    BY WordsAreEntities
  <2>2. BaseOf(c, k) \in Entity \union {None}
    BY DEF CacheInv
  <2>3. On(words[k], BaseOf(c, k)) \in Entity
    BY <2>1, <2>2, OnIsEntity
  <2> QED BY <2>1, <2>2, <2>3, WordSetIs
<1>3. \A k \in DOMAIN new \intersect CacheKeys : new[k] \in Entity \union {None}
  BY <1>2
<1>4. DOMAIN new = DOMAIN words /\ DOMAIN spoken = DOMAIN words
  OBVIOUS
<1>5. \A k \in DOMAIN words : new[k] = On(words[k], BaseOf(c, k)) /\ spoken[k] = DOMAIN words[k]
  OBVIOUS
<1> HIDE DEF new, spoken
<1>6. /\ CacheInv(r) /\ r.list = c.list /\ r.keys = c.keys
      /\ \A k \in CacheKeys : BaseOf(r, k) = IF k \in DOMAIN new THEN new[k] ELSE BaseOf(c, k)
  <2>1. Rebases(c, r, new)
    BY <1>3, <1>4, SetBasesResult, Zenon
  <2> QED BY <2>1, Zenon DEF Rebases
<1>7. SameGuesses(c, r) /\ SpokenFor(c, r, spoken)
  BY <1>3, <1>4, SetBasesTells, Zenon
<1> HIDE DEF r
<1>8. ASSUME NEW k \in CacheKeys
      PROVE  HearsNot(c, r, k) \/ \E fs \in SUBSET (Fields \union {"next"}) : Hears(c, r, k, fs)
  <2>1. CASE k \notin DOMAIN words
    BY <1>4, <1>6, <1>7, <2>1 DEF HearsNot, SpokenFor
  <2>2. CASE k \in DOMAIN words
    <3>1. BaseOf(r, k) = On(words[k], BaseOf(c, k)) /\ spoken[k] = DOMAIN words[k]
      BY <1>4, <1>5, <1>6, <2>2
    <3>2. words[k] \in Entity /\ DOMAIN words[k] \subseteq Fields /\ BaseOf(c, k) \in Entity \union {None}
      BY <1>2, <2>2
    <3>3. /\ BaseOf(r, k) # None /\ DOMAIN BaseOf(r, k) = Reader!Known(BaseOf(c, k)) \union DOMAIN words[k]
          /\ \A f \in Reader!Known(BaseOf(c, k)) \ DOMAIN words[k] : BaseOf(r, k)[f] = BaseOf(c, k)[f]
      <4> DEFINE w == words[k]
                 e == BaseOf(c, k)
      <4>1. w \in Entity /\ e \in Entity \union {None} /\ BaseOf(r, k) = On(w, e)
        BY <3>1, <3>2
      <4> HIDE DEF w, e
      <4>2. /\ On(w, e) \in Entity /\ DOMAIN On(w, e) = Reader!Known(e) \union DOMAIN w
            /\ \A f \in Reader!Known(e) \ DOMAIN w : On(w, e)[f] = e[f]
        BY <4>1, OnIsEntity
      <4> QED BY <4>1, <4>2, NoneIsNoEntity DEF w, e
    <3>4. Hears(c, r, k, DOMAIN words[k])
      BY <1>4, <1>7, <2>2, <3>1, <3>3 DEF Hears, SpokenFor
    <3> QED BY <3>2, <3>4
  <2> QED BY <2>1, <2>2
<1>9. Tells(c, r)
  BY <1>7, <1>8 DEF Tells
<1> QED BY <1>1, <1>4, <1>5, <1>6, <1>7, <1>9 DEF spoken

\* An operation on the list and the marks of a cache leaves its entities.
SameEntities(c, r) ==
  CacheParts(r) /\ r.entities = c.entities /\ r.shadow = c.shadow /\ r.layers = c.layers

LEMMA SameEntitiesHold ==
  ASSUME NEW c, NEW r, CacheInv(c), SameEntities(c, r)
  PROVE  CacheInv(r) /\ (\A k : BaseOf(r, k) = BaseOf(c, k)) /\ \A b : Tells(b, c) => Tells(b, r)
<1>1. \A k : BaseOf(r, k) = BaseOf(c, k)
  BY DEF SameEntities, BaseOf
<1>2. r.layers = c.layers
  BY DEF SameEntities
<1>3. CacheInv(r)
  BY <1>1 DEF CacheInv, SameEntities
<1>4. ASSUME NEW b, Tells(b, c) PROVE Tells(b, r)
  <2>1. SameGuesses(b, r)
    BY <1>2, <1>4 DEF Tells, SameGuesses
  <2>2. ASSUME NEW k \in CacheKeys PROVE HearsNot(b, r, k) \/ \E fs \in SUBSET (Fields \union {"next"}) : Hears(b, r, k, fs)
    <3>1. CASE HearsNot(b, c, k)
      BY <1>1, <1>2, <3>1 DEF HearsNot
    <3>2. ASSUME NEW fs \in SUBSET (Fields \union {"next"}), Hears(b, c, k, fs)
          PROVE  Hears(b, r, k, fs)
      BY <1>1, <1>2, <3>2 DEF Hears
    <3> QED BY <1>4, <3>1, <3>2 DEF Tells
  <2> QED BY <2>1, <2>2 DEF Tells
<1> QED BY <1>1, <1>3, <1>4

LEMMA NothingTold == ASSUME NEW c, CacheInv(c) PROVE Tells(c, c)
  BY DEF Tells, SameGuesses, HearsNot

LEMMA MarksHold ==
  ASSUME NEW c, CacheParts(c), NEW list, NEW keys, NEW touched, NEW replaced
  PROVE  /\ SameEntities(c, [c EXCEPT !.list = list, !.keys = keys, !.replaced = replaced])
         /\ SameEntities(c, [c EXCEPT !.keys = keys, !.replaced = replaced])
         /\ SameEntities(c, [c EXCEPT !.list = list])
         /\ SameEntities(c, [c EXCEPT !.touched = touched, !.replaced = replaced])
<1>2. SameEntities(c, [c EXCEPT !.list = list, !.keys = keys, !.replaced = replaced])
  BY DEF CacheParts, SameEntities
<1>3. SameEntities(c, [c EXCEPT !.keys = keys, !.replaced = replaced])
  BY DEF CacheParts, SameEntities
<1>4. SameEntities(c, [c EXCEPT !.list = list])
  BY DEF CacheParts, SameEntities
<1>5. SameEntities(c, [c EXCEPT !.touched = touched, !.replaced = replaced])
  BY DEF CacheParts, SameEntities
<1> QED BY <1>2, <1>3, <1>4, <1>5

\* A data frame, deferred fields and a described list say what their rows' fields are.
RowSet == [key : CacheKeys, fields : WordSet]

LEMMA WordsOfRows ==
  ASSUME NEW rs, \A i \in DOMAIN rs : rs[i] \in RowSet
  PROVE  \A k \in DOMAIN WordsOf(rs) : WordsOf(rs)[k] \in WordSet
<1> SUFFICES ASSUME NEW k \in DOMAIN WordsOf(rs) PROVE WordsOf(rs)[k] \in WordSet
  OBVIOUS
<1>1. DOMAIN WordsOf(rs) = {rs[i].key : i \in DOMAIN rs}
  BY DEF WordsOf
<1>2. \E r \in ToSet(rs) : r.key = k
  BY <1>1 DEF ToSet
<1> DEFINE r == CHOOSE x \in ToSet(rs) : x.key = k
<1>3. r \in ToSet(rs)
  BY <1>2
<1>4. r \in RowSet
  BY <1>3 DEF ToSet
<1>5. WordsOf(rs)[k] = r.fields
  BY <1>1 DEF WordsOf
<1> QED BY <1>4, <1>5 DEF RowSet

LEMMA PutResultTells ==
  ASSUME NEW c, CacheInv(c), NEW rs, \A i \in DOMAIN rs : rs[i] \in RowSet
  PROVE  CacheInv(PutResult(c, rs)) /\ Tells(c, PutResult(c, rs))
<1> DEFINE s == Store(c, WordsOf(rs))
<1>1. CacheInv(s) /\ Tells(c, s)
  BY WordsOfRows, StoreTells
<1>2. SameEntities(s, PutResult(c, rs))
  <2> HIDE DEF s
  <2>1. CacheParts(s)
    BY <1>1 DEF CacheInv
  <2> QED BY <2>1, MarksHold DEF PutResult, s
<1> HIDE DEF s
<1> QED BY <1>1, <1>2, SameEntitiesHold

LEMMA MergeAtTells ==
  ASSUME NEW c, CacheInv(c), NEW at, NEW fields \in WordSet
  PROVE  CacheInv(MergeAt(c, at, fields)) /\ Tells(c, MergeAt(c, at, fields))
<1>1. CASE c.list = None \/ at \notin DOMAIN c.list
  BY <1>1, NothingTold DEF MergeAt
<1>2. CASE ~(c.list = None \/ at \notin DOMAIN c.list)
  <2> DEFINE k == c.list[at]
             s == Store(c, [x \in {k} |-> fields])
             merged == IF k = Gap THEN c ELSE s
  <2>1. CacheInv(s) /\ Tells(c, s)
    <3>1. \A x \in DOMAIN [x \in {k} |-> fields] \intersect CacheKeys : [y \in {k} |-> fields][x] \in WordSet
      OBVIOUS
    <3> QED BY <3>1, StoreTells
  <2>2. CacheInv(merged) /\ Tells(c, merged)
    <3> HIDE DEF s, k
    <3> QED BY <2>1, NothingTold
  <2>3. MergeAt(c, at, fields) = [merged EXCEPT !.keys = merged.keys \union merged.touched, !.replaced = TRUE]
    BY <1>2 DEF MergeAt
  <2> HIDE DEF merged
  <2>4. SameEntities(merged, MergeAt(c, at, fields))
    <3>1. CacheParts(merged)
      BY <2>2 DEF CacheInv
    <3> QED BY <2>3, <3>1 DEF CacheParts, SameEntities
  <2> QED BY <2>2, <2>4, SameEntitiesHold
<1> QED BY <1>1, <1>2

LEMMA ApplyListTells ==
  ASSUME NEW c, CacheInv(c), NEW op, \A n \in DOMAIN op.ins : op.ins[n].row \in RowSet
  PROVE  CacheInv(ApplyList(c, op)) /\ Tells(c, ApplyList(c, op))
<1>1. CASE c.list = None
  BY <1>1, NothingTold DEF ApplyList
<1>2. CASE c.list # None
  <2> DEFINE stored == Store(c, WordsOf([n \in DOMAIN op.ins |-> op.ins[n].row]))
  <2>1. CacheInv(stored) /\ Tells(c, stored)
    <3>1. \A n \in DOMAIN [n \in DOMAIN op.ins |-> op.ins[n].row] : [m \in DOMAIN op.ins |-> op.ins[m].row][n] \in RowSet
      OBVIOUS
    <3> QED BY <3>1, WordsOfRows, StoreTells
  <2>2. \E list : ApplyList(c, op) = [stored EXCEPT !.list = list, !.keys = stored.keys \union stored.touched, !.replaced = TRUE]
    BY <1>2, Zenon DEF ApplyList
  <2> HIDE DEF stored
  <2>3. SameEntities(stored, ApplyList(c, op))
    <3>1. CacheParts(stored)
      BY <2>1 DEF CacheInv
    <3> DEFINE r == ApplyList(c, op)
    <3>2. PICK list : r = [stored EXCEPT !.list = list, !.keys = stored.keys \union stored.touched, !.replaced = TRUE]
      BY <2>2
    <3> HIDE DEF r
    <3>3. SameEntities(stored, r)
      BY <3>1, <3>2 DEF CacheParts, SameEntities
    <3> QED BY <3>3 DEF r
  <2> QED BY <2>1, <2>3, SameEntitiesHold
<1> QED BY <1>1, <1>2

LEMMA GuessesTyped ==
  ASSUME NEW c, CacheInv(c), NEW j \in DOMAIN c.layers
  PROVE  /\ c.layers[j] \in Layers /\ DOMAIN c.layers[j].ops \subseteq CacheKeys
         /\ \A k \in DOMAIN c.layers[j].ops : c.layers[j].ops[k] \in WordSet
<1>1. c.layers[j] \in Layers
  BY DEF CacheInv
<1>2. c.layers[j].ops \in OpsSet
  BY <1>1 DEF Layers
<1> QED BY <1>1, <1>2, OpsSetIs

\* No guess is of a reference.
LEMMA ReferencesAreKept ==
  ASSUME NEW guess \in WordSet
  PROVE  Kept(guess, {"next"}) = guess
<1>1. DOMAIN guess \subseteq Fields /\ guess = [f \in DOMAIN guess |-> guess[f]]
  BY WordSetIs
<1>2. DOMAIN guess \ {g \in {"next"} : Reader!Yields(g)} = DOMAIN guess
  BY <1>1 DEF Fields
<1> QED BY <1>1, <1>2 DEF Kept

Links(link, k) == link = [f \in {"next"} |-> k]
Holds(c, k, w) ==
  BaseOf(c, k) # None /\ \A f \in DOMAIN w : f \in DOMAIN BaseOf(c, k) /\ BaseOf(c, k)[f] = w[f]

LEMMA MergeTells ==
  ASSUME NEW c, CacheInv(c), NEW k \in CacheKeys, NEW inner \in CacheKeys, inner # k, NEW w \in WordSet,
         NEW link, Links(link, inner), NEW nested, nested = [x \in {inner} |-> w]
  PROVE  /\ CacheInv(Merge(c, k, link, nested)) /\ Tells(c, Merge(c, k, link, nested))
         /\ Holds(Merge(c, k, link, nested), inner, w)
<1> DEFINE s == Store(c, nested)
           new == [x \in {k} |-> On(link, BaseOf(c, k))]
           spoken == [x \in {k} |-> DOMAIN link]
           r == SetBases(s, new, spoken)
           said1 == [x \in DOMAIN nested |-> DOMAIN nested[x]]
<1>1. Merge(c, k, link, nested) = r
  BY DEF Merge
<1>2. /\ DOMAIN nested = {inner} /\ nested[inner] = w /\ DOMAIN link = {"next"}
      /\ DOMAIN new = {k} /\ new[k] = On(link, BaseOf(c, k)) /\ DOMAIN spoken = {k} /\ spoken[k] = {"next"}
      /\ DOMAIN said1 = {inner}
  BY DEF Links
<1>3. link \in Entity
  BY <1>2, EntityIs DEF Links
<1>4. BaseOf(c, k) \in Entity \union {None} /\ BaseOf(c, inner) \in Entity \union {None}
  BY DEF CacheInv
<1>5. w \in Entity
  BY WordsAreEntities
<1>6. /\ CacheInv(s) /\ Tells(c, s) /\ SpokenFor(c, s, said1)
      /\ \A x \in CacheKeys : BaseOf(s, x) = IF x \in {inner} THEN On(w, BaseOf(c, x)) ELSE BaseOf(c, x)
  <2>1. \A x \in DOMAIN nested \intersect CacheKeys : nested[x] \in WordSet
    BY <1>2
  <2> QED BY <1>2, <2>1, StoreTells
<1> HIDE DEF s, said1
<1>7. /\ new[k] \in Entity /\ DOMAIN new[k] = Reader!Known(BaseOf(c, k)) \union {"next"}
      /\ \A f \in Reader!Known(BaseOf(c, k)) \ {"next"} : new[k][f] = BaseOf(c, k)[f]
  <2> DEFINE e == BaseOf(c, k)
  <2>1. e \in Entity \union {None} /\ new[k] = On(link, e)
    BY <1>2, <1>4
  <2> HIDE DEF e, new
  <2>2. /\ On(link, e) \in Entity /\ DOMAIN On(link, e) = Reader!Known(e) \union DOMAIN link
        /\ \A f \in Reader!Known(e) \ DOMAIN link : On(link, e)[f] = e[f]
    BY <1>3, <2>1, OnIsEntity
  <2> QED BY <1>2, <2>1, <2>2 DEF e
<1> HIDE DEF new, spoken
<1>8. DOMAIN spoken \subseteq DOMAIN new /\ \A x \in DOMAIN new \intersect CacheKeys : new[x] \in Entity \union {None}
  BY <1>2, <1>7
<1>9. /\ CacheInv(r)
      /\ \A x \in CacheKeys : BaseOf(r, x) = IF x \in DOMAIN new THEN new[x] ELSE BaseOf(s, x)
  <2>1. Rebases(s, r, new)
    BY <1>6, <1>8, SetBasesResult, Zenon
  <2> QED BY <2>1, Zenon DEF Rebases
<1>10. SameGuesses(s, r) /\ SpokenFor(s, r, spoken)
  BY <1>6, <1>8, SetBasesTells, Zenon
<1> HIDE DEF r
<1>11. SameGuesses(c, s)
  BY <1>6 DEF Tells
<1>12. SameGuesses(c, r)
  BY <1>10, <1>11 DEF SameGuesses
<1>13. ASSUME NEW x \in CacheKeys
       PROVE  HearsNot(c, r, x) \/ \E fs \in SUBSET (Fields \union {"next"}) : Hears(c, r, x, fs)
  <2>1. CASE x = k
    <3>1. BaseOf(r, k) = new[k]
      BY <1>2, <1>9
    <3>2. \A j \in DOMAIN c.layers : k \in DOMAIN c.layers[j].ops =>
             r.layers[j].ops[k] = Kept(c.layers[j].ops[k], {"next"})
      <4> SUFFICES ASSUME NEW j \in DOMAIN c.layers, k \in DOMAIN c.layers[j].ops
                   PROVE  r.layers[j].ops[k] = Kept(c.layers[j].ops[k], {"next"})
        OBVIOUS
      <4>1. s.layers[j].ops[k] = c.layers[j].ops[k]
        BY <1>2, <1>6 DEF SpokenFor
      <4>2. j \in DOMAIN s.layers /\ k \in DOMAIN s.layers[j].ops
        BY <1>11 DEF SameGuesses
      <4>3. r.layers[j].ops[k] = Kept(s.layers[j].ops[k], spoken[k])
        BY <1>2, <1>10, <4>2 DEF SpokenFor
      <4> QED BY <1>2, <4>1, <4>3
    <3>3. new[k] # None
      BY <1>7, NoneIsNoEntity
    <3>4. Hears(c, r, k, {"next"})
      BY <1>7, <3>1, <3>2, <3>3 DEF Hears
    <3> QED BY <2>1, <3>4
  <2>2. CASE x # k
    <3>1. BaseOf(r, x) = BaseOf(s, x)
      BY <1>2, <1>9, <2>2
    <3>2. \A j \in DOMAIN c.layers : x \in DOMAIN c.layers[j].ops => r.layers[j].ops[x] = s.layers[j].ops[x]
      BY <1>2, <1>10, <1>11, <2>2 DEF SpokenFor, SameGuesses
    <3>3. HearsNot(c, s, x) \/ \E fs \in SUBSET (Fields \union {"next"}) : Hears(c, s, x, fs)
      BY <1>6 DEF Tells
    <3>4. CASE HearsNot(c, s, x)
      BY <3>1, <3>2, <3>4 DEF HearsNot
    <3>5. ASSUME NEW fs \in SUBSET (Fields \union {"next"}), Hears(c, s, x, fs) PROVE Hears(c, r, x, fs)
      BY <3>1, <3>2, <3>5 DEF Hears
    <3> QED BY <3>3, <3>4, <3>5
  <2> QED BY <2>1, <2>2
<1>14. Tells(c, r)
  BY <1>12, <1>13 DEF Tells
<1>15. /\ BaseOf(r, inner) # None
       /\ \A f \in DOMAIN w : f \in DOMAIN BaseOf(r, inner) /\ BaseOf(r, inner)[f] = w[f]
  <2> DEFINE e == BaseOf(c, inner)
             held == On(w, e)
  <2>1. BaseOf(r, inner) = held
    BY <1>2, <1>6, <1>9
  <2>2. e \in Entity \union {None}
    BY <1>4
  <2> HIDE DEF e
  <2>3. /\ held \in Entity /\ DOMAIN held = Reader!Known(e) \union DOMAIN w
        /\ \A f \in DOMAIN w : held[f] = w[f]
    BY <1>5, <2>2, OnIsEntity
  <2> HIDE DEF held
  <2> QED BY <2>1, <2>3, NoneIsNoEntity
<1> QED BY <1>1, <1>9, <1>14, <1>15 DEF Holds

LEMMA DeleteTells ==
  ASSUME NEW c, CacheInv(c), NEW k \in CacheKeys
  PROVE  CacheInv(Delete(c, k)) /\ Tells(c, Delete(c, k))
<1> DEFINE Cleared(e) == [f \in DOMAIN e |-> IF e[f] = k THEN None ELSE e[f]]
           new == [h \in {k} \union Holders(c, k) |-> IF h = k THEN None ELSE Cleared(BaseOf(c, h))]
           after == SetBases(c, new, <<>>)
           none == <<>>
<1>1. DOMAIN none = {}
  OBVIOUS
<1>2. ASSUME NEW h \in Holders(c, k)
      PROVE  /\ h \in CacheKeys /\ h # k /\ Cleared(BaseOf(c, h)) \in Entity
             /\ BaseOf(c, h) # None /\ "next" \in DOMAIN BaseOf(c, h)
             /\ DOMAIN Cleared(BaseOf(c, h)) = DOMAIN BaseOf(c, h)
             /\ \A f \in DOMAIN BaseOf(c, h) \ {"next"} : Cleared(BaseOf(c, h))[f] = BaseOf(c, h)[f]
  <2>1. h \in CacheKeys /\ h # k /\ BaseOf(c, h) # None /\ \E f \in DOMAIN BaseOf(c, h) : BaseOf(c, h)[f] = k
    BY DEF Holders
  <2>2. BaseOf(c, h) \in Entity
    BY <2>1 DEF CacheInv
  <2> DEFINE e == BaseOf(c, h)
  <2> HIDE DEF e
  <2>3. /\ e = [f \in DOMAIN e |-> e[f]] /\ DOMAIN e \subseteq Fields \union {"next"}
        /\ \A f \in DOMAIN e : e[f] \in IF f = "next" THEN CacheKeys \union {None} ELSE {0, 1}
    BY <2>2, EntityIs DEF e
  <2>4. \A f \in DOMAIN e : e[f] = k => f = "next"
    BY <2>3, NoneAssumption
  <2>5. DOMAIN Cleared(e) = DOMAIN e /\ \A f \in DOMAIN e : Cleared(e)[f] = IF e[f] = k THEN None ELSE e[f]
    OBVIOUS
  <2>6. \A f \in DOMAIN e \ {"next"} : Cleared(e)[f] = e[f]
    BY <2>4, <2>5
  <2>7. \A f \in DOMAIN e : Cleared(e)[f] \in IF f = "next" THEN CacheKeys \union {None} ELSE {0, 1}
    BY <2>3, <2>4, <2>5
  <2>8. Cleared(e) = [f \in DOMAIN Cleared(e) |-> Cleared(e)[f]]
    OBVIOUS
  <2> HIDE DEF Cleared
  <2>9. Cleared(e) \in Entity
    BY <2>3, <2>5, <2>7, <2>8, EntityIs
  <2>10. "next" \in DOMAIN e
    BY <2>1, <2>4 DEF e
  <2> QED BY <2>1, <2>5, <2>6, <2>9, <2>10 DEF e
<1>3. /\ DOMAIN new = {k} \union Holders(c, k) /\ new[k] = None
      /\ \A h \in Holders(c, k) : new[h] = Cleared(BaseOf(c, h))
  BY <1>2
<1> HIDE DEF Cleared, new, none
<1>4. \A h \in DOMAIN new \intersect CacheKeys : new[h] \in Entity \union {None}
  BY <1>2, <1>3
<1>5. /\ CacheInv(after)
      /\ \A h \in CacheKeys : BaseOf(after, h) = IF h \in DOMAIN new THEN new[h] ELSE BaseOf(c, h)
  <2>1. DOMAIN none \subseteq DOMAIN new
    BY <1>1
  <2>2. Rebases(c, after, new)
    BY <1>4, <2>1, SetBasesResult, Zenon DEF none
  <2> QED BY <2>2, Zenon DEF Rebases
<1>6. SameGuesses(c, after) /\ SpokenFor(c, after, none)
  <2>1. DOMAIN none \subseteq DOMAIN new
    BY <1>1
  <2> QED BY <1>4, <2>1, SetBasesTells, Zenon DEF none
<1> HIDE DEF after
<1>7. \A h \in CacheKeys : \A j \in DOMAIN c.layers : h \in DOMAIN c.layers[j].ops =>
         after.layers[j].ops[h] = c.layers[j].ops[h]
  BY <1>1, <1>6 DEF SpokenFor
<1>8. ASSUME NEW h \in CacheKeys
      PROVE  HearsNot(c, after, h) \/ \E fs \in SUBSET (Fields \union {"next"}) : Hears(c, after, h, fs)
  <2>1. CASE h \notin Holders(c, k)
    <3>1. BaseOf(after, h) \in {BaseOf(c, h), None}
      BY <1>3, <1>5, <2>1
    <3> QED BY <1>7, <3>1 DEF HearsNot
  <2>2. CASE h \in Holders(c, k)
    <3>1. BaseOf(after, h) = Cleared(BaseOf(c, h))
      BY <1>3, <1>5, <2>2
    <3>2. /\ BaseOf(after, h) # None /\ Reader!Known(BaseOf(c, h)) = DOMAIN BaseOf(c, h)
          /\ DOMAIN BaseOf(after, h) = DOMAIN BaseOf(c, h) \union {"next"}
          /\ \A f \in DOMAIN BaseOf(c, h) \ {"next"} : BaseOf(after, h)[f] = BaseOf(c, h)[f]
      BY <1>2, <2>2, <3>1, NoneIsNoEntity DEF Reader!Known
    <3>3. \A j \in DOMAIN c.layers : h \in DOMAIN c.layers[j].ops =>
             after.layers[j].ops[h] = Kept(c.layers[j].ops[h], {"next"})
      BY <1>7, GuessesTyped, ReferencesAreKept
    <3>4. Hears(c, after, h, {"next"})
      BY <3>2, <3>3 DEF Hears
    <3> QED BY <3>4
  <2> QED BY <2>1, <2>2
<1>9. Tells(c, after)
  BY <1>6, <1>8 DEF Tells
<1>10. SameEntities(after, Delete(c, k))
  <2>1. \E list : Delete(c, k) = [after EXCEPT !.list = list]
    BY Zenon DEF Delete, after, new, Cleared
  <2>2. PICK list : Delete(c, k) = [after EXCEPT !.list = list]
    BY <2>1
  <2> DEFINE r == Delete(c, k)
  <2> HIDE DEF r
  <2>3. SameEntities(after, r)
    BY <1>5, <2>2 DEF CacheInv, CacheParts, SameEntities, r
  <2> QED BY <2>3 DEF r
<1> QED BY <1>5, <1>9, <1>10, SameEntitiesHold

-----------------------------------------------------------------------------
\* A prediction is laid over what is there, and taken off: what the server said stays.
SameBases(c, r) == \A k \in CacheKeys : BaseOf(r, k) = BaseOf(c, k)

LEMMA AddLayerGuesses ==
  ASSUME NEW c, CacheInv(c), NEW id \in Calls, NEW ops \in OpsSet
  PROVE  /\ CacheInv(AddLayer(c, id, ops)) /\ SameBases(c, AddLayer(c, id, ops))
         /\ AddLayer(c, id, ops).layers = Append(c.layers, [id |-> id, ops |-> ops])
<1> DEFINE last == [id |-> id, ops |-> ops]
           layers == Append(c.layers, last)
           shadow == [k \in DOMAIN c.shadow \union DOMAIN ops |-> BaseOf(c, k)]
           entities == [k \in CacheKeys |-> IF k \in DOMAIN ops THEN Laid(layers, k, shadow[k]) ELSE c.entities[k]]
           r == AddLayer(c, id, ops)
<1>1. r = [c EXCEPT !.layers = layers, !.shadow = shadow, !.touched = c.touched \union DOMAIN ops,
                    !.entities = entities]
  BY DEF AddLayer
<1>2. /\ r.entities = entities /\ r.shadow = shadow /\ r.layers = layers /\ CacheParts(r)
  <2> HIDE DEF r, entities, shadow, layers
  <2>1. CacheParts(c)
    BY DEF CacheInv
  <2> QED BY <1>1, <2>1 DEF CacheParts
<1> HIDE DEF r
<1>3. c.layers \in Seq(Layers) /\ last \in Layers /\ last.ops = ops /\ DOMAIN ops \subseteq CacheKeys
  BY OpsSetIs DEF CacheInv, Layers
<1> HIDE DEF last
<1>4. /\ layers \in Seq(Layers) /\ Len(layers) = Len(c.layers) + 1 /\ Len(c.layers) \in Nat
      /\ (\A j \in 1..Len(c.layers) : layers[j] = c.layers[j]) /\ layers[Len(c.layers) + 1] = last
  BY <1>3
<1> HIDE DEF layers
<1>5. Covered(layers) = Covered(c.layers) \union DOMAIN ops
  <2>1. \A k : k \in Covered(layers) <=> \E j \in 1..Len(layers) : k \in DOMAIN layers[j].ops
    BY <1>4, CoveredIs
  <2>2. \A k : k \in Covered(c.layers) <=> \E j \in 1..Len(c.layers) : k \in DOMAIN c.layers[j].ops
    BY <1>3, CoveredIs
  <2>3. ASSUME NEW k, k \in Covered(layers) PROVE k \in Covered(c.layers) \union DOMAIN ops
    BY <1>3, <1>4, <2>1, <2>2, <2>3
  <2>4. ASSUME NEW k, k \in Covered(c.layers) PROVE k \in Covered(layers)
    BY <1>4, <2>1, <2>2, <2>4
  <2>5. ASSUME NEW k, k \in DOMAIN ops PROVE k \in Covered(layers)
    <3>1. Len(c.layers) + 1 \in 1..Len(layers)
      BY <1>4
    <3> QED BY <1>3, <1>4, <2>1, <2>5, <3>1
  <2> QED BY <2>3, <2>4, <2>5
<1>6. SameBases(c, r)
  <2> SUFFICES ASSUME NEW k \in CacheKeys PROVE BaseOf(r, k) = BaseOf(c, k)
    BY DEF SameBases
  <2>1. CASE k \in DOMAIN c.shadow \union DOMAIN ops
    BY <1>2, <2>1 DEF BaseOf
  <2>2. CASE k \notin DOMAIN c.shadow \union DOMAIN ops
    BY <1>2, <2>2 DEF BaseOf
  <2> QED BY <2>1, <2>2
<1>7. ASSUME NEW k \in CacheKeys PROVE entities[k] = Laid(layers, k, BaseOf(c, k))
  <2>1. CASE k \in DOMAIN ops
    BY <2>1
  <2>2. CASE k \notin DOMAIN ops
    <3>1. Laid(layers, k, BaseOf(c, k)) = Laid(c.layers, k, BaseOf(c, k))
      BY <1>3, <2>2, LaidAppend DEF layers
    <3>2. entities[k] = c.entities[k]
      BY <2>2
    <3> QED BY <3>1, <3>2 DEF CacheInv
  <2> QED BY <2>1, <2>2
<1>8. DOMAIN shadow = Covered(layers) /\ entities = [k \in CacheKeys |-> entities[k]]
  BY <1>5 DEF CacheInv
<1>9. CacheInv(r)
  <2>1. \A k \in CacheKeys : r.entities[k] = Laid(r.layers, k, BaseOf(r, k))
    BY <1>2, <1>6, <1>7 DEF SameBases
  <2>2. \A k \in CacheKeys : BaseOf(r, k) \in Entity \union {None}
    BY <1>6 DEF SameBases, CacheInv
  <2> HIDE DEF shadow, entities
  <2> QED BY <1>2, <1>4, <1>8, <2>1, <2>2 DEF CacheInv
<1>10. r.layers = Append(c.layers, [id |-> id, ops |-> ops])
  BY <1>2, Zenon DEF layers, last
<1> QED BY <1>6, <1>9, <1>10, Zenon DEF r

LEMMA Least ==
  ASSUME NEW S \in SUBSET Nat, S # {}
  PROVE  \E i \in S : \A h \in S : i <= h
<1> SUFFICES ASSUME \A i \in S : \E h \in S : h < i PROVE FALSE
  OBVIOUS
<1> DEFINE T == {n \in Nat : \A i \in S : n < i}
<1>1. 0 \in T
  OBVIOUS
<1>2. \A n \in Nat : n \in T => n + 1 \in T
  OBVIOUS
<1>3. Nat \subseteq T
  BY <1>1, <1>2, Counting
<1>4. PICK i \in S : TRUE
  OBVIOUS
<1>5. i \in T
  BY <1>3
<1>6. i < i
  BY <1>5
<1> QED BY <1>6

LEMMA RemoveLayerSettles ==
  ASSUME NEW c, CacheInv(c), NEW id, {j \in DOMAIN c.layers : c.layers[j].id = id} # {}
  PROVE  /\ CacheInv(RemoveLayer(c, id)) /\ SameBases(c, RemoveLayer(c, id))
         /\ \E j \in DOMAIN c.layers : RemoveLayer(c, id).layers = RemoveAt(c.layers, j)
<1> DEFINE at == {j \in DOMAIN c.layers : c.layers[j].id = id}
           first == CHOOSE i \in at : \A h \in at : i <= h
           ks == DOMAIN c.layers[first].ops
           layers == RemoveAt(c.layers, first)
           still == Still(layers, ks)
           shadow == PickOf(c.shadow, DOMAIN c.shadow \ (ks \ still))
           entities == [k \in CacheKeys |-> IF k \in ks THEN Laid(layers, k, c.shadow[k]) ELSE c.entities[k]]
           r == RemoveLayer(c, id)
<1>1. r = [c EXCEPT !.layers = layers, !.touched = c.touched \union ks, !.shadow = shadow, !.entities = entities]
  BY Zenon DEF RemoveLayer
<1>2. /\ r.entities = entities /\ r.shadow = shadow /\ r.layers = layers /\ CacheParts(r)
  <2> HIDE DEF r, entities, shadow, layers, ks
  <2>1. CacheParts(c)
    BY DEF CacheInv
  <2> QED BY <1>1, <2>1 DEF CacheParts
<1> HIDE DEF r
<1>3. c.layers \in Seq(Layers) /\ Len(c.layers) \in Nat /\ DOMAIN c.layers = 1..Len(c.layers)
  BY DEF CacheInv
<1>4. first \in at
  <2>1. at \in SUBSET Nat
    BY <1>3
  <2>2. \E i \in at : \A h \in at : i <= h
    <3> HIDE DEF at
    <3> QED BY <2>1, Least DEF at
  <2> QED BY <2>2
<1>5. first \in 1..Len(c.layers)
  BY <1>3, <1>4
<1> HIDE DEF at, first
<1>6. /\ layers \in Seq(Layers) /\ Len(layers) = Len(c.layers) - 1 /\ DOMAIN layers = 1..Len(c.layers) - 1
      /\ \A j \in 1..Len(c.layers) - 1 : layers[j] = IF j < first THEN c.layers[j] ELSE c.layers[j + 1]
  <2>1. /\ RemoveAt(c.layers, first) \in Seq(Layers)
        /\ Len(RemoveAt(c.layers, first)) = Len(c.layers) - 1
        /\ \A j \in 1..Len(c.layers) - 1 :
             RemoveAt(c.layers, first)[j] = IF j < first THEN c.layers[j] ELSE c.layers[j + 1]
    BY <1>3, <1>5, Removing
  <2> HIDE DEF layers
  <2>2. layers \in Seq(Layers) /\ Len(layers) = Len(c.layers) - 1
    BY <2>1 DEF layers
  <2>3. DOMAIN layers = 1..Len(c.layers) - 1
    BY <2>2
  <2> QED BY <2>1, <2>2, <2>3 DEF layers
<1> HIDE DEF layers
<1>7. /\ \A k : k \in Covered(layers) <=> \E j \in 1..Len(layers) : k \in DOMAIN layers[j].ops
      /\ \A k : k \in Covered(c.layers) <=> \E j \in 1..Len(c.layers) : k \in DOMAIN c.layers[j].ops
  BY <1>3, <1>6, CoveredIs
<1>8. Covered(c.layers) = Covered(layers) \union ks
  <2>1. ASSUME NEW k, k \in Covered(layers) PROVE k \in Covered(c.layers)
    <3>1. PICK j \in 1..Len(layers) : k \in DOMAIN layers[j].ops
      BY <1>7, <2>1
    <3>2. layers[j] = c.layers[j] \/ layers[j] = c.layers[j + 1]
      BY <1>6
    <3>3. j \in 1..Len(c.layers) /\ j + 1 \in 1..Len(c.layers)
      BY <1>3, <1>6
    <3> QED BY <1>7, <3>1, <3>2, <3>3
  <2>2. ASSUME NEW k, k \in ks PROVE k \in Covered(c.layers)
    BY <1>5, <1>7, <2>2
  <2>3. ASSUME NEW k, k \in Covered(c.layers), k \notin ks PROVE k \in Covered(layers)
    <3>1. PICK j \in 1..Len(c.layers) : k \in DOMAIN c.layers[j].ops
      BY <1>7, <2>3
    <3>2. j # first
      BY <2>3, <3>1
    <3>3. CASE j < first
      <4>1. j \in 1..Len(layers) /\ layers[j] = c.layers[j]
        BY <1>3, <1>5, <1>6, <3>3
      <4> QED BY <1>7, <3>1, <4>1
    <3>4. CASE j > first
      <4>1. j - 1 \in 1..Len(layers) /\ layers[j - 1] = c.layers[j]
        BY <1>3, <1>5, <1>6, <3>4
      <4> QED BY <1>7, <3>1, <4>1
    <3>5. j < first \/ j > first
      BY <1>5, <3>2
    <3> QED BY <3>3, <3>4, <3>5
  <2> QED BY <2>1, <2>2, <2>3
<1>9. still = ks \intersect Covered(layers)
  BY <1>7, <1>6 DEF Still
<1> HIDE DEF ks, still
<1>10. DOMAIN c.shadow = Covered(c.layers)
  BY DEF CacheInv
<1>11. DOMAIN shadow = Covered(layers) /\ \A k \in Covered(layers) : shadow[k] = c.shadow[k]
  BY <1>8, <1>9, <1>10 DEF PickOf
<1> HIDE DEF shadow
<1>12. ASSUME NEW k \in CacheKeys, k \notin Covered(layers), NEW e PROVE Laid(layers, k, e) = e
  BY <1>6, <1>7, <1>12, LaidUncovered
<1>13. SameBases(c, r)
  <2> SUFFICES ASSUME NEW k \in CacheKeys PROVE BaseOf(r, k) = BaseOf(c, k)
    BY DEF SameBases
  <2>1. CASE k \in Covered(layers)
    BY <1>2, <1>8, <1>10, <1>11, <2>1 DEF BaseOf
  <2>2. CASE k \notin Covered(layers) /\ k \in ks
    <3>1. entities[k] = c.shadow[k]
      BY <1>12, <2>2
    <3> QED BY <1>2, <1>8, <1>10, <1>11, <2>2, <3>1 DEF BaseOf
  <2>3. CASE k \notin Covered(layers) /\ k \notin ks
    <3>1. entities[k] = c.entities[k]
      BY <2>3
    <3> QED BY <1>2, <1>8, <1>10, <1>11, <2>3, <3>1 DEF BaseOf
  <2> QED BY <2>1, <2>2, <2>3
<1>14. ASSUME NEW k \in CacheKeys PROVE entities[k] = Laid(layers, k, BaseOf(c, k))
  <2>1. CASE k \in ks
    <3>1. BaseOf(c, k) = c.shadow[k]
      BY <1>8, <1>10, <2>1 DEF BaseOf
    <3> QED BY <2>1, <3>1
  <2>2. CASE k \notin ks
    <3>1. Laid(layers, k, BaseOf(c, k)) = Laid(c.layers, k, BaseOf(c, k))
      BY <1>3, <1>5, <2>2, LaidRemove DEF layers, ks
    <3>2. entities[k] = c.entities[k]
      BY <2>2
    <3> QED BY <3>1, <3>2 DEF CacheInv
  <2> QED BY <2>1, <2>2
<1>15. CacheInv(r)
  <2>1. \A k \in CacheKeys : r.entities[k] = Laid(r.layers, k, BaseOf(r, k))
    BY <1>2, <1>13, <1>14 DEF SameBases
  <2>2. \A k \in CacheKeys : BaseOf(r, k) \in Entity \union {None}
    BY <1>13 DEF SameBases, CacheInv
  <2>3. entities = [k \in CacheKeys |-> entities[k]]
    OBVIOUS
  <2> HIDE DEF entities
  <2> QED BY <1>2, <1>6, <1>11, <2>1, <2>2, <2>3 DEF CacheInv
<1>16. \E j \in DOMAIN c.layers : r.layers = RemoveAt(c.layers, j)
  BY <1>2, <1>3, <1>5 DEF layers
<1> QED BY <1>13, <1>15, <1>16, Zenon DEF r

-----------------------------------------------------------------------------
(* What listDiff describes an insertion with is a row of the new list.       *)

ComesLater(b, k, j) == \E n \in j..Len(b) : b[n].key = k

\* One step of the walk over both lists.
WalkStep(w, a, b, i, j) ==
  CASE i > Len(a) /\ j > Len(b) -> [del |-> {}, ins |-> <<>>]
    [] i <= Len(a) /\ j <= Len(b) /\ a[i].key = b[j].key -> w[<<i + 1, j + 1>>]
    [] i <= Len(a) /\ (j > Len(b) \/ ~ComesLater(b, a[i].key, j)) ->
         [w[<<i + 1, j>>] EXCEPT !.del = @ \union {i}]
    [] OTHER ->
         [w[<<i, j + 1>>] EXCEPT !.ins = <<[at |-> j, row |-> b[j]]>> \o @]

Places(a, b) == (1..Len(a) + 1) \X (1..Len(b) + 1)
Walks(w, a, b, D) == w = [at \in D |-> WalkStep(w, a, b, at[1], at[2])]

\* The places from which a walk has at most d steps left.
Within(a, b, d) == {p \in Places(a, b) : (Len(a) + 1 - p[1]) + (Len(b) + 1 - p[2]) <= d}

LEMMA WalkStepSame ==
  ASSUME NEW a, NEW b, Len(a) \in Nat, Len(b) \in Nat, NEW i \in 1..Len(a) + 1, NEW j \in 1..Len(b) + 1, NEW g, NEW h,
         i <= Len(a) /\ j <= Len(b) => h[<<i + 1, j + 1>>] = g[<<i + 1, j + 1>>],
         i <= Len(a) => h[<<i + 1, j>>] = g[<<i + 1, j>>],
         j <= Len(b) => h[<<i, j + 1>>] = g[<<i, j + 1>>]
  PROVE  WalkStep(h, a, b, i, j) = WalkStep(g, a, b, i, j)
<1>1. CASE i > Len(a) /\ j > Len(b)
  BY <1>1 DEF WalkStep
<1>2. CASE i <= Len(a) /\ j > Len(b)
  <2>1. h[<<i + 1, j>>] = g[<<i + 1, j>>]
    BY <1>2
  <2> QED BY <1>2, <2>1 DEF WalkStep
<1>3. CASE i > Len(a) /\ j <= Len(b)
  <2>1. h[<<i, j + 1>>] = g[<<i, j + 1>>]
    BY <1>3
  <2> QED BY <1>3, <2>1 DEF WalkStep
<1>4. CASE i <= Len(a) /\ j <= Len(b)
  <2>1. h[<<i, j + 1>>] = g[<<i, j + 1>>] /\ h[<<i + 1, j>>] = g[<<i + 1, j>>] /\ h[<<i + 1, j + 1>>] = g[<<i + 1, j + 1>>]
    BY <1>4
  <2> QED BY <1>4, <2>1 DEF WalkStep
<1> QED BY <1>1, <1>2, <1>3, <1>4

LEMMA InWithin ==
  ASSUME NEW a, NEW b, NEW d, NEW i, NEW j
  PROVE  <<i, j>> \in Within(a, b, d) <=>
           i \in 1..Len(a) + 1 /\ j \in 1..Len(b) + 1 /\ (Len(a) + 1 - i) + (Len(b) + 1 - j) <= d
  BY DEF Within, Places

LEMMA NextPlaces ==
  ASSUME NEW a, NEW b, Len(a) \in Nat, Len(b) \in Nat, NEW d \in Nat, NEW p \in Within(a, b, d + 1)
  PROVE  /\ p[1] \in 1..Len(a) + 1 /\ p[2] \in 1..Len(b) + 1 /\ p = <<p[1], p[2]>>
         /\ p[1] <= Len(a) /\ p[2] <= Len(b) => <<p[1] + 1, p[2] + 1>> \in Within(a, b, d)
         /\ p[1] <= Len(a) => <<p[1] + 1, p[2]>> \in Within(a, b, d)
         /\ p[2] <= Len(b) => <<p[1], p[2] + 1>> \in Within(a, b, d)
<1>1. PICK i \in 1..Len(a) + 1, j \in 1..Len(b) + 1 : p = <<i, j>>
  BY DEF Within, Places
<1>2. p[1] = i /\ p[2] = j /\ (Len(a) + 1 - i) + (Len(b) + 1 - j) <= d + 1
  BY <1>1 DEF Within
<1>6. (i <= Len(a) => i + 1 \in 1..Len(a) + 1) /\ (j <= Len(b) => j + 1 \in 1..Len(b) + 1)
  OBVIOUS
<1>7. /\ (Len(a) + 1 - (i + 1)) + (Len(b) + 1 - j) <= d
      /\ (Len(a) + 1 - i) + (Len(b) + 1 - (j + 1)) <= d
      /\ (Len(a) + 1 - (i + 1)) + (Len(b) + 1 - (j + 1)) <= d
  BY <1>2
<1>3. i <= Len(a) /\ j <= Len(b) => <<i + 1, j + 1>> \in Within(a, b, d)
  BY <1>6, <1>7, InWithin, Zenon
<1>4. i <= Len(a) => <<i + 1, j>> \in Within(a, b, d)
  BY <1>6, <1>7, InWithin, Zenon
<1>5. j <= Len(b) => <<i, j + 1>> \in Within(a, b, d)
  BY <1>6, <1>7, InWithin, Zenon
<1> QED BY <1>1, <1>2, <1>3, <1>4, <1>5

LEMMA WithinGrows ==
  ASSUME NEW a, NEW b, Len(a) \in Nat, Len(b) \in Nat, NEW d \in Nat
  PROVE  Within(a, b, d) \subseteq Within(a, b, d + 1)
<1> SUFFICES ASSUME NEW p \in Within(a, b, d) PROVE p \in Within(a, b, d + 1)
  OBVIOUS
<1>1. PICK i \in 1..Len(a) + 1, j \in 1..Len(b) + 1 : p = <<i, j>>
  BY DEF Within, Places
<1>2. (Len(a) + 1 - i) + (Len(b) + 1 - j) <= d
  BY <1>1 DEF Within
<1>3. (Len(a) + 1 - i) + (Len(b) + 1 - j) <= d + 1
  BY <1>2
<1> QED BY <1>1, <1>3 DEF Within, Places

LEMMA WalkExists ==
  ASSUME NEW a, NEW b, Len(a) \in Nat, Len(b) \in Nat
  PROVE  \E w : Walks(w, a, b, Places(a, b))
<1> DEFINE S == {d \in Nat : \E w : Walks(w, a, b, Within(a, b, d))}
<1>1. 0 \in S
  <2> DEFINE w == [at \in Within(a, b, 0) |-> [del |-> {}, ins |-> <<>>]]
  <2>1. ASSUME NEW p \in Within(a, b, 0) PROVE WalkStep(w, a, b, p[1], p[2]) = [del |-> {}, ins |-> <<>>]
    <3>1. p[1] > Len(a) /\ p[2] > Len(b) /\ p[1] \in Int /\ p[2] \in Int
      <4>1. PICK i \in 1..Len(a) + 1, j \in 1..Len(b) + 1 : p = <<i, j>>
        BY DEF Within, Places
      <4>2. (Len(a) + 1 - i) + (Len(b) + 1 - j) <= 0
        BY <4>1 DEF Within
      <4>3. i > Len(a) /\ j > Len(b)
        BY <4>2
      <4> QED BY <4>1, <4>3
    <3> QED BY <3>1 DEF WalkStep
  <2>2. Walks(w, a, b, Within(a, b, 0))
    <3>1. w = [at \in Within(a, b, 0) |-> WalkStep(w, a, b, at[1], at[2])]
      BY <2>1
    <3> QED BY <3>1, Zenon DEF Walks
  <2> QED BY <2>2
<1>2. \A d \in Nat : d \in S => d + 1 \in S
  <2> SUFFICES ASSUME NEW d \in Nat, NEW g, Walks(g, a, b, Within(a, b, d))
               PROVE  \E h : Walks(h, a, b, Within(a, b, d + 1))
    OBVIOUS
  <2> DEFINE h == [at \in Within(a, b, d + 1) |-> WalkStep(g, a, b, at[1], at[2])]
  <2>1. \A p \in Within(a, b, d) : h[p] = g[p]
    <3>1. \A p \in Within(a, b, d) : g[p] = WalkStep(g, a, b, p[1], p[2])
      BY DEF Walks
    <3>2. \A p \in Within(a, b, d) : h[p] = WalkStep(g, a, b, p[1], p[2])
      BY WithinGrows
    <3> QED BY <3>1, <3>2
  <2>2. ASSUME NEW p \in Within(a, b, d + 1)
        PROVE  WalkStep(h, a, b, p[1], p[2]) = WalkStep(g, a, b, p[1], p[2])
    <3> DEFINE i == p[1]
               j == p[2]
    <3> HIDE DEF h
    <3>1. /\ i \in 1..Len(a) + 1 /\ j \in 1..Len(b) + 1
          /\ i <= Len(a) /\ j <= Len(b) => <<i + 1, j + 1>> \in Within(a, b, d)
          /\ i <= Len(a) => <<i + 1, j>> \in Within(a, b, d)
          /\ j <= Len(b) => <<i, j + 1>> \in Within(a, b, d)
      BY NextPlaces
    <3> HIDE DEF i, j
    <3>2. /\ i <= Len(a) /\ j <= Len(b) => h[<<i + 1, j + 1>>] = g[<<i + 1, j + 1>>]
          /\ i <= Len(a) => h[<<i + 1, j>>] = g[<<i + 1, j>>]
          /\ j <= Len(b) => h[<<i, j + 1>>] = g[<<i, j + 1>>]
      BY <2>1, <3>1, Zenon
    <3>3. WalkStep(h, a, b, i, j) = WalkStep(g, a, b, i, j)
      BY <3>1, <3>2, WalkStepSame
    <3> QED BY <3>3 DEF i, j
  <2>3. h = [at \in Within(a, b, d + 1) |-> WalkStep(h, a, b, at[1], at[2])]
    BY <2>2
  <2>4. Walks(h, a, b, Within(a, b, d + 1))
    BY <2>3, Zenon DEF Walks
  <2> QED BY <2>4
<1>3. Nat \subseteq S
  BY <1>1, <1>2, Counting
<1>4. Within(a, b, Len(a) + Len(b)) = Places(a, b)
  <2> SUFFICES ASSUME NEW p \in Places(a, b) PROVE p \in Within(a, b, Len(a) + Len(b))
    BY DEF Within
  <2>1. PICK i \in 1..Len(a) + 1, j \in 1..Len(b) + 1 : p = <<i, j>>
    BY DEF Places
  <2>2. (Len(a) + 1 - i) + (Len(b) + 1 - j) <= Len(a) + Len(b)
    OBVIOUS
  <2> QED BY <2>1, <2>2 DEF Within
<1>5. Len(a) + Len(b) \in S
  BY <1>3
<1> QED BY <1>4, <1>5

Insertions(R)   == [at : Nat \ {0}, row : R]
Descriptions(R) == [del : SUBSET Nat, ins : Seq(Insertions(R))]

LEMMA WalkTyped ==
  ASSUME NEW R, NEW a, NEW b \in Seq(R), Len(a) \in Nat, NEW w, Walks(w, a, b, Places(a, b)), NEW p \in Places(a, b)
  PROVE  w[p] \in Descriptions(R)
<1> DEFINE Typed(x) == x \in Descriptions(R)
           S == {d \in Nat : \A x \in Within(a, b, d) : Typed(w[x])}
<1>0. Len(b) \in Nat
  OBVIOUS
<1>1. \A x \in Places(a, b) : w[x] = WalkStep(w, a, b, x[1], x[2])
  BY DEF Walks
<1>2. ASSUME NEW i \in 1..Len(a) + 1, NEW j \in 1..Len(b) + 1,
             i <= Len(a) /\ j <= Len(b) => Typed(w[<<i + 1, j + 1>>]),
             i <= Len(a) => Typed(w[<<i + 1, j>>]),
             j <= Len(b) => Typed(w[<<i, j + 1>>])
      PROVE  Typed(WalkStep(w, a, b, i, j))
  <2> DEFINE step == WalkStep(w, a, b, i, j)
             empty == <<>>
  <2>0. empty \in Seq(Insertions(R))
    OBVIOUS
  <2>1. CASE step = [del |-> {}, ins |-> empty]
    <3> HIDE DEF step, empty
    <3> QED BY <2>0, <2>1 DEF step, Descriptions
  <2>2. CASE i <= Len(a) /\ j <= Len(b) /\ step = w[<<i + 1, j + 1>>]
    BY <1>2, <2>2
  <2>3. CASE i <= Len(a) /\ step = [w[<<i + 1, j>>] EXCEPT !.del = @ \union {i}]
    <3> DEFINE rest == w[<<i + 1, j>>]
    <3>1. Typed(rest)
      BY <1>2, <2>3
    <3> HIDE DEF rest
    <3>2. step = [rest EXCEPT !.del = rest.del \union {i}]
      BY <2>3 DEF rest
    <3> HIDE DEF step
    <3>3. Typed(step)
      BY <3>1, <3>2 DEF Descriptions
    <3> QED BY <3>3 DEF step
  <2>4. CASE j <= Len(b) /\ step = [w[<<i, j + 1>>] EXCEPT !.ins = <<[at |-> j, row |-> b[j]]>> \o @]
    <3> DEFINE rest == w[<<i, j + 1>>]
               first == <<[at |-> j, row |-> b[j]]>>
    <3>1. Typed(rest)
      BY <1>2, <2>4
    <3> HIDE DEF rest
    <3>2. j \in Nat /\ b[j] \in R
      BY <1>0, <2>4
    <3>3. first \in Seq(Insertions(R))
      BY <3>2 DEF Insertions
    <3> HIDE DEF first
    <3>4. step = [rest EXCEPT !.ins = first \o rest.ins]
      BY <2>4 DEF rest, first
    <3> HIDE DEF step
    <3>5. first \o rest.ins \in Seq(Insertions(R))
      BY <3>1, <3>3 DEF Descriptions
    <3>6. Typed(step)
      BY <3>1, <3>4, <3>5 DEF Descriptions
    <3> QED BY <3>6 DEF step
  <2>5. \/ step = [del |-> {}, ins |-> empty]
        \/ i <= Len(a) /\ j <= Len(b) /\ step = w[<<i + 1, j + 1>>]
        \/ i <= Len(a) /\ step = [w[<<i + 1, j>>] EXCEPT !.del = @ \union {i}]
        \/ j <= Len(b) /\ step = [w[<<i, j + 1>>] EXCEPT !.ins = <<[at |-> j, row |-> b[j]]>> \o @]
    <3>1. CASE i > Len(a) /\ j > Len(b)
      BY <1>0, <3>1 DEF WalkStep
    <3>2. CASE i <= Len(a) /\ j > Len(b)
      BY <1>0, <3>2 DEF WalkStep
    <3>3. CASE i > Len(a) /\ j <= Len(b)
      BY <1>0, <3>3 DEF WalkStep
    <3>4. CASE i <= Len(a) /\ j <= Len(b)
      BY <1>0, <3>4 DEF WalkStep
    <3>5. (i > Len(a) \/ i <= Len(a)) /\ (j > Len(b) \/ j <= Len(b))
      BY <1>0
    <3> QED BY <3>1, <3>2, <3>3, <3>4, <3>5, Zenon
  <2> QED BY <2>1, <2>2, <2>3, <2>4, <2>5, Zenon
<1> HIDE DEF Typed
<1>3. ASSUME NEW d \in Nat, \A x \in Within(a, b, d) : Typed(w[x])
      PROVE  \A x \in Within(a, b, d + 1) : Typed(w[x])
  <2> SUFFICES ASSUME NEW x \in Within(a, b, d + 1) PROVE Typed(w[x])
    OBVIOUS
  <2> DEFINE i == x[1]
             j == x[2]
  <2>1. /\ i \in 1..Len(a) + 1 /\ j \in 1..Len(b) + 1
        /\ i <= Len(a) /\ j <= Len(b) => <<i + 1, j + 1>> \in Within(a, b, d)
        /\ i <= Len(a) => <<i + 1, j>> \in Within(a, b, d)
        /\ j <= Len(b) => <<i, j + 1>> \in Within(a, b, d)
    BY <1>0, NextPlaces
  <2>2. w[x] = WalkStep(w, a, b, i, j)
    BY <1>1 DEF Within
  <2> HIDE DEF i, j
  <2>3. /\ i <= Len(a) /\ j <= Len(b) => Typed(w[<<i + 1, j + 1>>])
        /\ i <= Len(a) => Typed(w[<<i + 1, j>>])
        /\ j <= Len(b) => Typed(w[<<i, j + 1>>])
    BY <1>3, <2>1, Zenon
  <2>4. Typed(WalkStep(w, a, b, i, j))
    BY <1>2, <2>1, <2>3, Zenon
  <2> QED BY <2>2, <2>4
<1>4. 0 \in S
  <2> SUFFICES ASSUME NEW x \in Within(a, b, 0) PROVE Typed(w[x])
    OBVIOUS
  <2> DEFINE i == x[1]
             j == x[2]
  <2>1. i = Len(a) + 1 /\ j = Len(b) + 1
    <3>1. PICK k \in 1..Len(a) + 1, l \in 1..Len(b) + 1 : x = <<k, l>>
      BY DEF Within, Places
    <3>2. (Len(a) + 1 - k) + (Len(b) + 1 - l) <= 0
      BY <3>1 DEF Within
    <3>3. k = Len(a) + 1 /\ l = Len(b) + 1
      BY <1>0, <3>2
    <3> QED BY <3>1, <3>3
  <2>2. w[x] = WalkStep(w, a, b, i, j)
    BY <1>1 DEF Within
  <2> HIDE DEF i, j
  <2>3. i \in 1..Len(a) + 1 /\ j \in 1..Len(b) + 1 /\ ~(i <= Len(a)) /\ ~(j <= Len(b))
    BY <1>0, <2>1
  <2>4. Typed(WalkStep(w, a, b, i, j))
    BY <1>2, <2>3
  <2> QED BY <2>2, <2>4
<1>5. Nat \subseteq S
  <2>1. \A d \in Nat : d \in S => d + 1 \in S
    BY <1>3
  <2> HIDE DEF S
  <2> QED BY <1>4, <2>1, Counting
<1>6. p \in Within(a, b, Len(a) + Len(b))
  <2>1. PICK i \in 1..Len(a) + 1, j \in 1..Len(b) + 1 : p = <<i, j>>
    BY DEF Places
  <2>2. (Len(a) + 1 - i) + (Len(b) + 1 - j) <= Len(a) + Len(b)
    BY <1>0
  <2> QED BY <2>1, <2>2, InWithin
<1>7. Len(a) + Len(b) \in S
  BY <1>0, <1>5
<1>8. Typed(w[p])
  BY <1>6, <1>7
<1> QED BY <1>8 DEF Typed

LEMMA ListDiffTyped ==
  ASSUME NEW R, NEW a, NEW b \in Seq(R), Len(a) \in Nat
  PROVE  ListDiff(a, b) \in Descriptions(R)
<1> DEFINE w == CHOOSE f : Walks(f, a, b, Places(a, b))
<1>1. Len(b) \in Nat
  OBVIOUS
<1>2. Walks(w, a, b, Places(a, b))
  BY <1>1, WalkExists
<1>3. ListDiff(a, b) = w[<<1, 1>>]
  BY Zenon DEF ListDiff, Walks, WalkStep, ComesLater, Places
<1> HIDE DEF w
<1>4. <<1, 1>> \in Places(a, b)
  BY <1>1 DEF Places
<1>5. w[<<1, 1>>] \in Descriptions(R)
  BY <1>2, <1>4, WalkTyped
<1> QED BY <1>3, <1>5

-----------------------------------------------------------------------------
FullRow == [key : CacheKeys, fields : [Fields -> {0, 1}]]
PatchSet == [sets : OpsSet, list : Descriptions(FullRow)]

LEMMA FullRows == [Fields -> {0, 1}] \subseteq WordSet /\ FullRow \subseteq RowSet
<1>1. ASSUME NEW w \in [Fields -> {0, 1}] PROVE w \in WordSet
  BY WordSetIs
<1> QED BY <1>1 DEF FullRow, RowSet

LEMMA PatchTyped ==
  ASSUME NEW old \in Seq(FullRow), NEW new \in Seq(FullRow)
  PROVE  Patch(old, new) \in PatchSet
<1> DEFINE op == ListDiff(old, new)
           In(k) == RowWith(new, k).fields
           sets == {k \in KeysOf(new) \ Carried(op) : Changed(old, k, In(k)) # {}}
           says == [k \in sets |-> [f \in Changed(old, k, In(k)) |-> In(k)[f]]]
<1>1. op \in Descriptions(FullRow)
  BY ListDiffTyped
<1>2. ASSUME NEW k \in KeysOf(new)
      PROVE  k \in CacheKeys /\ In(k) \in [Fields -> {0, 1}]
  <2>1. PICK i \in DOMAIN new : new[i].key = k
    BY <1>2 DEF KeysOf
  <2>2. \A n \in DOMAIN new : new[n] \in FullRow
    OBVIOUS
  <2> DEFINE R == {new[n] : n \in DOMAIN new}
             r == CHOOSE x \in R : x.key = k
  <2>3. r \in R
    BY <2>1
  <2>4. r \in FullRow
    BY <2>2, <2>3
  <2>5. RowWith(new, k) = r
    BY DEF RowWith
  <2> HIDE DEF r
  <2> QED BY <2>1, <2>2, <2>4, <2>5 DEF FullRow
<1> HIDE DEF In
<1>3. ASSUME NEW k \in sets PROVE says[k] \in WordSet
  <2>1. In(k) \in [Fields -> {0, 1}]
    BY <1>2
  <2>2. Changed(old, k, In(k)) \subseteq Fields
    BY <2>1 DEF Changed
  <2> HIDE DEF sets
  <2>3. says[k] = [f \in Changed(old, k, In(k)) |-> In(k)[f]]
    BY <1>3
  <2> QED BY <2>1, <2>2, <2>3, WordSetIs
<1>4. says \in OpsSet
  <2>1. sets \subseteq CacheKeys
    BY <1>2
  <2> HIDE DEF sets
  <2>2. DOMAIN says = sets /\ says = [k \in DOMAIN says |-> says[k]]
    OBVIOUS
  <2> HIDE DEF says
  <2> QED BY <1>3, <2>1, <2>2, OpsSetIs
<1>5. Patch(old, new) = [sets |-> says, list |-> op]
  BY DEF Patch, In
<1> HIDE DEF op, says
<1> QED BY <1>1, <1>4, <1>5 DEF PatchSet

-----------------------------------------------------------------------------
Histories == Seq(FullRow)
Frames ==
  [kind : {"data"}, rows : Seq(RowSet), of : Histories] \union
  [kind : {"at"}, at : Nat, fields : WordSet, of : Histories] \union
  [kind : {"patch"}, sets : OpsSet, list : Descriptions(FullRow), of : Histories]

TransportInv ==
  /\ serverRows \in Seq(CacheKeys) /\ val \in [CacheKeys -> [Fields -> {0, 1}]]
  /\ lastSent # None => lastSent \in Histories
  /\ underway \in Seq(Frames)
  /\ watch = "answering" => watchAnswer \in Histories
  /\ DOMAIN cmd = Calls /\ DOMAIN said = Calls
  /\ \A c \in Calls : cmd[c] = "run" => said[c] \in [Fields -> {0, 1}]

LEMMA ResultTyped ==
  ASSUME serverRows \in Seq(CacheKeys), val \in [CacheKeys -> [Fields -> {0, 1}]]
  PROVE  Result \in Histories
<1>1. \A i \in 1..Len(serverRows) : serverRows[i] \in CacheKeys
  OBVIOUS
<1>2. \A i \in 1..Len(serverRows) : [key |-> serverRows[i], fields |-> val[serverRows[i]]] \in FullRow
  BY <1>1 DEF FullRow
<1>3. DOMAIN serverRows = 1..Len(serverRows) /\ Len(serverRows) \in Nat
  OBVIOUS
<1> QED BY <1>2, <1>3 DEF Result, Histories

LEMMA PicksAreWords ==
  ASSUME NEW w \in WordSet, NEW S
  PROVE  PickOf(w, S) \in WordSet
<1>1. /\ w = [f \in DOMAIN w |-> w[f]] /\ DOMAIN w \subseteq Fields
      /\ \A f \in DOMAIN w : w[f] \in {0, 1}
  BY WordSetIs
<1>2. PickOf(w, S) = [f \in DOMAIN w \intersect S |-> w[f]]
  BY DEF PickOf
<1> QED BY <1>1, <1>2, WordSetIs

LEMMA FirstFramesTyped ==
  ASSUME NEW r \in Histories
  PROVE  Whole(r) \in Seq(Frames) /\ InParts(r) \in Seq(Frames)
<1>1. DOMAIN r = 1..Len(r) /\ Len(r) \in Nat /\ \A i \in 1..Len(r) : r[i] \in FullRow
  BY DEF Histories
<1>2. \A i \in 1..Len(r) : r[i].key \in CacheKeys /\ r[i].fields \in WordSet
  BY <1>1, FullRows DEF FullRow
<1>3. r \in Seq(RowSet)
  BY <1>1, FullRows DEF Histories
<1> DEFINE first(n) == [r[n] EXCEPT !.fields = PickOf(r[n].fields, {"f"})]
           part == [i \in 1..Len(r) |-> first(i)]
           later(n) == [kind |-> "at", at |-> n, fields |-> PickOf(r[n].fields, {"g"}), of |-> r]
           rest == [i \in 1..Len(r) |-> later(i)]
<1>4. ASSUME NEW i \in 1..Len(r) PROVE first(i) \in RowSet /\ later(i) \in Frames
  <2>1. PickOf(r[i].fields, {"f"}) \in WordSet /\ PickOf(r[i].fields, {"g"}) \in WordSet
    BY <1>2, PicksAreWords
  <2>2. r[i] = [key |-> r[i].key, fields |-> r[i].fields]
    BY <1>1 DEF FullRow
  <2> DEFINE f == PickOf(r[i].fields, {"f"})
             g == PickOf(r[i].fields, {"g"})
  <2> HIDE DEF f, g
  <2>3. [r[i] EXCEPT !.fields = f] \in RowSet
    BY <1>2, <2>1, <2>2 DEF RowSet, f
  <2>4. [kind |-> "at", at |-> i, fields |-> g, of |-> r] \in Frames
    BY <1>1, <2>1 DEF Frames, g
  <2> QED BY <2>3, <2>4 DEF f, g
<1> HIDE DEF first, later
<1>5. part \in Seq(RowSet) /\ rest \in Seq(Frames)
  BY <1>1, <1>4
<1>6. InParts(r) = <<[kind |-> "data", rows |-> part, of |-> r]>> \o rest
  BY <1>1, Zenon DEF InParts, first, later
<1> HIDE DEF part, rest
<1>7. [kind |-> "data", rows |-> part, of |-> r] \in Frames
  BY <1>5 DEF Frames
<1>8. [kind |-> "data", rows |-> r, of |-> r] \in Frames
  BY <1>3 DEF Frames
<1>9. Whole(r) \in Seq(Frames)
  BY <1>8 DEF Whole
<1> HIDE DEF part
<1>10. <<[kind |-> "data", rows |-> part, of |-> r]>> \in Seq(Frames)
  BY <1>7
<1> QED BY <1>5, <1>6, <1>9, <1>10

LEMMA Splicing ==
  ASSUME NEW S, NEW s \in Seq(S)
  PROVE  /\ \A i \in 1..Len(s) : RemoveAt(s, i) \in Seq(S) /\ Len(RemoveAt(s, i)) = Len(s) - 1
         /\ \A i \in 1..Len(s) + 1, e \in S : InsertAt(s, i, e) \in Seq(S)
<1>1. ASSUME NEW i \in 1..Len(s)
      PROVE  RemoveAt(s, i) \in Seq(S) /\ Len(RemoveAt(s, i)) = Len(s) - 1
  <2> DEFINE head == SubSeq(s, 1, i - 1)
             tail == SubSeq(s, i + 1, Len(s))
  <2>1. head \in Seq(S) /\ Len(head) = i - 1 /\ tail \in Seq(S) /\ Len(tail) = Len(s) - i
    OBVIOUS
  <2>2. RemoveAt(s, i) = head \o tail
    BY DEF RemoveAt
  <2> HIDE DEF head, tail
  <2>3. head \o tail \in Seq(S) /\ Len(head \o tail) = Len(head) + Len(tail)
    BY <2>1
  <2> QED BY <2>1, <2>2, <2>3
<1>2. ASSUME NEW i \in 1..Len(s) + 1, NEW e \in S
      PROVE  InsertAt(s, i, e) \in Seq(S)
  <2> DEFINE head == SubSeq(s, 1, i - 1)
             tail == SubSeq(s, i, Len(s))
             one == <<e>>
  <2>1. head \in Seq(S) /\ tail \in Seq(S) /\ one \in Seq(S)
    OBVIOUS
  <2>2. InsertAt(s, i, e) = head \o one \o tail
    BY DEF InsertAt
  <2> HIDE DEF head, tail, one
  <2> QED BY <2>1, <2>2
<1> QED BY <1>1, <1>2

LEMMA InitTransport == ClientInit => TransportInv
  BY RowsAssumption DEF ClientInit, TransportInv, Zero

LEMMA NextTransport == TransportInv /\ [ClientNext]_clientVars => TransportInv'
<1> SUFFICES ASSUME TransportInv, [ClientNext]_clientVars PROVE TransportInv'
  OBVIOUS
<1> USE DEF TransportInv
<1>1. CASE Change
  <2>1. serverRows' \in Seq(CacheKeys) /\ val' \in [CacheKeys -> [Fields -> {0, 1}]]
    <3>1. CASE \E k \in ToSet(serverRows), f \in Fields : val' = [val EXCEPT ![k][f] = 1 - @] /\ UNCHANGED serverRows
      BY <3>1 DEF ToSet
    <3>2. CASE \E i \in DOMAIN serverRows : serverRows' = RemoveAt(serverRows, i) /\ UNCHANGED val
      BY <3>2, Splicing
    <3>3. CASE \E k \in Inserted \ ToSet(serverRows), i \in 1..Len(serverRows) + 1 : serverRows' = InsertAt(serverRows, i, k) /\ UNCHANGED val
      BY <3>3, RowsAssumption, Splicing
    <3>4. CASE \E i \in 1..Len(serverRows), j \in 1..Len(serverRows) :
                 i # j /\ serverRows' = InsertAt(RemoveAt(serverRows, i), j, serverRows[i]) /\ UNCHANGED val
      <4>1. PICK i \in 1..Len(serverRows), j \in 1..Len(serverRows) : serverRows' = InsertAt(RemoveAt(serverRows, i), j, serverRows[i]) /\ UNCHANGED val
        BY <3>4
      <4>2. RemoveAt(serverRows, i) \in Seq(CacheKeys) /\ j \in 1..Len(RemoveAt(serverRows, i)) + 1 /\ serverRows[i] \in CacheKeys
        BY Splicing
      <4>3. serverRows' \in Seq(CacheKeys)
        BY <4>1, <4>2, Splicing
      <4> QED BY <4>1, <4>3
    <3> QED BY <1>1, <3>1, <3>2, <3>3, <3>4 DEF Change
  <2> QED BY <1>1, <2>1 DEF Change, liveVars, watchVars, cmdVars
<1>2. CASE LiveOpens
  BY <1>2, ResultTyped, FirstFramesTyped DEF LiveOpens, serverVars, watchVars, cmdVars
<1>3. CASE LiveReruns
  <2>1. Result \in Histories /\ lastSent \in Histories
    BY <1>3, ResultTyped DEF LiveReruns
  <2> DEFINE p == Patch(lastSent, Result)
             frame == [kind |-> "patch", sets |-> p.sets, list |-> p.list, of |-> Result]
  <2>2. p \in PatchSet
    BY <2>1, PatchTyped DEF Histories
  <2>3. frame \in Frames
    <3> HIDE DEF p
    <3> QED BY <2>1, <2>2 DEF Frames, PatchSet
  <2>4. underway' = Append(underway, frame) \/ underway' = underway \o Whole(Result)
    BY <1>3 DEF LiveReruns
  <2> HIDE DEF frame
  <2>5. underway' \in Seq(Frames)
    <3>1. Whole(Result) \in Seq(Frames)
      BY <2>1, FirstFramesTyped
    <3>2. Append(underway, frame) \in Seq(Frames) /\ underway \o Whole(Result) \in Seq(Frames)
      BY <2>3, <3>1
    <3> QED BY <2>4, <3>2
  <2> QED BY <1>3, <2>1, <2>5 DEF LiveReruns, serverVars, watchVars, cmdVars
<1>4. CASE Read
  BY <1>4, ResultTyped DEF Read, serverVars, liveVars, cmdVars
<1>5. ASSUME NEW c \in Calls, Run(c) PROVE TransportInv'
  <2>1. CASE Edited(c) \in ToSet(serverRows)
    <3>1. Edited(c) \in CacheKeys
      BY CallsAssumption DEF Edited
    <3>2. serverRows' \in Seq(CacheKeys) /\ val' \in [CacheKeys -> [Fields -> {0, 1}]]
      <4>1. CASE c.kind = "delete"
        BY <1>5, <2>1, <4>1, Splicing DEF Run
      <4>2. CASE c.kind # "delete"
        <5>1. val' = [val EXCEPT ![Edited(c)][c.field] = c.to] /\ serverRows' = serverRows
          BY <1>5, <2>1, <4>2 DEF Run
        <5>2. c.to \in {0, 1}
          BY CallsAssumption
        <5> QED BY <3>1, <5>1, <5>2
      <4> QED BY <4>1, <4>2
    <3>3. cmd' = [cmd EXCEPT ![c] = "run"] /\ said' = [said EXCEPT ![c] = val'[Edited(c)]]
      BY <1>5, <2>1 DEF Run
    <3> QED BY <1>5, <3>1, <3>2, <3>3 DEF Run, liveVars, watchVars
  <2>2. CASE Edited(c) \notin ToSet(serverRows)
    BY <1>5, <2>2 DEF Run, liveVars, watchVars
  <2> QED BY <2>1, <2>2
<1>6. ASSUME NEW c \in Calls, Refuse(c) PROVE TransportInv'
  BY <1>6 DEF Refuse, serverVars, liveVars, watchVars
<1>7. CASE WireStep
  <2>1. CASE Lost
    <3>1. lastSent' = None /\ underway' = <<>>
      BY <2>1 DEF Lost
    <3> QED BY <2>1, <3>1 DEF Lost, serverVars, watchVars, cmdVars
  <2>2. CASE OpenLive \/ Reopen
    BY <2>2 DEF OpenLive, Reopen, serverVars, watchVars, cmdVars
  <2>3. CASE Ask
    BY <2>3 DEF Ask, serverVars, liveVars, cmdVars
  <2> QED BY <1>7, <2>1, <2>2, <2>3 DEF WireStep, DropConnection, EndLive
<1>8. CASE Receive
  BY <1>8 DEF Receive, TakeFrame, serverVars, watchVars, cmdVars
<1>9. CASE Answered
  BY <1>9 DEF Answered, TakeAnswer, serverVars, liveVars, cmdVars
<1>10. CASE Ready
  BY <1>10 DEF Ready, Promise, serverVars, liveVars, cmdVars
<1>11. ASSUME NEW c \in Calls, Call(c) PROVE TransportInv'
  BY <1>11 DEF Call, serverVars, liveVars, watchVars
<1>12. ASSUME NEW c \in Calls, AbsorbAnswer(c) PROVE TransportInv'
  BY <1>12 DEF AbsorbAnswer, TakeOk, serverVars, liveVars, watchVars
<1>13. ASSUME NEW c \in Calls, Settled(c) PROVE TransportInv'
  BY <1>13 DEF Settled, Finish, serverVars, liveVars, watchVars
<1>14. CASE UNCHANGED clientVars
  BY <1>14 DEF clientVars, control, serverVars, liveVars, watchVars, cmdVars
<1> QED
  BY <1>1, <1>2, <1>3, <1>4, <1>5, <1>6, <1>7, <1>8, <1>9, <1>10, <1>11, <1>12, <1>13, <1>14
  DEF ClientNext, ServerStep

-----------------------------------------------------------------------------
LEMMA Announced ==
  ASSUME NEW op, CacheInv(op), Announce(op)
  PROVE  SameEntities(op, cache')
<1>1. \E c \in {op} : cache' = [c EXCEPT !.touched = {}, !.replaced = FALSE]
  BY Zenon DEF Announce
<1>2. cache' = [op EXCEPT !.touched = {}, !.replaced = FALSE]
  BY <1>1
<1>3. CacheParts(op)
  BY DEF CacheInv
<1> QED BY <1>2, <1>3, MarksHold

LEMMA FramesTyped ==
  ASSUME NEW f \in Frames
  PROVE  /\ f.kind \in {"data", "at", "patch"}
         /\ f.kind = "data" => f.rows \in Seq(RowSet)
         /\ f.kind = "at" => f.fields \in WordSet
         /\ f.kind = "patch" => f.sets \in OpsSet /\ f.list \in Descriptions(FullRow)
  BY DEF Frames

\* Nothing is said to be deleted: what is said twice is said at once.
NothingGone(c, r) == \A k \in CacheKeys : BaseOf(r, k) = None => BaseOf(c, k) = None

LEMMA StoreKeeps ==
  ASSUME NEW c, CacheInv(c), NEW words, \A k \in DOMAIN words \intersect CacheKeys : words[k] \in WordSet
  PROVE  NothingGone(c, Store(c, words))
<1> DEFINE r == Store(c, words)
<1>1. \A k \in CacheKeys : BaseOf(r, k) = IF k \in DOMAIN words THEN On(words[k], BaseOf(c, k)) ELSE BaseOf(c, k)
  BY StoreTells
<1> HIDE DEF r
<1>2. ASSUME NEW k \in CacheKeys, k \in DOMAIN words PROVE BaseOf(r, k) # None
  <2> DEFINE e == BaseOf(c, k)
             held == On(words[k], e)
  <2>1. e \in Entity \union {None}
    BY DEF CacheInv
  <2>2. words[k] \in Entity
    BY <1>2, WordsAreEntities
  <2>3. BaseOf(r, k) = held
    BY <1>1, <1>2
  <2> HIDE DEF e
  <2>4. held \in Entity
    BY <2>1, <2>2, OnIsEntity
  <2> HIDE DEF held
  <2> QED BY <2>3, <2>4, NoneIsNoEntity
<1>3. NothingGone(c, r)
  BY <1>1, <1>2 DEF NothingGone
<1> QED BY <1>3 DEF r

LEMMA ApplyListKeeps ==
  ASSUME NEW c, CacheInv(c), NEW op, \A n \in DOMAIN op.ins : op.ins[n].row \in RowSet
  PROVE  NothingGone(c, ApplyList(c, op))
<1>1. CASE c.list = None
  BY <1>1 DEF ApplyList, NothingGone
<1>2. CASE c.list # None
  <2> DEFINE stored == Store(c, WordsOf([n \in DOMAIN op.ins |-> op.ins[n].row]))
  <2>1. CacheInv(stored) /\ NothingGone(c, stored)
    <3>1. \A n \in DOMAIN [n \in DOMAIN op.ins |-> op.ins[n].row] : [m \in DOMAIN op.ins |-> op.ins[m].row][n] \in RowSet
      OBVIOUS
    <3> QED BY <3>1, WordsOfRows, StoreTells, StoreKeeps
  <2>2. \E list : ApplyList(c, op) = [stored EXCEPT !.list = list, !.keys = stored.keys \union stored.touched, !.replaced = TRUE]
    BY <1>2, Zenon DEF ApplyList
  <2> HIDE DEF stored
  <2> DEFINE r == ApplyList(c, op)
  <2>3. PICK list : r = [stored EXCEPT !.list = list, !.keys = stored.keys \union stored.touched, !.replaced = TRUE]
    BY <2>2
  <2> HIDE DEF r
  <2>4. SameEntities(stored, r)
    BY <2>1, <2>3 DEF CacheInv, CacheParts, SameEntities
  <2>5. \A k : BaseOf(r, k) = BaseOf(stored, k)
    BY <2>1, <2>4, SameEntitiesHold
  <2> QED BY <2>1, <2>5 DEF NothingGone, r
<1> QED BY <1>1, <1>2

LEMMA KeptTwice ==
  ASSUME NEW guess, NEW fs, NEW gs
  PROVE  Kept(Kept(guess, fs), gs) = Kept(guess, fs \union gs)
<1> DEFINE once == Kept(guess, fs)
<1>1. once = [f \in DOMAIN guess \ {g \in fs : Reader!Yields(g)} |-> guess[f]]
  BY DEF Kept
<1>2. Kept(once, gs) = [f \in DOMAIN once \ {g \in gs : Reader!Yields(g)} |-> once[f]]
  BY DEF Kept
<1> HIDE DEF once
<1>3. DOMAIN once \ {g \in gs : Reader!Yields(g)} = DOMAIN guess \ {g \in fs \union gs : Reader!Yields(g)}
  BY <1>1
<1>4. \A f \in DOMAIN once : once[f] = guess[f]
  BY <1>1
<1>5. Kept(once, gs) = [f \in DOMAIN guess \ {g \in fs \union gs : Reader!Yields(g)} |-> guess[f]]
  BY <1>2, <1>3, <1>4
<1> QED BY <1>5 DEF Kept, once

LEMMA ToldTwice ==
  ASSUME NEW a, NEW b, NEW c, Tells(a, b), Tells(b, c), NothingGone(a, b), NothingGone(b, c)
  PROVE  Tells(a, c)
<1>1. SameGuesses(a, b) /\ SameGuesses(b, c)
  BY DEF Tells
<1>2. SameGuesses(a, c)
  BY <1>1 DEF SameGuesses
<1>3. ASSUME NEW k \in CacheKeys
      PROVE  HearsNot(a, c, k) \/ \E fs \in SUBSET (Fields \union {"next"}) : Hears(a, c, k, fs)
  <2>1. CASE HearsNot(a, b, k) /\ HearsNot(b, c, k)
    BY <1>1, <2>1 DEF HearsNot, SameGuesses
  <2>2. ASSUME NEW fs \in SUBSET (Fields \union {"next"}), HearsNot(a, b, k), Hears(b, c, k, fs)
        PROVE  Hears(a, c, k, fs)
    <3>1. BaseOf(b, k) = BaseOf(a, k)
      BY <2>2 DEF HearsNot, NothingGone
    <3> QED BY <1>1, <2>2, <3>1 DEF HearsNot, Hears, SameGuesses
  <2>3. ASSUME NEW fs \in SUBSET (Fields \union {"next"}), Hears(a, b, k, fs), HearsNot(b, c, k)
        PROVE  Hears(a, c, k, fs)
    <3>1. BaseOf(c, k) = BaseOf(b, k)
      BY <2>3 DEF HearsNot, NothingGone
    <3> QED BY <1>1, <2>3, <3>1 DEF HearsNot, Hears, SameGuesses
  <2>4. ASSUME NEW fs \in SUBSET (Fields \union {"next"}), NEW gs \in SUBSET (Fields \union {"next"}),
               Hears(a, b, k, fs), Hears(b, c, k, gs)
        PROVE  Hears(a, c, k, fs \union gs)
    <3>1. Reader!Known(BaseOf(b, k)) = Reader!Known(BaseOf(a, k)) \union fs
      BY <2>4 DEF Hears, Reader!Known
    <3>2. /\ BaseOf(c, k) # None
          /\ DOMAIN BaseOf(c, k) = Reader!Known(BaseOf(a, k)) \union (fs \union gs)
      BY <2>4, <3>1 DEF Hears
    <3>3. \A f \in Reader!Known(BaseOf(a, k)) \ (fs \union gs) : BaseOf(c, k)[f] = BaseOf(a, k)[f]
      BY <2>4, <3>1 DEF Hears
    <3>4. \A j \in DOMAIN a.layers : k \in DOMAIN a.layers[j].ops =>
             c.layers[j].ops[k] = Kept(Kept(a.layers[j].ops[k], fs), gs)
      BY <1>1, <2>4 DEF Hears, SameGuesses
    <3>5. \A j \in DOMAIN a.layers : k \in DOMAIN a.layers[j].ops =>
             c.layers[j].ops[k] = Kept(a.layers[j].ops[k], fs \union gs)
      BY <3>4, KeptTwice
    <3> QED BY <3>2, <3>3, <3>5 DEF Hears
  <2>5. HearsNot(a, b, k) \/ \E fs \in SUBSET (Fields \union {"next"}) : Hears(a, b, k, fs)
    BY DEF Tells
  <2>6. HearsNot(b, c, k) \/ \E fs \in SUBSET (Fields \union {"next"}) : Hears(b, c, k, fs)
    BY DEF Tells
  <2>7. CASE HearsNot(a, b, k)
    BY <2>1, <2>2, <2>6, <2>7
  <2>8. ASSUME NEW fs \in SUBSET (Fields \union {"next"}), Hears(a, b, k, fs)
        PROVE  \E hs \in SUBSET (Fields \union {"next"}) : Hears(a, c, k, hs)
    <3>1. CASE HearsNot(b, c, k)
      BY <2>3, <2>8, <3>1
    <3>2. ASSUME NEW gs \in SUBSET (Fields \union {"next"}), Hears(b, c, k, gs)
          PROVE  \E hs \in SUBSET (Fields \union {"next"}) : Hears(a, c, k, hs)
      <4>1. Hears(a, c, k, fs \union gs)
        BY <2>4, <2>8, <3>2
      <4> QED BY <4>1
    <3> QED BY <2>6, <3>1, <3>2
  <2> QED BY <2>5, <2>7, <2>8
<1> QED BY <1>2, <1>3 DEF Tells

LEMMA AbsorbTells ==
  ASSUME NEW c, CacheInv(c), NEW f \in Frames
  PROVE  CacheInv(Absorb(c, f)) /\ Tells(c, Absorb(c, f))
<1> USE FramesTyped
<1>1. CASE f.kind = "data"
  <2>1. \A i \in DOMAIN f.rows : f.rows[i] \in RowSet
    BY <1>1
  <2>2. Absorb(c, f) = PutResult(c, f.rows)
    BY <1>1 DEF Absorb
  <2> QED BY <2>1, <2>2, PutResultTells
<1>2. CASE f.kind = "at"
  <2>1. Absorb(c, f) = MergeAt(c, f.at, f.fields)
    BY <1>2 DEF Absorb
  <2> QED BY <1>2, <2>1, MergeAtTells
<1>3. CASE f.kind = "patch"
  <2> DEFINE s == Store(c, f.sets)
  <2>1. \A k \in DOMAIN f.sets \intersect CacheKeys : f.sets[k] \in WordSet
    BY <1>3, OpsSetIs
  <2>2. CacheInv(s) /\ Tells(c, s)
    BY <2>1, StoreTells
  <2>3. \A n \in DOMAIN f.list.ins : f.list.ins[n].row \in RowSet
    <3>1. f.list.ins \in Seq(Insertions(FullRow))
      BY <1>3 DEF Descriptions
    <3> DEFINE ins == f.list.ins
    <3> HIDE DEF ins
    <3>2. \A n \in DOMAIN ins : ins[n] \in Insertions(FullRow)
      BY <3>1 DEF ins
    <3> QED BY <3>2, FullRows DEF Insertions, ins
  <2> DEFINE r == ApplyList(s, f.list)
  <2>4. Absorb(c, f) = r \/ Absorb(c, f) = s
    BY <1>3 DEF Absorb
  <2>5. NothingGone(c, s)
    BY <2>1, StoreKeeps
  <2> HIDE DEF s
  <2>6. CacheInv(r) /\ Tells(s, r) /\ NothingGone(s, r)
    BY <2>2, <2>3, ApplyListTells, ApplyListKeeps
  <2> HIDE DEF r
  <2>7. Tells(c, r)
    BY <2>2, <2>5, <2>6, ToldTwice
  <2> QED BY <2>2, <2>4, <2>6, <2>7
<1> QED BY <1>1, <1>2, <1>3

-----------------------------------------------------------------------------
\* What became of the entities and predictions of a cache in a step.
CacheStep(c, r) ==
  \/ Tells(c, r)
  \/ SameBases(c, r) /\ \E layer : r.layers = Append(c.layers, layer)
  \/ SameBases(c, r) /\ \E j \in DOMAIN c.layers : r.layers = RemoveAt(c.layers, j)

LEMMA CacheStepSame ==
  ASSUME NEW b, NEW c, NEW r, CacheInv(c), CacheStep(b, c), SameEntities(c, r)
  PROVE  CacheInv(r) /\ CacheStep(b, r)
<1>1. CacheInv(r) /\ (\A k : BaseOf(r, k) = BaseOf(c, k)) /\ (Tells(b, c) => Tells(b, r))
  BY SameEntitiesHold
<1>2. r.layers = c.layers
  BY DEF SameEntities
<1>3. SameBases(b, c) => SameBases(b, r)
  BY <1>1 DEF SameBases
<1> QED BY <1>1, <1>2, <1>3 DEF CacheStep

LEMMA GuessIsOps == ASSUME NEW c \in Calls PROVE Guess(c) \in OpsSet
<1>1. Edited(c) \in CacheKeys /\ c.field \in Fields /\ c.to \in {0, 1}
  BY CallsAssumption DEF Edited
<1> DEFINE w == [f \in {c.field} |-> c.to]
<1>2. w \in WordSet
  BY <1>1, WordSetIs
<1>3. Guess(c) = [k \in {Edited(c)} |-> w]
  BY DEF Guess
<1> HIDE DEF w
<1> QED BY <1>1, <1>2, <1>3, OpsSetIs

LEMMA AnswerTells ==
  ASSUME LinksToOthers, CacheInv(cache), NEW c \in Calls, said[c] \in [Fields -> {0, 1}]
  PROVE  CacheInv(AnswerStored(c)) /\ Tells(cache, AnswerStored(c))
<1>1. c.kind \in {"edit", "delete", "link"} /\ c.key \in CacheKeys /\ c.inner \in CacheKeys
  BY CallsAssumption
<1>2. said[c] \in WordSet
  BY FullRows
<1>3. CASE c.kind = "edit"
  <2> DEFINE words == [k \in {c.key} |-> said[c]]
  <2>1. AnswerStored(c) = Store(cache, words)
    BY <1>3 DEF AnswerStored
  <2>2. \A k \in DOMAIN words \intersect CacheKeys : words[k] \in WordSet
    BY <1>2
  <2> HIDE DEF words
  <2> DEFINE r == Store(cache, words)
  <2>3. CacheInv(r) /\ Tells(cache, r)
    BY <2>2, StoreTells
  <2> HIDE DEF r
  <2> QED BY <2>1, <2>3 DEF r
<1>4. CASE c.kind = "link"
  <2>1. AnswerStored(c) = Merge(cache, c.key, [f \in {"next"} |-> c.inner], [k \in {c.inner} |-> said[c]])
    BY <1>4 DEF AnswerStored
  <2>2. c.inner # c.key
    BY <1>4 DEF LinksToOthers
  <2> QED BY <1>1, <1>2, <2>1, <2>2, MergeTells DEF Links
<1>5. CASE c.kind = "delete"
  <2>1. AnswerStored(c) = Delete(cache, c.key)
    BY <1>5 DEF AnswerStored
  <2> QED BY <1>1, <2>1, DeleteTells
<1> QED BY <1>1, <1>3, <1>4, <1>5

LEMMA NextCache ==
  ASSUME LinksToOthers, TransportInv, CacheInv(cache), [ClientNext]_clientVars
  PROVE  CacheInv(cache') /\ CacheStep(cache, cache')
<1>1. CacheStep(cache, cache)
  BY NothingTold DEF CacheStep
<1>2. ASSUME NEW op, CacheInv(op), CacheStep(cache, op), Announce(op)
      PROVE  CacheInv(cache') /\ CacheStep(cache, cache')
  BY <1>2, Announced, CacheStepSame
<1>3. CASE UNCHANGED cache
  BY <1>1, <1>3
<1>4. CASE Receive
  <2>1. Head(underway) \in Frames
    BY <1>4 DEF Receive, TakeFrame, TransportInv
  <2>2. Announce(Absorb(cache, Head(underway)))
    BY <1>4 DEF Receive
  <2> DEFINE op == Absorb(cache, Head(underway))
  <2>3. CacheInv(op) /\ Tells(cache, op)
    BY <2>1, AbsorbTells
  <2> HIDE DEF op
  <2>4. CacheStep(cache, op)
    BY <2>3 DEF CacheStep
  <2> QED BY <1>2, <2>2, <2>3, <2>4 DEF op
<1>5. CASE Answered
  <2>1. watchAnswer \in Seq(FullRow)
    BY <1>5 DEF Answered, TakeAnswer, TransportInv, Histories
  <2>2. \A i \in DOMAIN watchAnswer : watchAnswer[i] \in RowSet
    <3>1. \A i \in DOMAIN watchAnswer : watchAnswer[i] \in FullRow
      BY <2>1
    <3> QED BY <3>1, FullRows
  <2> DEFINE op == PutResult(cache, watchAnswer)
  <2>3. CacheInv(op) /\ Tells(cache, op)
    BY <2>2, PutResultTells
  <2>4. Announce(op)
    BY <1>5 DEF Answered
  <2> HIDE DEF op
  <2>5. CacheStep(cache, op)
    BY <2>3 DEF CacheStep
  <2> QED BY <1>2, <2>3, <2>4, <2>5
<1>6. ASSUME NEW c \in Calls, Call(c) PROVE CacheInv(cache') /\ CacheStep(cache, cache')
  <2>1. CASE c.kind = "delete"
    BY <1>3, <1>6, <2>1 DEF Call
  <2>2. CASE c.kind # "delete"
    <3> DEFINE op == AddLayer(cache, c, Guess(c))
    <3>1. CacheInv(op) /\ SameBases(cache, op) /\ \E layer : op.layers = Append(cache.layers, layer)
      BY GuessIsOps, AddLayerGuesses
    <3>2. Announce(op)
      BY <1>6, <2>2 DEF Call
    <3> HIDE DEF op
    <3>3. CacheStep(cache, op)
      BY <3>1 DEF CacheStep
    <3> QED BY <1>2, <3>1, <3>2, <3>3
  <2> QED BY <2>1, <2>2
<1>7. ASSUME NEW c \in Calls, AbsorbAnswer(c) PROVE CacheInv(cache') /\ CacheStep(cache, cache')
  <2>1. said[c] \in [Fields -> {0, 1}]
    BY <1>7 DEF AbsorbAnswer, TakeOk, TransportInv
  <2> DEFINE op == AnswerStored(c)
  <2>2. CacheInv(op) /\ Tells(cache, op)
    BY <2>1, AnswerTells
  <2>3. Announce(op)
    BY <1>7 DEF AbsorbAnswer
  <2> HIDE DEF op
  <2>4. CacheStep(cache, op)
    BY <2>2 DEF CacheStep
  <2> QED BY <1>2, <2>2, <2>3, <2>4
<1>8. ASSUME NEW c \in Calls, Settled(c) PROVE CacheInv(cache') /\ CacheStep(cache, cache')
  <2> DEFINE op == RemoveLayer(cache, c)
  <2>1. Announce(op)
    BY <1>8 DEF Settled
  <2>2. CacheInv(op) /\ CacheStep(cache, op)
    <3>1. CASE {j \in DOMAIN cache.layers : cache.layers[j].id = c} = {}
      <4>1. op = cache
        BY <3>1 DEF RemoveLayer
      <4> QED BY <1>1, <4>1
    <3>2. CASE {j \in DOMAIN cache.layers : cache.layers[j].id = c} # {}
      BY <3>2, RemoveLayerSettles DEF CacheStep
    <3> QED BY <3>1, <3>2
  <2> HIDE DEF op
  <2> QED BY <1>2, <2>1, <2>2
<1>9. CASE Ready
  BY <1>3, <1>9 DEF Ready
<1>10. CASE (UNCHANGED clientVars) \/ ((ServerStep \/ WireStep) /\ UNCHANGED screens)
  BY <1>3, <1>10 DEF clientVars, screens
<1>11. ClientNext \/ UNCHANGED clientVars
  OBVIOUS
<1>12. ASSUME NEW c \in Calls, Call(c) \/ AbsorbAnswer(c) \/ Settled(c)
       PROVE  CacheInv(cache') /\ CacheStep(cache, cache')
  BY <1>6, <1>7, <1>8, <1>12
<1>13. CASE \E c \in Calls : Call(c) \/ AbsorbAnswer(c) \/ Settled(c)
  BY <1>12, <1>13
<1>14. CASE ClientNext
  BY <1>4, <1>5, <1>9, <1>10, <1>13, <1>14, Zenon DEF ClientNext
<1>15. CASE UNCHANGED clientVars
  BY <1>10, <1>15
<1> QED BY <1>11, <1>14, <1>15

LEMMA InitCache == ClientInit => CacheInv(cache)
<1> SUFFICES ASSUME ClientInit PROVE CacheInv(cache)
  OBVIOUS
<1> DEFINE none == <<>>
<1>1. /\ cache.entities = [k \in CacheKeys |-> None] /\ cache.shadow = none /\ cache.layers = none
      /\ CacheParts(cache)
  BY DEF ClientInit, Empty, CacheParts
<1>2. none \in Seq(Layers) /\ DOMAIN none = {} /\ Len(none) = 0
  OBVIOUS
<1> HIDE DEF none
<1>3. Covered(cache.layers) = {}
  BY <1>1, <1>2 DEF Covered
<1>4. \A k \in CacheKeys : BaseOf(cache, k) = None
  BY <1>1, <1>2 DEF BaseOf
<1>5. \A k \in CacheKeys : Laid(none, k, None) = None
  BY <1>2, LaidUncovered
<1> QED BY <1>1, <1>2, <1>3, <1>4, <1>5 DEF CacheInv

-----------------------------------------------------------------------------
ClientInv == TransportInv /\ CacheInv(cache)

LEMMA InitClient == ClientInit => ClientInv
  BY InitTransport, InitCache DEF ClientInv

LEMMA NextClient == LinksToOthers /\ ClientInv /\ [ClientNext]_clientVars => ClientInv'
<1> SUFFICES ASSUME LinksToOthers, ClientInv, [ClientNext]_clientVars PROVE ClientInv'
  OBVIOUS
<1>1. TransportInv'
  BY NextTransport DEF ClientInv
<1>2. CacheInv(cache')
  BY NextCache DEF ClientInv
<1> QED BY <1>1, <1>2 DEF ClientInv

\* What a reader sees of a cache that holds is the view.
LEMMA CacheIsView ==
  ASSUME NEW c, CacheInv(c)
  PROVE  c.entities = Reader!View([k \in CacheKeys |-> BaseOf(c, k)], c.layers)
<1> DEFINE base == [k \in CacheKeys |-> BaseOf(c, k)]
<1>1. Reader!View(base, c.layers) = [k \in CacheKeys |-> Reader!Laid(base[k], c.layers, k)]
  BY DEF Reader!View
<1>2. \A k \in CacheKeys : Reader!Laid(base[k], c.layers, k) = c.entities[k]
  <2> SUFFICES ASSUME NEW k \in CacheKeys PROVE Reader!Laid(base[k], c.layers, k) = c.entities[k]
    OBVIOUS
  <2>1. base[k] = BaseOf(c, k)
    OBVIOUS
  <2>2. c.entities[k] = Laid(c.layers, k, BaseOf(c, k))
    BY DEF CacheInv
  <2> QED BY <2>1, <2>2, ReaderLaid
<1> HIDE DEF base
<1>3. c.entities = [k \in CacheKeys |-> c.entities[k]]
  BY DEF CacheInv
<1>4. Reader!View(base, c.layers) = c.entities
  BY <1>1, <1>2, <1>3
<1> QED BY <1>4 DEF base

LEMMA ViewInit == ClientInit => Reader!Init
<1> SUFFICES ASSUME ClientInit PROVE Reader!Init
  OBVIOUS
<1>1. CacheInv(cache)
  BY InitCache
<1>2. \A k \in CacheKeys : BaseOf(cache, k) = None
  BY DEF ClientInit, Empty, BaseOf
<1>3. cache.layers = <<>>
  BY DEF ClientInit, Empty
<1> QED BY <1>1, <1>2, <1>3, CacheIsView DEF Reader!Init

LEMMA NextView == LinksToOthers /\ ClientInv /\ [ClientNext]_clientVars => Reader!Next
<1> SUFFICES ASSUME LinksToOthers, ClientInv, [ClientNext]_clientVars PROVE Reader!Next
  OBVIOUS
<1>1. CacheInv(cache) /\ CacheInv(cache') /\ CacheStep(cache, cache')
  BY NextCache DEF ClientInv
<1> DEFINE base == [k \in CacheKeys |-> BaseOf(cache, k)]
           later == [k \in CacheKeys |-> BaseOf(cache', k)]
<1>2. cache'.entities = Reader!View(later, cache'.layers)
  BY <1>1, CacheIsView
<1>3. DOMAIN cache.layers = 1..Len(cache.layers) /\ Len(cache.layers) \in Nat /\ cache.layers \in Seq(Layers)
  BY <1>1 DEF CacheInv
<1>4. CASE Tells(cache, cache')
  <2>1. Reader!Says
    <3>1. SameGuesses(cache, cache')
      BY <1>4 DEF Tells
    <3>2. ASSUME NEW k \in CacheKeys
          PROVE  Reader!Unspoken(k) \/ \E fs \in SUBSET (Fields \union {"next"}) : Reader!Spoken(k, fs)
      <4>1. base[k] = BaseOf(cache, k) /\ later[k] = BaseOf(cache', k)
        OBVIOUS
      <4>2. CASE HearsNot(cache, cache', k)
        BY <4>1, <4>2 DEF Reader!Unspoken, HearsNot
      <4>3. ASSUME NEW fs \in SUBSET (Fields \union {"next"}), Hears(cache, cache', k, fs)
            PROVE  Reader!Spoken(k, fs)
        BY <4>1, <4>3 DEF Reader!Spoken, Hears, Kept
      <4> QED BY <1>4, <4>2, <4>3 DEF Tells
    <3> QED BY <3>1, <3>2 DEF Reader!Says, SameGuesses
  <2> QED BY <1>2, <2>1 DEF Reader!Next
<1>5. CASE SameBases(cache, cache') /\ \E layer : cache'.layers = Append(cache.layers, layer)
  <2>1. later = base
    BY <1>5 DEF SameBases
  <2>2. PICK layer : cache'.layers = Append(cache.layers, layer)
    BY <1>5
  <2>3. Len(cache'.layers) = Len(cache.layers) + 1 /\ Front(cache'.layers) = cache.layers
    BY <1>3, <2>2 DEF Front
  <2>4. Reader!Front(cache'.layers) = Front(cache'.layers)
    BY DEF Reader!Front, Front
  <2>5. UNCHANGED [k \in CacheKeys |-> BaseOf(cache, k)]
    BY <2>1 DEF base, later
  <2>6. Reader!Guess
    BY <2>3, <2>4, <2>5 DEF Reader!Guess
  <2> QED BY <1>2, <2>6 DEF Reader!Next
<1>6. CASE SameBases(cache, cache') /\ \E j \in DOMAIN cache.layers : cache'.layers = RemoveAt(cache.layers, j)
  <2>1. later = base
    BY <1>6 DEF SameBases
  <2>2. UNCHANGED [k \in CacheKeys |-> BaseOf(cache, k)]
    BY <2>1 DEF base, later
  <2>3. \A j : Reader!RemoveAt(cache.layers, j) = RemoveAt(cache.layers, j)
    BY DEF Reader!RemoveAt, RemoveAt
  <2>4. Reader!Settle
    BY <1>6, <2>2, <2>3 DEF Reader!Settle
  <2> QED BY <1>2, <2>4 DEF Reader!Next
<1> QED BY <1>1, <1>4, <1>5, <1>6 DEF CacheStep

\* For any rows, calls and workloads: what a reader of the cache sees is what the
\* server last said of each entity under the predictions of unsettled commands,
\* whatever the order of answers, frames, predictions and rollbacks (cache.ts
\* setBase, overrule, rebuild, addLayer and removeLayer).
THEOREM CacheImplementsLayers == LinksToOthers => (ClientSpec => ShowsLayers)
<1> SUFFICES ASSUME LinksToOthers PROVE ClientSpec => ShowsLayers
  OBVIOUS
<1>1. ClientInit => ClientInv /\ Reader!Init
  BY InitClient, ViewInit
<1>2. ClientInv /\ [ClientNext]_clientVars => ClientInv'
  BY NextClient
<1>3. ClientInv /\ [ClientNext]_clientVars => Reader!Next
  BY NextView
<1> QED BY <1>1, <1>2, <1>3, PTL DEF ClientSpec, ShowsLayers, Reader!Spec

-----------------------------------------------------------------------------
LEMMA CountDown ==
  ASSUME NEW n \in Nat, NEW S, n + 1 \in S, \A i \in 1..n : i + 1 \in S => i \in S
  PROVE  1..n + 1 \subseteq S
<1> DEFINE T == {d \in Nat : d <= n => n + 1 - d \in S}
<1>1. 0 \in T
  OBVIOUS
<1>2. \A d \in Nat : d \in T => d + 1 \in T
  <2> SUFFICES ASSUME NEW d \in Nat, d + 1 <= n, n + 1 - d \in S PROVE n + 1 - (d + 1) \in S
    OBVIOUS
  <2>1. n - d \in 1..n /\ (n - d) + 1 = n + 1 - d /\ n + 1 - (d + 1) = n - d
    OBVIOUS
  <2> QED BY <2>1
<1>3. Nat \subseteq T
  BY <1>1, <1>2, Counting
<1>4. ASSUME NEW i \in 1..n + 1 PROVE i \in S
  <2>1. n + 1 - i \in Nat /\ n + 1 - i <= n /\ n + 1 - (n + 1 - i) = i
    OBVIOUS
  <2> QED BY <1>3, <2>1
<1> QED BY <1>4

\* What stays of a list, from one of its positions on.
StayStep(f, list, gone, i) ==
  IF i > Len(list) THEN <<>> ELSE IF i \in gone THEN f[i + 1] ELSE <<list[i]>> \o f[i + 1]
StaysBy(f, list, gone, m) == f = [i \in m..Len(list) + 1 |-> StayStep(f, list, gone, i)]
From(list, gone) == CHOOSE f : StaysBy(f, list, gone, 1)

LEMMA WithoutIsFrom == \A list, gone : Without(list, gone) = From(list, gone)[1]
  BY Zenon DEF Without, From, StaysBy, StayStep

LEMMA FromExists ==
  ASSUME NEW list, Len(list) \in Nat, NEW gone
  PROVE  StaysBy(From(list, gone), list, gone, 1)
<1> DEFINE n == Len(list)
           S == {m \in Nat : \E f : StaysBy(f, list, gone, m)}
<1>1. n + 1 \in S
  <2> DEFINE f == [i \in n + 1..n + 1 |-> <<>>]
  <2>1. \A i \in n + 1..n + 1 : StayStep(f, list, gone, i) = <<>>
    BY DEF StayStep
  <2>2. f = [i \in n + 1..n + 1 |-> StayStep(f, list, gone, i)]
    BY <2>1
  <2>3. StaysBy(f, list, gone, n + 1)
    BY <2>2, Zenon DEF StaysBy
  <2> QED BY <2>3
<1>2. ASSUME NEW i \in 1..n, i + 1 \in S PROVE i \in S
  <2>1. PICK f : StaysBy(f, list, gone, i + 1)
    BY <1>2
  <2> DEFINE h == [x \in i..n + 1 |-> StayStep(f, list, gone, x)]
  <2>2. \A x \in i + 1..n + 1 : h[x] = f[x]
    BY <2>1 DEF StaysBy
  <2>3. ASSUME NEW x \in i..n + 1
        PROVE  StayStep(h, list, gone, x) = StayStep(f, list, gone, x)
    <3> HIDE DEF h
    <3>1. CASE x > Len(list)
      BY <3>1 DEF StayStep
    <3>2. CASE ~(x > Len(list))
      <4>1. x + 1 \in i + 1..n + 1
        BY <3>2
      <4>2. h[x + 1] = f[x + 1]
        BY <2>2, <4>1
      <4> QED BY <4>2, Zenon DEF StayStep
    <3> QED BY <3>1, <3>2
  <2>4. h = [x \in i..n + 1 |-> StayStep(h, list, gone, x)]
    BY <2>3
  <2> HIDE DEF h
  <2>5. StaysBy(h, list, gone, i)
    BY <2>4, Zenon DEF StaysBy
  <2> QED BY <2>5
<1> HIDE DEF S
<1>3. 1 \in S
  BY <1>1, <1>2, CountDown
<1>4. \E f : StaysBy(f, list, gone, 1)
  BY <1>3 DEF S
<1> QED BY <1>4, Zenon DEF From

LEMMA FromIs ==
  ASSUME NEW list, Len(list) \in Nat, NEW gone
  PROVE  /\ From(list, gone)[Len(list) + 1] = <<>>
         /\ \A i \in 1..Len(list) :
              From(list, gone)[i] = IF i \in gone THEN From(list, gone)[i + 1] ELSE <<list[i]>> \o From(list, gone)[i + 1]
<1> DEFINE f == From(list, gone)
<1>1. StaysBy(f, list, gone, 1)
  BY FromExists
<1> HIDE DEF f
<1>2. \A i \in 1..Len(list) + 1 : f[i] = StayStep(f, list, gone, i)
  BY <1>1 DEF StaysBy
<1>3. f[Len(list) + 1] = <<>>
  <2>1. Len(list) + 1 \in 1..Len(list) + 1 /\ Len(list) + 1 > Len(list)
    OBVIOUS
  <2> QED BY <1>2, <2>1, Zenon DEF StayStep
<1>4. ASSUME NEW i \in 1..Len(list)
      PROVE  f[i] = IF i \in gone THEN f[i + 1] ELSE <<list[i]>> \o f[i + 1]
  <2>1. i \in 1..Len(list) + 1 /\ ~(i > Len(list))
    OBVIOUS
  <2> QED BY <1>2, <2>1, Zenon DEF StayStep
<1> QED BY <1>3, <1>4 DEF f

LEMMA FromTyped ==
  ASSUME NEW R, NEW list, Len(list) \in Nat, NEW gone, \A i \in 1..Len(list) : i \notin gone => list[i] \in R
  PROVE  \A i \in 1..Len(list) + 1 : From(list, gone)[i] \in Seq(R)
<1> DEFINE f == From(list, gone)
           S == {i \in 1..Len(list) + 1 : f[i] \in Seq(R)}
<1>0. Len(list) \in Nat
  OBVIOUS
<1>1. /\ f[Len(list) + 1] = <<>>
      /\ \A i \in 1..Len(list) : f[i] = IF i \in gone THEN f[i + 1] ELSE <<list[i]>> \o f[i + 1]
  BY <1>0, FromIs
<1> HIDE DEF f
<1>2. Len(list) + 1 \in S
  <2> DEFINE empty == <<>>
  <2>1. empty \in Seq(R) /\ Len(list) + 1 \in 1..Len(list) + 1
    BY <1>0
  <2>2. f[Len(list) + 1] = empty
    BY <1>1
  <2> HIDE DEF empty
  <2> QED BY <2>1, <2>2
<1>3. ASSUME NEW i \in 1..Len(list), i + 1 \in S PROVE i \in S
  <2>1. f[i + 1] \in Seq(R)
    BY <1>3
  <2>2. f[i] \in Seq(R)
    <3>1. CASE i \in gone
      <4>1. f[i] = f[i + 1]
        BY <1>1, <3>1, Zenon
      <4> QED BY <2>1, <4>1
    <3>2. CASE i \notin gone
      <4> DEFINE one == <<list[i]>>
                 rest == f[i + 1]
      <4>1. list[i] \in R
        BY <3>2
      <4>2. one \in Seq(R)
        BY <4>1
      <4>3. f[i] = one \o rest
        BY <1>1, <3>2, Zenon
      <4> HIDE DEF one
      <4> QED BY <2>1, <4>2, <4>3
    <3> QED BY <3>1, <3>2
  <2> QED BY <1>0, <2>2
<1> HIDE DEF S
<1>4. 1..Len(list) + 1 \subseteq S
  BY <1>0, <1>2, <1>3, CountDown
<1> QED BY <1>4 DEF S, f

LEMMA WithoutTyped ==
  ASSUME NEW R, NEW list, Len(list) \in Nat, NEW gone, \A i \in 1..Len(list) : i \notin gone => list[i] \in R
  PROVE  Without(list, gone) \in Seq(R)
<1>1. 1 \in 1..Len(list) + 1
  OBVIOUS
<1> QED BY <1>1, FromTyped, WithoutIsFrom

LEMMA FromAgree ==
  ASSUME NEW R, NEW list \in Seq(R), NEW gone, NEW lost, NEW m \in 1..Len(list) + 1,
         \A i \in m..Len(list) : i \in gone <=> i \in lost
  PROVE  From(list, gone)[m] = From(list, lost)[m]
<1> DEFINE f == From(list, gone)
           g == From(list, lost)
           S == {i \in 1..Len(list) + 1 : i >= m => f[i] = g[i]}
<1>0. Len(list) \in Nat
  OBVIOUS
<1>1. /\ f[Len(list) + 1] = <<>>
      /\ \A i \in 1..Len(list) : f[i] = IF i \in gone THEN f[i + 1] ELSE <<list[i]>> \o f[i + 1]
  BY <1>0, FromIs
<1>2. /\ g[Len(list) + 1] = <<>>
      /\ \A i \in 1..Len(list) : g[i] = IF i \in lost THEN g[i + 1] ELSE <<list[i]>> \o g[i + 1]
  BY <1>0, FromIs
<1> HIDE DEF f, g
<1>3. Len(list) + 1 \in S
  BY <1>0, <1>1, <1>2
<1>4. ASSUME NEW i \in 1..Len(list), i + 1 \in S PROVE i \in S
  <2> SUFFICES ASSUME i >= m PROVE f[i] = g[i]
    BY <1>0
  <2>1. f[i + 1] = g[i + 1]
    BY <1>4
  <2>2. i \in gone <=> i \in lost
    BY <1>0
  <2>3. f[i] = IF i \in gone THEN f[i + 1] ELSE <<list[i]>> \o f[i + 1]
    BY <1>1
  <2>4. g[i] = IF i \in lost THEN g[i + 1] ELSE <<list[i]>> \o g[i + 1]
    BY <1>2
  <2>5. CASE i \in gone
    BY <2>1, <2>2, <2>3, <2>4, <2>5, Zenon
  <2>6. CASE i \notin gone
    <3>1. f[i] = <<list[i]>> \o f[i + 1] /\ g[i] = <<list[i]>> \o g[i + 1]
      BY <2>2, <2>3, <2>4, <2>6, Zenon
    <3> QED BY <2>1, <3>1, Zenon
  <2> QED BY <2>5, <2>6
<1> HIDE DEF S
<1>5. 1..Len(list) + 1 \subseteq S
  BY <1>0, <1>3, <1>4, CountDown
<1>6. f[m] = g[m]
  BY <1>0, <1>5 DEF S
<1> QED BY <1>6 DEF f, g

-----------------------------------------------------------------------------
\* What an operation leaves of the marks: what it changed, it says.
Marked(c, r) ==
  /\ c.touched \subseteq r.touched
  /\ \A k \in CacheKeys \ r.touched : r.entities[k] = c.entities[k]
  /\ r.replaced \/ r.list = c.list \/ r.touched \intersect r.keys # {}
  /\ r.list = None => c.list = None

\* The entities a list may refer to.
There(c)    == {k \in c.keys : BaseOf(c, k) # None}
Listed(c)   == c.list # None => c.list \in Seq(There(c) \union {Gap})
Refers(c)   == \A k \in CacheKeys : BaseOf(c, k) # None /\ "next" \in DOMAIN BaseOf(c, k) =>
                 BaseOf(c, k)["next"] \in {None} \union {n \in CacheKeys : BaseOf(c, n) # None}
Sound(c)    == c.keys \subseteq CacheKeys /\ c.touched \subseteq CacheKeys /\ Listed(c) /\ Refers(c)

LEMMA SetBasesMarks ==
  ASSUME NEW c, CacheInv(c), NEW new, NEW spoken
  PROVE  /\ SetBases(c, new, spoken).touched = c.touched \union DOMAIN new
         /\ SetBases(c, new, spoken).replaced = c.replaced
         /\ SetBases(c, new, spoken).list = c.list /\ SetBases(c, new, spoken).keys = c.keys
         /\ \A k \in CacheKeys \ DOMAIN new : SetBases(c, new, spoken).entities[k] = c.entities[k]
<1> DEFINE layers == Overruled(c.layers, spoken)
           shadow == [k \in DOMAIN c.shadow |-> IF k \in DOMAIN new THEN new[k] ELSE c.shadow[k]]
           Now(k) == IF k \in DOMAIN c.shadow THEN Laid(layers, k, new[k]) ELSE new[k]
           entities == [k \in CacheKeys |-> IF k \in DOMAIN new THEN Now(k) ELSE c.entities[k]]
           r == SetBases(c, new, spoken)
<1>1. r = [c EXCEPT !.layers = layers, !.shadow = shadow, !.entities = entities, !.touched = c.touched \union DOMAIN new]
  BY DEF SetBases
<1>2. \A k \in CacheKeys \ DOMAIN new : entities[k] = c.entities[k]
  OBVIOUS
<1> HIDE DEF r, layers, shadow, entities
<1>3. CacheParts(c)
  BY DEF CacheInv
<1>4. /\ r.entities = entities /\ r.touched = c.touched \union DOMAIN new
      /\ r.replaced = c.replaced /\ r.list = c.list /\ r.keys = c.keys
  BY <1>1, <1>3 DEF CacheParts
<1> QED BY <1>2, <1>4 DEF r

\* What stays there, stays listed.
LEMMA ListedStill ==
  ASSUME NEW c, NEW r, Listed(c), r.list = c.list, c.keys \subseteq r.keys,
         \A k \in c.keys : BaseOf(c, k) # None => BaseOf(r, k) # None
  PROVE  Listed(r)
<1>1. There(c) \subseteq There(r)
  BY DEF There
<1>2. ASSUME r.list # None PROVE r.list \in Seq(There(r) \union {Gap})
  <2>1. r.list \in Seq(There(c) \union {Gap})
    BY <1>2 DEF Listed
  <2>2. Seq(There(c) \union {Gap}) \subseteq Seq(There(r) \union {Gap})
    BY <1>1
  <2> QED BY <2>1, <2>2
<1> QED BY <1>2 DEF Listed

LEMMA ListsAreThere ==
  ASSUME NEW S \in SUBSET CacheKeys, NEW list \in Seq(S \union {Gap})
  PROVE  list # None
<1>1. Seq(S \union {Gap}) \subseteq Seq(CacheKeys \union {Gap})
  OBVIOUS
<1> QED BY <1>1, NoneAssumption

LEMMA StoreSound ==
  ASSUME NEW c, CacheInv(c), Sound(c), NEW words, DOMAIN words \subseteq CacheKeys, \A k \in DOMAIN words : words[k] \in WordSet
  PROVE  LET r == Store(c, words) IN
         /\ CacheInv(r) /\ Sound(r) /\ Marked(c, r)
         /\ r.list = c.list /\ r.keys = c.keys /\ r.replaced = c.replaced
         /\ r.touched = c.touched \union DOMAIN words
         /\ \A k \in DOMAIN words : BaseOf(r, k) # None
         /\ \A k \in CacheKeys : BaseOf(r, k) = IF k \in DOMAIN words THEN On(words[k], BaseOf(c, k)) ELSE BaseOf(c, k)
<1> DEFINE r == Store(c, words)
<1>1. /\ CacheInv(r) /\ r.list = c.list /\ r.keys = c.keys
      /\ \A k \in CacheKeys : BaseOf(r, k) = IF k \in DOMAIN words THEN On(words[k], BaseOf(c, k)) ELSE BaseOf(c, k)
  BY StoreTells
<1>2. /\ r.touched = c.touched \union DOMAIN words /\ r.replaced = c.replaced
      /\ \A k \in CacheKeys \ DOMAIN words : r.entities[k] = c.entities[k]
  <2> DEFINE new == [k \in DOMAIN words |-> On(words[k], BaseOf(c, k))]
             spoken == [k \in DOMAIN words |-> DOMAIN words[k]]
  <2>1. DOMAIN new = DOMAIN words /\ r = SetBases(c, new, spoken)
    BY DEF Store
  <2> HIDE DEF new, spoken, r
  <2> QED BY <2>1, SetBasesMarks
<1> HIDE DEF r
<1>3. ASSUME NEW k \in DOMAIN words
      PROVE  /\ BaseOf(r, k) # None
             /\ "next" \in DOMAIN BaseOf(r, k) =>
                  /\ BaseOf(c, k) # None /\ "next" \in DOMAIN BaseOf(c, k)
                  /\ BaseOf(r, k)["next"] = BaseOf(c, k)["next"]
  <2> DEFINE w == words[k]
             e == BaseOf(c, k)
  <2>1. k \in CacheKeys /\ w \in WordSet /\ w \in Entity /\ e \in Entity \union {None} /\ BaseOf(r, k) = On(w, e)
    BY <1>1, <1>3, WordsAreEntities DEF CacheInv
  <2>2. "next" \notin DOMAIN w
    BY <2>1, WordSetIs DEF Fields
  <2> HIDE DEF w, e
  <2>3. /\ On(w, e) \in Entity /\ DOMAIN On(w, e) = Reader!Known(e) \union DOMAIN w
        /\ \A f \in Reader!Known(e) \ DOMAIN w : On(w, e)[f] = e[f]
    BY <2>1, OnIsEntity
  <2> QED BY <2>1, <2>2, <2>3, NoneIsNoEntity DEF e, Reader!Known
<1>4. \A k \in CacheKeys : BaseOf(c, k) # None => BaseOf(r, k) # None
  BY <1>1, <1>3
<1>5. Listed(r)
  BY <1>1, <1>4, ListedStill DEF Sound
<1>6. Refers(r)
  <2> SUFFICES ASSUME NEW k \in CacheKeys, BaseOf(r, k) # None, "next" \in DOMAIN BaseOf(r, k)
               PROVE  BaseOf(r, k)["next"] \in {None} \union {n \in CacheKeys : BaseOf(r, n) # None}
    BY DEF Refers
  <2>1. BaseOf(c, k) # None /\ "next" \in DOMAIN BaseOf(c, k) /\ BaseOf(r, k)["next"] = BaseOf(c, k)["next"]
    BY <1>1, <1>3
  <2>2. BaseOf(c, k)["next"] \in {None} \union {n \in CacheKeys : BaseOf(c, n) # None}
    BY <2>1 DEF Sound, Refers
  <2> QED BY <1>4, <2>1, <2>2
<1>7. Sound(r) /\ Marked(c, r)
  BY <1>1, <1>2, <1>5, <1>6 DEF Sound, Marked
<1> QED BY <1>1, <1>2, <1>3, <1>7 DEF r

-----------------------------------------------------------------------------
\* A list as insertions are made in it, one after another.
StageStep(g, base, ins, n) == IF n = 0 THEN base ELSE Splice(g[n - 1], ins[n])
StagesBy(g, base, ins, m) == g = [n \in 0..m |-> StageStep(g, base, ins, n)]
Stages(base, ins) == CHOOSE g : StagesBy(g, base, ins, Len(ins))

LEMMA DescribedIsStages ==
  \A list, op : Described(list, op) = Stages(Without(list, op.del), op.ins)[Len(op.ins)]
  BY Zenon DEF Described, Stages, StagesBy, StageStep

LEMMA StagesExist ==
  ASSUME NEW base, NEW ins, Len(ins) \in Nat
  PROVE  StagesBy(Stages(base, ins), base, ins, Len(ins))
<1> DEFINE S == {m \in Nat : \E g : StagesBy(g, base, ins, m)}
<1>1. 0 \in S
  <2> DEFINE g == [n \in 0..0 |-> base]
  <2>1. \A n \in 0..0 : StageStep(g, base, ins, n) = base
    BY DEF StageStep
  <2>2. g = [n \in 0..0 |-> StageStep(g, base, ins, n)]
    BY <2>1
  <2> HIDE DEF g
  <2>3. StagesBy(g, base, ins, 0)
    BY <2>2, Zenon DEF StagesBy
  <2> QED BY <2>3
<1>2. ASSUME NEW m \in Nat, m \in S PROVE m + 1 \in S
  <2>1. PICK g : StagesBy(g, base, ins, m)
    BY <1>2
  <2> DEFINE h == [n \in 0..m + 1 |-> StageStep(g, base, ins, n)]
  <2>2. \A n \in 0..m : h[n] = g[n]
    BY <2>1 DEF StagesBy
  <2>3. ASSUME NEW n \in 0..m + 1
        PROVE  StageStep(h, base, ins, n) = StageStep(g, base, ins, n)
    <3> HIDE DEF h
    <3>1. CASE n = 0
      BY <3>1 DEF StageStep
    <3>2. CASE n # 0
      <4>1. n - 1 \in 0..m
        BY <3>2
      <4>2. h[n - 1] = g[n - 1]
        BY <2>2, <4>1
      <4> QED BY <4>2, Zenon DEF StageStep
    <3> QED BY <3>1, <3>2
  <2>4. h = [n \in 0..m + 1 |-> StageStep(h, base, ins, n)]
    BY <2>3
  <2> HIDE DEF h
  <2>5. StagesBy(h, base, ins, m + 1)
    BY <2>4, Zenon DEF StagesBy
  <2> QED BY <2>5
<1> HIDE DEF S
<1>3. Len(ins) \in S
  BY <1>1, <1>2, Counting
<1>4. \E g : StagesBy(g, base, ins, Len(ins))
  BY <1>3 DEF S
<1> QED BY <1>4, Zenon DEF Stages

LEMMA StagesAre ==
  ASSUME NEW base, NEW ins, Len(ins) \in Nat
  PROVE  /\ Stages(base, ins)[0] = base
         /\ \A n \in 1..Len(ins) : Stages(base, ins)[n] = Splice(Stages(base, ins)[n - 1], ins[n])
<1> DEFINE g == Stages(base, ins)
<1>1. StagesBy(g, base, ins, Len(ins))
  BY StagesExist
<1> HIDE DEF g
<1>2. \A n \in 0..Len(ins) : g[n] = StageStep(g, base, ins, n)
  BY <1>1 DEF StagesBy
<1>3. g[0] = base
  BY <1>2 DEF StageStep
<1>4. ASSUME NEW n \in 1..Len(ins) PROVE g[n] = Splice(g[n - 1], ins[n])
  <2>1. n \in 0..Len(ins) /\ n # 0
    OBVIOUS
  <2> QED BY <1>2, <2>1, Zenon DEF StageStep
<1> QED BY <1>3, <1>4 DEF g

LEMMA SpliceTyped ==
  ASSUME NEW R, NEW s \in Seq(R), NEW x, x.at \in Nat \ {0}, x.row.key \in R
  PROVE  Splice(s, x) \in Seq(R)
<1> DEFINE i == IF x.at > Len(s) THEN Len(s) + 1 ELSE x.at
<1>1. i \in 1..Len(s) + 1
  OBVIOUS
<1> HIDE DEF i
<1>2. InsertAt(s, i, x.row.key) \in Seq(R)
  BY <1>1, Splicing
<1> QED BY <1>2, Zenon DEF Splice, i

LEMMA StagesTyped ==
  ASSUME NEW R, NEW base \in Seq(R), NEW ins, Len(ins) \in Nat,
         \A n \in 1..Len(ins) : ins[n].at \in Nat \ {0} /\ ins[n].row.key \in R
  PROVE  \A n \in 0..Len(ins) : Stages(base, ins)[n] \in Seq(R)
<1> DEFINE g == Stages(base, ins)
           S == {n \in Nat : n <= Len(ins) => g[n] \in Seq(R)}
<1>1. g[0] = base /\ \A n \in 1..Len(ins) : g[n] = Splice(g[n - 1], ins[n])
  BY StagesAre
<1> HIDE DEF g
<1>2. 0 \in S
  BY <1>1
<1>3. ASSUME NEW m \in Nat, m \in S PROVE m + 1 \in S
  <2> SUFFICES ASSUME m + 1 <= Len(ins) PROVE g[m + 1] \in Seq(R)
    OBVIOUS
  <2>1. m + 1 \in 1..Len(ins) /\ (m + 1) - 1 = m
    OBVIOUS
  <2>2. g[m + 1] = Splice(g[m], ins[m + 1])
    BY <1>1, <2>1
  <2>3. g[m] \in Seq(R) /\ ins[m + 1].at \in Nat \ {0} /\ ins[m + 1].row.key \in R
    BY <1>3, <2>1
  <2> QED BY <2>2, <2>3, SpliceTyped
<1> HIDE DEF S
<1>4. Nat \subseteq S
  BY <1>2, <1>3, Counting
<1> QED BY <1>4 DEF S, g

LEMMA DescribedTyped ==
  ASSUME NEW R, NEW list \in Seq(R), NEW op, Len(op.ins) \in Nat,
         \A n \in 1..Len(op.ins) : op.ins[n].at \in Nat \ {0} /\ op.ins[n].row.key \in R
  PROVE  Described(list, op) \in Seq(R)
<1> DEFINE base == Without(list, op.del)
           ins == op.ins
<1>1. base \in Seq(R)
  BY WithoutTyped
<1> HIDE DEF base
<1>2. Len(ins) \in 0..Len(ins)
  OBVIOUS
<1> HIDE DEF ins
<1>3. Stages(base, ins)[Len(ins)] \in Seq(R)
  BY <1>1, <1>2, StagesTyped DEF ins
<1> QED BY <1>3, DescribedIsStages DEF base, ins

-----------------------------------------------------------------------------
WordsAre(rs) == DOMAIN WordsOf(rs) = {rs[i].key : i \in DOMAIN rs} /\ \A k \in DOMAIN WordsOf(rs) : WordsOf(rs)[k] \in WordSet

LEMMA WordsTyped ==
  ASSUME NEW rs, \A i \in DOMAIN rs : rs[i] \in RowSet
  PROVE  WordsAre(rs) /\ DOMAIN WordsOf(rs) \subseteq CacheKeys
<1>1. DOMAIN WordsOf(rs) = {rs[i].key : i \in DOMAIN rs}
  BY DEF WordsOf
<1>2. \A k \in DOMAIN WordsOf(rs) : WordsOf(rs)[k] \in WordSet
  BY WordsOfRows
<1>3. \A i \in DOMAIN rs : rs[i].key \in CacheKeys
  BY DEF RowSet
<1> QED BY <1>1, <1>2, <1>3 DEF WordsAre

LEMMA PutResultSound ==
  ASSUME NEW c, CacheInv(c), Sound(c), NEW rs \in Seq(RowSet)
  PROVE  /\ CacheInv(PutResult(c, rs)) /\ Sound(PutResult(c, rs)) /\ Marked(c, PutResult(c, rs))
         /\ PutResult(c, rs).list = [i \in DOMAIN rs |-> rs[i].key]
         /\ \A k \in CacheKeys : BaseOf(PutResult(c, rs), k) =
              IF k \in DOMAIN WordsOf(rs) THEN On(WordsOf(rs)[k], BaseOf(c, k)) ELSE BaseOf(c, k)
<1> DEFINE words == WordsOf(rs)
           s == Store(c, words)
           list == [i \in DOMAIN rs |-> rs[i].key]
           ks == {rs[i].key : i \in DOMAIN rs}
           r == PutResult(c, rs)
<1>0. \A i \in DOMAIN rs : rs[i] \in RowSet
  OBVIOUS
<1>1. DOMAIN words = ks /\ DOMAIN words \subseteq CacheKeys /\ \A k \in DOMAIN words : words[k] \in WordSet
  <2>1. WordsAre(rs) /\ DOMAIN WordsOf(rs) \subseteq CacheKeys
    BY <1>0, WordsTyped
  <2> QED BY <2>1, Zenon DEF WordsAre
<1>2. r = [s EXCEPT !.list = list, !.keys = ks, !.replaced = TRUE]
  BY DEF PutResult
<1> HIDE DEF words
<1>3. /\ CacheInv(s) /\ Sound(s) /\ Marked(c, s)
      /\ \A k \in DOMAIN words : BaseOf(s, k) # None
      /\ \A k \in CacheKeys : BaseOf(s, k) = IF k \in DOMAIN words THEN On(words[k], BaseOf(c, k)) ELSE BaseOf(c, k)
  BY <1>1, StoreSound
<1> HIDE DEF s, r
<1>4. /\ SameEntities(s, r) /\ r.list = list /\ r.keys = ks /\ r.replaced = TRUE /\ r.touched = s.touched
  BY <1>2, <1>3 DEF CacheInv, CacheParts, SameEntities
<1>5. CacheInv(r) /\ \A k : BaseOf(r, k) = BaseOf(s, k)
  BY <1>3, <1>4, SameEntitiesHold
<1>6. list \in Seq(There(r) \union {Gap})
  <2>1. \A k \in ks : k \in There(r)
    BY <1>1, <1>3, <1>4, <1>5 DEF There
  <2> QED BY <2>1
<1> HIDE DEF list, ks
<1>7. Refers(r)
  BY <1>3, <1>5 DEF Refers, Sound
<1>8. Sound(r)
  BY <1>1, <1>3, <1>4, <1>6, <1>7 DEF Sound, Listed
<1>9. Marked(c, r)
  <2>1. r.list # None
    BY <1>4, <1>6, <1>8, ListsAreThere DEF There, Sound
  <2> QED BY <1>3, <1>4, <2>1 DEF Marked, SameEntities
<1>10. \A k \in CacheKeys : BaseOf(r, k) = IF k \in DOMAIN words THEN On(words[k], BaseOf(c, k)) ELSE BaseOf(c, k)
  BY <1>3, <1>5
<1>11. r.list = [i \in DOMAIN rs |-> rs[i].key]
  BY <1>4 DEF list
<1> QED BY <1>5, <1>8, <1>9, <1>10, <1>11, Zenon DEF r, words

LEMMA MergeAtSound ==
  ASSUME NEW c, CacheInv(c), Sound(c), NEW at, NEW fields \in WordSet
  PROVE  /\ CacheInv(MergeAt(c, at, fields)) /\ Sound(MergeAt(c, at, fields)) /\ Marked(c, MergeAt(c, at, fields))
         /\ MergeAt(c, at, fields).list = c.list
         /\ c.list # None /\ at \in DOMAIN c.list =>
              \A k \in CacheKeys : BaseOf(MergeAt(c, at, fields), k) =
                IF c.list[at] # Gap /\ k = c.list[at] THEN On(fields, BaseOf(c, k)) ELSE BaseOf(c, k)
<1> DEFINE r == MergeAt(c, at, fields)
<1>1. CASE c.list = None \/ at \notin DOMAIN c.list
  <2>1. r = c
    BY <1>1 DEF MergeAt
  <2>2. Marked(c, c)
    BY DEF Marked
  <2> QED BY <1>1, <2>1, <2>2
<1>2. CASE ~(c.list = None \/ at \notin DOMAIN c.list)
  <2> DEFINE k == c.list[at]
             words == [x \in {k} |-> fields]
             m == IF k = Gap THEN c ELSE Store(c, words)
  <2>1. r = [m EXCEPT !.keys = m.keys \union m.touched, !.replaced = TRUE]
    BY <1>2 DEF MergeAt
  <2>2. k \in CacheKeys \union {Gap}
    <3>1. c.list \in Seq(There(c) \union {Gap}) /\ There(c) \subseteq CacheKeys
      BY <1>2 DEF Sound, Listed, There
    <3> QED BY <1>2, <3>1
  <2>3. /\ CacheInv(m) /\ Sound(m) /\ Marked(c, m) /\ m.list = c.list /\ c.keys = m.keys
        /\ \A x \in CacheKeys : BaseOf(m, x) = IF k # Gap /\ x = k THEN On(fields, BaseOf(c, x)) ELSE BaseOf(c, x)
    <3>1. CASE k = Gap
      <4>1. m = c /\ Marked(c, c)
        BY <3>1 DEF Marked
      <4> QED BY <3>1, <4>1
    <3>2. CASE k # Gap
      <4>1. m = Store(c, words) /\ DOMAIN words = {k} /\ words[k] = fields /\ k \in CacheKeys
        BY <2>2, <3>2
      <4> HIDE DEF m, words
      <4>2. /\ CacheInv(m) /\ Sound(m) /\ Marked(c, m) /\ m.list = c.list /\ m.keys = c.keys
            /\ \A x \in CacheKeys : BaseOf(m, x) = IF x \in DOMAIN words THEN On(words[x], BaseOf(c, x)) ELSE BaseOf(c, x)
        BY <4>1, StoreSound
      <4>3. ASSUME NEW x \in CacheKeys
            PROVE  BaseOf(m, x) = IF k # Gap /\ x = k THEN On(fields, BaseOf(c, x)) ELSE BaseOf(c, x)
        <5>1. CASE x = k
          BY <3>2, <4>1, <4>2, <5>1
        <5>2. CASE x # k
          BY <4>1, <4>2, <5>2
        <5> QED BY <5>1, <5>2
      <4> QED BY <4>2, <4>3
    <3> QED BY <3>1, <3>2
  <2> HIDE DEF m, r, words
  <2>4. /\ SameEntities(m, r) /\ r.list = m.list /\ r.keys = m.keys \union m.touched
        /\ r.replaced = TRUE /\ r.touched = m.touched
    BY <2>1, <2>3 DEF CacheInv, CacheParts, SameEntities
  <2>5. CacheInv(r) /\ \A x : BaseOf(r, x) = BaseOf(m, x)
    BY <2>3, <2>4, SameEntitiesHold
  <2>6. Listed(r)
    BY <2>3, <2>4, <2>5, ListedStill DEF Sound
  <2>7. Refers(r)
    BY <2>3, <2>5 DEF Refers, Sound
  <2>8. Sound(r) /\ Marked(c, r)
    BY <2>3, <2>4, <2>6, <2>7 DEF Sound, Marked, SameEntities
  <2> QED BY <2>3, <2>4, <2>5, <2>8 DEF r
<1> QED BY <1>1, <1>2

LEMMA ApplyListSound ==
  ASSUME NEW c, CacheInv(c), Sound(c), NEW op \in Descriptions(FullRow)
  PROVE  /\ CacheInv(ApplyList(c, op)) /\ Sound(ApplyList(c, op)) /\ Marked(c, ApplyList(c, op))
         /\ c.list # None =>
              /\ ApplyList(c, op).list = Described(c.list, op)
              /\ \A k \in CacheKeys : BaseOf(ApplyList(c, op), k) =
                   IF k \in DOMAIN WordsOf([n \in DOMAIN op.ins |-> op.ins[n].row])
                   THEN On(WordsOf([n \in DOMAIN op.ins |-> op.ins[n].row])[k], BaseOf(c, k)) ELSE BaseOf(c, k)
<1> DEFINE rs == [n \in DOMAIN op.ins |-> op.ins[n].row]
           words == WordsOf(rs)
           s == Store(c, words)
           r == ApplyList(c, op)
<1>0. /\ op.ins \in Seq(Insertions(FullRow)) /\ Len(op.ins) \in Nat
      /\ \A n \in DOMAIN op.ins : op.ins[n].row \in RowSet /\ op.ins[n].at \in Nat \ {0}
  <2>1. op.ins \in Seq(Insertions(FullRow))
    BY DEF Descriptions
  <2> DEFINE ins == op.ins
             I == Insertions(FullRow)
  <2>2. \A x \in I : x.row \in RowSet /\ x.at \in Nat \ {0}
    BY FullRows DEF Insertions
  <2>3. ins \in Seq(I)
    BY <2>1
  <2> HIDE DEF I, ins
  <2>4. Len(ins) \in Nat /\ \A n \in DOMAIN ins : ins[n] \in I
    BY <2>3
  <2> QED BY <2>1, <2>2, <2>4 DEF ins
<1>1. CASE c.list = None
  <2>1. r = c
    BY <1>1 DEF ApplyList
  <2>2. Marked(c, c)
    BY DEF Marked
  <2> QED BY <1>1, <2>1, <2>2
<1>2. CASE c.list # None
  <2> DEFINE list == Described(c.list, op)
  <2>1. r = [s EXCEPT !.list = Described(s.list, op), !.keys = s.keys \union s.touched, !.replaced = TRUE]
    BY <1>2 DEF ApplyList
  <2>2. /\ DOMAIN words = {op.ins[n].row.key : n \in DOMAIN op.ins} /\ DOMAIN words \subseteq CacheKeys
        /\ \A k \in DOMAIN words : words[k] \in WordSet
    <3>1. DOMAIN rs = DOMAIN op.ins /\ \A n \in DOMAIN rs : rs[n] = op.ins[n].row
      OBVIOUS
    <3> HIDE DEF rs
    <3>2. WordsAre(rs) /\ DOMAIN WordsOf(rs) \subseteq CacheKeys
      BY <1>0, <3>1, WordsTyped
    <3> QED BY <3>1, <3>2 DEF WordsAre
  <2> HIDE DEF words, rs
  <2>3. /\ CacheInv(s) /\ Sound(s) /\ Marked(c, s) /\ s.list = c.list /\ s.keys = c.keys
        /\ s.touched = c.touched \union DOMAIN words
        /\ \A k \in DOMAIN words : BaseOf(s, k) # None
        /\ \A k \in CacheKeys : BaseOf(s, k) = IF k \in DOMAIN words THEN On(words[k], BaseOf(c, k)) ELSE BaseOf(c, k)
    BY <2>2, StoreSound
  <2> HIDE DEF s, r
  <2>4. /\ SameEntities(s, r) /\ r.list = list /\ r.keys = s.keys \union s.touched
        /\ r.replaced = TRUE /\ r.touched = s.touched
    BY <2>1, <2>3 DEF CacheInv, CacheParts, SameEntities
  <2>5. CacheInv(r) /\ \A k : BaseOf(r, k) = BaseOf(s, k)
    BY <2>3, <2>4, SameEntitiesHold
  <2>6. list \in Seq(There(r) \union {Gap})
    <3>1. c.list \in Seq(There(s) \union {Gap})
      BY <1>2, <2>3 DEF Sound, Listed
    <3>2. There(s) \subseteq There(r) /\ DOMAIN words \subseteq There(r)
      BY <2>2, <2>3, <2>4, <2>5 DEF There
    <3>3. c.list \in Seq(There(r) \union {Gap})
      BY <3>1, <3>2
    <3>4. \A n \in 1..Len(op.ins) : op.ins[n].at \in Nat \ {0} /\ op.ins[n].row.key \in There(r) \union {Gap}
      BY <1>0, <2>2, <3>2
    <3> QED BY <1>0, <3>3, <3>4, DescribedTyped
  <2> HIDE DEF list
  <2>7. Refers(r)
    BY <2>3, <2>5 DEF Refers, Sound
  <2>8. r.keys \subseteq CacheKeys /\ r.touched \subseteq CacheKeys
    BY <2>3, <2>4 DEF Sound
  <2>9. Sound(r)
    BY <2>4, <2>6, <2>7, <2>8 DEF Sound, Listed
  <2>10. Marked(c, r)
    <3>1. There(r) \subseteq CacheKeys
      BY <2>8 DEF There
    <3>2. r.list # None
      BY <2>4, <2>6, <3>1, ListsAreThere
    <3> QED BY <2>3, <2>4, <3>2 DEF Marked, SameEntities
  <2>11. \A k \in CacheKeys : BaseOf(r, k) = IF k \in DOMAIN words THEN On(words[k], BaseOf(c, k)) ELSE BaseOf(c, k)
    BY <2>3, <2>5
  <2>12. r.list = Described(c.list, op)
    BY <2>4 DEF list
  <2> QED BY <1>2, <2>5, <2>9, <2>10, <2>11, <2>12, Zenon DEF r, words, rs
<1> QED BY <1>1, <1>2

LEMMA MarkedTwice ==
  ASSUME NEW a, NEW b, NEW c, Marked(a, b), Marked(b, c), b.list = a.list
  PROVE  Marked(a, c)
  BY DEF Marked

LEMMA AbsorbSound ==
  ASSUME NEW c, CacheInv(c), Sound(c), NEW f \in Frames
  PROVE  CacheInv(Absorb(c, f)) /\ Sound(Absorb(c, f)) /\ Marked(c, Absorb(c, f))
<1> DEFINE r == Absorb(c, f)
<1>0. CacheInv(r)
  BY AbsorbTells
<1>1. CASE f.kind = "data"
  <2>1. r = PutResult(c, f.rows)
    BY <1>1 DEF Absorb
  <2>2. f.rows \in Seq(RowSet)
    BY <1>1, FramesTyped
  <2>3. Sound(PutResult(c, f.rows)) /\ Marked(c, PutResult(c, f.rows))
    BY <2>2, PutResultSound
  <2> QED BY <1>0, <2>1, <2>3
<1>2. CASE f.kind = "at"
  <2>1. r = MergeAt(c, f.at, f.fields)
    BY <1>2 DEF Absorb
  <2>2. f.fields \in WordSet
    BY <1>2, FramesTyped
  <2> QED BY <1>0, <2>1, <2>2, MergeAtSound
<1>3. CASE f.kind = "patch"
  <2> DEFINE s == Store(c, f.sets)
  <2>1. /\ f.sets \in OpsSet /\ f.list \in Descriptions(FullRow)
        /\ DOMAIN f.sets \subseteq CacheKeys /\ \A k \in DOMAIN f.sets : f.sets[k] \in WordSet
    BY <1>3, FramesTyped, OpsSetIs
  <2>2. CacheInv(s) /\ Sound(s) /\ Marked(c, s) /\ s.list = c.list
    BY <2>1, StoreSound
  <2>3. r = s \/ r = ApplyList(s, f.list)
    BY <1>3 DEF Absorb
  <2> HIDE DEF s, r
  <2>4. CASE r = s
    BY <1>0, <2>2, <2>4 DEF r
  <2>5. CASE r = ApplyList(s, f.list)
    <3>1. Sound(r) /\ Marked(s, r)
      BY <2>1, <2>2, <2>5, ApplyListSound
    <3>2. Marked(c, r)
      BY <2>2, <3>1, MarkedTwice
    <3> QED BY <1>0, <3>1, <3>2 DEF r
  <2> QED BY <2>3, <2>4, <2>5
<1> QED BY <1>1, <1>2, <1>3, FramesTyped

\* A reference is to an entity whose fields come with it.
LEMMA MergeSound ==
  ASSUME NEW c, CacheInv(c), Sound(c), NEW k \in CacheKeys, NEW inner \in CacheKeys, inner # k, NEW w \in WordSet,
         NEW link, Links(link, inner), NEW nested, nested = [x \in {inner} |-> w]
  PROVE  /\ Sound(Merge(c, k, link, nested)) /\ Marked(c, Merge(c, k, link, nested))
         /\ Merge(c, k, link, nested).list = c.list
         /\ \A x \in CacheKeys \ {k, inner} : BaseOf(Merge(c, k, link, nested), x) = BaseOf(c, x)
<1> DEFINE s == Store(c, nested)
           new == [x \in {k} |-> On(link, BaseOf(c, k))]
           spoken == [x \in {k} |-> DOMAIN link]
           r == SetBases(s, new, spoken)
<1>1. Merge(c, k, link, nested) = r
  BY DEF Merge
<1>2. /\ DOMAIN nested = {inner} /\ nested[inner] = w
      /\ DOMAIN link = {"next"} /\ link["next"] = inner
      /\ DOMAIN new = {k} /\ new[k] = On(link, BaseOf(c, k)) /\ DOMAIN spoken = {k}
  BY DEF Links
<1>3. link \in Entity
  BY <1>2, EntityIs DEF Links
<1>4. /\ CacheInv(s) /\ Sound(s) /\ Marked(c, s) /\ s.list = c.list /\ s.keys = c.keys
      /\ s.touched = c.touched \union {inner} /\ BaseOf(s, inner) # None
      /\ \A x \in CacheKeys \ {inner} : BaseOf(s, x) = BaseOf(c, x)
  <2> HIDE DEF s
  <2>1. /\ CacheInv(s) /\ Sound(s) /\ Marked(c, s) /\ s.list = c.list /\ s.keys = c.keys
        /\ s.touched = c.touched \union DOMAIN nested
        /\ \A x \in DOMAIN nested : BaseOf(s, x) # None
        /\ \A x \in CacheKeys : BaseOf(s, x) = IF x \in DOMAIN nested THEN On(nested[x], BaseOf(c, x)) ELSE BaseOf(c, x)
    BY <1>2, StoreSound DEF s
  <2> QED BY <1>2, <2>1
<1> HIDE DEF s
<1>5. /\ new[k] \in Entity /\ new[k]["next"] = inner
  <2> DEFINE e == BaseOf(c, k)
  <2>1. e \in Entity \union {None} /\ new[k] = On(link, e)
    BY <1>2 DEF CacheInv
  <2> HIDE DEF e, new
  <2>2. On(link, e) \in Entity /\ \A f \in DOMAIN link : On(link, e)[f] = link[f]
    BY <1>3, <2>1, OnIsEntity
  <2> QED BY <1>2, <2>1, <2>2
<1> HIDE DEF new, spoken
<1>6. \A x \in CacheKeys : BaseOf(r, x) = IF x = k THEN new[k] ELSE BaseOf(s, x)
  <2>1. DOMAIN spoken \subseteq DOMAIN new /\ \A x \in DOMAIN new \intersect CacheKeys : new[x] \in Entity \union {None}
    BY <1>2, <1>5
  <2>2. Rebases(s, r, new)
    BY <1>4, <2>1, SetBasesResult, Zenon
  <2> QED BY <1>2, <2>2 DEF Rebases
<1>7. /\ r.touched = s.touched \union {k} /\ r.list = s.list /\ r.keys = s.keys
      /\ \A x \in CacheKeys \ {k} : r.entities[x] = s.entities[x]
  <2>1. /\ r.touched = s.touched \union DOMAIN new /\ r.list = s.list /\ r.keys = s.keys
        /\ \A x \in CacheKeys \ DOMAIN new : r.entities[x] = s.entities[x]
    BY <1>4, SetBasesMarks
  <2> QED BY <1>2, <2>1
<1> HIDE DEF r
<1>8. \A x \in CacheKeys : BaseOf(s, x) # None => BaseOf(r, x) # None
  BY <1>5, <1>6, NoneIsNoEntity
<1>9. Listed(r)
  BY <1>4, <1>7, <1>8, ListedStill DEF Sound
<1>10. Refers(r)
  <2> SUFFICES ASSUME NEW x \in CacheKeys, BaseOf(r, x) # None, "next" \in DOMAIN BaseOf(r, x)
               PROVE  BaseOf(r, x)["next"] \in {None} \union {n \in CacheKeys : BaseOf(r, n) # None}
    BY DEF Refers
  <2>1. CASE x = k
    BY <1>4, <1>5, <1>6, <1>8, <2>1
  <2>2. CASE x # k
    <3>1. BaseOf(r, x) = BaseOf(s, x)
      BY <1>6, <2>2
    <3>2. BaseOf(s, x)["next"] \in {None} \union {n \in CacheKeys : BaseOf(s, n) # None}
      BY <1>4, <3>1 DEF Sound, Refers
    <3> QED BY <1>8, <3>1, <3>2
  <2> QED BY <2>1, <2>2
<1>11. r.keys \subseteq CacheKeys /\ r.touched \subseteq CacheKeys
  BY <1>4, <1>7 DEF Sound
<1>12. Sound(r)
  BY <1>9, <1>10, <1>11 DEF Sound
<1>13. Marked(s, r)
  BY <1>7 DEF Marked
<1>14. Marked(c, r)
  BY <1>4, <1>13, MarkedTwice
<1> QED BY <1>1, <1>4, <1>6, <1>7, <1>12, <1>14

\* What refers to an entity that goes is cleared, and only that.
LEMMA DeleteSound ==
  ASSUME NEW c, CacheInv(c), Sound(c), NEW k \in CacheKeys
  PROVE  /\ Sound(Delete(c, k)) /\ Marked(c, Delete(c, k))
         /\ Delete(c, k).list = IF c.list # None /\ k \in c.keys THEN DropRef(c.list, k) ELSE c.list
         /\ \A h \in CacheKeys \ {k} : BaseOf(c, h) = None \/ "next" \notin DOMAIN BaseOf(c, h) => BaseOf(Delete(c, k), h) = BaseOf(c, h)
<1> DEFINE Cleared(e) == [f \in DOMAIN e |-> IF e[f] = k THEN None ELSE e[f]]
           new == [h \in {k} \union Holders(c, k) |-> IF h = k THEN None ELSE Cleared(BaseOf(c, h))]
           a == SetBases(c, new, <<>>)
           r == Delete(c, k)
           none == <<>>
           list == IF a.list # None /\ k \in a.keys THEN DropRef(a.list, k) ELSE a.list
<1>1. r = [a EXCEPT !.list = IF a.list # None /\ k \in c.keys THEN DropRef(a.list, k) ELSE a.list]
  BY Zenon DEF Delete
<1>2. ASSUME NEW h \in Holders(c, k)
      PROVE  /\ h \in CacheKeys /\ h # k /\ BaseOf(c, h) # None /\ "next" \in DOMAIN BaseOf(c, h)
             /\ Cleared(BaseOf(c, h)) \in Entity
             /\ Cleared(BaseOf(c, h))["next"] \in {None, BaseOf(c, h)["next"]} \ {k}
             /\ DOMAIN Cleared(BaseOf(c, h)) = DOMAIN BaseOf(c, h)
  <2>1. h \in CacheKeys /\ h # k /\ BaseOf(c, h) # None /\ \E f \in DOMAIN BaseOf(c, h) : BaseOf(c, h)[f] = k
    BY DEF Holders
  <2>2. BaseOf(c, h) \in Entity
    BY <2>1 DEF CacheInv
  <2> DEFINE e == BaseOf(c, h)
  <2> HIDE DEF e
  <2>3. /\ e = [f \in DOMAIN e |-> e[f]] /\ DOMAIN e \subseteq Fields \union {"next"}
        /\ \A f \in DOMAIN e : e[f] \in IF f = "next" THEN CacheKeys \union {None} ELSE {0, 1}
    BY <2>2, EntityIs DEF e
  <2>4. \A f \in DOMAIN e : e[f] = k => f = "next"
    BY <2>3, NoneAssumption
  <2>5. DOMAIN Cleared(e) = DOMAIN e /\ \A f \in DOMAIN e : Cleared(e)[f] = IF e[f] = k THEN None ELSE e[f]
    OBVIOUS
  <2>6. \A f \in DOMAIN e : Cleared(e)[f] \in IF f = "next" THEN CacheKeys \union {None} ELSE {0, 1}
    BY <2>3, <2>4, <2>5
  <2>7. Cleared(e) = [f \in DOMAIN Cleared(e) |-> Cleared(e)[f]]
    OBVIOUS
  <2> HIDE DEF Cleared
  <2>8. Cleared(e) \in Entity
    BY <2>3, <2>5, <2>6, <2>7, EntityIs
  <2>9. "next" \in DOMAIN e
    BY <2>1, <2>4 DEF e
  <2>10. Cleared(e)["next"] \in {None, e["next"]} \ {k}
    BY <2>5, <2>9, NoneAssumption
  <2> QED BY <2>1, <2>5, <2>8, <2>9, <2>10 DEF e
<1>3. /\ DOMAIN new = {k} \union Holders(c, k) /\ new[k] = None /\ DOMAIN none = {}
      /\ \A h \in Holders(c, k) : new[h] = Cleared(BaseOf(c, h))
  BY <1>2
<1> HIDE DEF Cleared, new, none
<1>4. \A h \in DOMAIN new \intersect CacheKeys : new[h] \in Entity \union {None}
  BY <1>2, <1>3
<1>5. /\ CacheInv(a) /\ a.list = c.list /\ a.keys = c.keys
      /\ \A h \in CacheKeys : BaseOf(a, h) = IF h \in DOMAIN new THEN new[h] ELSE BaseOf(c, h)
  <2>1. DOMAIN none \subseteq DOMAIN new
    BY <1>3
  <2>2. Rebases(c, a, new)
    BY <1>4, <2>1, SetBasesResult, Zenon DEF none
  <2> QED BY <2>2, Zenon DEF Rebases
<1>6. /\ a.touched = c.touched \union DOMAIN new
      /\ \A h \in CacheKeys \ DOMAIN new : a.entities[h] = c.entities[h]
  BY SetBasesMarks
<1> HIDE DEF a, r
<1>7. /\ SameEntities(a, r) /\ r.list = list /\ r.keys = a.keys /\ r.touched = a.touched
  BY <1>1, <1>5 DEF CacheInv, CacheParts, SameEntities
<1>8. \A h : BaseOf(r, h) = BaseOf(a, h)
  BY <1>5, <1>7, SameEntitiesHold
<1>9. \A h \in CacheKeys \ {k} : BaseOf(c, h) # None => BaseOf(r, h) # None
  BY <1>2, <1>3, <1>5, <1>8, NoneIsNoEntity
<1>10. Refers(r)
  <2> SUFFICES ASSUME NEW h \in CacheKeys, BaseOf(r, h) # None, "next" \in DOMAIN BaseOf(r, h)
               PROVE  BaseOf(r, h)["next"] \in {None} \union {n \in CacheKeys : BaseOf(r, n) # None}
    BY DEF Refers
  <2>1. h # k
    BY <1>3, <1>5, <1>8
  <2>2. CASE h \in Holders(c, k)
    <3>1. BaseOf(r, h)["next"] \in {None, BaseOf(c, h)["next"]} \ {k}
      BY <1>2, <1>3, <1>5, <1>8, <2>2
    <3>2. BaseOf(c, h)["next"] \in {None} \union {n \in CacheKeys : BaseOf(c, n) # None}
      BY <1>2, <2>2 DEF Sound, Refers
    <3> QED BY <1>9, <3>1, <3>2
  <2>3. CASE h \notin Holders(c, k)
    <3>1. BaseOf(r, h) = BaseOf(c, h)
      BY <1>3, <1>5, <1>8, <2>1, <2>3
    <3>2. BaseOf(c, h)["next"] \in {None} \union {n \in CacheKeys : BaseOf(c, n) # None}
      BY <3>1 DEF Sound, Refers
    <3>3. BaseOf(c, h)["next"] # k
      BY <2>1, <2>3, <3>1 DEF Holders
    <3> QED BY <1>9, <3>1, <3>2, <3>3
  <2> QED BY <2>2, <2>3
<1>11. Listed(r)
  <2> SUFFICES ASSUME r.list # None PROVE r.list \in Seq(There(r) \union {Gap})
    BY DEF Listed
  <2>1. There(c) \ {k} \subseteq There(r)
    BY <1>5, <1>7, <1>9 DEF There, Sound
  <2>2. c.list \in Seq(There(c) \union {Gap})
    BY <1>5, <1>7 DEF Listed, Sound
  <2>3. CASE k \in c.keys
    <3> DEFINE l == c.list
    <3>1. r.list = [i \in DOMAIN l |-> IF l[i] = k THEN Gap ELSE l[i]]
      BY <1>5, <1>7, <2>3 DEF DropRef
    <3> HIDE DEF l
    <3>2. l \in Seq(There(c) \union {Gap})
      BY <2>2 DEF l
    <3> QED BY <2>1, <3>1, <3>2
  <2>4. CASE k \notin c.keys
    <3>1. r.list = c.list /\ There(c) \subseteq There(r)
      BY <1>5, <1>7, <2>1, <2>4 DEF There
    <3>2. Seq(There(c) \union {Gap}) \subseteq Seq(There(r) \union {Gap})
      BY <3>1
    <3> QED BY <2>2, <3>1, <3>2
  <2> QED BY <2>3, <2>4
<1>12. r.keys \subseteq CacheKeys /\ r.touched \subseteq CacheKeys
  BY <1>2, <1>3, <1>5, <1>6, <1>7 DEF Sound
<1>13. Sound(r)
  BY <1>10, <1>11, <1>12 DEF Sound
<1>14. Marked(c, r)
  <2>1. c.touched \subseteq r.touched /\ \A h \in CacheKeys \ r.touched : r.entities[h] = c.entities[h]
    BY <1>6, <1>7 DEF SameEntities
  <2>2. r.list = c.list \/ r.touched \intersect r.keys # {}
    BY <1>3, <1>5, <1>6, <1>7
  <2>3. c.list # None => r.list # None
    <3>1. There(c) \subseteq CacheKeys
      BY DEF There, Sound
    <3>2. c.list # None => c.list \in Seq(CacheKeys \union {Gap})
      <4>1. Seq(There(c) \union {Gap}) \subseteq Seq(CacheKeys \union {Gap})
        BY <3>1
      <4> QED BY <4>1 DEF Sound, Listed
    <3> DEFINE l == c.list
    <3>3. c.list # None => DropRef(l, k) \in Seq(CacheKeys \union {Gap})
      <4> HIDE DEF l
      <4>1. l \in Seq(CacheKeys \union {Gap}) => DropRef(l, k) \in Seq(CacheKeys \union {Gap})
        BY DEF DropRef
      <4> QED BY <3>2, <4>1 DEF l
    <3>4. r.list = DropRef(l, k) \/ r.list = l
      BY <1>5, <1>7
    <3> QED BY <3>3, <3>4, NoneAssumption
  <2> QED BY <2>1, <2>2, <2>3 DEF Marked
<1>15. r.list = IF c.list # None /\ k \in c.keys THEN DropRef(c.list, k) ELSE c.list
  BY <1>5, <1>7
<1>16. ASSUME NEW h \in CacheKeys \ {k}, BaseOf(c, h) = None \/ "next" \notin DOMAIN BaseOf(c, h)
       PROVE  BaseOf(r, h) = BaseOf(c, h)
  <2>1. h \notin Holders(c, k)
    BY <1>2, <1>16
  <2> QED BY <1>3, <1>5, <1>8, <2>1
<1> QED BY <1>13, <1>14, <1>15, <1>16, Zenon DEF r

LEMMA AddLayerSound ==
  ASSUME NEW c, CacheInv(c), Sound(c), NEW id \in Calls, NEW ops \in OpsSet
  PROVE  Sound(AddLayer(c, id, ops)) /\ Marked(c, AddLayer(c, id, ops)) /\ AddLayer(c, id, ops).list = c.list
<1> DEFINE layers == Append(c.layers, [id |-> id, ops |-> ops])
           shadow == [k \in DOMAIN c.shadow \union DOMAIN ops |-> BaseOf(c, k)]
           entities == [k \in CacheKeys |-> IF k \in DOMAIN ops THEN Laid(layers, k, shadow[k]) ELSE c.entities[k]]
           r == AddLayer(c, id, ops)
<1>1. r = [c EXCEPT !.layers = layers, !.shadow = shadow, !.touched = c.touched \union DOMAIN ops,
                    !.entities = entities]
  BY DEF AddLayer
<1>2. \A k \in CacheKeys \ DOMAIN ops : entities[k] = c.entities[k]
  OBVIOUS
<1>3. SameBases(c, r)
  BY AddLayerGuesses
<1> HIDE DEF r, entities, shadow, layers
<1>4. /\ r.entities = entities /\ r.list = c.list /\ r.keys = c.keys
      /\ r.touched = c.touched \union DOMAIN ops
  BY <1>1 DEF CacheInv, CacheParts
<1>5. DOMAIN ops \subseteq CacheKeys
  BY OpsSetIs
<1>6. \A k \in CacheKeys : BaseOf(r, k) = BaseOf(c, k)
  BY <1>3 DEF SameBases
<1>7. Listed(r)
  BY <1>4, <1>6, ListedStill DEF Sound
<1>8. Refers(r)
  BY <1>6 DEF Refers, Sound
<1>9. r.keys \subseteq CacheKeys /\ r.touched \subseteq CacheKeys
  BY <1>4, <1>5 DEF Sound
<1>10. Sound(r) /\ Marked(c, r)
  BY <1>2, <1>4, <1>7, <1>8, <1>9 DEF Sound, Marked
<1> QED BY <1>4, <1>10 DEF r

LEMMA RemoveLayerSound ==
  ASSUME NEW c, CacheInv(c), Sound(c), NEW id
  PROVE  Sound(RemoveLayer(c, id)) /\ Marked(c, RemoveLayer(c, id)) /\ RemoveLayer(c, id).list = c.list
<1> DEFINE at == {j \in DOMAIN c.layers : c.layers[j].id = id}
<1>1. CASE at = {}
  <2>1. RemoveLayer(c, id) = c
    BY <1>1, Zenon DEF RemoveLayer
  <2>2. Marked(c, c)
    BY DEF Marked
  <2> QED BY <2>1, <2>2
<1>2. CASE at # {}
  <2> DEFINE first == CHOOSE i \in at : \A h \in at : i <= h
             ks == DOMAIN c.layers[first].ops
             layers == RemoveAt(c.layers, first)
             still == Still(layers, ks)
             shadow == PickOf(c.shadow, DOMAIN c.shadow \ (ks \ still))
             entities == [k \in CacheKeys |-> IF k \in ks THEN Laid(layers, k, c.shadow[k]) ELSE c.entities[k]]
             r == RemoveLayer(c, id)
  <2>1. SameBases(c, r)
    BY <1>2, RemoveLayerSettles
  <2>2. r = [c EXCEPT !.layers = layers, !.touched = c.touched \union ks, !.shadow = shadow, !.entities = entities]
    BY <1>2 DEF RemoveLayer
  <2>3. ks \subseteq CacheKeys
    <3>1. \E i \in at : \A h \in at : i <= h
      <4>1. c.layers \in Seq(Layers)
        BY DEF CacheInv
      <4>2. at \subseteq Nat
        BY <4>1
      <4> HIDE DEF at
      <4> QED BY <1>2, <4>2, Least
    <3> HIDE DEF at
    <3>2. first \in at
      BY <3>1
    <3>3. first \in DOMAIN c.layers
      BY <3>2 DEF at
    <3> HIDE DEF first
    <3> QED BY <3>3, GuessesTyped
  <2>4. \A k \in CacheKeys \ ks : entities[k] = c.entities[k]
    OBVIOUS
  <2> HIDE DEF r, entities, shadow, layers, ks, still, first, at
  <2>5. /\ r.entities = entities /\ r.list = c.list /\ r.keys = c.keys
        /\ r.touched = c.touched \union ks
    BY <2>2 DEF CacheInv, CacheParts
  <2>6. \A k \in CacheKeys : BaseOf(r, k) = BaseOf(c, k)
    BY <2>1 DEF SameBases
  <2>7. Listed(r)
    BY <2>5, <2>6, ListedStill DEF Sound
  <2>8. Refers(r)
    BY <2>6 DEF Refers, Sound
  <2>9. r.keys \subseteq CacheKeys /\ r.touched \subseteq CacheKeys
    BY <2>3, <2>5 DEF Sound
  <2>10. Sound(r) /\ Marked(c, r)
    BY <2>4, <2>5, <2>7, <2>8, <2>9 DEF Sound, Marked
  <2> QED BY <2>5, <2>10 DEF r
<1> QED BY <1>1, <1>2

-----------------------------------------------------------------------------
\* What a watch shows depends on the list and on what is read of its entities.
LEMMA ShownSame ==
  ASSUME NEW c, NEW r, Sound(c), r.list = c.list, c.list # None => \A k \in c.keys : r.entities[k] = c.entities[k]
  PROVE  Shown(r) = Shown(c)
<1>1. CASE c.list = None
  BY <1>1 DEF Shown
<1>2. CASE c.list # None
  <2> DEFINE l == c.list
             gone == {i \in DOMAIN l : l[i] = Gap}
             there == Without(l, gone)
             Looks(e) == IF e = None THEN None ELSE PickOf(e, {"f", "g"})
  <2>1. there \in Seq(c.keys)
    <3>1. l \in Seq(There(c) \union {Gap})
      BY <1>2 DEF Sound, Listed
    <3>2. Len(l) \in Nat /\ DOMAIN l = 1..Len(l)
      BY <3>1
    <3>3. \A i \in 1..Len(l) : i \notin gone => l[i] \in c.keys
      BY <3>1, <3>2 DEF There
    <3> HIDE DEF l, gone
    <3> QED BY <3>2, <3>3, WithoutTyped
  <2>2. Shown(c) = [i \in DOMAIN there |-> [key |-> there[i], fields |-> Looks(c.entities[there[i]])]]
    BY <1>2, Zenon DEF Shown
  <2>3. Shown(r) = [i \in DOMAIN there |-> [key |-> there[i], fields |-> Looks(r.entities[there[i]])]]
    BY <1>2, Zenon DEF Shown
  <2> HIDE DEF there, Looks
  <2>4. \A i \in DOMAIN there : r.entities[there[i]] = c.entities[there[i]]
    BY <1>2, <2>1
  <2> QED BY <2>2, <2>3, <2>4
<1> QED BY <1>1, <1>2

WatchHolds == Sound(cache) /\ WatchShowsTheCache

LEMMA AnnouncedHolds ==
  ASSUME NEW op, CacheInv(cache), WatchHolds, CacheInv(op), Sound(op), Marked(cache, op), Announce(op),
         watch' = "ready" => watch = "ready"
  PROVE  WatchHolds' /\ cache'.list = op.list
<1>1. /\ cache' = [op EXCEPT !.touched = {}, !.replaced = FALSE]
      /\ watchScreen' = IF watch = "ready" /\ Hits(op) THEN Shown(op) ELSE watchScreen
  BY DEF Announce
<1>2. /\ SameEntities(op, cache') /\ cache'.list = op.list /\ cache'.keys = op.keys /\ cache'.touched = {}
  BY <1>1 DEF CacheInv, CacheParts, SameEntities
<1>3. \A k : BaseOf(cache', k) = BaseOf(op, k)
  BY <1>2, SameEntitiesHold
<1>4. Sound(cache')
  <2>1. There(cache') = There(op)
    BY <1>2, <1>3 DEF There
  <2> QED BY <1>2, <1>3, <2>1 DEF Sound, Listed, Refers
<1>5. ASSUME watch' = "ready" PROVE watchScreen' = Shown(cache')
  <2>1. watch = "ready" /\ watchScreen = Shown(cache)
    BY <1>5 DEF WatchHolds, WatchShowsTheCache
  <2>2. Shown(cache') = Shown(op)
    BY <1>2, ShownSame DEF SameEntities
  <2>3. CASE Hits(op)
    BY <1>1, <2>1, <2>2, <2>3
  <2>4. CASE ~Hits(op)
    <3>1. Sound(cache) /\ op.keys \subseteq CacheKeys
      BY DEF WatchHolds, Sound
    <3>0. op.list = None => cache.list = None /\ Shown(cache) = None
      BY DEF Marked, Shown
    <3>2. op.list # None => /\ ~op.replaced /\ op.touched \intersect op.keys = {}
                            /\ op.list = cache.list /\ \A k \in op.keys : op.entities[k] = cache.entities[k]
      BY <2>4, <3>1 DEF Hits, Marked
    <3>3. op.list = None => Shown(op) = None
      BY DEF Shown
    <3>4. op.list # None => Shown(op) = Shown(cache)
      BY <3>1, <3>2, ShownSame
    <3> QED BY <1>1, <2>1, <2>2, <2>4, <3>0, <3>3, <3>4
  <2> QED BY <2>3, <2>4
<1> QED BY <1>2, <1>4, <1>5 DEF WatchHolds, WatchShowsTheCache

LEMMA AnswerSound ==
  ASSUME LinksToOthers, CacheInv(cache), Sound(cache), NEW c \in Calls, said[c] \in [Fields -> {0, 1}]
  PROVE  Sound(AnswerStored(c)) /\ Marked(cache, AnswerStored(c))
<1>0. said[c] \in WordSet /\ c.key \in CacheKeys /\ c.inner \in CacheKeys /\ c.kind \in {"edit", "delete", "link"}
  BY FullRows, CallsAssumption
<1>1. CASE c.kind = "edit"
  <2> DEFINE words == [k \in {c.key} |-> said[c]]
  <2>1. AnswerStored(c) = Store(cache, words)
    BY <1>1 DEF AnswerStored
  <2>2. DOMAIN words \subseteq CacheKeys /\ \A k \in DOMAIN words : words[k] \in WordSet
    BY <1>0
  <2> HIDE DEF words
  <2> QED BY <2>1, <2>2, StoreSound
<1>2. CASE c.kind = "link"
  <2>1. AnswerStored(c) = Merge(cache, c.key, [f \in {"next"} |-> c.inner], [k \in {c.inner} |-> said[c]])
    BY <1>2 DEF AnswerStored
  <2>2. c.inner # c.key
    BY <1>2 DEF LinksToOthers
  <2> QED BY <1>0, <2>1, <2>2, MergeSound DEF Links
<1>3. CASE c.kind = "delete"
  <2>1. AnswerStored(c) = Delete(cache, c.key)
    BY <1>3 DEF AnswerStored
  <2> QED BY <1>0, <2>1, DeleteSound
<1> QED BY <1>0, <1>1, <1>2, <1>3

LEMMA InitWatch == ClientInit => WatchHolds
<1> SUFFICES ASSUME ClientInit PROVE WatchHolds
  OBVIOUS
<1>1. cache.list = None /\ cache.keys = {} /\ cache.touched = {}
  BY DEF ClientInit, Empty
<1>2. \A k \in CacheKeys : BaseOf(cache, k) = None
  <2> DEFINE none == <<>>
  <2>1. cache.entities = [k \in CacheKeys |-> None] /\ cache.shadow = none /\ DOMAIN none = {}
    BY DEF ClientInit, Empty
  <2> HIDE DEF none
  <2> QED BY <2>1 DEF BaseOf
<1>3. watch = "off"
  BY DEF ClientInit
<1> QED BY <1>1, <1>2, <1>3 DEF WatchHolds, Sound, Listed, Refers, WatchShowsTheCache

LEMMA NextWatch ==
  ASSUME LinksToOthers, ClientInv, WatchHolds, [ClientNext]_clientVars
  PROVE  WatchHolds'
<1>0. CacheInv(cache) /\ Sound(cache) /\ TransportInv
  BY DEF ClientInv, WatchHolds
<1>1. CASE Receive
  <2>1. Head(underway) \in Frames
    BY <1>0, <1>1 DEF Receive, TakeFrame, TransportInv
  <2>2. Announce(Absorb(cache, Head(underway))) /\ watch' = watch
    BY <1>1 DEF Receive, TakeFrame, watchVars
  <2> DEFINE op == Absorb(cache, Head(underway))
  <2>3. CacheInv(op) /\ Sound(op) /\ Marked(cache, op)
    BY <1>0, <2>1, AbsorbSound
  <2> HIDE DEF op
  <2> QED BY <1>0, <2>2, <2>3, AnnouncedHolds DEF op
<1>2. CASE Answered
  <2>1. watchAnswer \in Seq(FullRow)
    BY <1>0, <1>2 DEF Answered, TakeAnswer, TransportInv, Histories
  <2>2. watchAnswer \in Seq(RowSet)
    BY <2>1, FullRows
  <2> DEFINE op == PutResult(cache, watchAnswer)
  <2>3. CacheInv(op) /\ Sound(op) /\ Marked(cache, op)
    BY <1>0, <2>2, PutResultSound
  <2>4. Announce(op) /\ watch' = "absorbed"
    BY <1>2 DEF Answered, TakeAnswer
  <2> HIDE DEF op
  <2> QED BY <1>0, <2>3, <2>4, AnnouncedHolds
<1>3. ASSUME NEW c \in Calls, Call(c) PROVE WatchHolds'
  <2>1. watch' = watch
    BY <1>3 DEF Call, watchVars
  <2>2. CASE c.kind = "delete"
    BY <1>3, <2>1, <2>2 DEF Call, WatchHolds, WatchShowsTheCache
  <2>3. CASE c.kind # "delete"
    <3> DEFINE op == AddLayer(cache, c, Guess(c))
    <3>1. CacheInv(op) /\ Sound(op) /\ Marked(cache, op)
      BY <1>0, GuessIsOps, AddLayerGuesses, AddLayerSound
    <3>2. Announce(op)
      BY <1>3, <2>3 DEF Call
    <3> HIDE DEF op
    <3> QED BY <1>0, <2>1, <3>1, <3>2, AnnouncedHolds
  <2> QED BY <2>2, <2>3
<1>4. ASSUME NEW c \in Calls, AbsorbAnswer(c) PROVE WatchHolds'
  <2>1. said[c] \in [Fields -> {0, 1}]
    BY <1>0, <1>4 DEF AbsorbAnswer, TakeOk, TransportInv
  <2> DEFINE op == AnswerStored(c)
  <2>2. CacheInv(op) /\ Sound(op) /\ Marked(cache, op)
    BY <1>0, <2>1, AnswerTells, AnswerSound
  <2>3. Announce(op) /\ watch' = watch
    BY <1>4 DEF AbsorbAnswer, TakeOk, watchVars
  <2> HIDE DEF op
  <2> QED BY <1>0, <2>2, <2>3, AnnouncedHolds
<1>5. ASSUME NEW c \in Calls, Settled(c) PROVE WatchHolds'
  <2> DEFINE op == RemoveLayer(cache, c)
  <2>1. Announce(op) /\ watch' = watch
    BY <1>5 DEF Settled, Finish, watchVars
  <2>2. CacheInv(op)
    <3>1. CASE {j \in DOMAIN cache.layers : cache.layers[j].id = c} = {}
      BY <1>0, <3>1, Zenon DEF RemoveLayer
    <3>2. CASE {j \in DOMAIN cache.layers : cache.layers[j].id = c} # {}
      BY <1>0, <3>2, RemoveLayerSettles
    <3> QED BY <3>1, <3>2
  <2>3. Sound(op) /\ Marked(cache, op)
    BY <1>0, RemoveLayerSound
  <2> HIDE DEF op
  <2> QED BY <1>0, <2>1, <2>2, <2>3, AnnouncedHolds
<1>6. CASE Ready
  BY <1>6 DEF Ready, Promise, WatchHolds, WatchShowsTheCache
<1>7. CASE (UNCHANGED clientVars) \/ ((ServerStep \/ WireStep) /\ UNCHANGED screens)
  <2>1. UNCHANGED <<cache, watchScreen>>
    BY <1>7 DEF clientVars, screens
  <2>2. watch' = "ready" => watch = "ready"
    BY <1>7 DEF clientVars, control, watchVars, ServerStep, WireStep, Change, LiveOpens, LiveReruns, Read, Run, Refuse,
                OpenLive, DropConnection, EndLive, Lost, Reopen, Ask
  <2> QED BY <2>1, <2>2 DEF WatchHolds, WatchShowsTheCache
<1>8. ASSUME NEW c \in Calls, Call(c) \/ AbsorbAnswer(c) \/ Settled(c) PROVE WatchHolds'
  BY <1>3, <1>4, <1>5, <1>8
<1>9. CASE \E c \in Calls : Call(c) \/ AbsorbAnswer(c) \/ Settled(c)
  BY <1>8, <1>9
<1>10. CASE ClientNext
  BY <1>1, <1>2, <1>6, <1>7, <1>9, <1>10, Zenon DEF ClientNext
<1> QED BY <1>7, <1>10

-----------------------------------------------------------------------------
ProtocolTyped ==
  /\ uses \in Workloads
  /\ changes \in 0..uses.changes /\ drops \in 0..uses.drops
  /\ live \in {"off", "opening", "open", "waiting", "ended"}
  /\ watch \in {"off", "asked", "answering", "absorbed", "ready"}
  /\ cmd \in [Calls -> {"unmade", "new", "sent", "run", "refused", "absorbed", "settled"}]
  /\ told \subseteq {c.key : c \in Calls}

LEMMA InitProtocol == ClientInit => ProtocolTyped
  BY WorkloadsAssumption DEF ClientInit, ProtocolTyped

LEMMA NextProtocol == ProtocolTyped /\ [ClientNext]_clientVars => ProtocolTyped'
<1> SUFFICES ASSUME ProtocolTyped, [ClientNext]_clientVars PROVE ProtocolTyped'
  OBVIOUS
<1> USE DEF ProtocolTyped
<1>1. CASE ServerStep
  <2>1. CASE Change
    BY <2>1, WorkloadsAssumption DEF Change, liveVars, watchVars, cmdVars
  <2>2. CASE LiveOpens \/ LiveReruns
    BY <2>2 DEF LiveOpens, LiveReruns, serverVars, watchVars, cmdVars
  <2>3. CASE Read
    BY <2>3 DEF Read, serverVars, liveVars, cmdVars
  <2>4. ASSUME NEW c \in Calls, Run(c) \/ Refuse(c) PROVE ProtocolTyped'
    BY <2>4 DEF Run, Refuse, serverVars, liveVars, watchVars
  <2> QED BY <1>1, <2>1, <2>2, <2>3, <2>4 DEF ServerStep
<1>2. CASE WireStep
  <2>1. CASE OpenLive \/ Reopen
    BY <2>1 DEF OpenLive, Reopen, serverVars, watchVars, cmdVars
  <2>2. CASE DropConnection \/ EndLive
    BY <2>2, WorkloadsAssumption DEF DropConnection, EndLive, Lost, serverVars, watchVars, cmdVars
  <2>3. CASE Ask
    BY <2>3 DEF Ask, serverVars, liveVars, cmdVars
  <2> QED BY <1>2, <2>1, <2>2, <2>3 DEF WireStep
<1>3. CASE Receive
  BY <1>3 DEF Receive, TakeFrame, serverVars, watchVars, cmdVars
<1>4. CASE Answered \/ Ready
  BY <1>4 DEF Answered, TakeAnswer, Ready, Promise, serverVars, liveVars, cmdVars
<1>5. ASSUME NEW c \in Calls, Call(c) \/ AbsorbAnswer(c) \/ Settled(c) PROVE ProtocolTyped'
  BY <1>5 DEF Call, AbsorbAnswer, TakeOk, Settled, Finish, serverVars, liveVars, watchVars
<1>6. CASE UNCHANGED clientVars
  BY <1>6 DEF clientVars, control, serverVars, liveVars, watchVars, cmdVars
<1> QED BY <1>1, <1>2, <1>3, <1>4, <1>5, <1>6 DEF ClientNext

\* A prediction over an entity that is there leaves one.
LEMMA LaidIsThere ==
  ASSUME NEW c, CacheInv(c), NEW k \in CacheKeys, BaseOf(c, k) # None
  PROVE  c.entities[k] # None
<1> DEFINE layers == c.layers
           e == BaseOf(c, k)
<1>1. layers \in Seq(Layers) /\ Len(layers) \in Nat /\ e \in Entity /\ c.entities[k] = Laid(layers, k, e)
  BY DEF CacheInv
<1> HIDE DEF layers, e
<1>2. PICK g : LaysOut(g, layers, k, e, Len(layers))
  BY <1>1, LaidExists
<1> DEFINE S == {j \in Nat : j <= Len(layers) => g[j] \in Entity}
<1>3. \A j \in 0..Len(layers) : g[j] = Under(g, layers, k, e, j)
  BY <1>2 DEF LaysOut
<1>4. 0 \in S
  BY <1>1, <1>3 DEF Under
<1>5. ASSUME NEW j \in Nat, j \in S PROVE j + 1 \in S
  <2> SUFFICES ASSUME j + 1 <= Len(layers) PROVE g[j + 1] \in Entity
    OBVIOUS
  <2>1. j + 1 \in 0..Len(layers) /\ j + 1 \in 1..Len(layers) /\ (j + 1) - 1 = j /\ j + 1 # 0 /\ g[j] \in Entity
    BY <1>1, <1>5
  <2>2. g[j + 1] = IF k \in DOMAIN layers[j + 1].ops THEN On(layers[j + 1].ops[k], g[j]) ELSE g[j]
    BY <1>3, <2>1 DEF Under
  <2>3. CASE k \in DOMAIN layers[j + 1].ops
    <3> DEFINE w == layers[j + 1].ops[k]
    <3>1. w \in WordSet
      <4>1. layers[j + 1] \in Layers
        BY <1>1, <2>1
      <4>2. layers[j + 1].ops \in OpsSet
        BY <4>1 DEF Layers
      <4> QED BY <2>3, <4>2, OpsSetIs
    <3> HIDE DEF w
    <3>2. On(w, g[j]) \in Entity
      BY <2>1, <3>1, WordsAreEntities, OnIsEntity
    <3> QED BY <2>2, <2>3, <3>2 DEF w
  <2>4. CASE k \notin DOMAIN layers[j + 1].ops
    BY <2>1, <2>2, <2>4
  <2> QED BY <2>3, <2>4
<1> HIDE DEF S
<1>6. Len(layers) \in S
  BY <1>1, <1>4, <1>5, Counting
<1>7. Laid(layers, k, e) = g[Len(layers)]
  BY <1>1, <1>2, LaidIs
<1> QED BY <1>1, <1>6, <1>7, NoneIsNoEntity DEF S

Shows == ClientInv /\ WatchHolds /\ ProtocolTyped

LEMMA ShowsIsSound == Shows => ClientTypeOK /\ NothingDangles /\ WatchShowsTheCache
<1> SUFFICES ASSUME Shows PROVE ClientTypeOK /\ NothingDangles /\ WatchShowsTheCache
  OBVIOUS
<1>1. TransportInv /\ CacheInv(cache) /\ Sound(cache) /\ WatchShowsTheCache /\ ProtocolTyped
  BY DEF Shows, ClientInv, WatchHolds
<1>2. ASSUME cache.list # None
      PROVE  /\ cache.list \in Seq(cache.keys \union {Gap})
             /\ \A i \in DOMAIN cache.list : cache.list[i] = Gap \/ cache.entities[cache.list[i]] # None
  <2>1. cache.list \in Seq(There(cache) \union {Gap})
    BY <1>1, <1>2 DEF Sound, Listed
  <2>2. There(cache) \subseteq cache.keys /\ There(cache) \subseteq CacheKeys
    BY <1>1 DEF There, Sound
  <2>3. \A k \in There(cache) : cache.entities[k] # None
    BY <1>1, <2>2, LaidIsThere DEF There
  <2>4. Seq(There(cache) \union {Gap}) \subseteq Seq(cache.keys \union {Gap})
    BY <2>2
  <2>5. \A i \in DOMAIN cache.list : cache.list[i] \in There(cache) \union {Gap}
    BY <2>1
  <2> QED BY <2>1, <2>3, <2>4, <2>5
<1>3. NothingDangles
  BY <1>1, <1>2 DEF NothingDangles, Sound, Refers
<1>4. DOMAIN cache = DOMAIN Empty
  BY <1>1 DEF CacheInv, CacheParts, Empty
<1>5. ClientTypeOK
  <2>1. told \subseteq CacheKeys
    BY <1>1, CallsAssumption DEF ProtocolTyped
  <2>2. DOMAIN cache.shadow = UNION {DOMAIN cache.layers[j].ops : j \in DOMAIN cache.layers}
    BY <1>1 DEF CacheInv, Covered
  <2> QED BY <1>1, <1>2, <1>4, <2>1, <2>2 DEF ClientTypeOK, TransportInv, ProtocolTyped
<1> QED BY <1>1, <1>3, <1>5

\* For any rows, calls and workloads: no position of the stored list and no
\* reference of an entity dangles, and a watch that is ready shows the cache as
\* it is, so no change goes unannounced (cache.ts dropRef, emitTouched and
\* subscribe; client.ts watch).
THEOREM ReadersSeeWhatIsThere == LinksToOthers => (ClientSpec => [](ClientTypeOK /\ NothingDangles /\ WatchShowsTheCache))
<1> SUFFICES ASSUME LinksToOthers PROVE ClientSpec => [](ClientTypeOK /\ NothingDangles /\ WatchShowsTheCache)
  OBVIOUS
<1>1. ClientInit => Shows
  BY InitClient, InitWatch, InitProtocol DEF Shows
<1>2. Shows /\ [ClientNext]_clientVars => Shows'
  BY NextClient, NextWatch, NextProtocol DEF Shows
<1> QED BY <1>1, <1>2, ShowsIsSound, PTL DEF ClientSpec

-----------------------------------------------------------------------------
Prefixed(all, x, s) == all = <<x>> \o s

LEMMA PrefixedIs ==
  ASSUME NEW X, NEW x \in X, NEW s \in Seq(X), NEW all, Prefixed(all, x, s)
  PROVE  /\ all \in Seq(X) /\ Len(s) \in Nat /\ Len(all) = Len(s) + 1
         /\ DOMAIN all = 1..Len(s) + 1 /\ DOMAIN s = 1..Len(s)
         /\ all[1] = x /\ \A n \in 1..Len(s) : all[n + 1] = s[n]
<1> DEFINE one == <<x>>
<1>1. one \in Seq(X) /\ Len(one) = 1 /\ one[1] = x
  OBVIOUS
<1>2. all = one \o s
  BY DEF Prefixed
<1> HIDE DEF one
<1>3. /\ all \in Seq(X) /\ Len(all) = 1 + Len(s) /\ Len(s) \in Nat
      /\ \A i \in 1..1 + Len(s) : all[i] = IF i <= 1 THEN one[i] ELSE s[i - 1]
  <2>1. /\ one \o s \in Seq(X) /\ Len(one \o s) = Len(one) + Len(s)
        /\ \A i \in 1..Len(one) + Len(s) : (one \o s)[i] = IF i <= Len(one) THEN one[i] ELSE s[i - Len(one)]
    BY <1>1, ConcatProperties
  <2>2. Len(s) \in Nat
    OBVIOUS
  <2> DEFINE whole == one \o s
  <2>3. whole = all
    BY <1>2
  <2> HIDE DEF whole
  <2> QED BY <1>1, <2>1, <2>2, <2>3 DEF whole
<1> QED BY <1>1, <1>3

LEMMA AppendMoves ==
  ASSUME NEW X, NEW P \in Seq(X), NEW F \in Seq(X), NEW x \in X, NEW G, Prefixed(G, x, F)
  PROVE  P \o G = Append(P, x) \o F
<1> DEFINE one == <<x>>
<1>1. one \in Seq(X) /\ G = one \o F
  BY DEF Prefixed
<1>2. Append(P, x) = P \o one
  BY AppendIsConcat
<1> HIDE DEF one
<1>3. (P \o one) \o F = P \o (one \o F)
  BY <1>1, ConcatAssociative
<1> QED BY <1>1, <1>2, <1>3

LEMMA FromStep ==
  ASSUME NEW list, Len(list) \in Nat, NEW gone, NEW i \in 1..Len(list)
  PROVE  /\ i \in gone => From(list, gone)[i] = From(list, gone)[i + 1]
         /\ i \notin gone => Prefixed(From(list, gone)[i], list[i], From(list, gone)[i + 1])
<1>1. From(list, gone)[i] = IF i \in gone THEN From(list, gone)[i + 1] ELSE <<list[i]>> \o From(list, gone)[i + 1]
  BY FromIs
<1>2. CASE i \in gone
  BY <1>1, <1>2, Zenon
<1>3. CASE i \notin gone
  BY <1>1, <1>3, Zenon DEF Prefixed
<1> QED BY <1>2, <1>3

\* An insertion at the end of what is described goes between it and what stays.
LEMMA SpliceAt ==
  ASSUME NEW X, NEW P \in Seq(X), NEW F \in Seq(X), NEW x, x.at = Len(P) + 1, x.row.key \in X
  PROVE  Splice(P \o F, x) = Append(P, x.row.key) \o F
<1> DEFINE s == P \o F
           j == Len(P) + 1
           k == x.row.key
           one == <<k>>
           head == SubSeq(s, 1, j - 1)
           tail == SubSeq(s, j, Len(s))
<1>1. /\ s \in Seq(X) /\ Len(s) = Len(P) + Len(F) /\ Len(P) \in Nat /\ Len(F) \in Nat
      /\ \A i \in 1..Len(P) + Len(F) : s[i] = IF i <= Len(P) THEN P[i] ELSE F[i - Len(P)]
  BY ConcatProperties
<1>2. Splice(s, x) = InsertAt(s, j, k)
  <2>1. (IF x.at > Len(s) THEN Len(s) + 1 ELSE x.at) = j
    <3> HIDE DEF s
    <3> QED BY <1>1
  <2> QED BY <2>1 DEF Splice
<1> HIDE DEF s
<1>3. InsertAt(s, j, k) = (head \o one) \o tail
  BY Zenon DEF InsertAt
<1>4. head = P
  <2>1. /\ head \in Seq(X) /\ Len(head) = (IF 1 <= j - 1 THEN (j - 1) - 1 + 1 ELSE 0)
        /\ \A i \in 1..(j - 1) - 1 + 1 : head[i] = s[1 + i - 1]
    <3>1. \A i \in 1..j - 1 : s[i] \in X
      BY <1>1
    <3>2. 1 \in Int /\ j - 1 \in Int
      BY <1>1
    <3> HIDE DEF j
    <3> QED BY <3>1, <3>2, SubSeqProperties
  <2>2. Len(head) = Len(P) /\ \A i \in 1..Len(P) : head[i] = P[i]
    BY <1>1, <2>1
  <2> HIDE DEF head
  <2> QED BY <2>1, <2>2, SeqEqual
<1>5. tail = F
  <2>1. /\ tail \in Seq(X) /\ Len(tail) = (IF j <= Len(s) THEN Len(s) - j + 1 ELSE 0)
        /\ \A i \in 1..Len(s) - j + 1 : tail[i] = s[j + i - 1]
    <3>1. \A i \in j..Len(s) : s[i] \in X
      BY <1>1
    <3>2. j \in Int /\ Len(s) \in Int
      BY <1>1
    <3> HIDE DEF j
    <3> QED BY <3>1, <3>2, SubSeqProperties
  <2>2. Len(tail) = Len(F) /\ \A i \in 1..Len(F) : tail[i] = F[i]
    <3>1. Len(tail) = Len(F)
      BY <1>1, <2>1
    <3>2. ASSUME NEW i \in 1..Len(F) PROVE tail[i] = F[i]
      <4>1. j + i - 1 \in 1..Len(P) + Len(F) /\ ~(j + i - 1 <= Len(P)) /\ (j + i - 1) - Len(P) = i
            /\ i \in 1..Len(s) - j + 1
        BY <1>1
      <4> QED BY <1>1, <2>1, <4>1
    <3> QED BY <3>1, <3>2
  <2> HIDE DEF tail
  <2> QED BY <2>1, <2>2, SeqEqual
<1>6. P \o one = Append(P, k)
  BY AppendIsConcat
<1> HIDE DEF head, tail, one, j, k
<1> QED BY <1>2, <1>3, <1>4, <1>5, <1>6 DEF s, k

\* What is inserted first is in the list before the others come.
LEMMA StagesFirst ==
  ASSUME NEW base, NEW I, NEW x \in I, NEW ins \in Seq(I), NEW all, Prefixed(all, x, ins)
  PROVE  Stages(base, all)[Len(all)] = Stages(Splice(base, x), ins)[Len(ins)]
<1> DEFINE g == Stages(base, all)
           h == Stages(Splice(base, x), ins)
           S == {n \in Nat : n <= Len(ins) => g[n + 1] = h[n]}
<1>3. Len(ins) \in Nat /\ Len(all) = Len(ins) + 1 /\ all[1] = x /\ \A n \in 1..Len(ins) : all[n + 1] = ins[n]
  BY PrefixedIs
<1>4. g[0] = base /\ \A n \in 1..Len(all) : g[n] = Splice(g[n - 1], all[n])
  <2>1. Len(all) \in Nat
    BY <1>3
  <2> QED BY <2>1, StagesAre
<1>5. h[0] = Splice(base, x) /\ \A n \in 1..Len(ins) : h[n] = Splice(h[n - 1], ins[n])
  BY <1>3, StagesAre
<1> HIDE DEF g, h
<1>6. 0 \in S
  <2>1. 1 \in 1..Len(all) /\ g[1] = Splice(g[1 - 1], all[1]) /\ 1 - 1 = 0
    BY <1>3, <1>4
  <2> QED BY <1>3, <1>4, <1>5, <2>1
<1>7. ASSUME NEW n \in Nat, n \in S PROVE n + 1 \in S
  <2> SUFFICES ASSUME n + 1 <= Len(ins) PROVE g[(n + 1) + 1] = h[n + 1]
    OBVIOUS
  <2>1. /\ n + 1 \in 1..Len(ins) /\ (n + 1) + 1 \in 1..Len(all) /\ ((n + 1) + 1) - 1 = n + 1 /\ (n + 1) - 1 = n
        /\ g[n + 1] = h[n]
    BY <1>3, <1>7
  <2>2. g[(n + 1) + 1] = Splice(g[n + 1], all[(n + 1) + 1]) /\ all[(n + 1) + 1] = ins[n + 1]
    BY <1>3, <1>4, <2>1
  <2>3. h[n + 1] = Splice(h[n], ins[n + 1])
    BY <1>5, <2>1
  <2> QED BY <2>1, <2>2, <2>3
<1> HIDE DEF S
<1>8. Len(ins) \in S
  BY <1>3, <1>6, <1>7, Counting
<1> QED BY <1>3, <1>8 DEF S, g, h

-----------------------------------------------------------------------------
(* What listDiff describes turns the list it is told of into the new one.    *)

\* A row stands at a position, or a gap where the client was told that it is gone.
Stands(x, k, T) == x = k \/ (x = Gap /\ k \in T)
Upto(P, rs, n, T) == Len(P) = n /\ \A x \in 1..n : Stands(P[x], rs[x].key, T)
Alike(list, rs, T) == Upto(list, rs, Len(rs), T)

Ground(a, b, list, T, X) ==
  /\ a \in Seq(FullRow) /\ b \in Seq(FullRow) /\ list \in Seq(X) /\ Alike(list, a, T)
  /\ \A y \in 1..Len(b) : b[y].key \in X

\* From the place <<i, j>> of the walk: with the first rows of the new list before
\* what stays of the old one, the insertions make the new list.
Leads(op, a, b, list, T, X, i, j) ==
  /\ op.del \subseteq i..Len(a) /\ op.ins \in Seq(Insertions(FullRow))
  /\ \A P \in Seq(X) : Upto(P, b, j - 1, T) =>
       Alike(Stages(P \o From(list, op.del)[i], op.ins)[Len(op.ins)], b, T)
  /\ \A x \in j..Len(b) :
       (\E y \in i..Len(a) : a[y].key = b[x].key) \/ \E n \in DOMAIN op.ins : op.ins[n].row = b[x]
  /\ \A n \in DOMAIN op.ins : \E x \in 1..Len(b) : op.ins[n].row = b[x]

LEMMA GroundIs ==
  ASSUME NEW a, NEW b, NEW list, NEW T, NEW X, Ground(a, b, list, T, X)
  PROVE  /\ Len(a) \in Nat /\ Len(b) \in Nat /\ Len(list) = Len(a) /\ list \in Seq(X)
         /\ \A x \in 1..Len(a) : list[x] \in X /\ Stands(list[x], a[x].key, T)
         /\ \A y \in 1..Len(b) : b[y].key \in X /\ b[y] \in FullRow
<1>1. a \in Seq(FullRow) /\ b \in Seq(FullRow) /\ list \in Seq(X)
  BY DEF Ground
<1>2. Len(list) = Len(a) /\ \A x \in 1..Len(a) : Stands(list[x], a[x].key, T)
  BY DEF Ground, Alike, Upto
<1>3. \A y \in 1..Len(b) : b[y].key \in X
  BY DEF Ground
<1> QED BY <1>1, <1>2, <1>3, ElementOfSeq, LenProperties

LEMMA LeadsEnd ==
  ASSUME NEW a, NEW b, NEW list, NEW T, NEW X, Ground(a, b, list, T, X),
         NEW i, NEW j, i = Len(a) + 1, j = Len(b) + 1, NEW op, op = [del |-> {}, ins |-> <<>>]
  PROVE  Leads(op, a, b, list, T, X, i, j)
<1> DEFINE none == <<>>
<1>0. Len(a) \in Nat /\ Len(b) \in Nat /\ Len(list) = Len(a)
  BY GroundIs
<1>1. op.del = {} /\ op.ins = none
  OBVIOUS
<1>2. none \in Seq(Insertions(FullRow)) /\ Len(none) = 0 /\ DOMAIN none = {} /\ none \in Seq(X)
  OBVIOUS
<1>3. From(list, op.del)[i] = none
  BY <1>0, FromIs
<1> HIDE DEF none
<1>4. ASSUME NEW P \in Seq(X), Upto(P, b, j - 1, T)
      PROVE  Alike(Stages(P \o From(list, op.del)[i], op.ins)[Len(op.ins)], b, T)
  <2>1. P \o none = P
    BY ConcatEmptySeq DEF none
  <2>2. Stages(P, none)[0] = P
    BY <1>2, StagesAre
  <2>3. j - 1 = Len(b)
    BY <1>0
  <2> QED BY <1>1, <1>2, <1>3, <1>4, <2>1, <2>2, <2>3 DEF Alike
<1>5. j..Len(b) = {}
  BY <1>0
<1> QED BY <1>1, <1>2, <1>4, <1>5 DEF Leads

LEMMA LeadsOn ==
  ASSUME NEW a, NEW b, NEW list, NEW T, NEW X, Ground(a, b, list, T, X),
         NEW i \in 1..Len(a), NEW j \in 1..Len(b), a[i].key = b[j].key, NEW op, Leads(op, a, b, list, T, X, i + 1, j + 1)
  PROVE  Leads(op, a, b, list, T, X, i, j)
<1>0. /\ Len(a) \in Nat /\ Len(b) \in Nat /\ Len(list) = Len(a) /\ list[i] \in X /\ Stands(list[i], a[i].key, T)
  BY GroundIs
<1>1. /\ op.del \subseteq i + 1..Len(a) /\ op.ins \in Seq(Insertions(FullRow))
      /\ \A n \in DOMAIN op.ins : \E x \in 1..Len(b) : op.ins[n].row = b[x]
  BY DEF Leads
<1>2. op.del \subseteq i..Len(a) /\ i \notin op.del
  BY <1>0, <1>1
<1> DEFINE F == From(list, op.del)[i + 1]
<1>3. Prefixed(From(list, op.del)[i], list[i], F)
  <2>1. Len(list) \in Nat /\ i \in 1..Len(list)
    BY <1>0
  <2> QED BY <1>2, <2>1, FromStep
<1>4. F \in Seq(X)
  <2>1. Len(list) \in Nat /\ i + 1 \in 1..Len(list) + 1
    BY <1>0
  <2>2. \A x \in 1..Len(list) : list[x] \in X
    BY <1>0, GroundIs
  <2> QED BY <2>1, <2>2, FromTyped
<1> HIDE DEF F
<1>5. ASSUME NEW P \in Seq(X), Upto(P, b, j - 1, T)
      PROVE  Alike(Stages(P \o From(list, op.del)[i], op.ins)[Len(op.ins)], b, T)
  <2> DEFINE Q == Append(P, list[i])
             G == From(list, op.del)[i]
  <2>1. P \o G = Q \o F
    <3> DEFINE x == list[i]
    <3>0. x \in X
      BY <1>0
    <3>1. Prefixed(G, x, F)
      BY <1>3, Zenon
    <3> HIDE DEF G, x
    <3>2. P \o G = Append(P, x) \o F
      <4>1. F \in Seq(X) /\ P \in Seq(X)
        BY <1>4
      <4> QED BY <3>0, <3>1, <4>1, AppendMoves, SMTT(60)
    <3> QED BY <3>2 DEF x
  <2>2. Q \in Seq(X) /\ Upto(Q, b, (j + 1) - 1, T)
    <3>1. /\ Q \in Seq(X) /\ Len(Q) = Len(P) + 1 /\ Q[Len(P) + 1] = list[i]
          /\ \A x \in 1..Len(P) : Q[x] = P[x]
      BY <1>0, AppendProperties
    <3> HIDE DEF Q
    <3>2. Len(P) = j - 1 /\ \A x \in 1..j - 1 : Stands(P[x], b[x].key, T)
      BY <1>5 DEF Upto
    <3>3. Len(Q) = j /\ (j + 1) - 1 = j
      BY <1>0, <3>1, <3>2
    <3>4. ASSUME NEW x \in 1..j PROVE Stands(Q[x], b[x].key, T)
      <4>1. CASE x = j
        BY <1>0, <3>1, <3>2, <4>1
      <4>2. CASE x # j
        BY <1>0, <3>1, <3>2, <4>2
      <4> QED BY <4>1, <4>2
    <3> QED BY <3>1, <3>3, <3>4 DEF Upto
  <2> HIDE DEF Q
  <2>3. Alike(Stages(Q \o F, op.ins)[Len(op.ins)], b, T)
    BY <2>2 DEF Leads, F
  <2> QED BY <2>1, <2>3
<1>6. ASSUME NEW x \in j..Len(b)
      PROVE  (\E y \in i..Len(a) : a[y].key = b[x].key) \/ \E n \in DOMAIN op.ins : op.ins[n].row = b[x]
  <2>1. CASE x = j
    BY <1>0, <2>1
  <2>2. CASE x # j
    <3>1. x \in j + 1..Len(b) /\ i + 1..Len(a) \subseteq i..Len(a)
      BY <1>0, <2>2
    <3> QED BY <3>1 DEF Leads
  <2> QED BY <2>1, <2>2
<1> QED BY <1>1, <1>2, <1>5, <1>6 DEF Leads

LEMMA LeadsPast ==
  ASSUME NEW a, NEW b, NEW list, NEW T, NEW X, Ground(a, b, list, T, X),
         NEW i \in 1..Len(a), NEW j \in 1..Len(b) + 1, NEW rest, Leads(rest, a, b, list, T, X, i + 1, j),
         NEW op, op.del = rest.del \union {i}, op.ins = rest.ins
  PROVE  Leads(op, a, b, list, T, X, i, j)
<1>0. /\ Len(a) \in Nat /\ Len(b) \in Nat /\ Len(list) = Len(a) /\ Len(list) \in Nat
  BY GroundIs
<1>1. /\ rest.del \subseteq i + 1..Len(a) /\ rest.ins \in Seq(Insertions(FullRow))
      /\ \A n \in DOMAIN rest.ins : \E x \in 1..Len(b) : rest.ins[n].row = b[x]
  BY DEF Leads
<1>2. op.del \subseteq i..Len(a) /\ i \in op.del
  BY <1>0, <1>1
<1>3. From(list, op.del)[i] = From(list, rest.del)[i + 1]
  <2>1. i \in 1..Len(list)
    BY <1>0
  <2>2. From(list, op.del)[i] = From(list, op.del)[i + 1]
    BY <1>0, <1>2, <2>1, FromStep
  <2>3. \A x \in i + 1..Len(list) : x \in op.del <=> x \in rest.del
    BY <1>0
  <2>4. i + 1 \in 1..Len(list) + 1 /\ list \in Seq(X)
    BY <1>0, <2>1, GroundIs
  <2> DEFINE gone == op.del
             lost == rest.del
             m == i + 1
  <2>5. m \in 1..Len(list) + 1 /\ \A x \in m..Len(list) : x \in gone <=> x \in lost
    BY <2>3, <2>4
  <2> HIDE DEF gone, lost, m
  <2>6. From(list, gone)[m] = From(list, lost)[m]
    BY <2>4, <2>5, FromAgree
  <2> QED BY <2>2, <2>6 DEF gone, lost, m
<1>4. ASSUME NEW P \in Seq(X), Upto(P, b, j - 1, T)
      PROVE  Alike(Stages(P \o From(list, op.del)[i], op.ins)[Len(op.ins)], b, T)
  BY <1>3, <1>4 DEF Leads
<1>5. ASSUME NEW x \in j..Len(b)
      PROVE  (\E y \in i..Len(a) : a[y].key = b[x].key) \/ \E n \in DOMAIN op.ins : op.ins[n].row = b[x]
  <2>1. i + 1..Len(a) \subseteq i..Len(a)
    BY <1>0
  <2> QED BY <2>1 DEF Leads
<1> QED BY <1>1, <1>2, <1>4, <1>5 DEF Leads

LEMMA LeadsThrough ==
  ASSUME NEW a, NEW b, NEW list, NEW T, NEW X, Ground(a, b, list, T, X),
         NEW i \in 1..Len(a) + 1, NEW j \in 1..Len(b), NEW rest, Leads(rest, a, b, list, T, X, i, j + 1),
         NEW first \in Insertions(FullRow), first.at = j, first.row = b[j],
         NEW op, op.del = rest.del, Prefixed(op.ins, first, rest.ins)
  PROVE  Leads(op, a, b, list, T, X, i, j)
<1> DEFINE I == Insertions(FullRow)
<1>0. /\ Len(a) \in Nat /\ Len(b) \in Nat /\ Len(list) = Len(a) /\ Len(list) \in Nat
      /\ b[j].key \in X /\ b[j] \in FullRow
  BY GroundIs
<1>1. /\ rest.del \subseteq i..Len(a) /\ rest.ins \in Seq(I)
      /\ \A n \in DOMAIN rest.ins : \E x \in 1..Len(b) : rest.ins[n].row = b[x]
  BY DEF Leads
<1>2. first \in I
  OBVIOUS
<1>3. first.at = j /\ first.row = b[j]
  OBVIOUS
<1> HIDE DEF I
<1>4. /\ op.ins \in Seq(I) /\ Len(rest.ins) \in Nat /\ DOMAIN op.ins = 1..Len(rest.ins) + 1
      /\ DOMAIN rest.ins = 1..Len(rest.ins)
      /\ op.ins[1] = first /\ \A n \in 1..Len(rest.ins) : op.ins[n + 1] = rest.ins[n]
  BY <1>1, <1>2, PrefixedIs
<1>5. \A n \in DOMAIN rest.ins : n + 1 \in DOMAIN op.ins /\ op.ins[n + 1] = rest.ins[n]
  <2> SUFFICES ASSUME NEW n \in 1..Len(rest.ins) PROVE n + 1 \in DOMAIN op.ins /\ op.ins[n + 1] = rest.ins[n]
    BY <1>4
  <2>1. n + 1 \in 1..Len(rest.ins) + 1
    BY <1>4
  <2> QED BY <1>4, <2>1
<1>6. ASSUME NEW n \in DOMAIN op.ins, n # 1 PROVE n - 1 \in DOMAIN rest.ins /\ op.ins[n] = rest.ins[n - 1]
  <2> DEFINE m == Len(rest.ins)
  <2>0. n \in 1..m + 1 /\ m \in Nat
    BY <1>4
  <2> HIDE DEF m
  <2>1. n - 1 \in 1..m /\ (n - 1) + 1 = n
    BY <1>6, <2>0
  <2>2. op.ins[(n - 1) + 1] = rest.ins[n - 1]
    BY <1>4, <2>1 DEF m
  <2> QED BY <1>4, <2>1, <2>2 DEF m
<1> DEFINE F == From(list, op.del)[i]
<1>7. F \in Seq(X)
  <2>1. \A x \in 1..Len(list) : list[x] \in X
    BY <1>0, GroundIs
  <2> QED BY <1>0, <2>1, FromTyped
<1> HIDE DEF F
<1>8. ASSUME NEW P \in Seq(X), Upto(P, b, j - 1, T)
      PROVE  Alike(Stages(P \o F, op.ins)[Len(op.ins)], b, T)
  <2> DEFINE Q == Append(P, b[j].key)
  <2>1. Len(P) = j - 1 /\ \A x \in 1..j - 1 : Stands(P[x], b[x].key, T)
    BY <1>8 DEF Upto
  <2>2. Splice(P \o F, first) = Q \o F
    <3>1. first.at = Len(P) + 1 /\ first.row.key = b[j].key
      BY <1>0, <1>3, <2>1
    <3>2. Splice(P \o F, first) = Append(P, first.row.key) \o F
      BY <1>0, <1>7, <3>1, SpliceAt
    <3> QED BY <3>1, <3>2
  <2>3. Stages(P \o F, op.ins)[Len(op.ins)] = Stages(Q \o F, rest.ins)[Len(rest.ins)]
    <3>1. Stages(P \o F, op.ins)[Len(op.ins)] = Stages(Splice(P \o F, first), rest.ins)[Len(rest.ins)]
      BY <1>1, <1>2, StagesFirst
    <3> QED BY <2>2, <3>1
  <2>4. Q \in Seq(X) /\ Upto(Q, b, (j + 1) - 1, T)
    <3>1. /\ Q \in Seq(X) /\ Len(Q) = Len(P) + 1 /\ Q[Len(P) + 1] = b[j].key
          /\ \A x \in 1..Len(P) : Q[x] = P[x]
      BY <1>0, AppendProperties
    <3> HIDE DEF Q
    <3>2. Len(Q) = j /\ (j + 1) - 1 = j
      BY <1>0, <2>1, <3>1
    <3>3. ASSUME NEW x \in 1..j PROVE Stands(Q[x], b[x].key, T)
      <4>1. CASE x = j
        BY <1>0, <2>1, <3>1, <4>1 DEF Stands
      <4>2. CASE x # j
        BY <1>0, <2>1, <3>1, <4>2
      <4> QED BY <4>1, <4>2
    <3> QED BY <3>1, <3>2, <3>3 DEF Upto
  <2> HIDE DEF Q
  <2>5. Alike(Stages(Q \o F, rest.ins)[Len(rest.ins)], b, T)
    BY <2>4 DEF Leads, F
  <2> QED BY <2>3, <2>5
<1>9. ASSUME NEW x \in j..Len(b)
      PROVE  (\E y \in i..Len(a) : a[y].key = b[x].key) \/ \E n \in DOMAIN op.ins : op.ins[n].row = b[x]
  <2>1. CASE x = j
    <3>1. 1 \in DOMAIN op.ins
      BY <1>4
    <3> QED BY <1>3, <1>4, <2>1, <3>1
  <2>2. CASE x # j
    <3>1. x \in j + 1..Len(b)
      BY <1>0, <2>2
    <3>2. (\E y \in i..Len(a) : a[y].key = b[x].key) \/ \E n \in DOMAIN rest.ins : rest.ins[n].row = b[x]
      BY <3>1 DEF Leads
    <3> QED BY <1>5, <3>2
  <2> QED BY <2>1, <2>2
<1>10. ASSUME NEW n \in DOMAIN op.ins PROVE \E x \in 1..Len(b) : op.ins[n].row = b[x]
  <2>1. CASE n = 1
    BY <1>3, <1>4, <2>1
  <2>2. CASE n # 1
    BY <1>1, <1>6, <2>2
  <2> QED BY <2>1, <2>2
<1> QED BY <1>1, <1>4, <1>8, <1>9, <1>10 DEF Leads, F, I

LEMMA WalkLeads ==
  ASSUME NEW a, NEW b, NEW list, NEW T, NEW X, Ground(a, b, list, T, X),
         NEW w, Walks(w, a, b, Places(a, b)), NEW p \in Places(a, b)
  PROVE  Leads(w[p], a, b, list, T, X, p[1], p[2])
<1> DEFINE Right(i, j) == Leads(w[<<i, j>>], a, b, list, T, X, i, j)
           S == {d \in Nat : \A x \in Within(a, b, d) : Right(x[1], x[2])}
<1>0. Len(a) \in Nat /\ Len(b) \in Nat /\ \A y \in 1..Len(b) : b[y] \in FullRow
  BY GroundIs
<1>1. \A x \in Places(a, b) : w[x] = WalkStep(w, a, b, x[1], x[2])
  BY DEF Walks
<1>2. ASSUME NEW i \in 1..Len(a) + 1, NEW j \in 1..Len(b) + 1,
             i <= Len(a) /\ j <= Len(b) => Right(i + 1, j + 1),
             i <= Len(a) => Right(i + 1, j),
             j <= Len(b) => Right(i, j + 1)
      PROVE  Leads(WalkStep(w, a, b, i, j), a, b, list, T, X, i, j)
  <2> DEFINE step == WalkStep(w, a, b, i, j)
             next == w[<<i + 1, j + 1>>]
             past == w[<<i + 1, j>>]
             through == w[<<i, j + 1>>]
             first == [at |-> j, row |-> b[j]]
  <2>1. CASE i > Len(a) /\ j > Len(b)
    <3>1. step = [del |-> {}, ins |-> <<>>]
      BY <1>0, <2>1 DEF WalkStep
    <3>2. i = Len(a) + 1 /\ j = Len(b) + 1
      BY <1>0, <2>1
    <3> HIDE DEF step
    <3>3. Leads(step, a, b, list, T, X, i, j)
      BY <3>1, <3>2, LeadsEnd
    <3> QED BY <3>3 DEF step
  <2>2. CASE i <= Len(a) /\ j <= Len(b) /\ a[i].key = b[j].key
    <3>1. step = next
      <4>1. ~(i > Len(a) /\ j > Len(b))
        BY <1>0, <2>2
      <4>2. ComesLater(b, a[i].key, j) /\ ~(j > Len(b))
        BY <1>0, <2>2 DEF ComesLater
      <4> QED BY <2>2, <4>1, <4>2 DEF WalkStep
    <3>2. i \in 1..Len(a) /\ j \in 1..Len(b) /\ Leads(next, a, b, list, T, X, i + 1, j + 1)
      BY <1>0, <1>2, <2>2
    <3> HIDE DEF step, next
    <3>3. Leads(step, a, b, list, T, X, i, j)
      BY <2>2, <3>1, <3>2, LeadsOn
    <3> QED BY <3>3 DEF step
  <2>3. CASE /\ i <= Len(a) /\ ~(j <= Len(b) /\ a[i].key = b[j].key)
             /\ j > Len(b) \/ ~ComesLater(b, a[i].key, j)
    <3>1. step = [past EXCEPT !.del = @ \union {i}]
      BY <1>0, <2>3 DEF WalkStep
    <3>2. i \in 1..Len(a) /\ Leads(past, a, b, list, T, X, i + 1, j)
      BY <1>0, <1>2, <2>3
    <3>3. past \in Descriptions(FullRow)
      <4>1. <<i + 1, j>> \in Places(a, b)
        BY <1>0, <3>2 DEF Places
      <4> QED BY <1>0, <4>1, WalkTyped DEF Ground
    <3> HIDE DEF step, past
    <3>4. step.del = past.del \union {i} /\ step.ins = past.ins
      BY <3>1, <3>3 DEF Descriptions
    <3>5. Leads(step, a, b, list, T, X, i, j)
      BY <3>2, <3>4, LeadsPast
    <3> QED BY <3>5 DEF step
  <2>4. CASE ~(i > Len(a) /\ j > Len(b)) /\ (i > Len(a) \/ (j <= Len(b) /\ a[i].key # b[j].key /\ ComesLater(b, a[i].key, j)))
    <3>0. j <= Len(b)
      BY <1>0, <2>4
    <3>1. step = [through EXCEPT !.ins = <<first>> \o @]
      BY <1>0, <2>4, <3>0 DEF WalkStep
    <3>2. j \in 1..Len(b) /\ Leads(through, a, b, list, T, X, i, j + 1)
      BY <1>0, <1>2, <3>0
    <3>3. through \in Descriptions(FullRow)
      <4>1. <<i, j + 1>> \in Places(a, b)
        BY <1>0, <3>2 DEF Places
      <4> QED BY <1>0, <4>1, WalkTyped DEF Ground
    <3>4. first \in Insertions(FullRow) /\ first.at = j /\ first.row = b[j]
      BY <1>0, <3>2 DEF Insertions
    <3> HIDE DEF step, through, first
    <3>5. step.del = through.del /\ step.ins = <<first>> \o through.ins
      <4> DEFINE all == <<first>> \o through.ins
      <4>1. step = [through EXCEPT !.ins = all]
        BY <3>1
      <4> HIDE DEF all
      <4>2. step.del = through.del /\ step.ins = all
        BY <3>3, <4>1 DEF Descriptions
      <4> QED BY <4>2 DEF all
    <3>6. Prefixed(step.ins, first, through.ins)
      BY <3>5, Zenon DEF Prefixed
    <3>7. Leads(step, a, b, list, T, X, i, j)
      BY <3>2, <3>4, <3>5, <3>6, LeadsThrough
    <3> QED BY <3>7 DEF step
  <2>5. (i > Len(a) \/ i <= Len(a)) /\ (j > Len(b) \/ j <= Len(b))
    BY <1>0
  <2> QED BY <2>1, <2>2, <2>3, <2>4, <2>5, Zenon
<1> HIDE DEF Right
<1>3. \A x \in Places(a, b) : x = <<x[1], x[2]>>
  BY DEF Places
<1>4. 0 \in S
  <2> SUFFICES ASSUME NEW x \in Within(a, b, 0) PROVE Right(x[1], x[2])
    OBVIOUS
  <2>1. x \in Places(a, b) /\ x[1] = Len(a) + 1 /\ x[2] = Len(b) + 1
    BY <1>0 DEF Within, Places
  <2>2. x[1] \in 1..Len(a) + 1 /\ x[2] \in 1..Len(b) + 1 /\ ~(x[1] <= Len(a)) /\ ~(x[2] <= Len(b))
    BY <1>0, <2>1
  <2>3. Leads(WalkStep(w, a, b, x[1], x[2]), a, b, list, T, X, x[1], x[2])
    BY <1>2, <2>2
  <2> QED BY <1>1, <1>3, <2>1, <2>3, Zenon DEF Right
<1>5. ASSUME NEW d \in Nat, d \in S PROVE d + 1 \in S
  <2> SUFFICES ASSUME NEW x \in Within(a, b, d + 1) PROVE Right(x[1], x[2])
    OBVIOUS
  <2>1. /\ x[1] \in 1..Len(a) + 1 /\ x[2] \in 1..Len(b) + 1 /\ x = <<x[1], x[2]>>
        /\ x[1] <= Len(a) /\ x[2] <= Len(b) => <<x[1] + 1, x[2] + 1>> \in Within(a, b, d)
        /\ x[1] <= Len(a) => <<x[1] + 1, x[2]>> \in Within(a, b, d)
        /\ x[2] <= Len(b) => <<x[1], x[2] + 1>> \in Within(a, b, d)
    BY <1>0, NextPlaces
  <2>2. \A i, j : <<i, j>> \in Within(a, b, d) => Right(i, j)
    BY <1>5
  <2>3. Leads(WalkStep(w, a, b, x[1], x[2]), a, b, list, T, X, x[1], x[2])
    BY <1>2, <2>1, <2>2
  <2>4. x \in Places(a, b)
    BY DEF Within
  <2> QED BY <1>1, <2>1, <2>3, <2>4, Zenon DEF Right
<1> HIDE DEF S
<1>6. Nat \subseteq S
  BY <1>4, <1>5, Counting
<1>7. Right(p[1], p[2])
  <2> DEFINE d == (Len(a) + 1 - p[1]) + (Len(b) + 1 - p[2])
  <2>1. d \in Nat /\ p \in Within(a, b, d)
    BY <1>0 DEF Within, Places
  <2> HIDE DEF d
  <2> QED BY <1>6, <2>1 DEF S
<1> QED BY <1>3, <1>7, Zenon DEF Right

LEMMA FromNothing ==
  ASSUME NEW X, NEW list \in Seq(X), NEW gone, gone = {}
  PROVE  From(list, gone)[1] = list
<1> DEFINE f == From(list, gone)
           n == Len(list)
           S == {i \in 1..n + 1 : f[i] = SubSeq(list, i, n)}
<1>0. n \in Nat
  OBVIOUS
<1>1. f[n + 1] = <<>> /\ \A i \in 1..n : Prefixed(f[i], list[i], f[i + 1])
  <2>1. f[n + 1] = <<>>
    BY <1>0, FromIs
  <2>2. ASSUME NEW i \in 1..n PROVE Prefixed(f[i], list[i], f[i + 1])
    BY <1>0, FromStep
  <2> QED BY <2>1, <2>2
<1> HIDE DEF f
<1>2. n + 1 \in S
  <2>1. n + 1 \in Int /\ n \in Int /\ n < n + 1
    BY <1>0
  <2>2. SubSeq(list, n + 1, n) = <<>>
    BY <2>1, SubSeqEmpty
  <2>3. f[n + 1] = SubSeq(list, n + 1, n) /\ n + 1 \in 1..n + 1
    BY <1>0, <1>1, <2>2
  <2> HIDE DEF n
  <2> QED BY <2>3
<1>3. ASSUME NEW i \in 1..n, i + 1 \in S PROVE i \in S
  <2>1. f[i] = <<list[i]>> \o f[i + 1]
    BY <1>1, Zenon DEF Prefixed
  <2>2. f[i + 1] = SubSeq(list, i + 1, n)
    BY <1>3
  <2>3. SubSeq(list, i, n) = <<list[i]>> \o SubSeq(list, i + 1, n)
    BY <1>0, SubSeqRecursiveFirst
  <2> HIDE DEF n
  <2>4. f[i] = SubSeq(list, i, n)
    BY <2>1, <2>2, <2>3, Zenon
  <2> QED BY <1>0, <2>4
<1> HIDE DEF S, n
<1>4. 1..n + 1 \subseteq S
  BY <1>0, <1>2, <1>3, CountDown
<1>5. f[1] = SubSeq(list, 1, n)
  BY <1>0, <1>4 DEF S
<1> QED BY <1>5, SubSeqFull DEF f, n

\* A description is of its two lists, to whoever has the first.
LEMMA Describes ==
  ASSUME NEW a \in Seq(FullRow), NEW b \in Seq(FullRow), NEW T, NEW list \in Seq(CacheKeys \union {Gap}), Alike(list, a, T),
         NEW op, op = ListDiff(a, b)
  PROVE  /\ op \in Descriptions(FullRow)
         /\ Alike(Described(list, op), b, T)
         /\ ~Moves(op) => Alike(list, b, T)
         /\ \A x \in 1..Len(b) : b[x].key \in KeysOf(a) \union Carried(op)
         /\ \A n \in DOMAIN op.ins : \E x \in 1..Len(b) : op.ins[n].row = b[x]
<1> DEFINE X == CacheKeys \union {Gap}
           w == CHOOSE f : Walks(f, a, b, Places(a, b))
           none == <<>>
<1>1. Len(a) \in Nat /\ Len(b) \in Nat
  OBVIOUS
<1>2. op \in Descriptions(FullRow)
  BY <1>1, ListDiffTyped
<1>3. Walks(w, a, b, Places(a, b))
  BY <1>1, WalkExists
<1>4. op = w[<<1, 1>>]
  BY Zenon DEF ListDiff, Walks, WalkStep, ComesLater, Places
<1> HIDE DEF w
<1>5. Ground(a, b, list, T, X)
  <2>1. ASSUME NEW y \in 1..Len(b) PROVE b[y].key \in X
    <3>1. b[y] \in FullRow
      OBVIOUS
    <3> QED BY <3>1 DEF FullRow
  <2> QED BY <2>1 DEF Ground
<1> HIDE DEF X
<1>6. Leads(op, a, b, list, T, X, 1, 1)
  <2> DEFINE p == <<1, 1>>
  <2>1. p \in Places(a, b) /\ p[1] = 1 /\ p[2] = 1
    BY <1>1 DEF Places
  <2> HIDE DEF p
  <2>2. Leads(w[p], a, b, list, T, X, p[1], p[2])
    BY <1>3, <1>5, <2>1, WalkLeads
  <2> QED BY <1>4, <2>1, <2>2 DEF p
<1>7. Alike(Stages(From(list, op.del)[1], op.ins)[Len(op.ins)], b, T)
  <2>1. none \in Seq(X) /\ Upto(none, b, 1 - 1, T)
    BY DEF Upto
  <2>2. Alike(Stages(none \o From(list, op.del)[1], op.ins)[Len(op.ins)], b, T)
    <3> HIDE DEF none
    <3> QED BY <1>6, <2>1 DEF Leads
  <2>3. From(list, op.del)[1] \in Seq(X)
    <3>1. Len(list) \in Nat /\ 1 \in 1..Len(list) + 1 /\ \A i \in 1..Len(list) : list[i] \in X
      BY DEF X
    <3> QED BY <3>1, FromTyped
  <2>4. none \o From(list, op.del)[1] = From(list, op.del)[1]
    BY <2>3, ConcatEmptySeq
  <2> HIDE DEF none
  <2> QED BY <2>2, <2>4
<1>8. Alike(Described(list, op), b, T)
  BY <1>7, DescribedIsStages, WithoutIsFrom
<1>9. ASSUME ~Moves(op) PROVE Alike(list, b, T)
  <2>1. op.del = {} /\ op.ins = none
    BY <1>9 DEF Moves
  <2>2. From(list, op.del)[1] = list
    BY <2>1, FromNothing
  <2>3. Stages(list, none)[0] = list /\ Len(none) = 0
    BY StagesAre
  <2> HIDE DEF none
  <2> QED BY <1>7, <2>1, <2>2, <2>3
<1>10. ASSUME NEW x \in 1..Len(b) PROVE b[x].key \in KeysOf(a) \union Carried(op)
  <2>1. (\E y \in 1..Len(a) : a[y].key = b[x].key) \/ \E n \in DOMAIN op.ins : op.ins[n].row = b[x]
    BY <1>6 DEF Leads
  <2>2. DOMAIN a = 1..Len(a)
    OBVIOUS
  <2> QED BY <2>1, <2>2 DEF KeysOf, Carried
<1>11. \A n \in DOMAIN op.ins : \E x \in 1..Len(b) : op.ins[n].row = b[x]
  BY <1>6 DEF Leads
<1> QED BY <1>2, <1>8, <1>9, <1>10, <1>11

-----------------------------------------------------------------------------
\* What the server said, one row of a key like another.
Consistent(r) == \A i, j \in 1..Len(r) : r[i].key = r[j].key => r[i].fields = r[j].fields
Hist(r) == r \in Histories /\ Consistent(r)

FirstPart(r) == [i \in DOMAIN r |-> [r[i] EXCEPT !.fields = PickOf(r[i].fields, {"f"})]]

\* A frame to a reader who was told `d` before.
FrameHolds(f, d) ==
  /\ Hist(f.of)
  /\ f.kind = "patch" => Hist(d) /\ f.sets = Patch(d, f.of).sets /\ f.list = Patch(d, f.of).list
  /\ f.kind = "at" => f.of = d /\ f.at \in 1..Len(d) /\ f.fields = PickOf(d[f.at].fields, {"g"})
  /\ f.kind = "data" => f.rows = f.of \/ f.rows = FirstPart(f.of)

Before(w, d, n) == IF n = 1 THEN d ELSE w[n - 1].of
LastOf(w, d)    == IF Len(w) = 0 THEN d ELSE w[Len(w)].of
\* The positions whose deferred fields are under way.
Late(w)         == {w[n].at : n \in {m \in 1..Len(w) : w[m].kind = "at"}}

\* Deferred fields come right after the part of the result they belong to.
Streams(w, d) ==
  /\ \A n \in 1..Len(w) : FrameHolds(w[n], Before(w, d, n))
  /\ \A n \in 1..Len(w), m \in 1..Len(w) : m < n /\ w[n].kind = "at" => w[m].kind = "at" \/ (m = 1 /\ w[m].kind = "data")
  /\ \A n \in 1..Len(w) : w[n].kind = "data" /\ w[n].rows # w[n].of => n = 1 /\ 1..Len(w[n].of) \subseteq Late(w)

LEMMA StreamsTail ==
  ASSUME NEW w \in Seq(Frames), w # <<>>, NEW d, Streams(w, d)
  PROVE  /\ Streams(Tail(w), w[1].of) /\ LastOf(Tail(w), w[1].of) = LastOf(w, d)
         /\ \A i \in Late(w) : i \in Late(Tail(w)) \/ (w[1].kind = "at" /\ w[1].at = i)
<1> DEFINE t == Tail(w)
<1>1. /\ Len(w) \in Nat \ {0} /\ Len(t) = Len(w) - 1
      /\ \A n \in 1..Len(t) : t[n] = w[n + 1] /\ n + 1 \in 1..Len(w)
  OBVIOUS
<1>2. \A n \in 2..Len(w) : n - 1 \in 1..Len(t) /\ t[n - 1] = w[n]
  <2> HIDE DEF t
  <2> QED BY <1>1
<1> HIDE DEF t
<1>3. ASSUME NEW n \in 1..Len(t) PROVE FrameHolds(t[n], Before(t, w[1].of, n))
  <2>1. FrameHolds(w[n + 1], Before(w, d, n + 1))
    BY <1>1 DEF Streams
  <2>2. Before(t, w[1].of, n) = Before(w, d, n + 1)
    BY <1>1 DEF Before
  <2> QED BY <1>1, <2>1, <2>2
<1>4. ASSUME NEW n \in 1..Len(t), NEW m \in 1..Len(t), m < n, t[n].kind = "at" PROVE t[m].kind = "at"
  <2>1. n + 1 \in 1..Len(w) /\ m + 1 \in 1..Len(w) /\ m + 1 < n + 1 /\ m + 1 # 1
    BY <1>1, <1>4
  <2>2. t[n] = w[n + 1] /\ t[m] = w[m + 1]
    BY <1>1
  <2> QED BY <1>4, <2>1, <2>2 DEF Streams
<1>5. ASSUME NEW n \in 1..Len(t), t[n].kind = "data" PROVE t[n].rows = t[n].of
  <2>1. n + 1 \in 1..Len(w) /\ n + 1 # 1 /\ t[n] = w[n + 1]
    BY <1>1
  <2> QED BY <1>5, <2>1 DEF Streams
<1>6. Streams(t, w[1].of)
  BY <1>3, <1>4, <1>5 DEF Streams
<1>7. LastOf(t, w[1].of) = LastOf(w, d)
  BY <1>1 DEF LastOf
<1>8. ASSUME NEW i \in Late(w) PROVE i \in Late(t) \/ (w[1].kind = "at" /\ w[1].at = i)
  <2>1. PICK n \in 1..Len(w) : w[n].kind = "at" /\ w[n].at = i
    BY DEF Late
  <2>2. CASE n = 1
    BY <2>1, <2>2
  <2>3. CASE n # 1
    <3>1. n \in 2..Len(w)
      BY <1>1, <2>3
    <3> QED BY <1>2, <2>1, <3>1 DEF Late
  <2> QED BY <2>2, <2>3
<1> QED BY <1>6, <1>7, <1>8 DEF t

LEMMA StreamsAppend ==
  ASSUME NEW w \in Seq(Frames), NEW d, Streams(w, d), NEW f \in Frames, FrameHolds(f, LastOf(w, d)),
         f.kind # "at", f.kind = "data" => f.rows = f.of
  PROVE  /\ Streams(Append(w, f), d) /\ LastOf(Append(w, f), d) = f.of
         /\ Late(w) \subseteq Late(Append(w, f))
         /\ Len(w) # 0 => Append(w, f)[1] = w[1]
<1> DEFINE a == Append(w, f)
<1>1. Len(w) \in Nat /\ Len(a) = Len(w) + 1 /\ a[Len(a)] = f /\ \A n \in 1..Len(w) : a[n] = w[n] /\ n \in 1..Len(a)
  OBVIOUS
<1> HIDE DEF a
<1>2. Late(w) \subseteq Late(a)
  BY <1>1 DEF Late
<1>3. ASSUME NEW n \in 1..Len(a) PROVE n \in 1..Len(w) \/ (n = Len(w) + 1 /\ a[n] = f)
  BY <1>1
<1>4. ASSUME NEW n \in 1..Len(a) PROVE FrameHolds(a[n], Before(a, d, n))
  <2>1. CASE n \in 1..Len(w)
    <3>1. Before(a, d, n) = Before(w, d, n)
      BY <1>1, <2>1 DEF Before
    <3>2. FrameHolds(w[n], Before(w, d, n))
      BY <2>1 DEF Streams
    <3> QED BY <1>1, <2>1, <3>1, <3>2
  <2>2. CASE n = Len(w) + 1 /\ a[n] = f
    <3>1. Before(a, d, n) = LastOf(w, d)
      BY <1>1, <2>2 DEF Before, LastOf
    <3> QED BY <2>2, <3>1
  <2> QED BY <1>3, <2>1, <2>2
<1>5. ASSUME NEW n \in 1..Len(a), NEW m \in 1..Len(a), m < n, a[n].kind = "at"
      PROVE  a[m].kind = "at" \/ (m = 1 /\ a[m].kind = "data")
  <2>1. n \in 1..Len(w)
    BY <1>3, <1>5
  <2>2. m \in 1..Len(w)
    BY <1>1, <1>5, <2>1
  <2> QED BY <1>1, <1>5, <2>1, <2>2 DEF Streams
<1>6. ASSUME NEW n \in 1..Len(a), a[n].kind = "data", a[n].rows # a[n].of
      PROVE  n = 1 /\ 1..Len(a[n].of) \subseteq Late(a)
  <2>1. n \in 1..Len(w)
    BY <1>3, <1>6
  <2> QED BY <1>1, <1>2, <1>6, <2>1 DEF Streams
<1>7. Streams(a, d)
  BY <1>4, <1>5, <1>6 DEF Streams
<1>8. LastOf(a, d) = f.of
  BY <1>1 DEF LastOf
<1>9. Len(w) # 0 => a[1] = w[1]
  BY <1>1
<1> QED BY <1>2, <1>7, <1>8, <1>9 DEF a

LEMMA FirstFrames ==
  ASSUME NEW r, Hist(r), NEW d, NEW w \in {Whole(r), InParts(r)}
  PROVE  Streams(w, d) /\ LastOf(w, d) = r /\ Len(w) # 0 /\ w[1].kind = "data"
<1>0. Len(r) \in Nat /\ DOMAIN r = 1..Len(r)
  BY DEF Hist, Histories
<1> DEFINE whole == [kind |-> "data", rows |-> r, of |-> r]
           part == [kind |-> "data", rows |-> FirstPart(r), of |-> r]
           later(i) == [kind |-> "at", at |-> i, fields |-> PickOf(r[i].fields, {"g"}), of |-> r]
           rest == [i \in DOMAIN r |-> later(i)]
<1>1. CASE w = Whole(r)
  <2>1. Len(w) = 1 /\ w[1] = whole
    BY <1>1 DEF Whole
  <2>2. whole.kind = "data" /\ whole.rows = r /\ whole.of = r
    OBVIOUS
  <2> HIDE DEF whole
  <2>3. FrameHolds(whole, d)
    BY <2>2 DEF FrameHolds
  <2>4. Before(w, d, 1) = d
    BY DEF Before
  <2> QED BY <2>1, <2>2, <2>3, <2>4 DEF Streams, LastOf
<1>2. CASE w = InParts(r)
  <2>1. w = <<part>> \o rest
    BY <1>2, Zenon DEF InParts, FirstPart
  <2>2. part.kind = "data" /\ part.rows = FirstPart(r) /\ part.of = r
    OBVIOUS
  <2>3. \A i \in 1..Len(r) : /\ rest[i].kind = "at" /\ rest[i].at = i
                             /\ rest[i].fields = PickOf(r[i].fields, {"g"}) /\ rest[i].of = r
    BY <1>0
  <2> HIDE DEF part, later
  <2>4. Len(rest) = Len(r) /\ rest \in Seq({later(i) : i \in DOMAIN r})
    BY <1>0
  <2> HIDE DEF rest
  <2>5. Len(w) = Len(r) + 1 /\ w[1] = part /\ \A i \in 1..Len(r) : w[i + 1] = rest[i]
    <3> DEFINE S == {later(i) : i \in DOMAIN r} \union {part}
    <3>1. part \in S /\ rest \in Seq(S) /\ Prefixed(w, part, rest)
      BY <2>1, <2>4 DEF Prefixed
    <3> HIDE DEF S
    <3>2. Len(w) = Len(rest) + 1 /\ w[1] = part /\ \A i \in 1..Len(rest) : w[i + 1] = rest[i]
      BY <3>1, PrefixedIs, SMTT(30)
    <3> QED BY <2>4, <3>2, Zenon
  <2>6. ASSUME NEW n \in 1..Len(w), n # 1
        PROVE  /\ n - 1 \in 1..Len(r) /\ w[n].kind = "at" /\ w[n].at = n - 1
               /\ w[n].fields = PickOf(r[n - 1].fields, {"g"}) /\ w[n].of = r
    <3>1. n - 1 \in 1..Len(r) /\ w[n] = rest[n - 1]
      <4>1. n - 1 \in 1..Len(r) /\ (n - 1) + 1 = n
        BY <1>0, <2>5, <2>6
      <4> QED BY <2>5, <4>1
    <3> QED BY <2>3, <3>1
  <2>7. \A n \in 1..Len(w) : w[n].of = r
    BY <2>2, <2>5, <2>6
  <2>8. ASSUME NEW n \in 1..Len(w) PROVE FrameHolds(w[n], Before(w, d, n))
    <3>1. CASE n = 1
      BY <2>2, <2>5, <3>1 DEF FrameHolds
    <3>2. CASE n # 1
      <4>1. Before(w, d, n) = r
        <5>1. n - 1 \in 1..Len(w)
          BY <1>0, <2>5, <3>2
        <5> QED BY <2>7, <3>2, <5>1 DEF Before
      <4> QED BY <2>6, <3>2, <4>1 DEF FrameHolds
    <3> QED BY <3>1, <3>2
  <2>9. 1..Len(r) \subseteq Late(w)
    <3> SUFFICES ASSUME NEW i \in 1..Len(r) PROVE i \in Late(w)
      OBVIOUS
    <3>1. i + 1 \in 1..Len(w) /\ w[i + 1].kind = "at" /\ w[i + 1].at = i
      BY <1>0, <2>3, <2>5
    <3> QED BY <3>1 DEF Late
  <2>10. Streams(w, d)
    BY <2>2, <2>5, <2>6, <2>7, <2>8, <2>9 DEF Streams
  <2>11. LastOf(w, d) = r
    BY <1>0, <2>5, <2>7 DEF LastOf
  <2> QED BY <1>0, <2>2, <2>5, <2>10, <2>11
<1> QED BY <1>1, <1>2

-----------------------------------------------------------------------------
\* What a cache holds of the rows that only the response speaks of.
Plain(c) == \A k \in CacheKeys \ Touched : BaseOf(c, k) # None => DOMAIN BaseOf(c, k) \subseteq Fields
Begun(b, w) == b # None /\ "f" \in DOMAIN b /\ b["f"] = w["f"]
RowHeld(b, w, i, late) == Begun(b, w) /\ (b = w \/ i \in late)
RowsHeld(c, r, late) ==
  \A i \in 1..Len(r) : r[i].key \notin Touched => RowHeld(BaseOf(c, r[i].key), r[i].fields, i, late)

\* All fields over what is there are those fields, and the first part of them begins.
LEMMA OnWhole ==
  ASSUME NEW w \in [Fields -> {0, 1}], NEW e, e = None \/ DOMAIN e \subseteq Fields
  PROVE  On(w, e) = w /\ w # None
<1>1. w # None
  <2>1. w \in Entity
    BY FullRows, WordsAreEntities
  <2> QED BY <2>1, NoneIsNoEntity
<1> DEFINE none == <<>>
           old == IF e = None THEN none ELSE e
<1>2. DOMAIN none = {}
  OBVIOUS
<1>3. On(w, e) = [f \in DOMAIN w \union DOMAIN old |-> IF f \in DOMAIN w THEN w[f] ELSE old[f]]
  BY DEF On
<1> HIDE DEF none
<1>4. DOMAIN w = Fields /\ DOMAIN old \subseteq Fields
  BY <1>2
<1> HIDE DEF old
<1>5. On(w, e) = [f \in Fields |-> w[f]]
  BY <1>3, <1>4
<1> QED BY <1>1, <1>5

LEMMA OnPart ==
  ASSUME NEW w \in [Fields -> {0, 1}], NEW x \in [Fields -> {0, 1}], NEW S, S \subseteq Fields,
         NEW p, p = PickOf(w, S), NEW e
  PROVE  /\ S = {"f"} => Begun(On(p, e), w) \/ On(p, e) = None
         /\ S = {"g"} /\ e # None /\ DOMAIN e \subseteq Fields /\ "f" \in DOMAIN e /\ e["f"] = w["f"] => On(p, e) = w
         /\ e = x /\ (\A f \in Fields \ S : x[f] = w[f]) => On(p, e) = w
<1> DEFINE none == <<>>
           old == IF e = None THEN none ELSE e
<1>1. DOMAIN p = S /\ \A f \in S : p[f] = w[f]
  BY DEF PickOf
<1>2. On(p, e) = [f \in DOMAIN p \union DOMAIN old |-> IF f \in DOMAIN p THEN p[f] ELSE old[f]]
  BY DEF On
<1>3. e # None => old = e
  OBVIOUS
<1> HIDE DEF old, none
<1>4. ASSUME S = {"f"}, On(p, e) # None PROVE Begun(On(p, e), w)
  BY <1>1, <1>2, <1>4 DEF Begun
<1>5. ASSUME S = {"g"}, e # None, DOMAIN e \subseteq Fields, "f" \in DOMAIN e, e["f"] = w["f"]
      PROVE  On(p, e) = w
  <2>1. DOMAIN p \union DOMAIN old = Fields
    BY <1>1, <1>3, <1>5 DEF Fields
  <2>2. \A f \in Fields : (IF f \in DOMAIN p THEN p[f] ELSE old[f]) = w[f]
    BY <1>1, <1>3, <1>5 DEF Fields
  <2>3. On(p, e) = [f \in Fields |-> w[f]]
    BY <1>2, <2>1, <2>2
  <2> QED BY <2>3
<1>6. ASSUME e = x, \A f \in Fields \ S : x[f] = w[f] PROVE On(p, e) = w
  <2>1. e # None
    BY <1>6, FullRows, WordsAreEntities, NoneIsNoEntity
  <2>2. DOMAIN p \union DOMAIN old = Fields
    BY <1>1, <1>3, <1>6, <2>1
  <2>3. \A f \in Fields : (IF f \in DOMAIN p THEN p[f] ELSE old[f]) = w[f]
    BY <1>1, <1>3, <1>6, <2>1
  <2>4. On(p, e) = [f \in Fields |-> w[f]]
    BY <1>2, <2>2, <2>3
  <2> QED BY <2>4
<1> QED BY <1>4, <1>5, <1>6

\* Rows of a key say the same of it.
LEMMA WordsSay ==
  ASSUME NEW rs, NEW i \in DOMAIN rs, \A j \in DOMAIN rs : rs[j].key = rs[i].key => rs[j].fields = rs[i].fields
  PROVE  rs[i].key \in DOMAIN WordsOf(rs) /\ WordsOf(rs)[rs[i].key] = rs[i].fields
<1> DEFINE k == rs[i].key
           row == CHOOSE r \in ToSet(rs) : r.key = k
<1>1. rs[i] \in ToSet(rs)
  BY DEF ToSet
<1>2. row \in ToSet(rs) /\ row.key = k
  BY <1>1
<1>3. k \in {rs[n].key : n \in DOMAIN rs}
  OBVIOUS
<1>4. WordsOf(rs)[k] = row.fields /\ k \in DOMAIN WordsOf(rs)
  BY <1>3, Zenon DEF WordsOf
<1> HIDE DEF row
<1>5. PICK j \in DOMAIN rs : rs[j] = row
  BY <1>2 DEF ToSet
<1> QED BY <1>2, <1>4, <1>5

LEMMA RowIs ==
  ASSUME NEW r, Hist(r), NEW i \in 1..Len(r)
  PROVE  /\ r[i] \in FullRow /\ r[i].key \in CacheKeys /\ r[i].fields \in [Fields -> {0, 1}]
         /\ r[i].key \in KeysOf(r) /\ RowWith(r, r[i].key).fields = r[i].fields
<1>1. r[i] \in FullRow /\ DOMAIN r = 1..Len(r)
  BY DEF Hist, Histories
<1>2. r[i].key \in CacheKeys /\ r[i].fields \in [Fields -> {0, 1}]
  BY <1>1 DEF FullRow
<1> DEFINE R == {r[n] : n \in DOMAIN r}
           k == r[i].key
           row == CHOOSE x \in R : x.key = k
<1>3. r[i] \in R /\ r[i].key = k
  BY <1>1
<1>4. row \in R /\ row.key = k
  BY <1>3
<1>5. RowWith(r, k) = row
  BY DEF RowWith
<1> HIDE DEF row
<1>6. PICK j \in DOMAIN r : row = r[j]
  BY <1>4
<1>7. row.fields = r[i].fields
  BY <1>1, <1>4, <1>6 DEF Hist, Consistent
<1> QED BY <1>1, <1>2, <1>5, <1>7 DEF KeysOf

-----------------------------------------------------------------------------
\* Each entity is left, or has fields of its own laid over it.
Worded(c, r) ==
  \A k \in CacheKeys \ Touched :
    BaseOf(r, k) = BaseOf(c, k) \/ \E w \in WordSet : BaseOf(r, k) = On(w, BaseOf(c, k))

LEMMA OnWord ==
  ASSUME NEW w \in WordSet, NEW e \in Entity \union {None}
  PROVE  /\ On(w, e) # None
         /\ e = None \/ DOMAIN e \subseteq Fields => DOMAIN On(w, e) \subseteq Fields
<1>1. w \in Entity /\ DOMAIN w \subseteq Fields
  BY WordsAreEntities, WordSetIs
<1>2. On(w, e) \in Entity /\ DOMAIN On(w, e) = Reader!Known(e) \union DOMAIN w
  BY <1>1, OnIsEntity
<1> QED BY <1>1, <1>2, NoneIsNoEntity DEF Reader!Known

LEMMA PlainStays ==
  ASSUME NEW c, CacheInv(c), Plain(c), NEW r, Worded(c, r)
  PROVE  Plain(r)
<1> SUFFICES ASSUME NEW k \in CacheKeys \ Touched, BaseOf(r, k) # None PROVE DOMAIN BaseOf(r, k) \subseteq Fields
  BY DEF Plain
<1>1. BaseOf(c, k) = None \/ DOMAIN BaseOf(c, k) \subseteq Fields
  BY DEF Plain
<1>2. BaseOf(c, k) \in Entity \union {None}
  BY DEF CacheInv
<1>3. CASE BaseOf(r, k) = BaseOf(c, k)
  BY <1>1, <1>3
<1>4. ASSUME NEW w \in WordSet, BaseOf(r, k) = On(w, BaseOf(c, k)) PROVE DOMAIN BaseOf(r, k) \subseteq Fields
  <2> DEFINE e == BaseOf(c, k)
  <2>1. e \in Entity \union {None} /\ (e = None \/ DOMAIN e \subseteq Fields) /\ BaseOf(r, k) = On(w, e)
    BY <1>1, <1>2, <1>4
  <2> HIDE DEF e
  <2> QED BY <2>1, OnWord
<1> QED BY <1>3, <1>4 DEF Worded

\* A data frame, whole or in parts.
LEMMA DataHolds ==
  ASSUME NEW c, CacheInv(c), Sound(c), Plain(c), NEW r, Hist(r), NEW rs, rs = r \/ rs = FirstPart(r),
         NEW late, rs # r => 1..Len(r) \subseteq late, NEW T
  PROVE  /\ PutResult(c, rs).list # None /\ Alike(PutResult(c, rs).list, r, T)
         /\ Plain(PutResult(c, rs)) /\ RowsHeld(PutResult(c, rs), r, late)
<1> DEFINE p == PutResult(c, rs)
<1>1. Len(r) \in Nat /\ DOMAIN r = 1..Len(r)
  BY DEF Hist, Histories
<1>2. DOMAIN rs = 1..Len(r) /\ rs = [i \in 1..Len(r) |-> rs[i]] /\ Len(rs) = Len(r)
  <2>1. CASE rs = r
    BY <1>1, <2>1 DEF Hist, Histories
  <2>2. CASE rs = FirstPart(r)
    BY <1>1, <2>2 DEF FirstPart
  <2> QED BY <2>1, <2>2
<1>3. ASSUME NEW i \in 1..Len(r)
      PROVE  /\ rs[i].key = r[i].key /\ rs[i].key \in CacheKeys /\ rs[i] \in RowSet
             /\ rs[i].fields = IF rs = r THEN r[i].fields ELSE PickOf(r[i].fields, {"f"})
  <2>1. r[i] \in FullRow /\ r[i].key \in CacheKeys /\ r[i].fields \in WordSet
    BY RowIs, FullRows
  <2>2. CASE rs = r
    BY <2>1, <2>2, FullRows
  <2>3. CASE rs # r
    <3> DEFINE f == PickOf(r[i].fields, {"f"})
    <3>1. f \in WordSet
      BY <2>1, PicksAreWords
    <3>2. rs[i] = [r[i] EXCEPT !.fields = f]
      BY <1>1, <2>3 DEF FirstPart
    <3> HIDE DEF f
    <3>3. rs[i] = [key |-> r[i].key, fields |-> f]
      BY <2>1, <3>2 DEF FullRow
    <3>4. rs[i].key = r[i].key /\ rs[i].fields = f /\ rs[i] \in RowSet
      BY <2>1, <3>1, <3>3 DEF RowSet
    <3> QED BY <2>1, <2>3, <3>4 DEF f
  <2> QED BY <2>2, <2>3
<1>4. rs \in Seq(RowSet)
  BY <1>1, <1>2, <1>3
<1>5. /\ p.list = [i \in DOMAIN rs |-> rs[i].key]
      /\ \A k \in CacheKeys : BaseOf(p, k) = IF k \in DOMAIN WordsOf(rs) THEN On(WordsOf(rs)[k], BaseOf(c, k)) ELSE BaseOf(c, k)
  BY <1>4, PutResultSound
<1> HIDE DEF p
<1>6. p.list \in Seq(CacheKeys) /\ Len(p.list) = Len(r) /\ \A i \in 1..Len(r) : p.list[i] = r[i].key
  BY <1>1, <1>2, <1>3, <1>5
<1>7. p.list # None
  <2>1. p.list \in Seq(CacheKeys \union {Gap})
    BY <1>6
  <2> QED BY <2>1, NoneAssumption
<1>8. Alike(p.list, r, T)
  BY <1>6 DEF Alike, Upto, Stands
<1>9. \A k \in DOMAIN WordsOf(rs) : WordsOf(rs)[k] \in WordSet
  BY <1>2, <1>3, WordsOfRows
<1>10. Plain(p)
  <2>1. Worded(c, p)
    BY <1>5, <1>9 DEF Worded
  <2> QED BY <2>1, PlainStays
<1>11. ASSUME NEW i \in 1..Len(r), r[i].key \notin Touched
       PROVE  RowHeld(BaseOf(p, r[i].key), r[i].fields, i, late)
  <2> DEFINE k == r[i].key
             w == r[i].fields
             e == BaseOf(c, k)
  <2>1. k \in CacheKeys /\ w \in [Fields -> {0, 1}] /\ rs[i].key = k
    BY <1>3, RowIs
  <2>2. \A j \in DOMAIN rs : rs[j].key = rs[i].key => rs[j].fields = rs[i].fields
    <3>1. \A j \in 1..Len(r) : r[j].key = r[i].key => r[j].fields = r[i].fields
      BY DEF Hist, Consistent
    <3> QED BY <1>2, <1>3, <3>1
  <2>3. BaseOf(p, k) = On(rs[i].fields, e)
    <3>1. k \in DOMAIN WordsOf(rs) /\ WordsOf(rs)[k] = rs[i].fields
      BY <1>2, <2>1, <2>2, WordsSay
    <3> QED BY <1>5, <2>1, <3>1
  <2>4. e \in Entity \union {None} /\ (e = None \/ DOMAIN e \subseteq Fields)
    BY <1>11, <2>1 DEF CacheInv, Plain
  <2> HIDE DEF e
  <2>5. CASE rs = r
    <3>1. BaseOf(p, k) = w /\ w # None
      BY <2>1, <2>3, <2>4, <2>5, OnWhole
    <3>2. "f" \in DOMAIN w
      BY <2>1 DEF Fields
    <3> QED BY <3>1, <3>2 DEF RowHeld, Begun
  <2>6. CASE rs # r
    <3> DEFINE q == PickOf(w, {"f"})
    <3>1. rs[i].fields = q /\ q \in WordSet
      BY <1>3, <2>1, <2>6, PicksAreWords, FullRows
    <3>2. On(q, e) # None
      <4> HIDE DEF q
      <4> QED BY <2>4, <3>1, OnWord
    <3>3. {"f"} \subseteq Fields
      BY DEF Fields
    <3>4. Begun(On(q, e), w)
      BY <2>1, <3>2, <3>3, OnPart
    <3> HIDE DEF q
    <3>5. Begun(BaseOf(p, k), w)
      BY <2>3, <3>1, <3>4
    <3> QED BY <2>6, <3>5 DEF RowHeld
  <2> QED BY <2>5, <2>6
<1> QED BY <1>7, <1>8, <1>10, <1>11 DEF RowsHeld, p

\* Fields that were deferred: one position fewer is late.
OneFewer(late, later, at) == \A i \in late : i \in later \/ i = at
Deferred(r, at, fields)   == at \in 1..Len(r) /\ fields = PickOf(r[at].fields, {"g"})
LEMMA AtHolds ==
  ASSUME NEW c, CacheInv(c), Sound(c), Plain(c), NEW r, Hist(r), NEW T, T \subseteq Touched, c.list # None, Alike(c.list, r, T),
         NEW at, NEW fields, Deferred(r, at, fields), NEW late, RowsHeld(c, r, late), NEW later, OneFewer(late, later, at)
  PROVE  /\ MergeAt(c, at, fields).list = c.list
         /\ Plain(MergeAt(c, at, fields)) /\ RowsHeld(MergeAt(c, at, fields), r, later)
<1> DEFINE p == MergeAt(c, at, fields)
<1>0. at \in 1..Len(r) /\ fields = PickOf(r[at].fields, {"g"}) /\ \A i \in late : i \in later \/ i = at
  BY DEF Deferred, OneFewer
<1>1. /\ r[at].key \in CacheKeys /\ r[at].fields \in [Fields -> {0, 1}] /\ fields \in WordSet
  BY <1>0, RowIs, FullRows, PicksAreWords
<1>2. at \in DOMAIN c.list /\ Len(c.list) = Len(r) /\ \A i \in 1..Len(r) : Stands(c.list[i], r[i].key, T)
  <2>1. c.list \in Seq(There(c) \union {Gap})
    BY DEF Sound, Listed
  <2>2. DOMAIN c.list = 1..Len(c.list)
    BY <2>1
  <2> QED BY <1>0, <2>2 DEF Alike, Upto
<1>3. /\ p.list = c.list
      /\ \A k \in CacheKeys : BaseOf(p, k) = IF c.list[at] # Gap /\ k = c.list[at] THEN On(fields, BaseOf(c, k)) ELSE BaseOf(c, k)
  BY <1>1, <1>2, MergeAtSound
<1> HIDE DEF p
<1>4. Plain(p)
  <2>1. Worded(c, p)
    BY <1>1, <1>3 DEF Worded
  <2> QED BY <2>1, PlainStays
<1>5. ASSUME NEW i \in 1..Len(r), r[i].key \notin Touched
      PROVE  RowHeld(BaseOf(p, r[i].key), r[i].fields, i, later)
  <2> DEFINE k == r[i].key
             w == r[i].fields
             e == BaseOf(c, k)
  <2>1. k \in CacheKeys /\ w \in [Fields -> {0, 1}] /\ RowHeld(e, w, i, late)
    BY <1>5, RowIs DEF RowsHeld
  <2>2. e # None /\ DOMAIN e \subseteq Fields /\ "f" \in DOMAIN e /\ e["f"] = w["f"]
    BY <1>5, <2>1 DEF Plain, RowHeld, Begun
  <2> HIDE DEF e
  <2>3. "f" \in DOMAIN w /\ w # None
    <3>1. w # None
      BY <2>1, FullRows, WordsAreEntities, NoneIsNoEntity
    <3> QED BY <2>1, <3>1 DEF Fields
  <2>4. CASE c.list[at] # Gap /\ k = c.list[at]
    <3>1. r[at].key = k /\ r[at].fields = w
      BY <1>0, <1>2, <2>4 DEF Stands, Hist, Consistent
    <3>2. On(fields, e) = w
      <4>1. {"g"} \subseteq Fields
        BY DEF Fields
      <4> HIDE DEF k, w
      <4> QED BY <1>0, <2>1, <2>2, <3>1, <4>1, OnPart
    <3>3. BaseOf(p, k) = w
      BY <1>3, <2>1, <2>4, <3>2 DEF e
    <3> QED BY <2>3, <3>3 DEF RowHeld, Begun
  <2>5. CASE ~(c.list[at] # Gap /\ k = c.list[at])
    <3>1. BaseOf(p, k) = e
      BY <1>3, <2>1, <2>5 DEF e
    <3>2. i # at
      <4>1. k \in CacheKeys /\ k # Gap
        BY <2>1, NoneAssumption
      <4> QED BY <1>0, <1>2, <1>5, <2>5, <4>1 DEF Stands
    <3> QED BY <1>0, <2>1, <3>1, <3>2 DEF RowHeld
  <2> QED BY <2>4, <2>5
<1> QED BY <1>3, <1>4, <1>5 DEF RowsHeld, p

\* What changed since the last result: the list as described, and the fields of
\* the rows that stay.
LEMMA PatchHolds ==
  ASSUME NEW c, CacheInv(c), Sound(c), Plain(c), NEW a, Hist(a), NEW b, Hist(b), NEW T,
         c.list # None, Alike(c.list, a, T), NEW none, none = {}, RowsHeld(c, a, none),
         NEW sets, sets = Patch(a, b).sets, NEW op, op = Patch(a, b).list, NEW late,
         NEW p, p = IF Moves(op) THEN ApplyList(Store(c, sets), op) ELSE Store(c, sets)
  PROVE  p.list # None /\ Alike(p.list, b, T) /\ Plain(p) /\ RowsHeld(p, b, late)
<1> DEFINE s == Store(c, sets)
           X == CacheKeys \union {Gap}
           rs == [n \in DOMAIN op.ins |-> op.ins[n].row]
           words == WordsOf(rs)
           In(k) == RowWith(b, k).fields
           new == {k \in KeysOf(b) \ Carried(op) : Changed(a, k, In(k)) # {}}
           says == [k \in new |-> [f \in Changed(a, k, In(k)) |-> In(k)[f]]]
<1>1. op = ListDiff(a, b) /\ sets = says
  <2>1. Patch(a, b) = [sets |-> says, list |-> ListDiff(a, b)]
    BY Zenon DEF Patch
  <2> HIDE DEF says
  <2> QED BY <2>1
<1>2. a \in Seq(FullRow) /\ b \in Seq(FullRow) /\ Len(a) \in Nat /\ Len(b) \in Nat /\ DOMAIN a = 1..Len(a) /\ DOMAIN b = 1..Len(b)
  BY DEF Hist, Histories
<1>3. sets \in OpsSet /\ op \in Descriptions(FullRow)
  <2>1. Patch(a, b) \in PatchSet
    BY <1>2, PatchTyped
  <2> QED BY <2>1 DEF PatchSet
<1>4. c.list \in Seq(X)
  <2>1. c.list \in Seq(There(c) \union {Gap})
    BY DEF Sound, Listed
  <2>2. There(c) \union {Gap} \subseteq X
    BY DEF There, Sound
  <2> HIDE DEF X
  <2> QED BY <2>1, <2>2
<1>5. /\ Alike(Described(c.list, op), b, T)
      /\ ~Moves(op) => Alike(c.list, b, T)
      /\ \A x \in 1..Len(b) : b[x].key \in KeysOf(a) \union Carried(op)
      /\ \A n \in DOMAIN op.ins : \E x \in 1..Len(b) : op.ins[n].row = b[x]
  BY <1>1, <1>2, <1>4, Describes
<1> HIDE DEF X
<1>6. /\ CacheInv(s) /\ Sound(s) /\ s.list = c.list
      /\ \A k \in CacheKeys : BaseOf(s, k) = IF k \in DOMAIN sets THEN On(sets[k], BaseOf(c, k)) ELSE BaseOf(c, k)
  <2>1. DOMAIN sets \subseteq CacheKeys /\ \A k \in DOMAIN sets : sets[k] \in WordSet
    BY <1>3, OpsSetIs
  <2> HIDE DEF s
  <2> QED BY <2>1, StoreSound DEF s
<1>7. Plain(s)
  <2>1. \A k \in DOMAIN sets : sets[k] \in WordSet
    BY <1>3, OpsSetIs
  <2> HIDE DEF s
  <2>2. Worded(c, s)
    BY <1>6, <2>1 DEF Worded
  <2> QED BY <2>2, PlainStays
<1> HIDE DEF s
<1>8. ASSUME NEW n \in DOMAIN rs
      PROVE  \E x \in 1..Len(b) : rs[n] = b[x]
  BY <1>5
<1>9. DOMAIN words = Carried(op) /\ \A k \in DOMAIN words : words[k] \in WordSet
  <2>1. DOMAIN words = {rs[n].key : n \in DOMAIN rs}
    BY DEF WordsOf
  <2>2. \A n \in DOMAIN rs : rs[n] \in RowSet
    BY <1>2, <1>8, RowIs, FullRows
  <2>3. Carried(op) = {rs[n].key : n \in DOMAIN rs}
    BY DEF Carried
  <2> HIDE DEF rs
  <2> QED BY <2>1, <2>2, <2>3, WordsOfRows
<1>10. ASSUME NEW i \in 1..Len(b), b[i].key \in Carried(op)
       PROVE  words[b[i].key] = b[i].fields
  <2>1. PICK n \in DOMAIN rs : rs[n].key = b[i].key
    BY <1>10 DEF Carried
  <2>2. \A m \in DOMAIN rs : rs[m].key = b[i].key => rs[m].fields = b[i].fields
    BY <1>8 DEF Hist, Consistent
  <2> HIDE DEF rs
  <2>3. words[rs[n].key] = rs[n].fields
    BY <2>1, <2>2, WordsSay
  <2> QED BY <2>1, <2>2, <2>3
<1>11. ASSUME NEW i \in 1..Len(b), b[i].key \notin Carried(op), b[i].key \notin Touched
       PROVE  BaseOf(s, b[i].key) = b[i].fields
  <2> DEFINE k == b[i].key
             w == b[i].fields
             e == BaseOf(c, k)
  <2>1. k \in KeysOf(b) /\ k \in CacheKeys /\ w \in [Fields -> {0, 1}] /\ In(k) = w
    BY RowIs
  <2>2. PICK j \in 1..Len(a) : a[j].key = k
    BY <1>2, <1>5, <1>11 DEF KeysOf
  <2> DEFINE x == a[j].fields
  <2>3. k \in KeysOf(a) /\ x \in [Fields -> {0, 1}] /\ RowWith(a, k).fields = x
    BY <2>2, RowIs
  <2>4. e = x
    BY <1>11, <2>2 DEF RowsHeld, RowHeld
  <2>5. Changed(a, k, In(k)) = {f \in Fields : x[f] # w[f]}
    BY <2>1, <2>3 DEF Changed
  <2> DEFINE S == {f \in Fields : x[f] # w[f]}
  <2>6. CASE S = {}
    <3>1. k \notin DOMAIN sets
      BY <1>1, <2>5, <2>6
    <3>2. x = w
      BY <2>1, <2>3, <2>6
    <3> QED BY <1>6, <2>1, <2>4, <3>1, <3>2
  <2>7. CASE S # {}
    <3> DEFINE q == [f \in S |-> w[f]]
    <3>1. k \in DOMAIN sets /\ sets[k] = q
      <4> DEFINE D == Changed(a, k, In(k))
      <4>1. k \in new
        BY <1>11, <2>1, <2>5, <2>7
      <4> HIDE DEF new
      <4>2. k \in DOMAIN sets /\ sets[k] = [f \in D |-> In(k)[f]]
        BY <1>1, <4>1
      <4>3. D = S /\ In(k) = w
        BY <2>1, <2>5
      <4> HIDE DEF D, S, In, w, says, k
      <4> QED BY <4>2, <4>3
    <3>2. q = PickOf(w, S)
      <4>1. DOMAIN w \intersect S = S
        BY <2>1
      <4> HIDE DEF S
      <4> QED BY <4>1 DEF PickOf
    <3>3. S \subseteq Fields /\ \A f \in Fields \ S : x[f] = w[f]
      OBVIOUS
    <3> HIDE DEF q, S, k, w, x, e
    <3>4. On(q, e) = w
      BY <2>1, <2>3, <2>4, <3>2, <3>3, OnPart
    <3> QED BY <1>6, <2>1, <3>1, <3>4 DEF k, w, e
  <2> QED BY <2>6, <2>7
<1>12. ASSUME NEW i \in 1..Len(b) PROVE b[i].fields # None /\ "f" \in DOMAIN b[i].fields
  <2>1. b[i].fields \in [Fields -> {0, 1}]
    BY RowIs
  <2> QED BY <2>1, FullRows, WordsAreEntities, NoneIsNoEntity DEF Fields
<1>13. (\A i \in 1..Len(b) : b[i].key \notin Touched => BaseOf(p, b[i].key) = b[i].fields) => RowsHeld(p, b, late)
  BY <1>12 DEF RowsHeld, RowHeld, Begun
<1>14. CASE ~Moves(op)
  <2>1. p = s
    BY <1>14 DEF s
  <2>2. Carried(op) = {}
    BY <1>14 DEF Moves, Carried
  <2> QED BY <1>5, <1>6, <1>7, <1>11, <1>13, <1>14, <2>1, <2>2
<1>15. CASE Moves(op)
  <2>1. p = ApplyList(s, op)
    BY <1>15 DEF s
  <2>2. /\ p.list = Described(c.list, op) /\ p.list # None
        /\ \A k \in CacheKeys : BaseOf(p, k) = IF k \in DOMAIN words THEN On(words[k], BaseOf(s, k)) ELSE BaseOf(s, k)
    <3>1. /\ ApplyList(s, op).list = Described(s.list, op) /\ Marked(s, ApplyList(s, op))
          /\ \A k \in CacheKeys : BaseOf(ApplyList(s, op), k) = IF k \in DOMAIN words THEN On(words[k], BaseOf(s, k)) ELSE BaseOf(s, k)
      BY <1>3, <1>6, ApplyListSound
    <3> HIDE DEF words
    <3> QED BY <1>6, <2>1, <3>1 DEF Marked
  <2> HIDE DEF words
  <2>4. Plain(p)
    <3>1. Worded(s, p)
      BY <1>9, <2>2 DEF Worded
    <3> QED BY <1>6, <1>7, <3>1, PlainStays
  <2>5. ASSUME NEW i \in 1..Len(b), b[i].key \notin Touched PROVE BaseOf(p, b[i].key) = b[i].fields
    <3> DEFINE k == b[i].key
               w == b[i].fields
               e == BaseOf(s, k)
    <3>1. k \in CacheKeys /\ w \in [Fields -> {0, 1}]
      BY RowIs
    <3>2. CASE k \in Carried(op)
      <4>1. BaseOf(p, k) = On(w, e)
        BY <1>9, <1>10, <2>2, <3>1, <3>2
      <4>2. e = None \/ DOMAIN e \subseteq Fields
        BY <1>7, <2>5, <3>1 DEF Plain
      <4> HIDE DEF k, w, e
      <4>3. On(w, e) = w
        BY <3>1, <4>2, OnWhole
      <4> QED BY <4>1, <4>3 DEF k, w, e
    <3>3. CASE k \notin Carried(op)
      BY <1>9, <1>11, <2>2, <2>5, <3>1, <3>3
    <3> QED BY <3>2, <3>3
  <2> QED BY <1>5, <1>13, <2>2, <2>4, <2>5
<1> QED BY <1>14, <1>15

-----------------------------------------------------------------------------
\* A response is told from its first frame, and each frame speaks of the last one.
LiveInv ==
  /\ Streams(underway, described)
  /\ lastSent # None => Hist(lastSent) /\ LastOf(underway, described) = lastSent
  /\ live \notin {"opening", "open"} => Len(underway) = 0 /\ lastSent = None
  /\ live = "opening" => (lastSent # None => Len(underway) # 0) /\ (Len(underway) # 0 => underway[1].kind = "data")
  /\ live = "off" => described = None
  /\ live # "off" => "live" \in uses.open
  /\ watch # "off" => "watch" \in uses.open

\* What the client holds is what the last frame described, to a reader who was told what is deleted.
HoldsInv ==
  /\ Plain(cache)
  /\ described # None \/ live = "open" => Hist(described) /\ cache.list # None /\ Alike(cache.list, described, told)
  /\ live = "open" => RowsHeld(cache, described, Late(underway))

LEMMA ResultIsHistory == ASSUME TransportInv PROVE Hist(Result)
<1>1. Result \in Histories
  BY ResultTyped DEF TransportInv
<1>2. Len(Result) = Len(serverRows) /\ DOMAIN serverRows = 1..Len(serverRows) /\ Len(serverRows) \in Nat
  BY DEF TransportInv, Result
<1>3. \A i \in 1..Len(Result) : Result[i].key = serverRows[i] /\ Result[i].fields = val[serverRows[i]]
  BY <1>2 DEF Result
<1>4. Consistent(Result)
  BY <1>3 DEF Consistent
<1> QED BY <1>1, <1>4 DEF Hist

LEMMA InitLive == ClientInit => LiveInv
<1> SUFFICES ASSUME ClientInit PROVE LiveInv
  OBVIOUS
<1>1. underway = <<>> /\ lastSent = None /\ live = "off" /\ watch = "off" /\ described = None
  BY DEF ClientInit
<1>2. Len(underway) = 0
  BY <1>1
<1>3. Streams(underway, described)
  BY <1>2 DEF Streams
<1> QED BY <1>1, <1>2, <1>3 DEF LiveInv

LEMMA LiveRerunsStreams ==
  ASSUME TransportInv, LiveInv, LiveReruns
  PROVE  /\ Streams(underway', described) /\ LastOf(underway', described) = lastSent' /\ Hist(lastSent')
         /\ Late(underway) \subseteq Late(underway') /\ Len(underway') # 0
         /\ Len(underway) # 0 => underway'[1] = underway[1]
<1> DEFINE p == Patch(lastSent, Result)
           patch == [kind |-> "patch", sets |-> p.sets, list |-> p.list, of |-> Result]
           whole == [kind |-> "data", rows |-> Result, of |-> Result]
<1>1. underway \in Seq(Frames) /\ Hist(Result) /\ Hist(lastSent) /\ LastOf(underway, described) = lastSent /\ lastSent' = Result
  BY ResultIsHistory DEF TransportInv, LiveInv, LiveReruns
<1>2. p \in PatchSet /\ Result \in Seq(FullRow) /\ Result \in Seq(RowSet)
  <2>1. Result \in Seq(FullRow) /\ lastSent \in Seq(FullRow)
    BY <1>1 DEF Hist, Histories
  <2>2. p \in PatchSet
    BY <2>1, PatchTyped
  <2> QED BY <2>1, <2>2, FullRows
<1>3. patch \in Frames /\ whole \in Frames
  <2> HIDE DEF p
  <2> QED BY <1>2 DEF Frames, PatchSet, Histories
<1>4. underway' = Append(underway, patch) \/ underway' = Append(underway, whole)
  <2>1. underway' = Append(underway, patch) \/ underway' = underway \o Whole(Result)
    BY DEF LiveReruns
  <2>2. underway \o Whole(Result) = Append(underway, whole)
    BY <1>1, <1>3, AppendIsConcat, Zenon DEF Whole
  <2> QED BY <2>1, <2>2, Zenon
<1>5. FrameHolds(patch, LastOf(underway, described)) /\ patch.kind = "patch" /\ patch.of = Result
  <2> HIDE DEF p
  <2> QED BY <1>1 DEF FrameHolds, p
<1>6. FrameHolds(whole, LastOf(underway, described)) /\ whole.kind = "data" /\ whole.rows = whole.of /\ whole.of = Result
  BY <1>1 DEF FrameHolds
<1> HIDE DEF patch, whole
<1>7. ASSUME NEW f \in Frames, underway' = Append(underway, f), FrameHolds(f, LastOf(underway, described)),
             f.kind # "at", f.kind = "data" => f.rows = f.of, f.of = Result
      PROVE  /\ Streams(underway', described) /\ LastOf(underway', described) = Result
             /\ Late(underway) \subseteq Late(underway') /\ Len(underway') # 0
             /\ Len(underway) # 0 => underway'[1] = underway[1]
  <2>1. Streams(underway, described)
    BY DEF LiveInv
  <2>2. Len(Append(underway, f)) # 0
    BY <1>1
  <2> DEFINE w == Append(underway, f)
  <2>3. /\ Streams(w, described) /\ LastOf(w, described) = f.of
        /\ Late(underway) \subseteq Late(w)
        /\ Len(underway) # 0 => w[1] = underway[1]
    BY <1>1, <1>7, <2>1, StreamsAppend
  <2> QED BY <1>7, <2>2, <2>3
<1> QED BY <1>1, <1>3, <1>4, <1>5, <1>6, <1>7

LEMMA NextLive ==
  ASSUME TransportInv, LiveInv, [ClientNext]_clientVars
  PROVE  LiveInv'
<1>1. CASE LiveOpens
  <2>1. Hist(Result) /\ lastSent' = Result /\ underway' \in {Whole(Result), InParts(Result)}
    BY <1>1, ResultIsHistory DEF LiveOpens
  <2>2. UNCHANGED <<live, uses, described, watch>> /\ live = "opening"
    BY <1>1 DEF LiveOpens, watchVars
  <2>3. Streams(underway', described') /\ LastOf(underway', described') = lastSent' /\ Len(underway') # 0 /\ underway'[1].kind = "data"
    BY <2>1, <2>2, FirstFrames
  <2> QED BY <2>1, <2>2, <2>3 DEF LiveInv
<1>2. CASE LiveReruns
  <2>1. UNCHANGED <<live, uses, described, watch>>
    BY <1>2 DEF LiveReruns, watchVars
  <2>2. /\ Streams(underway', described) /\ LastOf(underway', described) = lastSent' /\ Hist(lastSent')
        /\ Len(underway') # 0 /\ (Len(underway) # 0 => underway'[1] = underway[1])
    BY <1>2, LiveRerunsStreams
  <2>3. lastSent # None
    BY <1>2 DEF LiveReruns
  <2> QED BY <2>1, <2>2, <2>3 DEF LiveInv
<1>3. CASE Receive
  <2>1. /\ underway' = Tail(underway) /\ live' = "open" /\ described' = Head(underway).of /\ underway # <<>> /\ live \in {"opening", "open"}
        /\ UNCHANGED <<uses, lastSent, watch>>
    BY <1>3 DEF Receive, TakeFrame, watchVars
  <2>2. described' = underway[1].of /\ underway \in Seq(Frames) /\ Streams(underway, described)
    BY <2>1 DEF TransportInv, LiveInv
  <2>3. Streams(underway', described') /\ LastOf(underway', described') = LastOf(underway, described)
    BY <2>1, <2>2, StreamsTail
  <2> QED BY <2>1, <2>3 DEF LiveInv
<1>4. CASE OpenLive \/ Reopen
  <2>1. /\ UNCHANGED <<underway, lastSent, uses, described, watch>> /\ live' = "opening"
        /\ live \in {"off", "waiting"} /\ (live = "off" => "live" \in uses.open)
    BY <1>4 DEF OpenLive, Reopen, watchVars
  <2> QED BY <2>1 DEF LiveInv
<1>5. CASE DropConnection \/ EndLive
  <2>1. /\ underway' = <<>> /\ lastSent' = None /\ live' \in {"waiting", "ended"} /\ live # "off"
        /\ UNCHANGED <<uses, described, watch>>
    BY <1>5 DEF DropConnection, EndLive, Lost, watchVars
  <2>2. Len(underway') = 0
    BY <2>1
  <2>3. Streams(underway', described')
    BY <2>2 DEF Streams
  <2> QED BY <2>1, <2>2, <2>3 DEF LiveInv
<1>6. CASE Ask \/ Read \/ Answered \/ Ready
  <2>1. UNCHANGED <<underway, lastSent, uses, described, live>> /\ (watch # "off" \/ "watch" \in uses.open)
    BY <1>6 DEF Ask, Read, Answered, TakeAnswer, Ready, Promise, liveVars
  <2> QED BY <2>1 DEF LiveInv
<1>7. CASE Change \/ (\E c \in Calls : Run(c) \/ Refuse(c) \/ Call(c) \/ AbsorbAnswer(c) \/ Settled(c)) \/ UNCHANGED clientVars
  <2>1. UNCHANGED <<underway, lastSent, uses, described, live, watch>>
    BY <1>7 DEF Change, Run, Refuse, Call, AbsorbAnswer, TakeOk, Settled, Finish, clientVars, control, liveVars, watchVars
  <2> QED BY <2>1 DEF LiveInv
<1> QED BY <1>1, <1>2, <1>3, <1>4, <1>5, <1>6, <1>7, Zenon DEF ClientNext, ServerStep, WireStep

-----------------------------------------------------------------------------
LEMMA ToldOfCalls ==
  ASSUME ProtocolTyped
  PROVE  told \subseteq Touched /\ \A c \in Calls : c.key \in Touched /\ Edited(c) \in Touched
  BY DEF ProtocolTyped, Touched

LEMMA AnnouncedSays ==
  ASSUME NEW op, CacheInv(op), Announce(op)
  PROVE  cache'.list = op.list /\ \A k : BaseOf(cache', k) = BaseOf(op, k)
<1>1. cache' = [op EXCEPT !.touched = {}, !.replaced = FALSE]
  BY DEF Announce
<1>2. cache'.list = op.list
  BY <1>1 DEF CacheInv, CacheParts
<1>3. SameEntities(op, cache')
  BY Announced
<1> QED BY <1>2, <1>3, SameEntitiesHold

\* What a step leaves of the rows that only the response speaks of, and of the list.
Leaves(list, after, T) ==
  after = list \/ \E k \in T : list # None /\ after = DropRef(list, k)

LEMMA AlikeStays ==
  ASSUME NEW S \in SUBSET CacheKeys, NEW list \in Seq(S \union {Gap}), NEW r, NEW T, NEW U, T \subseteq U, Alike(list, r, T),
         NEW after, Leaves(list, after, U)
  PROVE  after # None /\ Alike(after, r, U)
<1>1. list # None
  BY ListsAreThere
<1>2. CASE after = list
  BY <1>1, <1>2 DEF Alike, Upto, Stands
<1>3. ASSUME NEW k \in U, after = DropRef(list, k) PROVE after # None /\ Alike(after, r, U)
  <2>1. DOMAIN list = 1..Len(list) /\ Len(list) \in Nat /\ \A i \in 1..Len(list) : list[i] \in S \union {Gap}
    OBVIOUS
  <2>2. after = [i \in 1..Len(list) |-> IF list[i] = k THEN Gap ELSE list[i]]
    BY <1>3, <2>1 DEF DropRef
  <2>3. after \in Seq(S \union {Gap}) /\ Len(after) = Len(list)
    BY <2>1, <2>2
  <2>4. \A i \in 1..Len(list) : Stands(list[i], r[i].key, T) => Stands(after[i], r[i].key, U)
    BY <2>2 DEF Stands
  <2>5. after # None
    BY <2>3, ListsAreThere
  <2> QED BY <2>3, <2>4, <2>5 DEF Alike, Upto
<1> QED BY <1>2, <1>3 DEF Leaves

LEMMA HoldsStays ==
  ASSUME Sound(cache), HoldsInv, UNCHANGED described, live' = "open" => live = "open" /\ Late(underway) \subseteq Late(underway'),
         told \subseteq told', \A k \in CacheKeys \ Touched : BaseOf(cache', k) = BaseOf(cache, k),
         Leaves(cache.list, cache'.list, told')
  PROVE  HoldsInv'
<1>1. Plain(cache')
  BY DEF HoldsInv, Plain
<1>2. ASSUME described' # None \/ live' = "open"
      PROVE  Hist(described') /\ cache'.list # None /\ Alike(cache'.list, described', told')
  <2>1. Hist(described) /\ cache.list # None /\ Alike(cache.list, described, told)
    BY <1>2 DEF HoldsInv
  <2>2. cache.list \in Seq(There(cache) \union {Gap}) /\ There(cache) \in SUBSET CacheKeys
    BY <2>1 DEF Sound, Listed, There
  <2>3. cache'.list # None /\ Alike(cache'.list, described, told')
    BY <2>1, <2>2, AlikeStays
  <2> QED BY <2>1, <2>3
<1>3. ASSUME live' = "open" PROVE RowsHeld(cache', described', Late(underway'))
  <2>1. RowsHeld(cache, described, Late(underway)) /\ Hist(described)
    BY <1>3 DEF HoldsInv
  <2>2. \A i \in 1..Len(described) : described[i].key \in CacheKeys
    BY <2>1, RowIs
  <2> QED BY <1>3, <2>1, <2>2 DEF RowsHeld, RowHeld
<1> QED BY <1>1, <1>2, <1>3 DEF HoldsInv

LEMMA AnswerLeaves ==
  ASSUME LinksToOthers, CacheInv(cache), Sound(cache), Plain(cache), NEW c \in Calls, said[c] \in [Fields -> {0, 1}]
  PROVE  /\ \A k \in CacheKeys \ Touched : BaseOf(AnswerStored(c), k) = BaseOf(cache, k)
         /\ AnswerStored(c).list = cache.list \/ (c.kind = "delete" /\ cache.list # None /\ AnswerStored(c).list = DropRef(cache.list, c.key))
<1>0. /\ said[c] \in WordSet /\ c.key \in CacheKeys /\ c.inner \in CacheKeys /\ c.kind \in {"edit", "delete", "link"}
      /\ c.key \in Touched /\ Edited(c) \in Touched
  BY FullRows, CallsAssumption DEF Touched
<1>1. CASE c.kind = "edit"
  <2> DEFINE words == [k \in {c.key} |-> said[c]]
  <2>1. AnswerStored(c) = Store(cache, words)
    BY <1>1 DEF AnswerStored
  <2>2. DOMAIN words = {c.key} /\ \A k \in DOMAIN words : words[k] \in WordSet
    BY <1>0
  <2> HIDE DEF words
  <2>3. DOMAIN words \subseteq CacheKeys
    BY <1>0, <2>2
  <2> DEFINE s == Store(cache, words)
  <2>4. s.list = cache.list /\ \A k \in CacheKeys : BaseOf(s, k) = IF k \in DOMAIN words THEN On(words[k], BaseOf(cache, k)) ELSE BaseOf(cache, k)
    <3> HIDE DEF s
    <3> QED BY <2>2, <2>3, StoreSound DEF s
  <2> HIDE DEF s
  <2> QED BY <1>0, <2>1, <2>2, <2>4 DEF s
<1>2. CASE c.kind = "link"
  <2> DEFINE r == Merge(cache, c.key, [f \in {"next"} |-> c.inner], [k \in {c.inner} |-> said[c]])
  <2>1. AnswerStored(c) = r
    BY <1>2 DEF AnswerStored
  <2>2. c.inner # c.key
    BY <1>2 DEF LinksToOthers
  <2>3. r.list = cache.list /\ \A x \in CacheKeys \ {c.key, c.inner} : BaseOf(r, x) = BaseOf(cache, x)
    BY <1>0, <2>2, MergeSound DEF Links
  <2> HIDE DEF r
  <2>4. c.inner \in Touched
    BY <1>0, <1>2 DEF Edited
  <2> QED BY <1>0, <2>1, <2>3, <2>4
<1>3. CASE c.kind = "delete"
  <2> DEFINE r == Delete(cache, c.key)
  <2>1. AnswerStored(c) = r
    BY <1>3 DEF AnswerStored
  <2>2. /\ r.list = IF cache.list # None /\ c.key \in cache.keys THEN DropRef(cache.list, c.key) ELSE cache.list
        /\ \A h \in CacheKeys \ {c.key} : BaseOf(cache, h) = None \/ "next" \notin DOMAIN BaseOf(cache, h) => BaseOf(r, h) = BaseOf(cache, h)
    BY <1>0, DeleteSound
  <2> HIDE DEF r
  <2>3. \A k \in CacheKeys \ Touched : BaseOf(cache, k) = None \/ "next" \notin DOMAIN BaseOf(cache, k)
    BY DEF Plain, Fields
  <2> QED BY <1>0, <1>3, <2>1, <2>2, <2>3
<1> QED BY <1>0, <1>1, <1>2, <1>3

LEMMA ReceiveHolds ==
  ASSUME TransportInv, CacheInv(cache), Sound(cache), ProtocolTyped, LiveInv, HoldsInv, Receive
  PROVE  HoldsInv'
<1> DEFINE f == underway[1]
           p == Absorb(cache, f)
           late == Late(Tail(underway))
<1>1. /\ underway \in Seq(Frames) /\ underway # <<>> /\ f \in Frames /\ Head(underway) = f /\ 1 \in 1..Len(underway)
      /\ live' = "open" /\ underway' = Tail(underway) /\ described' = f.of /\ live \in {"opening", "open"} /\ told' = told
      /\ Announce(p)
  <2>1. underway \in Seq(Frames) /\ underway # <<>>
    BY DEF TransportInv, Receive, TakeFrame
  <2>2. Head(underway) = f /\ f \in Frames /\ 1 \in 1..Len(underway)
    BY <2>1
  <2> QED BY <2>1, <2>2 DEF Receive, TakeFrame, cmdVars
<1>2. FrameHolds(f, described)
  <2>1. FrameHolds(f, Before(underway, described, 1))
    BY <1>1 DEF LiveInv, Streams
  <2> QED BY <2>1 DEF Before
<1>3. Streams(underway, described) /\ \A i \in Late(underway) : i \in late \/ (f.kind = "at" /\ f.at = i)
  <2>1. Streams(underway, described)
    BY DEF LiveInv
  <2> QED BY <1>1, <2>1, StreamsTail
<1>4. f.kind # "data" => /\ live = "open" /\ Hist(described) /\ cache.list # None /\ Alike(cache.list, described, told)
                         /\ RowsHeld(cache, described, Late(underway))
  <2>1. Len(underway) # 0
    BY <1>1
  <2> QED BY <1>1, <2>1 DEF LiveInv, HoldsInv
<1>5. Plain(cache) /\ told \subseteq Touched
  BY ToldOfCalls DEF HoldsInv
<1>6. CacheInv(p)
  BY <1>1, AbsorbTells
<1> HIDE DEF f
<1>7. p.list # None /\ Alike(p.list, f.of, told) /\ Plain(p) /\ RowsHeld(p, f.of, late) /\ Hist(f.of)
  <2>0. Hist(f.of) /\ f.kind \in {"data", "at", "patch"}
    BY <1>1, <1>2, FramesTyped DEF FrameHolds
  <2>1. CASE f.kind = "data"
    <3>1. p = PutResult(cache, f.rows)
      BY <2>1 DEF Absorb
    <3>2. f.rows = f.of \/ f.rows = FirstPart(f.of)
      BY <1>2, <2>1 DEF FrameHolds
    <3>3. f.rows # f.of => 1..Len(f.of) \subseteq late
      <4>1. f.rows # f.of => 1..Len(f.of) \subseteq Late(underway)
        BY <1>1, <2>1 DEF LiveInv, Streams, f
      <4> HIDE DEF late
      <4> QED BY <1>3, <2>1, <4>1
    <3> HIDE DEF p, late
    <3>4. /\ PutResult(cache, f.rows).list # None /\ Alike(PutResult(cache, f.rows).list, f.of, told)
          /\ Plain(PutResult(cache, f.rows)) /\ RowsHeld(PutResult(cache, f.rows), f.of, late)
      BY <1>5, <2>0, <3>2, <3>3, DataHolds
    <3> QED BY <2>0, <3>1, <3>4
  <2>2. CASE f.kind = "at"
    <3> DEFINE at == f.at
               fields == f.fields
               was == Late(underway)
    <3>1. p = MergeAt(cache, at, fields)
      BY <2>2 DEF Absorb
    <3>2. f.of = described /\ Deferred(described, at, fields)
      BY <1>2, <2>2 DEF FrameHolds, Deferred
    <3> HIDE DEF p, late
    <3>3. OneFewer(was, late, at)
      BY <1>3 DEF OneFewer
    <3>6. Hist(described) /\ cache.list # None /\ Alike(cache.list, described, told) /\ RowsHeld(cache, described, was)
      BY <1>4, <2>2
    <3> HIDE DEF at, fields, was
    <3>4. /\ MergeAt(cache, at, fields).list = cache.list
          /\ Plain(MergeAt(cache, at, fields)) /\ RowsHeld(MergeAt(cache, at, fields), described, late)
      BY <1>5, <3>2, <3>3, <3>6, AtHolds
    <3>5. p.list = cache.list /\ Plain(p) /\ RowsHeld(p, described, late)
      BY <3>1, <3>4, Zenon
    <3> QED BY <2>0, <3>2, <3>5, <3>6, Zenon
  <2>3. CASE f.kind = "patch"
    <3> DEFINE none == Late(underway)
    <3>1. p = IF Moves(f.list) THEN ApplyList(Store(cache, f.sets), f.list) ELSE Store(cache, f.sets)
      BY <2>3 DEF Absorb
    <3>2. f.sets = Patch(described, f.of).sets /\ f.list = Patch(described, f.of).list
      BY <1>2, <2>3 DEF FrameHolds
    <3>3. none = {}
      <4> SUFFICES ASSUME NEW n \in 1..Len(underway), underway[n].kind = "at" PROVE FALSE
        BY DEF Late
      <4>1. n # 1
        BY <2>3 DEF f
      <4>2. 1 < n
        BY <1>1, <4>1
      <4> QED BY <1>1, <1>3, <2>3, <4>2 DEF Streams, f
    <3> HIDE DEF p, late, none
    <3>4. RowsHeld(cache, described, none)
      BY <1>4, <2>3 DEF none
    <3>5. p.list # None /\ Alike(p.list, f.of, told) /\ Plain(p) /\ RowsHeld(p, f.of, late)
      BY <1>4, <1>5, <2>0, <2>3, <3>1, <3>2, <3>3, <3>4, PatchHolds
    <3> QED BY <2>0, <3>5
  <2> QED BY <2>0, <2>1, <2>2, <2>3
<1> HIDE DEF p, late
<1>8. cache'.list = p.list /\ \A k : BaseOf(cache', k) = BaseOf(p, k)
  BY <1>1, <1>6, AnnouncedSays
<1>9. Plain(cache') /\ RowsHeld(cache', f.of, late)
  BY <1>7, <1>8 DEF Plain, RowsHeld
<1> QED BY <1>1, <1>7, <1>8, <1>9 DEF HoldsInv, late

LEMMA InitHolds == ClientInit => HoldsInv
<1> SUFFICES ASSUME ClientInit PROVE HoldsInv
  OBVIOUS
<1>1. live = "off" /\ described = None /\ cache = Empty
  BY DEF ClientInit
<1>2. \A k \in CacheKeys : BaseOf(cache, k) = None
  <2> DEFINE none == <<>>
  <2>1. cache.entities = [k \in CacheKeys |-> None] /\ cache.shadow = none /\ DOMAIN none = {}
    BY <1>1 DEF Empty
  <2> HIDE DEF none
  <2> QED BY <2>1 DEF BaseOf
<1> QED BY <1>1, <1>2 DEF HoldsInv, Plain

LEMMA NextHolds ==
  ASSUME OneReader, LinksToOthers, Shows, LiveInv, HoldsInv, [ClientNext]_clientVars
  PROVE  HoldsInv'
<1>0. /\ TransportInv /\ CacheInv(cache) /\ Sound(cache) /\ ProtocolTyped /\ Plain(cache)
      /\ ProtocolTyped' /\ told \subseteq Touched
  BY NextProtocol, ToldOfCalls DEF Shows, ClientInv, WatchHolds, HoldsInv
<1>1. CASE Receive
  BY <1>0, <1>1, ReceiveHolds
<1>2. CASE Answered
  <2>1. live = "off" /\ described = None
    <3>1. watch # "off"
      BY <1>2 DEF Answered, TakeAnswer
    <3>2. "watch" \in uses.open /\ uses \in Workloads
      BY <1>0, <3>1 DEF LiveInv, ProtocolTyped
    <3>3. "live" \notin uses.open
      BY <3>2 DEF OneReader
    <3> QED BY <3>3 DEF LiveInv
  <2>2. UNCHANGED <<live, described>>
    BY <1>2 DEF Answered, TakeAnswer, liveVars
  <2> DEFINE p == PutResult(cache, watchAnswer)
  <2>3. watchAnswer \in Seq(FullRow) /\ watchAnswer \in Seq(RowSet) /\ Announce(p)
    <3>1. watchAnswer \in Seq(FullRow)
      BY <1>0, <1>2 DEF Answered, TakeAnswer, TransportInv, Histories
    <3> QED BY <1>2, <3>1, FullRows DEF Answered
  <2>4. /\ CacheInv(p)
        /\ \A k \in CacheKeys : BaseOf(p, k) = IF k \in DOMAIN WordsOf(watchAnswer) THEN On(WordsOf(watchAnswer)[k], BaseOf(cache, k)) ELSE BaseOf(cache, k)
    BY <1>0, <2>3, PutResultSound
  <2> HIDE DEF p
  <2>5. \A k \in DOMAIN WordsOf(watchAnswer) : WordsOf(watchAnswer)[k] \in WordSet
    BY <2>3, WordsOfRows
  <2>6. \A k : BaseOf(cache', k) = BaseOf(p, k)
    BY <2>3, <2>4, AnnouncedSays
  <2>7. Worded(cache, cache')
    BY <2>4, <2>5, <2>6 DEF Worded
  <2>8. Plain(cache')
    BY <1>0, <2>7, PlainStays
  <2> QED BY <2>1, <2>2, <2>8 DEF HoldsInv
<1>3. ASSUME NEW c \in Calls, Call(c) PROVE HoldsInv'
  <2>1. UNCHANGED <<live, underway, described, told>>
    BY <1>3 DEF Call, liveVars
  <2>2. cache'.list = cache.list /\ \A k \in CacheKeys : BaseOf(cache', k) = BaseOf(cache, k)
    <3>1. CASE c.kind = "delete"
      BY <1>3, <3>1 DEF Call
    <3>2. CASE c.kind # "delete"
      <4> DEFINE op == AddLayer(cache, c, Guess(c))
      <4>1. CacheInv(op) /\ SameBases(cache, op) /\ op.list = cache.list
        BY <1>0, GuessIsOps, AddLayerGuesses, AddLayerSound
      <4>2. Announce(op)
        BY <1>3, <3>2 DEF Call
      <4> HIDE DEF op
      <4>3. cache'.list = op.list /\ \A k : BaseOf(cache', k) = BaseOf(op, k)
        BY <4>1, <4>2, AnnouncedSays
      <4> QED BY <4>1, <4>3 DEF SameBases
    <3> QED BY <3>1, <3>2
  <2>3. Leaves(cache.list, cache'.list, told')
    BY <2>2 DEF Leaves
  <2> QED BY <1>0, <2>1, <2>2, <2>3, HoldsStays
<1>4. ASSUME NEW c \in Calls, AbsorbAnswer(c) PROVE HoldsInv'
  <2> DEFINE op == AnswerStored(c)
  <2>1. /\ UNCHANGED <<live, underway, described>> /\ Announce(op)
        /\ told' = IF c.kind = "delete" THEN told \union {c.key} ELSE told
    BY <1>4 DEF AbsorbAnswer, TakeOk, liveVars
  <2>2. said[c] \in [Fields -> {0, 1}]
    BY <1>0, <1>4 DEF AbsorbAnswer, TakeOk, TransportInv
  <2>3. /\ \A k \in CacheKeys \ Touched : BaseOf(op, k) = BaseOf(cache, k)
        /\ op.list = cache.list \/ (c.kind = "delete" /\ cache.list # None /\ op.list = DropRef(cache.list, c.key))
    BY <1>0, <2>2, AnswerLeaves
  <2>4. CacheInv(op)
    BY <1>0, <2>2, AnswerTells
  <2> HIDE DEF op
  <2>5. cache'.list = op.list /\ \A k : BaseOf(cache', k) = BaseOf(op, k)
    BY <2>1, <2>4, AnnouncedSays
  <2>6. told \subseteq told' /\ Leaves(cache.list, cache'.list, told')
    BY <2>1, <2>3, <2>5 DEF Leaves
  <2>7. \A k \in CacheKeys \ Touched : BaseOf(cache', k) = BaseOf(cache, k)
    BY <2>3, <2>5
  <2> QED BY <1>0, <2>1, <2>6, <2>7, HoldsStays
<1>5. ASSUME NEW c \in Calls, Settled(c) PROVE HoldsInv'
  <2> DEFINE op == RemoveLayer(cache, c)
  <2>1. UNCHANGED <<live, underway, described, told>> /\ Announce(op)
    BY <1>5 DEF Settled, Finish, liveVars
  <2>2. CacheInv(op) /\ \A k \in CacheKeys : BaseOf(op, k) = BaseOf(cache, k)
    <3>1. CASE {j \in DOMAIN cache.layers : cache.layers[j].id = c} = {}
      BY <1>0, <3>1, Zenon DEF RemoveLayer
    <3>2. CASE {j \in DOMAIN cache.layers : cache.layers[j].id = c} # {}
      BY <1>0, <3>2, RemoveLayerSettles DEF SameBases
    <3> QED BY <3>1, <3>2
  <2>3. op.list = cache.list
    BY <1>0, RemoveLayerSound
  <2> HIDE DEF op
  <2>4. cache'.list = op.list /\ \A k : BaseOf(cache', k) = BaseOf(op, k)
    BY <2>1, <2>2, AnnouncedSays
  <2>5. Leaves(cache.list, cache'.list, told')
    BY <2>3, <2>4 DEF Leaves
  <2> QED BY <1>0, <2>1, <2>2, <2>4, <2>5, HoldsStays
<1>6. CASE Ready
  <2>1. UNCHANGED <<cache, live, underway, described, told>>
    BY <1>6 DEF Ready, Promise, liveVars, cmdVars
  <2>2. Leaves(cache.list, cache'.list, told')
    BY <2>1 DEF Leaves
  <2> QED BY <1>0, <2>1, <2>2, HoldsStays
<1>7. CASE (UNCHANGED clientVars) \/ ((ServerStep \/ WireStep) /\ UNCHANGED screens)
  <2>1. UNCHANGED <<cache, described, told>>
    BY <1>7 DEF clientVars, screens, control, liveVars, cmdVars, ServerStep, WireStep, Change, LiveOpens, LiveReruns, Read, Run, Refuse,
                OpenLive, DropConnection, EndLive, Lost, Reopen, Ask
  <2>2. live' = "open" => live = "open" /\ Late(underway) \subseteq Late(underway')
    <3>1. CASE LiveReruns
      BY <1>0, <3>1, LiveRerunsStreams DEF LiveReruns
    <3>2. CASE UNCHANGED <<live, underway>>
      BY <3>2
    <3>3. CASE LiveOpens \/ OpenLive \/ DropConnection \/ EndLive \/ Reopen
      BY <3>3 DEF LiveOpens, OpenLive, DropConnection, EndLive, Reopen
    <3> QED BY <1>7, <3>1, <3>2, <3>3 DEF clientVars, control, liveVars, ServerStep, WireStep, Change, Read, Run, Refuse, Ask
  <2>3. Leaves(cache.list, cache'.list, told')
    BY <2>1 DEF Leaves
  <2> QED BY <1>0, <2>1, <2>2, <2>3, HoldsStays
<1>8. CASE \E c \in Calls : Call(c) \/ AbsorbAnswer(c) \/ Settled(c)
  <2>1. ASSUME NEW c \in Calls, Call(c) \/ AbsorbAnswer(c) \/ Settled(c) PROVE HoldsInv'
    BY <1>3, <1>4, <1>5, <2>1
  <2> QED BY <1>8, <2>1
<1>9. CASE ClientNext
  BY <1>1, <1>2, <1>6, <1>7, <1>8, <1>9, Zenon DEF ClientNext
<1> QED BY <1>7, <1>9

LEMMA HeldIsDescribed == Shows /\ HoldsInv => SeesWhatWasDescribed
<1> SUFFICES ASSUME Shows, HoldsInv, described # None PROVE SeesWhatWasDescribed
  BY DEF SeesWhatWasDescribed
<1>1. Hist(described) /\ cache.list # None /\ Alike(cache.list, described, told)
  BY DEF HoldsInv
<1>2. DOMAIN described = 1..Len(described)
  BY <1>1 DEF Hist, Histories
<1>3. Len(cache.list) = Len(described) /\ \A i \in 1..Len(described) : Stands(cache.list[i], described[i].key, told)
  BY <1>1 DEF Alike, Upto
<1>4. ASSUME live = "open", \A n \in DOMAIN underway : underway[n].kind # "at", NEW i \in 1..Len(described),
             described[i].key \notin Touched
      PROVE  BaseOf(cache, described[i].key) = described[i].fields
  <2>1. DOMAIN underway = 1..Len(underway)
    BY DEF Shows, ClientInv, TransportInv
  <2>2. Late(underway) = {}
    BY <1>4, <2>1 DEF Late
  <2>3. RowHeld(BaseOf(cache, described[i].key), described[i].fields, i, Late(underway))
    BY <1>4 DEF HoldsInv, RowsHeld
  <2> QED BY <2>2, <2>3 DEF RowHeld
<1> QED BY <1>2, <1>3, <1>4 DEF SeesWhatWasDescribed, Stands

\* For any rows, calls, changes and drops, with one reader of the result: the
\* list is position by position the one the server last described, whatever
\* frames, answers and deletions came between, and rows that only the response
\* speaks of have the fields it described (live.ts diffResults and listDiff
\* against cache.ts applyPatch, applyList, mergeAt and putResult).
THEOREM ScreensAreOfOnePiece == LinksToOthers /\ OneReader => (ClientSpec => []ScreensHold)
<1> SUFFICES ASSUME LinksToOthers, OneReader PROVE ClientSpec => []ScreensHold
  OBVIOUS
<1> DEFINE Inv == Shows /\ LiveInv /\ HoldsInv
<1>1. ClientInit => Inv
  BY InitClient, InitWatch, InitProtocol, InitLive, InitHolds DEF Shows
<1>2. Inv /\ [ClientNext]_clientVars => Inv'
  <2> SUFFICES ASSUME Inv, [ClientNext]_clientVars PROVE Inv'
    OBVIOUS
  <2>1. TransportInv
    BY DEF Shows, ClientInv
  <2>2. Shows'
    BY NextClient, NextWatch, NextProtocol DEF Shows
  <2> QED BY <2>1, <2>2, NextLive, NextHolds
<1>3. Inv => ScreensHold
  BY ShowsIsSound, HeldIsDescribed DEF ScreensHold
<1> QED BY <1>1, <1>2, <1>3, PTL DEF ClientSpec
=============================================================================
