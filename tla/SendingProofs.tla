---------------------------- MODULE SendingProofs -----------------------------
(* Proofs about what carries a command.  Sockets: WsTransport and KtTransport *)
(* for any number of batches, frames and sockets, and the loop both clients   *)
(* attribute a frame without an op id with (Attribution).  Queues:            *)
(* OfflineQueue and KtQueue for any number of commands, outages, reloads,     *)
(* restarts and callers.                                                      *)
EXTENDS WsTransport, KtTransport, OfflineQueue, KtQueue, FiniteSetTheorems, SequenceTheorems, TLAPS

-----------------------------------------------------------------------------
(* The loop of attribute                                                     *)

Orphan == [of : Batch, among : SUBSET Batch]
\* The frames os are refusals of batches of ps, one of each, that may own them.
Sound(os, ps) ==
  /\ \A x \in os : x.of \in x.among /\ x.of \in ps
  /\ \A x, y \in os : x.of = y.of => x = y
Settled(f) == f.orphans = Narrowed(f.orphans, f.open \ f.given) /\ Owned(f.orphans) = {}
\* What n turns leave of the frames os among the batches ps.
AfterTurns(os, ps, f, n) ==
  /\ f \in [orphans : SUBSET Orphan, open : {ps}, given : SUBSET ps]
  /\ \A o \in f.orphans : \E x \in os : x.of = o.of /\ o.among \subseteq x.among
  /\ Settled(f) \/ Cardinality(f.given) >= n
  /\ Sound(os, ps) => Sound(f.orphans, ps \ f.given) /\ \A b \in f.given : \E x \in os : x.of = b

LEMMA NarrowedIs ==
  ASSUME NEW os \in SUBSET Orphan, NEW ps \in SUBSET Batch
  PROVE  /\ Narrowed(os, ps) \in SUBSET Orphan
         /\ \A o \in Narrowed(os, ps) : o.among \subseteq ps /\ o.among # {} /\ \E x \in os : x.of = o.of /\ o.among = x.among \cap ps
         /\ Sound(os, ps) => Sound(Narrowed(os, ps), ps)
<1>1. \A x \in os : /\ [x EXCEPT !.among = x.among \cap ps] \in Orphan
                    /\ [x EXCEPT !.among = x.among \cap ps].of = x.of
                    /\ [x EXCEPT !.among = x.among \cap ps].among = x.among \cap ps
  BY DEF Orphan
<1>2. \A o \in Narrowed(os, ps) : o.among # {} /\ \E x \in os : o = [x EXCEPT !.among = x.among \cap ps]
  BY DEF Narrowed
<1>3. \A o \in Narrowed(os, ps) : o \in Orphan /\ o.among \subseteq ps /\ \E x \in os : x.of = o.of /\ o.among = x.among \cap ps
  BY <1>1, <1>2
<1>4. ASSUME Sound(os, ps) PROVE Sound(Narrowed(os, ps), ps)
  <2>1. ASSUME NEW o \in Narrowed(os, ps) PROVE o.of \in o.among /\ o.of \in ps
    BY <1>3, <1>4 DEF Sound
  <2>2. ASSUME NEW o \in Narrowed(os, ps), NEW p \in Narrowed(os, ps), o.of = p.of PROVE o = p
    <3>1. PICK x \in os : o = [x EXCEPT !.among = x.among \cap ps]
      BY <1>2
    <3>2. PICK y \in os : p = [y EXCEPT !.among = y.among \cap ps]
      BY <1>2
    <3>3. x.of = y.of
      BY <1>1, <2>2, <3>1, <3>2
    <3>4. x = y
      BY <1>4, <3>3 DEF Sound
    <3> QED
      BY <3>1, <3>2, <3>4
  <2> QED
    BY <2>1, <2>2 DEF Sound
<1> QED
  BY <1>2, <1>3, <1>4

\* A frame with an owner among n batches, as are n others: the n batches are
\* those that were refused, and the other frames have owners elsewhere.
LEMMA OwnersAreRefused ==
  ASSUME NEW os \in SUBSET Orphan, NEW ps \in SUBSET Batch, Sound(os, ps), NEW o \in Owned(os)
  PROVE  /\ \A b \in o.among : \E x \in os : x.of = b
         /\ \A x \in os : ~(x.among \subseteq o.among) => x.of \notin o.among
<1> DEFINE X == {x \in os : x.among \subseteq o.among}
           f == [x \in X |-> x.of]
<1>1. o \in os /\ Cardinality(X) >= Cardinality(o.among)
  BY DEF Owned
<1>2. IsFiniteSet(o.among)
  BY <1>1, AttributionAssumption, FS_Subset DEF Orphan
<1>3. f \in Injection(X, o.among)
  <2>1. f \in [X -> o.among]
    BY DEF Sound
  <2>2. \A x, y \in X : f[x] = f[y] => x = y
    BY DEF Sound
  <2> QED
    BY <2>1, <2>2 DEF Injection, IsInjective
<1>4. IsFiniteSet(X) /\ Cardinality(X) <= Cardinality(o.among) /\ (Cardinality(X) = Cardinality(o.among) => f \in Surjection(X, o.among))
  BY <1>2, <1>3, FS_Injection
<1>5. Cardinality(X) \in Nat /\ Cardinality(o.among) \in Nat
  BY <1>2, <1>4, FS_CardinalityType
<1>6. f \in Surjection(X, o.among)
  BY <1>1, <1>4, <1>5
<1>7. \A b \in o.among : \E x \in X : x.of = b
  BY <1>6 DEF Surjection
<1>8. ASSUME NEW x \in os, ~(x.among \subseteq o.among), x.of \in o.among PROVE FALSE
  <2>1. PICK y \in X : y.of = x.of
    BY <1>7, <1>8
  <2>2. x = y
    BY <2>1 DEF Sound
  <2> QED
    BY <1>8, <2>2
<1> QED
  BY <1>7, <1>8

LEMMA OneTurn ==
  ASSUME NEW os \in SUBSET Orphan, NEW ps \in SUBSET Batch, NEW f, NEW n \in Nat, AfterTurns(os, ps, f, n)
  PROVE  AfterTurns(os, ps, Attribute(f), n + 1)
<1> DEFINE qs == ps \ f.given
           Cut == Narrowed(f.orphans, qs)
<1>1. /\ f \in [orphans : SUBSET Orphan, open : {ps}, given : SUBSET ps] /\ f.open = ps
      /\ f.orphans \in SUBSET Orphan /\ f.given \in SUBSET ps /\ qs \in SUBSET Batch
  BY DEF AfterTurns
<1>2. /\ Cut \in SUBSET Orphan
      /\ \A o \in Cut : o.among \subseteq qs /\ o.among # {} /\ \E x \in f.orphans : x.of = o.of /\ o.among \subseteq x.among
      /\ Sound(f.orphans, qs) => Sound(Cut, qs)
  <2>1. f.orphans \in SUBSET Orphan /\ qs \in SUBSET Batch
    BY <1>1
  <2>2. /\ Cut \in SUBSET Orphan
        /\ \A o \in Cut : o.among \subseteq qs /\ o.among # {} /\ \E x \in f.orphans : x.of = o.of /\ o.among = x.among \cap qs
        /\ Sound(f.orphans, qs) => Sound(Cut, qs)
    BY <2>1, NarrowedIs, Zenon
  <2> HIDE DEF Cut, qs
  <2> QED BY <2>2
<1>0. \A o \in f.orphans : \E x \in os : x.of = o.of /\ o.among \subseteq x.among
  BY DEF AfterTurns
<1>3. \A o \in Cut : \E x \in os : x.of = o.of /\ o.among \subseteq x.among
  <2> HIDE DEF Cut
  <2> QED
    BY <1>2, <1>0
<1>4. Sound(os, ps) => Sound(Cut, qs) /\ \A b \in f.given : \E x \in os : x.of = b
  BY <1>2 DEF AfterTurns
<1>5. IsFiniteSet(f.given) /\ Cardinality(f.given) \in Nat
  BY <1>1, AttributionAssumption, FS_Subset, FS_CardinalityType
<1>6. CASE Owned(Cut) = {}
  <2> DEFINE g == [f EXCEPT !.orphans = Cut]
  <2>1. Attribute(f) = g
    BY <1>1, <1>6 DEF Attribute
  <2>2. g \in [orphans : SUBSET Orphan, open : {ps}, given : SUBSET ps] /\ g.orphans = Cut /\ g.given = f.given /\ g.open = ps
    BY <1>1, <1>2
  <2>3. Cut = Narrowed(Cut, qs)
    <3>1. \A o \in Cut : o.among \cap qs = o.among /\ o.among # {} /\ o \in Orphan
      BY <1>2
    <3>2. \A o \in Cut : [o EXCEPT !.among = o.among \cap qs] = o
      BY <3>1 DEF Orphan
    <3> QED
      BY <3>1, <3>2 DEF Narrowed
  <2>4. Settled(g)
    BY <1>6, <2>2, <2>3 DEF Settled
  <2>5. \A o \in g.orphans : \E x \in os : x.of = o.of /\ o.among \subseteq x.among
    BY <1>3, <2>2
  <2>6. Sound(os, ps) => Sound(g.orphans, ps \ g.given) /\ \A b \in g.given : \E x \in os : x.of = b
    BY <1>4, <2>2
  <2> HIDE DEF g
  <2> QED
    BY <2>1, <2>2, <2>4, <2>5, <2>6 DEF AfterTurns
<1>7. CASE Owned(Cut) # {}
  <2>1. ~Settled(f)
    BY <1>1, <1>7 DEF Settled
  <2> DEFINE o == CHOOSE x \in Owned(Cut) : TRUE
             R == {x \in Cut : ~(x.among \subseteq o.among)}
             g == [f EXCEPT !.orphans = R, !.given = f.given \cup o.among]
  <2>2. o \in Owned(Cut) /\ o \in Cut
    BY <1>7 DEF Owned
  <2>3. Attribute(f) = g
    BY <1>1, <1>7 DEF Attribute
  <2> HIDE DEF o
  <2>4. o.among \subseteq qs /\ o.among # {}
    BY <1>2, <2>2
  <2>5. g \in [orphans : SUBSET Orphan, open : {ps}, given : SUBSET ps] /\ g.orphans = R /\ g.given = f.given \cup o.among
    BY <1>1, <1>2, <2>4
  <2>6. Cardinality(f.given) >= n
    BY <2>1 DEF AfterTurns
  <2>7. Cardinality(f.given \cup o.among) >= n + 1
    <3>1. PICK b \in o.among : b \in Batch /\ b \notin f.given
      BY <2>4
    <3>2. IsFiniteSet(f.given \cup {b}) /\ Cardinality(f.given \cup {b}) = Cardinality(f.given) + 1
      BY <1>5, <3>1, FS_AddElement
    <3>3. IsFiniteSet(f.given \cup o.among) /\ f.given \cup {b} \in SUBSET (f.given \cup o.among)
      <4>1. f.given \cup o.among \in SUBSET Batch
        BY <1>1, <2>4
      <4> QED
        BY <4>1, AttributionAssumption, FS_Subset
    <3>4. Cardinality(f.given \cup {b}) <= Cardinality(f.given \cup o.among) /\ Cardinality(f.given \cup o.among) \in Nat
      BY <3>3, FS_Subset, FS_CardinalityType
    <3> QED
      BY <1>5, <2>6, <3>2, <3>4
  <2>8. ASSUME Sound(os, ps) PROVE Sound(R, ps \ (f.given \cup o.among)) /\ \A b \in f.given \cup o.among : \E x \in os : x.of = b
    <3>1. Sound(Cut, qs)
      BY <1>4, <2>8
    <3>2. (\A b \in o.among : \E x \in Cut : x.of = b) /\ \A x \in R : x.of \notin o.among
      <4> HIDE DEF Cut, qs
      <4>1. Cut \in SUBSET Orphan /\ qs \in SUBSET Batch /\ o \in Owned(Cut)
        BY <1>1, <1>2, <2>2
      <4>2. /\ \A b \in o.among : \E x \in Cut : x.of = b
            /\ \A x \in Cut : ~(x.among \subseteq o.among) => x.of \notin o.among
        BY <3>1, <4>1, OwnersAreRefused
      <4> QED
        BY <4>2
    <3>3. Sound(R, ps \ (f.given \cup o.among))
      BY <3>1, <3>2 DEF Sound
    <3>4. \A b \in f.given \cup o.among : \E x \in os : x.of = b
      <4>1. \A x \in Cut : \E y \in os : y.of = x.of
        BY <1>3
      <4> HIDE DEF Cut
      <4> QED
        BY <1>4, <2>8, <3>2, <4>1
    <3> QED
      BY <3>3, <3>4
  <2>9. \A x \in R : \E y \in os : y.of = x.of /\ x.among \subseteq y.among
    BY <1>3
  <2> HIDE DEF g
  <2> QED
    BY <2>3, <2>5, <2>7, <2>8, <2>9 DEF AfterTurns
<1> QED
  BY <1>6, <1>7

\* A set of numbers that has a member has a least one.
LEMMA LeastOf ==
  ASSUME NEW T \in SUBSET Nat, T # {}
  PROVE  \E n \in T : \A m \in T : n <= m
<1>1. PICK n \in T : \A m \in T : ~(<<m, n>> \in OpToRel(<, Nat))
  BY NatLessThanWellFounded, WFMin
<1>2. \A m \in T : ~(m < n)
  BY <1>1 DEF OpToRel
<1> QED
  BY <1>2

\* The loop's turns, as a function that is there for every number of turns.
TurnsAre(os, ps, K, turn) ==
  turn = [n \in 0..K |-> IF n = 0 THEN [orphans |-> os, open |-> ps, given |-> {}] ELSE Attribute(turn[n - 1])]

LEMMA TurnsExist ==
  ASSUME NEW os, NEW ps, NEW K \in Nat
  PROVE  \E turn : TurnsAre(os, ps, K, turn)
<1> DEFINE T == {k \in Nat : ~ \E turn : TurnsAre(os, ps, k, turn)}
           first == [orphans |-> os, open |-> ps, given |-> {}]
<1> SUFFICES ASSUME T # {} PROVE FALSE
  OBVIOUS
<1>1. PICK k \in T : \A m \in T : k <= m
  <2> HIDE DEF T
  <2>1. T \in SUBSET Nat
    BY DEF T
  <2> QED
    BY <2>1, LeastOf
<1>2. k # 0
  <2>1. TurnsAre(os, ps, 0, [n \in 0..0 |-> first])
    BY DEF TurnsAre
  <2> QED
    BY <2>1, <1>1
<1>3. k - 1 \in Nat /\ k - 1 \notin T
  BY <1>1, <1>2
<1>4. PICK f : TurnsAre(os, ps, k - 1, f)
  BY <1>3
<1> DEFINE g == [n \in 0..k |-> IF n = k THEN Attribute(f[k - 1]) ELSE f[n]]
<1>5. TurnsAre(os, ps, k, g)
  <2>1. ASSUME NEW n \in 0..k PROVE g[n] = IF n = 0 THEN first ELSE Attribute(g[n - 1])
    <3>1. CASE n = k
      <4>1. g[n] = Attribute(f[k - 1]) /\ g[n - 1] = f[k - 1] /\ n # 0
        BY <1>2, <1>3, <3>1
      <4> QED
        BY <3>1, <4>1
    <3>2. CASE n # k
      <4>1. n \in 0..(k - 1) /\ g[n] = f[n]
        BY <1>3, <3>2
      <4>2. f[n] = IF n = 0 THEN first ELSE Attribute(f[n - 1])
        BY <1>4, <4>1 DEF TurnsAre
      <4>3. n # 0 => g[n - 1] = f[n - 1]
        BY <1>3, <3>2
      <4> QED
        BY <4>1, <4>2, <4>3
    <3> QED
      BY <3>1, <3>2
  <2> DEFINE h == [n \in 0..k |-> IF n = 0 THEN first ELSE Attribute(g[n - 1])]
  <2>2. \A n \in 0..k : g[n] = h[n]
    BY <2>1
  <2>3. g = h
    <3>1. g = [n \in 0..k |-> g[n]] /\ h = [n \in 0..k |-> h[n]]
      OBVIOUS
    <3> HIDE DEF g, h
    <3> QED
      BY <2>2, <3>1
  <2> QED
    BY <2>3 DEF TurnsAre
<1> QED
  BY <1>1, <1>5

\* What attribute leaves: frames that may still be of batches of ps it closed
\* no longer; and if every frame is the refusal of one of ps that may own it,
\* so is every frame left, and the batches it closed were refused.
LEMMA AttributedIs ==
  ASSUME NEW os \in SUBSET Orphan, NEW ps \in SUBSET Batch
  PROVE  /\ Attributed(os, ps).given \subseteq ps
         /\ Attributed(os, ps).orphans \subseteq [of : Batch, among : (SUBSET (ps \ Attributed(os, ps).given)) \ {{}}]
         /\ \A o \in Attributed(os, ps).orphans : \E x \in os : x.of = o.of /\ o.among \subseteq x.among
         /\ Sound(os, ps) => /\ Sound(Attributed(os, ps).orphans, ps \ Attributed(os, ps).given)
                             /\ \A b \in Attributed(os, ps).given : \E x \in os : x.of = b
<1> DEFINE K == Cardinality(Batch) + 1
           first == [orphans |-> os, open |-> ps, given |-> {}]
<1>1. Cardinality(Batch) \in Nat /\ K \in Nat
  BY AttributionAssumption, FS_CardinalityType
<1> DEFINE turn == CHOOSE t : TurnsAre(os, ps, K, t)
<1>2. Attributed(os, ps) = turn[K]
  BY DEF Attributed, TurnsAre
<1>3. TurnsAre(os, ps, K, turn)
  BY <1>1, TurnsExist
<1> HIDE DEF turn
<1>4. turn[0] = first /\ \A n \in 0..K : n # 0 => turn[n] = Attribute(turn[n - 1])
  <2>1. turn = [n \in 0..K |-> IF n = 0 THEN first ELSE Attribute(turn[n - 1])]
    BY <1>3 DEF TurnsAre
  <2> HIDE DEF K, first
  <2>2. 0 \in 0..K
    BY <1>1
  <2>3. \A n \in 0..K : turn[n] = IF n = 0 THEN first ELSE Attribute(turn[n - 1])
    BY <2>1, Zenon
  <2> QED
    BY <2>2, <2>3
<1> DEFINE T == {n \in 0..K : ~AfterTurns(os, ps, turn[n], n)}
<1>5. T = {}
  <2> SUFFICES ASSUME T # {} PROVE FALSE
    OBVIOUS
  <2>1. PICK k \in T : \A m \in T : k <= m
    <3>1. T \in SUBSET Nat
      OBVIOUS
    <3> HIDE DEF T
    <3> QED
      BY <3>1, LeastOf
  <2>2. AfterTurns(os, ps, first, 0)
    <3>1. first \in [orphans : SUBSET Orphan, open : {ps}, given : SUBSET ps] /\ first.orphans = os /\ first.given = {}
      OBVIOUS
    <3>2. Cardinality({}) >= 0
      BY FS_EmptySet
    <3>3. Sound(os, ps) => Sound(os, ps \ {})
      BY DEF Sound
    <3> HIDE DEF first
    <3> QED
      BY <3>1, <3>2, <3>3 DEF AfterTurns
  <2>3. k # 0
    BY <1>4, <2>1, <2>2
  <2>4. k - 1 \in Nat /\ k - 1 \in 0..K /\ k - 1 \notin T
    BY <1>1, <2>1, <2>3
  <2>5. AfterTurns(os, ps, turn[k - 1], k - 1)
    BY <2>4
  <2>6. AfterTurns(os, ps, Attribute(turn[k - 1]), k - 1 + 1)
    BY <2>4, <2>5, OneTurn
  <2>7. k - 1 + 1 = k /\ turn[k] = Attribute(turn[k - 1])
    BY <1>4, <2>1, <2>3
  <2> QED
    BY <2>1, <2>6, <2>7
<1> DEFINE a == turn[K]
<1>6. AfterTurns(os, ps, a, K)
  BY <1>1, <1>5
<1> HIDE DEF a
<1>7. a.given \subseteq ps /\ a.orphans \in SUBSET Orphan /\ a.open = ps
  BY <1>6 DEF AfterTurns
<1>8. Settled(a)
  <2>1. Cardinality(a.given) <= Cardinality(Batch) /\ Cardinality(a.given) \in Nat
    BY <1>7, AttributionAssumption, FS_Subset, FS_CardinalityType
  <2>2. ~(Cardinality(a.given) >= K)
    BY <1>1, <2>1
  <2> QED
    BY <1>6, <2>2 DEF AfterTurns
<1>9. a.orphans = Narrowed(a.orphans, ps \ a.given)
  BY <1>7, <1>8 DEF Settled
<1>10. \A o \in a.orphans : o.among \subseteq ps \ a.given /\ o.among # {}
  <2>1. ps \ a.given \in SUBSET Batch
    OBVIOUS
  <2>2. \A o \in Narrowed(a.orphans, ps \ a.given) : o.among \subseteq ps \ a.given /\ o.among # {}
    <3> DEFINE qs == ps \ a.given
               xs == a.orphans
    <3>1. qs \in SUBSET Batch /\ xs \in SUBSET Orphan
      BY <1>7, <2>1
    <3> HIDE DEF qs, xs
    <3>2. \A o \in Narrowed(xs, qs) : o.among \subseteq qs /\ o.among # {}
      BY <3>1, NarrowedIs
    <3> QED
      BY <3>2 DEF qs, xs
  <2>3. ASSUME NEW o \in a.orphans PROVE o \in Narrowed(a.orphans, ps \ a.given)
    BY <1>9, Zenon
  <2> QED
    BY <2>2, <2>3
<1>11. a.orphans \subseteq [of : Batch, among : (SUBSET (ps \ a.given)) \ {{}}]
  <2> SUFFICES ASSUME NEW o \in a.orphans PROVE o \in [of : Batch, among : (SUBSET (ps \ a.given)) \ {{}}]
    OBVIOUS
  <2>1. o \in [of : Batch, among : SUBSET Batch]
    BY <1>7 DEF Orphan
  <2>2. o.among \subseteq ps \ a.given /\ o.among # {}
    BY <1>10
  <2> QED
    BY <2>1, <2>2
<1> QED
  BY <1>2, <1>6, <1>7, <1>11 DEF AfterTurns, a
-----------------------------------------------------------------------------
(* WsTransport                                                               *)

\* How the sockets stand to one another.
SocketsInTurn ==
  /\ \A s \in Socket : ready[s] = "open" => socket = s
  /\ opening # 0 => ready[opening] = "connecting"
  /\ \A s, t \in Socket : ready[s] = "closing" /\ ready[t] \in {"connecting", "open", "closing"} => s = t
\* How a batch stands to the socket it is on, and to the server.
BatchOnSocket(b) ==
  /\ state[b] = "new" <=> on[b] = 0
  /\ serving[b] = "none" <=> b \notin sent
  /\ b \in sent => on[b] # 0 /\ ready[on[b]] \in {"open", "closing", "gone"}
  /\ b \notin sent /\ on[b] # 0 => ready[on[b]] \in {"connecting", "gone"}
  /\ state[b] = "pending" => ready[on[b]] \in {"connecting", "open", "closing"} /\ left[b] # 0
  /\ state[b] = "unavailable" => ready[on[b]] = "gone"
  /\ left[b] # Ops => serving[b] = "answering"
  /\ state[b] = "answered" => left[b] = 0
BatchesOnSockets == \A b \in Batch : BatchOnSocket(b)
\* What is on the wire, and that a batch is refused once.
FramesInPlace ==
  \A s \in Socket :
    /\ wire[s] # <<>> => ready[s] = "open"
    /\ \A j \in 1..Len(wire[s]) :
         /\ on[wire[s][j].of] = s
         /\ serving[wire[s][j].of] = IF wire[s][j].refusal THEN "refused" ELSE "answering"
    /\ \A j, k \in 1..Len(wire[s]) : wire[s][j].refusal /\ wire[s][j] = wire[s][k] => j = k
\* The refusal of a batch that is known to be refused, or held among the
\* orphans, is off the wire.
Heard(b) == serving[b] = "refused" /\ \A s \in Socket : \A j \in 1..Len(wire[s]) : wire[s][j] # [of |-> b, refusal |-> TRUE]
OrphansInPlace ==
  /\ \A o \in orphans : Heard(o.of) /\ o.among \subseteq sent
  /\ (\A b \in Batch : state[b] # "returned") =>
       /\ Sound(orphans, Pending \ AnsweredSome)
       /\ \A b \in Batch : state[b] = "refused" => Heard(b)

WsInv == WsTypeOK /\ OneConnection /\ SocketsInTurn /\ BatchesOnSockets /\ FramesInPlace /\ OrphansInPlace

Frame == [of : Batch, refusal : BOOLEAN]
\* Orphans that were in their places stay so when more batches may own them.
LEMMA OrphansOfMore ==
  ASSUME NEW ps, NEW qs, ps \subseteq qs, orphans \subseteq [of : Batch, among : (SUBSET ps) \ {{}}]
  PROVE  /\ orphans \subseteq [of : Batch, among : (SUBSET qs) \ {{}}]
         /\ Sound(orphans, ps) => Sound(orphans, qs)
<1>1. ASSUME NEW o \in orphans PROVE o \in [of : Batch, among : (SUBSET qs) \ {{}}]
  BY <1>1
<1> QED
  BY <1>1 DEF Sound

LEMMA FrameTakenOff ==
  ASSUME NEW w \in Seq(Frame), w # <<>>
  PROVE  /\ Head(w) = w[1] /\ Head(w) \in Frame /\ Tail(w) \in Seq(Frame) /\ Len(w) \in Nat /\ Len(w) >= 1
         /\ Len(Tail(w)) = Len(w) - 1 /\ \A j \in 1..Len(Tail(w)) : Tail(w)[j] = w[j + 1] /\ j + 1 \in 1..Len(w) /\ j + 1 # 1
<1>1. Len(w) \in Nat /\ Len(w) >= 1 /\ Head(w) = w[1] /\ Head(w) \in Frame /\ Tail(w) \in Seq(Frame) /\ Len(Tail(w)) = Len(w) - 1
  OBVIOUS
<1>2. \A j \in 1..(Len(w) - 1) : Tail(w)[j] = w[j + 1]
  OBVIOUS
<1> QED
  BY <1>1, <1>2

LEMMA FramePutOn ==
  ASSUME NEW w \in Seq(Frame), NEW f \in Frame
  PROVE  /\ Append(w, f) \in Seq(Frame) /\ Len(w) \in Nat /\ Len(Append(w, f)) = Len(w) + 1
         /\ \A j \in 1..Len(Append(w, f)) : (j \in 1..Len(w) /\ Append(w, f)[j] = w[j]) \/ (j = Len(w) + 1 /\ Append(w, f)[j] = f)
<1>1. Append(w, f) \in Seq(Frame) /\ Len(w) \in Nat /\ Len(Append(w, f)) = Len(w) + 1
  OBVIOUS
<1>2. \A j \in 1..(Len(w) + 1) : Append(w, f)[j] = IF j = Len(w) + 1 THEN f ELSE w[j]
  OBVIOUS
<1> QED
  BY <1>1, <1>2

LEMMA FrameOnWire ==
  ASSUME WsTypeOK, FramesInPlace, NEW s \in Socket, NEW j \in 1..Len(wire[s])
  PROVE  /\ wire[s] \in Seq(Frame) /\ wire[s][j] \in Frame /\ on[wire[s][j].of] = s
         /\ serving[wire[s][j].of] \in {"refused", "answering"} /\ ready[s] = "open"
<1>1. wire[s] \in Seq(Frame)
  BY DEF WsTypeOK, Frame
<1>2. wire[s][j] \in Frame /\ wire[s] # <<>>
  BY <1>1
<1> QED
  BY <1>1, <1>2 DEF FramesInPlace

LEMMA WsStarts == WsInit => WsInv
<1> SUFFICES ASSUME WsInit PROVE WsInv
  OBVIOUS
<1>1. WsTypeOK
  <2>1. wire \in [Socket -> Seq(Frame)]
    <3>1. <<>> \in Seq(Frame)
      OBVIOUS
    <3> QED
      BY <3>1 DEF WsInit
  <2> QED
    BY <2>1, WsAssumption DEF WsInit, WsTypeOK, Frame
<1>2. OneConnection /\ SocketsInTurn
  BY DEF WsInit, OneConnection, SocketsInTurn
<1>3. BatchesOnSockets
  BY WsAssumption DEF WsInit, BatchesOnSockets, BatchOnSocket
<1>4. FramesInPlace
  BY DEF WsInit, FramesInPlace
<1>5. OrphansInPlace
  BY DEF WsInit, OrphansInPlace, Sound
<1> QED
  BY <1>1, <1>2, <1>3, <1>4, <1>5 DEF WsInv

LEMMA SendNowKeeps ==
  ASSUME WsInv, NEW b \in Batch, SendNow(b)
  PROVE  WsInv'
<1> USE DEF WsInv
<1>1. /\ state[b] = "new" /\ socket \in Socket /\ ready[socket] = "open"
      /\ state' = [state EXCEPT ![b] = "pending"] /\ on' = [on EXCEPT ![b] = socket] /\ sent' = sent \cup {b}
      /\ serving' = [serving EXCEPT ![b] = "got"]
      /\ UNCHANGED <<ready, socket, opening, left, orphans, owed, wire>>
  BY DEF SendNow, conns, WsTypeOK
<1>2. serving[b] = "none" /\ left[b] = Ops /\ on[b] = 0
  <2>1. BatchOnSocket(b)
    BY DEF BatchesOnSockets
  <2> QED
    BY <1>1, <2>1 DEF BatchOnSocket
<1>3. AnsweredSome' = AnsweredSome /\ Pending' = Pending \cup {b}
  BY <1>1 DEF AnsweredSome, Pending, WsTypeOK
<1>4. WsTypeOK'
  <2>1. orphans \subseteq [of : Batch, among : (SUBSET (Pending' \ AnsweredSome')) \ {{}}]
    <3>1. Pending \ AnsweredSome \subseteq Pending' \ AnsweredSome'
      BY <1>3
    <3> QED
      BY <3>1, OrphansOfMore DEF WsTypeOK
  <2> QED
    BY <1>1, <2>1 DEF WsTypeOK
<1>5. OneConnection' /\ SocketsInTurn'
  BY <1>1 DEF OneConnection, SocketsInTurn
<1>6. BatchesOnSockets'
  <2> SUFFICES ASSUME NEW c \in Batch PROVE BatchOnSocket(c)'
    BY DEF BatchesOnSockets
  <2>1. BatchOnSocket(c)
    BY DEF BatchesOnSockets
  <2>2. CASE c = b
    <3>1. state'[c] = "pending" /\ on'[c] = socket /\ serving'[c] = "got" /\ c \in sent' /\ left'[c] = Ops
      BY <1>1, <1>2, <2>2 DEF WsTypeOK
    <3>2. Ops # 0 /\ socket # 0
      BY <1>1, WsAssumption DEF Socket
    <3> QED
      BY <1>1, <3>1, <3>2 DEF BatchOnSocket
  <2>3. CASE c # b
    <3>1. state'[c] = state[c] /\ on'[c] = on[c] /\ serving'[c] = serving[c] /\ (c \in sent' <=> c \in sent)
      BY <1>1, <2>3 DEF WsTypeOK
    <3> QED
      BY <1>1, <2>1, <3>1 DEF BatchOnSocket
  <2> QED
    BY <2>2, <2>3
<1>7. FramesInPlace'
  BY <1>1, <1>2 DEF FramesInPlace, WsTypeOK
<1>8. OrphansInPlace'
  <2>1. \A c \in Batch : Heard(c) => Heard(c)'
    BY <1>1, <1>2 DEF Heard, WsTypeOK
  <2>2. \A o \in orphans : Heard(o.of)' /\ o.among \subseteq sent'
    BY <1>1, <2>1 DEF OrphansInPlace, WsTypeOK
  <2>3. ASSUME \A c \in Batch : state'[c] # "returned" PROVE Sound(orphans, Pending' \ AnsweredSome') /\ \A c \in Batch : state'[c] = "refused" => Heard(c)'
    <3>1. \A c \in Batch : state[c] # "returned"
      BY <1>1, <2>3 DEF WsTypeOK
    <3>2. Sound(orphans, Pending' \ AnsweredSome')
      BY <1>3, <3>1 DEF OrphansInPlace, Sound
    <3>3. \A c \in Batch : state'[c] = "refused" => state[c] = "refused"
      BY <1>1 DEF WsTypeOK
    <3> QED
      BY <2>1, <3>1, <3>2, <3>3 DEF OrphansInPlace
  <2> QED
    BY <1>1, <2>2, <2>3 DEF OrphansInPlace
<1> QED
  BY <1>4, <1>5, <1>6, <1>7, <1>8

LEMMA OrphansStay ==
  ASSUME WsTypeOK, OrphansInPlace, orphans' = orphans, sent \subseteq sent',
         \A c \in Batch : Heard(c) => Heard(c)',
         \A c \in Batch : state'[c] = "refused" => state[c] = "refused",
         \A c \in Batch : state[c] = "returned" => state'[c] = "returned",
         \A o \in orphans : o.of \in Pending \ AnsweredSome => o.of \in Pending' \ AnsweredSome'
  PROVE  OrphansInPlace'
<1>1. \A o \in orphans : o.of \in Batch
  BY DEF WsTypeOK
<1>2. \A o \in orphans : Heard(o.of)' /\ o.among \subseteq sent'
  BY <1>1 DEF OrphansInPlace
<1>3. ASSUME \A c \in Batch : state'[c] # "returned" PROVE Sound(orphans, Pending' \ AnsweredSome') /\ \A c \in Batch : state'[c] = "refused" => Heard(c)'
  <2>1. \A c \in Batch : state[c] # "returned"
    BY <1>3
  <2>2. Sound(orphans, Pending' \ AnsweredSome')
    BY <2>1 DEF OrphansInPlace, Sound
  <2> QED
    BY <2>1, <2>2 DEF OrphansInPlace
<1> QED
  BY <1>2, <1>3 DEF OrphansInPlace

LEMMA SendLaterKeeps ==
  ASSUME ~Overlap, WsInv, NEW b \in Batch, SendLater(b)
  PROVE  WsInv'
<1> USE DEF WsInv
<1>1. /\ state[b] = "new" /\ Closing = {} /\ state' = [state EXCEPT ![b] = "pending"]
      /\ UNCHANGED <<socket, sent, left, orphans, serving, owed, wire>>
      /\ \A s \in Socket : ready[s] \notin {"open", "closing"}
  BY DEF SendLater, server, Closing, SocketsInTurn, Socket
<1>2. PICK s \in Socket : /\ on' = [on EXCEPT ![b] = s] /\ opening' = s
                          /\ \/ opening = s /\ ready' = ready /\ ready[s] = "connecting"
                             \/ opening = 0 /\ ready[s] = "none" /\ ready' = [ready EXCEPT ![s] = "connecting"]
  <2>1. CASE opening # 0
    BY <2>1 DEF SendLater, SocketsInTurn, WsTypeOK
  <2>2. CASE opening = 0
    BY <2>2 DEF SendLater, Unopened
  <2> QED
    BY <2>1, <2>2
<1>3. /\ ready' \in [Socket -> {"none", "connecting", "open", "closing", "gone"}] /\ ready'[s] = "connecting"
      /\ \A t \in Socket : t # s => ready'[t] = ready[t]
  BY <1>2 DEF WsTypeOK
<1>4. s # 0 /\ s \in Nat
  BY DEF Socket
<1>5. BatchOnSocket(b) /\ serving[b] = "none" /\ left[b] = Ops /\ on[b] = 0 /\ b \notin sent
  <2>1. BatchOnSocket(b)
    BY DEF BatchesOnSockets
  <2> QED
    BY <1>1, <2>1 DEF BatchOnSocket
<1>6. AnsweredSome' = AnsweredSome /\ Pending' = Pending \cup {b}
  BY <1>1 DEF AnsweredSome, Pending, WsTypeOK
<1>7. WsTypeOK'
  <2>1. orphans \subseteq [of : Batch, among : (SUBSET (Pending' \ AnsweredSome')) \ {{}}]
    <3>1. Pending \ AnsweredSome \subseteq Pending' \ AnsweredSome'
      BY <1>6
    <3> QED
      BY <3>1, OrphansOfMore DEF WsTypeOK
  <2> QED
    BY <1>1, <1>2, <1>3, <2>1 DEF WsTypeOK
<1>8. \A t \in Socket : ready'[t] \in {"open", "closing", "connecting"} => t = s
  <2> SUFFICES ASSUME NEW t \in Socket, t # s, ready'[t] \in {"open", "closing", "connecting"} PROVE FALSE
    OBVIOUS
  <2>1. ready[t] = "connecting"
    BY <1>1, <1>3
  <2>2. opening = t
    BY <2>1 DEF OneConnection
  <2>3. t # 0
    BY DEF Socket
  <2> QED
    BY <1>2, <2>2, <2>3
<1>9. OneConnection' /\ SocketsInTurn'
  BY <1>2, <1>3, <1>8 DEF OneConnection, SocketsInTurn
<1>10. BatchesOnSockets'
  <2> SUFFICES ASSUME NEW c \in Batch PROVE BatchOnSocket(c)'
    BY DEF BatchesOnSockets
  <2>1. BatchOnSocket(c)
    BY DEF BatchesOnSockets
  <2>2. CASE c = b
    <3>1. state'[c] = "pending" /\ on'[c] = s /\ serving'[c] = "none" /\ c \notin sent' /\ left'[c] = Ops
      BY <1>1, <1>2, <1>5, <2>2 DEF WsTypeOK
    <3>2. Ops # 0
      BY WsAssumption
    <3> QED
      BY <1>3, <1>4, <3>1, <3>2 DEF BatchOnSocket
  <2>3. CASE c # b
    <3>1. state'[c] = state[c] /\ on'[c] = on[c] /\ serving'[c] = serving[c] /\ (c \in sent' <=> c \in sent) /\ left'[c] = left[c]
      BY <1>1, <1>2, <2>3 DEF WsTypeOK
    <3>2. on[c] # 0 => on[c] \in Socket /\ ready[on[c]] # "none"
      BY <2>1 DEF BatchOnSocket, WsTypeOK
    <3>3. on[c] # 0 => ready'[on[c]] = ready[on[c]]
      BY <1>2, <1>3, <3>2
    <3>4. state[c] \in {"pending", "unavailable"} => on[c] # 0
      BY <2>1 DEF BatchOnSocket
    <3> QED
      BY <2>1, <3>1, <3>3, <3>4 DEF BatchOnSocket
  <2> QED
    BY <2>2, <2>3
<1>11. FramesInPlace'
  <2>1. \A t \in Socket : wire[t] = <<>>
    BY <1>1 DEF FramesInPlace
  <2>2. Len(<<>>) = 0
    OBVIOUS
  <2> QED
    BY <1>1, <2>1, <2>2 DEF FramesInPlace
<1>12. OrphansInPlace'
  <2>1. \A c \in Batch : Heard(c) => Heard(c)'
    BY <1>1 DEF Heard
  <2>2. \A c \in Batch : (state'[c] = "refused" => state[c] = "refused") /\ (state[c] = "returned" => state'[c] = "returned")
    BY <1>1 DEF WsTypeOK
  <2>3. Pending \ AnsweredSome \subseteq Pending' \ AnsweredSome'
    BY <1>6
  <2> QED
    BY <1>1, <2>1, <2>2, <2>3, OrphansStay
<1> QED
  BY <1>7, <1>9, <1>10, <1>11, <1>12

LEMMA OpenedKeeps ==
  ASSUME WsInv, NEW s \in Socket, Opened(s)
  PROVE  WsInv'
<1> USE DEF WsInv
<1> DEFINE waiting == {b \in Batch : on[b] = s}
<1>1. /\ ready[s] = "connecting" /\ ready' = [ready EXCEPT ![s] = "open"] /\ socket' = s /\ opening' = 0
      /\ sent' = sent \cup waiting /\ serving' = [b \in Batch |-> IF b \in waiting THEN "got" ELSE serving[b]]
      /\ UNCHANGED <<state, on, left, orphans, owed, wire>>
  BY DEF Opened
<1>2. /\ ready' \in [Socket -> {"none", "connecting", "open", "closing", "gone"}] /\ ready'[s] = "open"
      /\ \A t \in Socket : t # s => ready'[t] = ready[t]
  BY <1>1 DEF WsTypeOK
<1>3. s # 0 /\ 0 \notin Socket
  BY DEF Socket
<1>4. \A b \in waiting : b \notin sent /\ serving[b] = "none"
  <2> SUFFICES ASSUME NEW b \in waiting PROVE b \notin sent /\ serving[b] = "none"
    OBVIOUS
  <2>1. BatchOnSocket(b)
    BY DEF BatchesOnSockets
  <2> QED
    BY <1>1, <2>1 DEF BatchOnSocket
<1>5. Pending' = Pending /\ AnsweredSome' = AnsweredSome
  BY <1>1 DEF Pending, AnsweredSome
<1>6. WsTypeOK'
  BY <1>1, <1>2, <1>5 DEF WsTypeOK
<1>7. \A t \in Socket : ready[t] \in {"open", "connecting", "closing"} => t = s
  BY <1>1 DEF OneConnection, SocketsInTurn
<1>8. OneConnection' /\ SocketsInTurn'
  BY <1>1, <1>2, <1>7 DEF OneConnection, SocketsInTurn
<1>9. BatchesOnSockets'
  <2> SUFFICES ASSUME NEW c \in Batch PROVE BatchOnSocket(c)'
    BY DEF BatchesOnSockets
  <2>1. BatchOnSocket(c) /\ on[c] \in {0} \cup Socket
    BY DEF BatchesOnSockets, WsTypeOK
  <2>2. CASE c \in waiting
    <3>1. serving'[c] = "got" /\ c \in sent' /\ on[c] = s
      BY <1>1, <2>2
    <3>2. left[c] = Ops
      BY <1>4, <2>1, <2>2 DEF BatchOnSocket
    <3> QED
      BY <1>1, <1>2, <1>3, <2>1, <3>1, <3>2 DEF BatchOnSocket
  <2>3. CASE c \notin waiting
    <3>1. serving'[c] = serving[c] /\ (c \in sent' <=> c \in sent) /\ on[c] # s
      BY <1>1, <2>3
    <3>2. on[c] # 0 => ready'[on[c]] = ready[on[c]]
      BY <1>2, <2>1, <3>1
    <3>3. state[c] \in {"pending", "unavailable"} => on[c] # 0
      BY <2>1 DEF BatchOnSocket
    <3> QED
      BY <1>1, <2>1, <3>1, <3>2, <3>3 DEF BatchOnSocket
  <2> QED
    BY <2>2, <2>3
<1>10. FramesInPlace'
  <2> SUFFICES ASSUME NEW t \in Socket
               PROVE  /\ wire[t] # <<>> => ready'[t] = "open"
                      /\ \A j \in 1..Len(wire[t]) : serving'[wire[t][j].of] = serving[wire[t][j].of]
    BY <1>1 DEF FramesInPlace
  <2>1. ASSUME NEW j \in 1..Len(wire[t]) PROVE wire[t][j].of \in Batch /\ serving[wire[t][j].of] # "none"
    <3>1. wire[t][j] \in Frame /\ serving[wire[t][j].of] \in {"refused", "answering"}
      BY FrameOnWire
    <3> QED
      BY <3>1 DEF Frame
  <2> QED
    BY <1>1, <1>2, <1>4, <2>1 DEF FramesInPlace
<1>11. OrphansInPlace'
  <2>1. ASSUME NEW c \in Batch, Heard(c) PROVE Heard(c)'
    <3>1. serving'[c] = "refused"
      BY <1>1, <1>4, <2>1 DEF Heard
    <3> QED
      BY <1>1, <2>1, <3>1 DEF Heard
  <2>2. /\ orphans' = orphans /\ sent \subseteq sent' /\ state' = state
        /\ Pending' \ AnsweredSome' = Pending \ AnsweredSome
    BY <1>1, <1>5
  <2>3. \A c \in Batch : state'[c] = "refused" => state[c] = "refused"
    BY <2>2
  <2>4. \A c \in Batch : state[c] = "returned" => state'[c] = "returned"
    BY <2>2
  <2>5. \A o \in orphans : o.of \in Pending \ AnsweredSome => o.of \in Pending' \ AnsweredSome'
    BY <2>2
  <2> QED
    BY <2>1, <2>2, <2>3, <2>4, <2>5, OrphansStay
<1> QED
  BY <1>6, <1>8, <1>9, <1>10, <1>11

LEMMA NotOpenedKeeps ==
  ASSUME WsInv, NEW s \in Socket, NotOpened(s)
  PROVE  WsInv'
<1> USE DEF WsInv
<1> DEFINE waiting == {b \in Pending : on[b] = s}
<1>1. /\ ready[s] = "connecting" /\ ready' = [ready EXCEPT ![s] = "gone"] /\ opening' = 0
      /\ state' = [b \in Batch |-> IF b \in waiting THEN "unavailable" ELSE state[b]]
      /\ UNCHANGED <<socket, on, sent, left, orphans, serving, owed, wire>>
  BY DEF NotOpened, Closed, server
<1>2. /\ ready' \in [Socket -> {"none", "connecting", "open", "closing", "gone"}] /\ ready'[s] = "gone"
      /\ \A t \in Socket : t # s => ready'[t] = ready[t]
  BY <1>1 DEF WsTypeOK
<1>3. s # 0
  BY DEF Socket
<1>4. \A c \in Batch : on[c] = s => c \notin sent
  <2> SUFFICES ASSUME NEW c \in Batch, on[c] = s PROVE c \notin sent
    OBVIOUS
  <2>1. BatchOnSocket(c)
    BY DEF BatchesOnSockets
  <2> QED
    BY <1>1, <2>1 DEF BatchOnSocket
<1>5. AnsweredSome' = AnsweredSome /\ Pending' = Pending \ waiting /\ waiting \cap sent = {}
  BY <1>1, <1>4 DEF AnsweredSome, Pending
<1>6. WsTypeOK'
  <2>1. \A o \in orphans : o.among \subseteq Pending' \ AnsweredSome'
    BY <1>5 DEF OrphansInPlace, WsTypeOK
  <2>2. orphans \subseteq [of : Batch, among : (SUBSET (Pending' \ AnsweredSome')) \ {{}}]
    BY <2>1 DEF WsTypeOK
  <2>3. state' \in [Batch -> {"new", "pending", "answered", "refused", "unavailable", "returned"}]
    BY <1>1 DEF WsTypeOK
  <2> QED
    BY <1>1, <1>2, <2>2, <2>3 DEF WsTypeOK
<1>7. \A t \in Socket : ready'[t] # "connecting"
  BY <1>1, <1>2 DEF OneConnection
<1>8. OneConnection' /\ SocketsInTurn'
  BY <1>1, <1>2, <1>7 DEF OneConnection, SocketsInTurn
<1>9. BatchesOnSockets'
  <2> SUFFICES ASSUME NEW c \in Batch PROVE BatchOnSocket(c)'
    BY DEF BatchesOnSockets
  <2>1. BatchOnSocket(c) /\ on[c] \in {0} \cup Socket
    BY DEF BatchesOnSockets, WsTypeOK
  <2>2. CASE on[c] = s /\ state[c] = "pending"
    <3>1. state'[c] = "unavailable" /\ c \notin sent
      BY <1>1, <1>4, <2>2 DEF Pending
    <3> QED
      BY <1>1, <1>2, <1>3, <2>1, <2>2, <3>1 DEF BatchOnSocket
  <2>3. CASE on[c] = s /\ state[c] # "pending"
    <3>1. state'[c] = state[c] /\ c \notin sent
      BY <1>1, <1>4, <2>3 DEF Pending
    <3> QED
      BY <1>1, <1>2, <1>3, <2>1, <2>3, <3>1 DEF BatchOnSocket
  <2>4. CASE on[c] # s
    <3>1. state'[c] = state[c]
      BY <1>1, <2>4
    <3>2. on[c] # 0 => ready'[on[c]] = ready[on[c]]
      BY <1>2, <2>1, <2>4
    <3>3. state[c] \in {"pending", "unavailable"} => on[c] # 0
      BY <2>1 DEF BatchOnSocket
    <3> QED
      BY <1>1, <2>1, <3>1, <3>2, <3>3 DEF BatchOnSocket
  <2> QED
    BY <2>2, <2>3, <2>4
<1>10. FramesInPlace'
  <2> SUFFICES ASSUME NEW t \in Socket PROVE wire[t] # <<>> => ready'[t] = "open"
    BY <1>1 DEF FramesInPlace
  <2> QED
    BY <1>1, <1>2 DEF FramesInPlace
<1>11. OrphansInPlace'
  <2>1. \A c \in Batch : Heard(c) => Heard(c)'
    BY <1>1 DEF Heard
  <2>2. \A c \in Batch : state'[c] = "refused" => state[c] = "refused"
    BY <1>1
  <2>3. \A c \in Batch : state[c] = "returned" => state'[c] = "returned"
    BY <1>1 DEF Pending
  <2>4. \A o \in orphans : o.of \in Pending \ AnsweredSome => o.of \in Pending' \ AnsweredSome'
    <3> SUFFICES ASSUME NEW o \in orphans PROVE o.of \notin waiting
      BY <1>5
    <3>1. o.of \in Batch /\ serving[o.of] = "refused"
      BY DEF OrphansInPlace, Heard, WsTypeOK
    <3>2. BatchOnSocket(o.of)
      BY <3>1 DEF BatchesOnSockets
    <3>3. o.of \in sent
      BY <3>1, <3>2 DEF BatchOnSocket
    <3> QED
      BY <1>5, <3>3
  <2> QED
    BY <1>1, <2>1, <2>2, <2>3, <2>4, OrphansStay
<1> QED
  BY <1>6, <1>8, <1>9, <1>10, <1>11

LEMMA CloseKeeps ==
  ASSUME WsInv, NEW s \in Socket, Close(s)
  PROVE  WsInv'
<1> USE DEF WsInv
<1>1. /\ ready[s] = "open" /\ ready' = [ready EXCEPT ![s] = "closing"] /\ wire' = [wire EXCEPT ![s] = <<>>]
      /\ UNCHANGED <<socket, opening, state, on, sent, left, orphans, serving, owed>>
  BY DEF Close, server
<1>2. /\ ready' \in [Socket -> {"none", "connecting", "open", "closing", "gone"}] /\ ready'[s] = "closing"
      /\ \A t \in Socket : t # s => ready'[t] = ready[t]
  BY <1>1 DEF WsTypeOK
<1>3. s # 0
  BY DEF Socket
<1>4. AnsweredSome' = AnsweredSome /\ Pending' = Pending
  BY <1>1 DEF AnsweredSome, Pending
<1>5. wire' \in [Socket -> Seq(Frame)] /\ wire'[s] = <<>> /\ \A t \in Socket : t # s => wire'[t] = wire[t]
  <2>1. <<>> \in Seq(Frame)
    OBVIOUS
  <2> QED
    BY <1>1, <2>1 DEF WsTypeOK, Frame
<1>6. WsTypeOK'
  BY <1>1, <1>2, <1>4, <1>5 DEF WsTypeOK, Frame
<1>7. \A t \in Socket : t # s => ready[t] \notin {"connecting", "open", "closing"}
  BY <1>1 DEF OneConnection, SocketsInTurn
<1>8. OneConnection' /\ SocketsInTurn'
  BY <1>1, <1>2, <1>7 DEF OneConnection, SocketsInTurn, WsTypeOK
<1>9. BatchesOnSockets'
  <2> SUFFICES ASSUME NEW c \in Batch PROVE BatchOnSocket(c)'
    BY DEF BatchesOnSockets
  <2>1. BatchOnSocket(c) /\ on[c] \in {0} \cup Socket
    BY DEF BatchesOnSockets, WsTypeOK
  <2>2. on[c] # 0 => ready'[on[c]] = IF on[c] = s THEN "closing" ELSE ready[on[c]]
    BY <1>2, <2>1
  <2>3. state[c] \in {"pending", "unavailable"} => on[c] # 0
    BY <2>1 DEF BatchOnSocket
  <2> QED
    BY <1>1, <2>1, <2>2, <2>3 DEF BatchOnSocket
<1>10. FramesInPlace'
  <2> SUFFICES ASSUME NEW t \in Socket
               PROVE  /\ wire'[t] # <<>> => ready'[t] = "open"
                      /\ \A j \in 1..Len(wire'[t]) :
                           /\ on[wire'[t][j].of] = t
                           /\ serving[wire'[t][j].of] = IF wire'[t][j].refusal THEN "refused" ELSE "answering"
                      /\ \A j, k \in 1..Len(wire'[t]) : wire'[t][j].refusal /\ wire'[t][j] = wire'[t][k] => j = k
    BY <1>1 DEF FramesInPlace
  <2>1. CASE t = s
    BY <1>5, <2>1
  <2>2. CASE t # s
    <3>1. wire'[t] = wire[t] /\ ready'[t] = ready[t]
      BY <1>2, <1>5, <2>2
    <3> QED
      BY <3>1 DEF FramesInPlace
  <2> QED
    BY <2>1, <2>2
<1>11. OrphansInPlace'
  <2>1. ASSUME NEW c \in Batch, Heard(c) PROVE Heard(c)'
    <3> SUFFICES ASSUME NEW t \in Socket, NEW j \in 1..Len(wire'[t]) PROVE wire'[t][j] # [of |-> c, refusal |-> TRUE]
      BY <1>1, <2>1 DEF Heard
    <3>1. t # s
      BY <1>5
    <3> QED
      BY <1>5, <2>1, <3>1 DEF Heard
  <2>2. /\ orphans' = orphans /\ sent \subseteq sent' /\ state' = state
        /\ Pending' \ AnsweredSome' = Pending \ AnsweredSome
    BY <1>1, <1>4
  <2>3. \A c \in Batch : state'[c] = "refused" => state[c] = "refused"
    BY <2>2
  <2>4. \A c \in Batch : state[c] = "returned" => state'[c] = "returned"
    BY <2>2
  <2>5. \A o \in orphans : o.of \in Pending \ AnsweredSome => o.of \in Pending' \ AnsweredSome'
    BY <2>2
  <2> QED
    BY <2>1, <2>2, <2>3, <2>4, <2>5, OrphansStay
<1> QED
  BY <1>6, <1>8, <1>9, <1>10, <1>11

LEMMA CloseEventKeeps ==
  ASSUME WsInv, NEW s \in Socket, CloseEvent(s)
  PROVE  WsInv'
<1> USE DEF WsInv
<1>1. /\ ready[s] = "closing" /\ ready' = [ready EXCEPT ![s] = "gone"] /\ socket' = IF socket = s THEN 0 ELSE socket
      /\ state' = [b \in Batch |-> IF b \in Pending THEN "unavailable" ELSE state[b]] /\ orphans' = {}
      /\ UNCHANGED <<opening, on, sent, left, serving, owed, wire>>
  BY DEF CloseEvent, Closed, server
<1>2. /\ ready' \in [Socket -> {"none", "connecting", "open", "closing", "gone"}] /\ ready'[s] = "gone"
      /\ \A t \in Socket : t # s => ready'[t] = ready[t]
  BY <1>1 DEF WsTypeOK
<1>3. s # 0
  BY DEF Socket
<1>4. \A t \in Socket : t # s => ready[t] \notin {"connecting", "open", "closing"}
  BY <1>1 DEF SocketsInTurn
<1>5. WsTypeOK'
  <2>1. state' \in [Batch -> {"new", "pending", "answered", "refused", "unavailable", "returned"}]
    BY <1>1 DEF WsTypeOK
  <2> QED
    BY <1>1, <1>2, <2>1 DEF WsTypeOK
<1>6. OneConnection' /\ SocketsInTurn'
  BY <1>1, <1>2, <1>4 DEF OneConnection, SocketsInTurn, WsTypeOK
<1>7. BatchesOnSockets'
  <2> SUFFICES ASSUME NEW c \in Batch PROVE BatchOnSocket(c)'
    BY DEF BatchesOnSockets
  <2>1. BatchOnSocket(c) /\ on[c] \in {0} \cup Socket
    BY DEF BatchesOnSockets, WsTypeOK
  <2>2. on[c] # 0 => ready'[on[c]] = IF on[c] = s THEN "gone" ELSE ready[on[c]]
    BY <1>2, <2>1
  <2>3. CASE state[c] = "pending"
    <3>1. on[c] = s /\ state'[c] = "unavailable"
      BY <1>1, <1>4, <2>1, <2>3 DEF BatchOnSocket, Pending
    <3> QED
      BY <1>1, <1>2, <1>3, <2>1, <2>3, <3>1 DEF BatchOnSocket
  <2>4. CASE state[c] # "pending"
    <3>1. state'[c] = state[c]
      BY <1>1, <2>4 DEF Pending
    <3> QED
      BY <1>1, <2>1, <2>2, <2>4, <3>1 DEF BatchOnSocket
  <2> QED
    BY <2>3, <2>4
<1>8. FramesInPlace'
  <2> SUFFICES ASSUME NEW t \in Socket PROVE wire[t] # <<>> => ready'[t] = "open"
    BY <1>1 DEF FramesInPlace
  <2> QED
    BY <1>1, <1>2 DEF FramesInPlace
<1>9. OrphansInPlace'
  <2>1. \A c \in Batch : Heard(c) => Heard(c)'
    BY <1>1 DEF Heard
  <2>2. (\A b \in Batch : state'[b] # "returned") => (\A b \in Batch : state[b] # "returned")
    BY <1>1 DEF Pending
  <2>3. \A c \in Batch : state'[c] = "refused" => state[c] = "refused"
    BY <1>1
  <2>4. Sound({}, Pending' \ AnsweredSome')
    BY DEF Sound
  <2>5. (\A b \in Batch : state'[b] # "returned") => \A b \in Batch : state'[b] = "refused" => Heard(b)'
    BY <2>1, <2>2, <2>3 DEF OrphansInPlace
  <2> QED
    BY <1>1, <2>4, <2>5 DEF OrphansInPlace
<1> QED
  BY <1>5, <1>6, <1>7, <1>8, <1>9

\* A frame put on the wire of a socket that is open.
LEMMA PutOnTheWire ==
  ASSUME WsTypeOK, FramesInPlace, NEW b \in Batch, NEW r \in BOOLEAN, OnTheWire(b, r),
         on[b] \in Socket, ready[on[b]] = "open", ready' = ready, on' = on,
         serving[b] # "refused", r => serving[b] = "got",
         serving' = [serving EXCEPT ![b] = IF r THEN "refused" ELSE "answering"]
  PROVE  wire' \in [Socket -> Seq(Frame)] /\ FramesInPlace' /\ \A c \in Batch : Heard(c) => Heard(c)'
<1> DEFINE s == on[b]
           f == [of |-> b, refusal |-> r]
           w == wire[s]
<1>1. f \in Frame /\ w \in Seq(Frame) /\ f.of = b /\ f.refusal = r /\ s \in Socket
  BY DEF Frame, WsTypeOK
<1>2. wire' = [wire EXCEPT ![s] = Append(w, f)]
  BY DEF OnTheWire
<1>3. wire'[s] = Append(w, f) /\ \A t \in Socket : t # s => wire'[t] = wire[t]
  BY <1>1, <1>2 DEF WsTypeOK
<1>4. ready[s] = "open" /\ serving'[b] = IF r THEN "refused" ELSE "answering"
  BY DEF WsTypeOK
<1>5. \A c \in Batch : c # b => serving'[c] = serving[c]
  BY DEF WsTypeOK
<1> DEFINE x == Append(w, f)
<1>6. /\ x \in Seq(Frame) /\ Len(w) \in Nat /\ Len(x) = Len(w) + 1
      /\ \A j \in 1..Len(x) : (j \in 1..Len(w) /\ x[j] = w[j]) \/ (j = Len(w) + 1 /\ x[j] = f)
  BY <1>1, FramePutOn
<1>7. \A t \in Socket : \A j \in 1..Len(wire[t]) :
        /\ wire[t][j] \in Frame /\ on[wire[t][j].of] = t /\ ready[t] = "open"
        /\ serving'[wire[t][j].of] = IF wire[t][j].refusal THEN "refused" ELSE "answering"
        /\ r => wire[t][j] # f
  <2> SUFFICES ASSUME NEW t \in Socket, NEW j \in 1..Len(wire[t])
               PROVE  /\ wire[t][j] \in Frame /\ on[wire[t][j].of] = t /\ ready[t] = "open"
                      /\ serving'[wire[t][j].of] = IF wire[t][j].refusal THEN "refused" ELSE "answering"
                      /\ r => wire[t][j] # f
    OBVIOUS
  <2> DEFINE g == wire[t][j]
  <2>1. g \in Frame /\ on[g.of] = t /\ ready[t] = "open" /\ serving[g.of] \in {"refused", "answering"}
    BY FrameOnWire
  <2>2. serving[g.of] = IF g.refusal THEN "refused" ELSE "answering"
    BY DEF FramesInPlace
  <2>3. g.of \in Batch /\ g.refusal \in BOOLEAN
    BY <2>1 DEF Frame
  <2>4. CASE g.of = b
    <3>1. serving[b] = "answering" /\ ~g.refusal
      BY <2>1, <2>2, <2>3, <2>4
    <3>2. ~r
      BY <3>1
    <3>3. serving'[g.of] = "answering"
      BY <1>4, <2>4, <3>2
    <3> QED
      BY <2>1, <3>1, <3>2, <3>3
  <2>5. CASE g.of # b
    <3>1. serving'[g.of] = serving[g.of]
      BY <1>5, <2>3, <2>5
    <3>2. g # f
      BY <1>1, <2>5
    <3> QED
      BY <2>1, <2>2, <3>1, <3>2
  <2> QED
    BY <2>4, <2>5
<1> HIDE DEF s, f, w, x
<1>8. FramesInPlace'
  <2> SUFFICES ASSUME NEW t \in Socket
               PROVE  /\ wire'[t] # <<>> => ready[t] = "open"
                      /\ \A j \in 1..Len(wire'[t]) :
                           /\ on[wire'[t][j].of] = t
                           /\ serving'[wire'[t][j].of] = IF wire'[t][j].refusal THEN "refused" ELSE "answering"
                      /\ \A j, k \in 1..Len(wire'[t]) : wire'[t][j].refusal /\ wire'[t][j] = wire'[t][k] => j = k
    BY DEF FramesInPlace
  <2>1. CASE t = s
    <3>1. wire'[t] = x
      BY <1>3, <2>1 DEF x
    <3>2. /\ \A j \in 1..Len(w) : on[w[j].of] = t /\ serving'[w[j].of] = (IF w[j].refusal THEN "refused" ELSE "answering") /\ (r => w[j] # f)
          /\ \A j, k \in 1..Len(w) : w[j].refusal /\ w[j] = w[k] => j = k
      BY <1>1, <1>7, <2>1 DEF w, FramesInPlace
    <3>3. on[f.of] = t /\ serving'[f.of] = IF f.refusal THEN "refused" ELSE "answering"
      BY <1>1, <1>4, <2>1 DEF s
    <3>4. \A j \in 1..Len(x) : on[x[j].of] = t /\ serving'[x[j].of] = IF x[j].refusal THEN "refused" ELSE "answering"
      BY <1>6, <3>2, <3>3
    <3>5. ASSUME NEW j \in 1..Len(x), NEW k \in 1..Len(x), x[j].refusal, x[j] = x[k] PROVE j = k
      <4>1. CASE x[j] = f
        <5>1. r
          BY <1>1, <3>5, <4>1
        <5> QED
          BY <1>6, <3>2, <3>5, <4>1, <5>1
      <4>2. CASE x[j] # f
        BY <1>6, <3>2, <3>5, <4>2
      <4> QED
        BY <4>1, <4>2
    <3> QED
      BY <1>4, <2>1, <3>1, <3>4, <3>5
  <2>2. CASE t # s
    <3>1. wire'[t] = wire[t]
      BY <1>3, <2>2
    <3> QED
      BY <1>7, <3>1 DEF FramesInPlace
  <2> QED
    BY <2>1, <2>2
<1>9. ASSUME NEW c \in Batch, Heard(c) PROVE Heard(c)'
  <2>1. c # b /\ serving'[c] = "refused"
    BY <1>5, <1>9 DEF Heard
  <2>2. ASSUME NEW t \in Socket, NEW j \in 1..Len(wire'[t]) PROVE wire'[t][j] # [of |-> c, refusal |-> TRUE]
    <3>1. CASE t = s
      <4>1. x[j] = f \/ (j \in 1..Len(w) /\ x[j] = w[j])
        BY <1>3, <1>6, <2>2, <3>1 DEF x
      <4>2. j \in 1..Len(w) => w[j] # [of |-> c, refusal |-> TRUE]
        BY <1>1, <1>9 DEF Heard, w
      <4>3. f # [of |-> c, refusal |-> TRUE]
        BY <1>1, <2>1
      <4> QED
        BY <1>3, <3>1, <4>1, <4>2, <4>3 DEF x
    <3>2. CASE t # s
      BY <1>3, <1>9, <3>2 DEF Heard
    <3> QED
      BY <3>1, <3>2
  <2> QED
    BY <2>1, <2>2 DEF Heard
<1>10. wire' \in [Socket -> Seq(Frame)]
  BY <1>1, <1>2, <1>6 DEF WsTypeOK, Frame, x
<1> QED
  BY <1>8, <1>9, <1>10

LEMMA ServerKeeps ==
  ASSUME WsInv, NEW b \in Batch, RefuseEnvelope(b) \/ AnswerOp(b)
  PROVE  WsInv'
<1> USE DEF WsInv
<1> DEFINE r == serving'[b] = "refused"
<1>1. /\ ready[on[b]] = "open" /\ serving[b] \in {"got", "answering"}
      /\ UNCHANGED <<ready, socket, opening, state, on, sent, left, orphans>>
  BY DEF RefuseEnvelope, AnswerOp, conns
<1>2. /\ r \in BOOLEAN /\ OnTheWire(b, r) /\ (r => serving[b] = "got")
      /\ serving' = [serving EXCEPT ![b] = IF r THEN "refused" ELSE "answering"]
      /\ owed' \in [Batch -> 0..Ops]
  <2>1. CASE RefuseEnvelope(b)
    <3>1. serving' = [serving EXCEPT ![b] = "refused"] /\ OnTheWire(b, TRUE) /\ serving[b] = "got" /\ owed' = owed
      BY <2>1 DEF RefuseEnvelope
    <3>2. r
      BY <3>1 DEF WsTypeOK
    <3>3. r = TRUE
      BY <3>2
    <3> QED
      BY <3>1, <3>2, <3>3 DEF WsTypeOK
  <2>2. CASE AnswerOp(b)
    <3>1. serving' = [serving EXCEPT ![b] = "answering"] /\ OnTheWire(b, FALSE) /\ owed[b] > 0 /\ owed' = [owed EXCEPT ![b] = owed[b] - 1]
      BY <2>2 DEF AnswerOp
    <3>2. ~r
      BY <3>1 DEF WsTypeOK
    <3>3. r = FALSE
      BY <3>2
    <3>4. owed[b] - 1 \in 0..Ops
      BY <3>1, WsAssumption DEF WsTypeOK
    <3> QED
      BY <3>1, <3>2, <3>3, <3>4 DEF WsTypeOK
  <2> QED
    BY <2>1, <2>2
<1> HIDE DEF r
<1>3. BatchOnSocket(b) /\ on[b] \in Socket
  <2>1. BatchOnSocket(b) /\ on[b] \in {0} \cup Socket
    BY DEF BatchesOnSockets, WsTypeOK
  <2> QED
    BY <1>1, <2>1 DEF BatchOnSocket
<1>4. wire' \in [Socket -> Seq(Frame)] /\ FramesInPlace' /\ \A c \in Batch : Heard(c) => Heard(c)'
  <2>1. serving[b] # "refused" /\ ready' = ready /\ on' = on
    BY <1>1
  <2> QED
    BY <1>1, <1>2, <1>3, <2>1, PutOnTheWire
<1>5. AnsweredSome' = AnsweredSome /\ Pending' = Pending
  BY <1>1 DEF AnsweredSome, Pending
<1>6. WsTypeOK'
  BY <1>1, <1>2, <1>4, <1>5 DEF WsTypeOK, Frame
<1>7. OneConnection' /\ SocketsInTurn'
  BY <1>1 DEF OneConnection, SocketsInTurn
<1>8. BatchesOnSockets'
  <2> SUFFICES ASSUME NEW c \in Batch PROVE BatchOnSocket(c)'
    BY DEF BatchesOnSockets
  <2>1. BatchOnSocket(c)
    BY DEF BatchesOnSockets
  <2>2. CASE c = b
    <3>1. serving'[c] \in {"refused", "answering"} /\ (r => serving[c] = "got") /\ (~r => serving'[c] = "answering")
      BY <1>2, <2>2 DEF WsTypeOK
    <3> QED
      BY <1>1, <2>1, <2>2, <3>1 DEF BatchOnSocket
  <2>3. CASE c # b
    <3>1. serving'[c] = serving[c]
      BY <1>2, <2>3 DEF WsTypeOK
    <3> QED
      BY <1>1, <2>1, <3>1 DEF BatchOnSocket
  <2> QED
    BY <2>2, <2>3
<1>9. OrphansInPlace'
  <2>1. /\ orphans' = orphans /\ sent \subseteq sent' /\ state' = state
        /\ Pending' \ AnsweredSome' = Pending \ AnsweredSome
    BY <1>1, <1>5
  <2>2. \A c \in Batch : state'[c] = "refused" => state[c] = "refused"
    BY <2>1
  <2>3. \A c \in Batch : state[c] = "returned" => state'[c] = "returned"
    BY <2>1
  <2>4. \A o \in orphans : o.of \in Pending \ AnsweredSome => o.of \in Pending' \ AnsweredSome'
    BY <2>1
  <2> QED
    BY <1>4, <2>1, <2>2, <2>3, <2>4, OrphansStay
<1> QED
  BY <1>4, <1>6, <1>7, <1>8, <1>9

\* What the wire is once the first frame of it was received.
LEMMA FrameReceived ==
  ASSUME WsTypeOK, FramesInPlace, NEW s \in Socket, FrameTaken(s), UNCHANGED <<ready, on, serving>>
  PROVE  /\ Head(wire[s]) \in Frame /\ on[Head(wire[s]).of] = s
         /\ serving[Head(wire[s]).of] = IF Head(wire[s]).refusal THEN "refused" ELSE "answering"
         /\ ~Heard(Head(wire[s]).of) \/ ~Head(wire[s]).refusal
         /\ wire' \in [Socket -> Seq(Frame)] /\ FramesInPlace' /\ (\A c \in Batch : Heard(c) => Heard(c)')
         /\ \A c \in Batch : Head(wire[s]) = [of |-> c, refusal |-> TRUE] => Heard(c)'
<1> DEFINE w == wire[s]
           f == Head(w)
           x == Tail(w)
<1>1. ready[s] = "open" /\ w # <<>> /\ wire' = [wire EXCEPT ![s] = x] /\ ready' = ready /\ on' = on /\ serving' = serving
  BY DEF FrameTaken
<1>2. w \in Seq(Frame)
  BY DEF WsTypeOK, Frame
<1>3. wire'[s] = x /\ \A t \in Socket : t # s => wire'[t] = wire[t]
  BY <1>1 DEF WsTypeOK
<1>4. /\ f = w[1] /\ f \in Frame /\ x \in Seq(Frame) /\ Len(w) \in Nat /\ Len(w) >= 1 /\ Len(x) = Len(w) - 1
      /\ \A j \in 1..Len(x) : x[j] = w[j + 1] /\ j + 1 \in 1..Len(w) /\ j + 1 # 1
  BY <1>1, <1>2, FrameTakenOff
<1>5. 1 \in 1..Len(w)
  BY <1>4
<1>6. /\ \A j \in 1..Len(w) : on[w[j].of] = s /\ serving[w[j].of] = IF w[j].refusal THEN "refused" ELSE "answering"
      /\ \A j, k \in 1..Len(w) : w[j].refusal /\ w[j] = w[k] => j = k
  BY DEF FramesInPlace
<1>7. f.of \in Batch /\ f.refusal \in BOOLEAN /\ (f.refusal => f = [of |-> f.of, refusal |-> TRUE])
  BY <1>4 DEF Frame
<1> HIDE DEF f, x
<1>8. ~Heard(f.of) \/ ~f.refusal
  <2> SUFFICES ASSUME f.refusal, Heard(f.of) PROVE FALSE
    OBVIOUS
  <2>1. w[1] # [of |-> f.of, refusal |-> TRUE]
    BY <1>5 DEF Heard
  <2> QED
    BY <1>4, <1>7, <2>1
<1>9. FramesInPlace'
  <2> SUFFICES ASSUME NEW t \in Socket
               PROVE  /\ wire'[t] # <<>> => ready[t] = "open"
                      /\ \A j \in 1..Len(wire'[t]) :
                           /\ on[wire'[t][j].of] = t
                           /\ serving[wire'[t][j].of] = IF wire'[t][j].refusal THEN "refused" ELSE "answering"
                      /\ \A j, k \in 1..Len(wire'[t]) : wire'[t][j].refusal /\ wire'[t][j] = wire'[t][k] => j = k
    BY <1>1 DEF FramesInPlace
  <2>1. CASE t = s
    <3>1. wire'[t] = x
      BY <1>3, <2>1
    <3>2. \A j \in 1..Len(x) : on[x[j].of] = t /\ serving[x[j].of] = IF x[j].refusal THEN "refused" ELSE "answering"
      BY <1>4, <1>6, <2>1
    <3>3. ASSUME NEW j \in 1..Len(x), NEW k \in 1..Len(x), x[j].refusal, x[j] = x[k] PROVE j = k
      <4>1. j + 1 \in 1..Len(w) /\ k + 1 \in 1..Len(w) /\ w[j + 1].refusal /\ w[j + 1] = w[k + 1]
        BY <1>4, <3>3
      <4>2. j + 1 = k + 1
        BY <1>6, <4>1
      <4> QED
        BY <1>4, <3>3, <4>2
    <3> QED
      BY <1>1, <2>1, <3>1, <3>2, <3>3
  <2>2. CASE t # s
    <3>1. wire'[t] = wire[t]
      BY <1>3, <2>2
    <3> QED
      BY <3>1 DEF FramesInPlace
  <2> QED
    BY <2>1, <2>2
<1>10. ASSUME NEW c \in Batch, Heard(c) PROVE Heard(c)'
  <2>1. ASSUME NEW t \in Socket, NEW j \in 1..Len(wire'[t]) PROVE wire'[t][j] # [of |-> c, refusal |-> TRUE]
    <3>1. CASE t = s
      <4>1. x[j] = w[j + 1] /\ j + 1 \in 1..Len(w)
        BY <1>3, <1>4, <2>1, <3>1
      <4> QED
        BY <1>3, <1>10, <3>1, <4>1 DEF Heard
    <3>2. CASE t # s
      BY <1>3, <1>10, <2>1, <3>2 DEF Heard
    <3> QED
      BY <3>1, <3>2
  <2>2. serving'[c] = "refused"
    BY <1>1, <1>10 DEF Heard
  <2> QED
    BY <2>1, <2>2 DEF Heard
<1>11. ASSUME NEW c \in Batch, f = [of |-> c, refusal |-> TRUE] PROVE Heard(c)'
  <2>0. w[1].of = c /\ w[1].refusal = TRUE
    BY <1>4, <1>11
  <2>1. serving'[c] = "refused" /\ on[c] = s
    BY <1>1, <1>5, <1>6, <2>0
  <2>2. ASSUME NEW t \in Socket, NEW j \in 1..Len(wire'[t]) PROVE wire'[t][j] # [of |-> c, refusal |-> TRUE]
    <3>1. CASE t = s
      <4>1. x[j] = w[j + 1] /\ j + 1 \in 1..Len(w) /\ j + 1 # 1
        BY <1>3, <1>4, <2>2, <3>1
      <4>2. w[j + 1] # w[1]
        <5>1. w[1].refusal /\ 1 \in 1..Len(w)
          BY <1>5, <2>0
        <5> QED
          BY <1>6, <4>1, <5>1
      <4> QED
        BY <1>3, <1>4, <1>7, <1>11, <3>1, <4>1, <4>2
    <3>2. CASE t # s
      <4>1. j \in 1..Len(wire[t]) /\ wire'[t][j] = wire[t][j]
        BY <1>3, <2>2, <3>2
      <4>2. on[wire[t][j].of] = t
        BY <4>1 DEF FramesInPlace
      <4> QED
        BY <2>1, <3>2, <4>1, <4>2
    <3> QED
      BY <3>1, <3>2
  <2> QED
    BY <2>1, <2>2 DEF Heard
<1>12. wire' \in [Socket -> Seq(Frame)]
  BY <1>1, <1>4 DEF WsTypeOK, Frame
<1> QED
  BY <1>4, <1>5, <1>6, <1>8, <1>9, <1>10, <1>11, <1>12 DEF f, x

\* What a step leaves that attributes the frames os among the batches ps.
LEMMA AttributionKeeps ==
  ASSUME WsInv, NEW os \in SUBSET Orphan, NEW ps \in SUBSET Batch, NEW kept, NEW given,
         kept = Attributed(os, ps).orphans, given = Attributed(os, ps).given,
         orphans' = kept, sent' = sent, Pending' \ AnsweredSome' = ps \ given,
         \A c \in Batch : Heard(c) => Heard(c)',
         \A x \in os : Heard(x.of)' /\ x.among \subseteq sent,
         \A c \in Batch : state'[c] = "refused" => state[c] = "refused" \/ c \in given,
         (\A c \in Batch : state'[c] # "returned") => (\A c \in Batch : state[c] # "returned") /\ Sound(os, ps)
  PROVE  /\ given \subseteq ps /\ OrphansInPlace'
         /\ orphans' \subseteq [of : Batch, among : (SUBSET (Pending' \ AnsweredSome')) \ {{}}]
<1>1. /\ given \subseteq ps
      /\ orphans' \subseteq [of : Batch, among : (SUBSET (ps \ given)) \ {{}}]
      /\ \A o \in orphans' : \E x \in os : x.of = o.of /\ o.among \subseteq x.among
      /\ Sound(os, ps) => Sound(orphans', ps \ given) /\ \A b \in given : \E x \in os : x.of = b
  BY AttributedIs
<1>2. \A o \in orphans' : Heard(o.of)' /\ o.among \subseteq sent'
  <2> SUFFICES ASSUME NEW o \in orphans' PROVE Heard(o.of)' /\ o.among \subseteq sent'
    OBVIOUS
  <2>1. PICK x \in os : x.of = o.of /\ o.among \subseteq x.among
    BY <1>1
  <2>2. Heard(x.of)' /\ x.among \subseteq sent
    OBVIOUS
  <2> QED
    BY <2>1, <2>2 DEF Heard
<1>3. ASSUME \A c \in Batch : state'[c] # "returned"
      PROVE  Sound(orphans', Pending' \ AnsweredSome') /\ \A c \in Batch : state'[c] = "refused" => Heard(c)'
  <2>1. (\A c \in Batch : state[c] # "returned") /\ Sound(os, ps)
    BY <1>3
  <2>2. Sound(orphans', Pending' \ AnsweredSome')
    BY <1>1, <2>1
  <2>3. ASSUME NEW c \in Batch, state'[c] = "refused" PROVE Heard(c)'
    <3>1. CASE state[c] = "refused"
      BY <2>1, <3>1 DEF WsInv, OrphansInPlace
    <3>2. CASE c \in given
      <4>1. PICK x \in os : x.of = c
        BY <1>1, <2>1, <3>2
      <4>2. Heard(x.of)'
        OBVIOUS
      <4> QED
        BY <4>1, <4>2 DEF Heard
    <3> QED
      BY <2>3, <3>1, <3>2
  <2> QED
    BY <2>2, <2>3
<1> QED
  BY <1>1, <1>2, <1>3 DEF OrphansInPlace

LEMMA OrphansAre ==
  ASSUME WsInv
  PROVE  /\ orphans \in SUBSET Orphan
         /\ \A o \in orphans : o.of \in Batch /\ Heard(o.of) /\ o.among \subseteq sent
<1>1. \A o \in orphans : o \in Orphan
  BY DEF WsInv, WsTypeOK, Orphan, Pending
<1> QED
  BY <1>1 DEF WsInv, OrphansInPlace, Orphan

LEMMA RouteOrphanKeeps ==
  ASSUME WsInv, NEW s \in Socket, NEW b \in Batch, FrameTaken(s), Head(wire[s]) = [of |-> b, refusal |-> TRUE],
         RouteOrphan(b), UNCHANGED <<conns, on, sent, server>>
  PROVE  WsInv'
<1> USE DEF WsInv
<1> DEFINE new == [of |-> b, among |-> (Pending \cap sent) \ AnsweredSome]
           os == orphans \cup {new}
           ps == Pending \ AnsweredSome
           given == Attributed(os, ps).given
<1>1. /\ UNCHANGED <<ready, socket, opening, on, sent, serving, owed, left>>
      /\ orphans' = Attributed(os, ps).orphans
      /\ state' = [c \in Batch |-> IF c \in given THEN "refused" ELSE state[c]]
      /\ ready[s] = "open" /\ wire[s] # <<>>
  BY DEF RouteOrphan, Closed, conns, server, FrameTaken
<1>2. /\ on[b] = s /\ serving[b] = "refused" /\ ~Heard(b) /\ Heard(b)'
      /\ wire' \in [Socket -> Seq(Frame)] /\ FramesInPlace' /\ (\A c \in Batch : Heard(c) => Heard(c)')
  BY <1>1, FrameReceived
<1>3. /\ new \in Orphan /\ new.of = b /\ new.among = (Pending \cap sent) \ AnsweredSome
      /\ os \in SUBSET Orphan /\ ps \in SUBSET Batch
  <2>1. new \in Orphan
    BY DEF Orphan, Pending
  <2> QED
    BY <2>1, OrphansAre DEF Pending
<1>4. given \subseteq ps
  BY <1>3, AttributedIs
<1> HIDE DEF new, given
<1>5. AnsweredSome' = AnsweredSome /\ Pending' = Pending \ given
  BY <1>1, <1>4 DEF AnsweredSome, Pending
<1>6. \A x \in os : Heard(x.of)' /\ x.among \subseteq sent
  <2> SUFFICES ASSUME NEW x \in os PROVE Heard(x.of)' /\ x.among \subseteq sent
    OBVIOUS
  <2>1. CASE x \in orphans
    BY <1>2, <2>1, OrphansAre
  <2>2. CASE x = new
    <3>1. x.of = b /\ x.among \subseteq sent
      BY <1>3, <2>2
    <3> QED
      BY <1>2, <3>1 DEF Heard
  <2> QED
    BY <2>1, <2>2
<1>7. ASSUME \A c \in Batch : state'[c] # "returned"
      PROVE  (\A c \in Batch : state[c] # "returned") /\ Sound(os, ps)
  <2>1. \A c \in Batch : state[c] # "returned"
    BY <1>1, <1>4, <1>7 DEF Pending
  <2>2. b \in ps /\ b \in sent
    <3>1. BatchOnSocket(b)
      BY DEF BatchesOnSockets
    <3>2. state[b] \in {"new", "pending", "answered", "refused", "unavailable", "returned"} /\ s # 0 /\ Ops # 0
      BY WsAssumption DEF WsTypeOK, Socket
    <3>3. left[b] = Ops /\ b \in sent
      BY <1>2, <3>1 DEF BatchOnSocket
    <3>4. state[b] # "refused"
      BY <1>2, <2>1 DEF OrphansInPlace
    <3>5. state[b] = "pending"
      BY <1>1, <1>2, <2>1, <3>1, <3>2, <3>3, <3>4 DEF BatchOnSocket
    <3> QED
      BY <3>3, <3>5, WsAssumption DEF Pending, AnsweredSome
  <2>3. Sound(orphans, ps) /\ \A o \in orphans : o.of # b
    BY <1>2, <2>1, OrphansAre DEF OrphansInPlace
  <2>4. new.of \in new.among
    BY <1>3, <2>2
  <2>5. Sound(os, ps)
    BY <1>3, <2>2, <2>3, <2>4 DEF Sound
  <2> QED
    BY <2>1, <2>5
<1>8. OrphansInPlace' /\ orphans' \subseteq [of : Batch, among : (SUBSET (Pending' \ AnsweredSome')) \ {{}}]
  <2>1. Pending' \ AnsweredSome' = ps \ given
    BY <1>5
  <2>2. \A c \in Batch : state'[c] = "refused" => state[c] = "refused" \/ c \in given
    BY <1>1
  <2>3. \A c \in Batch : Heard(c) => Heard(c)'
    BY <1>2
  <2>4. orphans' = Attributed(os, ps).orphans /\ sent' = sent /\ given = Attributed(os, ps).given
    BY <1>1 DEF given
  <2>5. os \in SUBSET Orphan /\ ps \in SUBSET Batch
    BY <1>3
  <2> HIDE DEF os, ps
  <2> QED
    BY <1>6, <1>7, <2>1, <2>2, <2>3, <2>4, <2>5, AttributionKeeps
<1>9. WsTypeOK'
  <2>1. state' \in [Batch -> {"new", "pending", "answered", "refused", "unavailable", "returned"}]
    BY <1>1 DEF WsTypeOK
  <2> QED
    BY <1>1, <1>2, <1>8, <2>1 DEF WsTypeOK, Frame
<1>10. OneConnection' /\ SocketsInTurn'
  BY <1>1 DEF OneConnection, SocketsInTurn
<1>11. BatchesOnSockets'
  <2> SUFFICES ASSUME NEW c \in Batch PROVE BatchOnSocket(c)'
    BY DEF BatchesOnSockets
  <2>1. BatchOnSocket(c)
    BY DEF BatchesOnSockets
  <2>2. CASE c \in given
    <3>1. state[c] = "pending" /\ state'[c] = "refused"
      BY <1>1, <1>4, <2>2 DEF Pending
    <3> QED
      BY <1>1, <2>1, <3>1 DEF BatchOnSocket
  <2>3. CASE c \notin given
    <3>1. state'[c] = state[c]
      BY <1>1, <2>3
    <3> QED
      BY <1>1, <2>1, <3>1 DEF BatchOnSocket
  <2> QED
    BY <2>2, <2>3
<1> QED
  BY <1>2, <1>8, <1>9, <1>10, <1>11

LEMMA RouteIdKeeps ==
  ASSUME WsInv, NEW s \in Socket, NEW b \in Batch, FrameTaken(s), Head(wire[s]) = [of |-> b, refusal |-> FALSE],
         RouteId(b), UNCHANGED <<conns, on, sent, server>>
  PROVE  WsInv'
<1> USE DEF WsInv
<1> DEFINE ps == {c \in Pending : c # b} \ AnsweredSome
           given == Attributed(orphans, ps).given
<1>1. UNCHANGED <<ready, socket, opening, on, sent, serving, owed>> /\ ready[s] = "open"
  BY DEF conns, server, FrameTaken
<1>2. /\ on[b] = s /\ serving[b] = "answering"
      /\ wire' \in [Socket -> Seq(Frame)] /\ FramesInPlace' /\ (\A c \in Batch : Heard(c) => Heard(c)')
  BY <1>1, FrameReceived
<1>3. OneConnection' /\ SocketsInTurn'
  BY <1>1 DEF OneConnection, SocketsInTurn
<1>4. CASE b \notin Pending
  <2>1. UNCHANGED <<left, orphans, state>>
    BY <1>4 DEF RouteId
  <2>2. Pending' \ AnsweredSome' = Pending \ AnsweredSome /\ Pending' = Pending /\ AnsweredSome' = AnsweredSome
    BY <2>1 DEF Pending, AnsweredSome
  <2>3. WsTypeOK'
    BY <1>1, <1>2, <2>1, <2>2 DEF WsTypeOK, Frame
  <2>4. BatchesOnSockets'
    BY <1>1, <2>1 DEF BatchesOnSockets, BatchOnSocket
  <2>5. OrphansInPlace'
    <3>1. \A c \in Batch : state'[c] = "refused" => state[c] = "refused"
      BY <2>1
    <3>2. \A c \in Batch : state[c] = "returned" => state'[c] = "returned"
      BY <2>1
    <3>3. \A o \in orphans : o.of \in Pending \ AnsweredSome => o.of \in Pending' \ AnsweredSome'
      BY <2>2
    <3> QED
      BY <1>1, <1>2, <2>1, <3>1, <3>2, <3>3, OrphansStay
  <2> QED
    BY <1>2, <1>3, <2>3, <2>4, <2>5
<1>5. CASE b \in Pending
  <2> DEFINE n == left[b] - 1
  <2>1. /\ left' = [left EXCEPT ![b] = n] /\ orphans' = Attributed(orphans, ps).orphans
        /\ state' = [c \in Batch |-> CASE c \in given -> "refused"
                                       [] c = b /\ n = 0 -> "answered"
                                       [] OTHER -> state[c]]
    BY <1>5 DEF RouteId
  <2>2. orphans \in SUBSET Orphan /\ ps \in SUBSET Batch /\ given \subseteq ps
    <3>1. orphans \in SUBSET Orphan /\ ps \in SUBSET Batch
      BY OrphansAre DEF Pending
    <3> QED
      BY <3>1, AttributedIs
  <2> HIDE DEF given
  <2>3. n \in 0..Ops /\ n < Ops /\ BatchOnSocket(b) /\ state[b] = "pending"
    <3>1. BatchOnSocket(b) /\ state[b] = "pending" /\ left[b] \in 0..Ops /\ Ops \in Nat
      BY <1>5, WsAssumption DEF BatchesOnSockets, Pending, WsTypeOK
    <3>2. left[b] # 0
      BY <3>1 DEF BatchOnSocket
    <3> QED
      BY <3>1, <3>2
  <2>4. /\ left' \in [Batch -> 0..Ops] /\ left'[b] = n /\ \A c \in Batch : c # b => left'[c] = left[c]
    BY <2>1, <2>3 DEF WsTypeOK
  <2> HIDE DEF n
  <2>5. /\ b \notin given
        /\ \A c \in Batch : c \in given => state[c] = "pending" /\ state'[c] = "refused"
        /\ state'[b] = IF n = 0 THEN "answered" ELSE "pending"
        /\ \A c \in Batch : c # b /\ c \notin given => state'[c] = state[c]
    BY <2>1, <2>2, <2>3 DEF Pending
  <2>6. Pending' \ AnsweredSome' = ps \ given
    <3>1. \A c \in Batch : c \in AnsweredSome' <=> c = b \/ c \in AnsweredSome
      BY <2>3, <2>4 DEF AnsweredSome
    <3>2. \A c \in Batch : c # b => (c \in Pending' <=> c \in Pending /\ c \notin given)
      BY <2>5 DEF Pending
    <3> QED
      BY <2>2, <3>1, <3>2 DEF Pending
  <2>7. \A x \in orphans : Heard(x.of)' /\ x.among \subseteq sent
    BY <1>2, OrphansAre
  <2>8. ASSUME \A c \in Batch : state'[c] # "returned"
        PROVE  (\A c \in Batch : state[c] # "returned") /\ Sound(orphans, ps)
    <3>1. \A c \in Batch : state[c] # "returned"
      BY <2>3, <2>5, <2>8
    <3>2. Sound(orphans, Pending \ AnsweredSome)
      BY <3>1 DEF OrphansInPlace
    <3>3. \A o \in orphans : o.of # b
      BY <1>2, OrphansAre DEF Heard
    <3> QED
      BY <3>1, <3>2, <3>3 DEF Sound
  <2>9. OrphansInPlace' /\ orphans' \subseteq [of : Batch, among : (SUBSET (Pending' \ AnsweredSome')) \ {{}}]
    <3>1. \A c \in Batch : state'[c] = "refused" => state[c] = "refused" \/ c \in given
      BY <2>5
    <3>2. \A c \in Batch : Heard(c) => Heard(c)'
      BY <1>2
    <3>3. sent' = sent /\ given = Attributed(orphans, ps).given /\ orphans' = Attributed(orphans, ps).orphans
      BY <1>1, <2>1 DEF given
    <3> HIDE DEF ps
    <3> QED
      BY <2>2, <2>6, <2>7, <2>8, <3>1, <3>2, <3>3, AttributionKeeps
  <2>10. WsTypeOK'
    <3>1. \A c \in Batch : state'[c] \in {"new", "pending", "answered", "refused", "unavailable", "returned"}
      BY <2>5 DEF WsTypeOK
    <3>2. state' \in [Batch -> {"new", "pending", "answered", "refused", "unavailable", "returned"}]
      BY <2>1, <3>1
    <3> QED
      BY <1>1, <1>2, <2>4, <2>9, <3>2 DEF WsTypeOK, Frame
  <2>11. BatchesOnSockets'
    <3> SUFFICES ASSUME NEW c \in Batch PROVE BatchOnSocket(c)'
      BY DEF BatchesOnSockets
    <3>1. BatchOnSocket(c)
      BY DEF BatchesOnSockets
    <3>2. CASE c = b
      BY <1>1, <1>2, <2>3, <2>4, <2>5, <3>1, <3>2 DEF BatchOnSocket
    <3>3. CASE c # b /\ c \in given
      <4>1. state[c] = "pending" /\ state'[c] = "refused" /\ left'[c] = left[c]
        BY <2>4, <2>5, <3>3
      <4> QED
        BY <1>1, <3>1, <4>1 DEF BatchOnSocket
    <3>4. CASE c # b /\ c \notin given
      <4>1. state'[c] = state[c] /\ left'[c] = left[c]
        BY <2>4, <2>5, <3>4
      <4> QED
        BY <1>1, <3>1, <4>1 DEF BatchOnSocket
    <3> QED
      BY <3>2, <3>3, <3>4
  <2> QED
    BY <1>2, <1>3, <2>9, <2>10, <2>11
<1> QED
  BY <1>4, <1>5

LEMMA ReceiveFrameKeeps ==
  ASSUME WsInv, NEW s \in Socket, ReceiveFrame(s)
  PROVE  WsInv'
<1> DEFINE f == Head(wire[s])
<1>1. /\ FrameTaken(s) /\ UNCHANGED <<conns, on, sent, server>>
      /\ IF f.refusal THEN RouteOrphan(f.of) ELSE RouteId(f.of)
  BY DEF ReceiveFrame, FrameTaken
<1>2. WsTypeOK /\ FramesInPlace /\ UNCHANGED <<ready, on, serving>>
  BY <1>1 DEF WsInv, conns, server
<1>3. f \in Frame
  BY <1>1, <1>2, FrameReceived
<1> HIDE DEF f
<1>4. PICK b \in Batch, r \in BOOLEAN : f = [of |-> b, refusal |-> r]
  BY <1>3 DEF Frame
<1>5. CASE r
  <2>1. f = [of |-> b, refusal |-> TRUE] /\ RouteOrphan(b)
    BY <1>1, <1>4, <1>5
  <2> QED
    BY <1>1, <2>1, RouteOrphanKeeps DEF f
<1>6. CASE ~r
  <2>1. f = [of |-> b, refusal |-> FALSE] /\ RouteId(b)
    BY <1>1, <1>4, <1>6
  <2> QED
    BY <1>1, <2>1, RouteIdKeeps DEF f
<1> QED
  BY <1>5, <1>6

LEMMA ReturnKeeps ==
  ASSUME WsInv, NEW b \in Batch, Return(b)
  PROVE  WsInv'
<1> USE DEF WsInv
<1> DEFINE ps == (Pending \ {b}) \ AnsweredSome
           given == Attributed(orphans, ps).given
<1>1. /\ b \in Pending /\ UNCHANGED <<ready, socket, opening, on, sent, serving, owed, left, wire>>
      /\ orphans' = Attributed(orphans, ps).orphans
      /\ state' = [c \in Batch |-> IF c = b THEN "returned" ELSE IF c \in given THEN "refused" ELSE state[c]]
  BY DEF Return, conns, server
<1>2. orphans \in SUBSET Orphan /\ ps \in SUBSET Batch /\ given \subseteq ps
  <2>1. orphans \in SUBSET Orphan /\ ps \in SUBSET Batch
    BY OrphansAre DEF Pending
  <2> QED
    BY <2>1, AttributedIs
<1> HIDE DEF given
<1>3. Pending' \ AnsweredSome' = ps \ given
  BY <1>1, <1>2 DEF Pending, AnsweredSome
<1>4. \A c \in Batch : Heard(c) => Heard(c)'
  BY <1>1 DEF Heard
<1>5. OrphansInPlace' /\ orphans' \subseteq [of : Batch, among : (SUBSET (Pending' \ AnsweredSome')) \ {{}}]
  <2>1. \A x \in orphans : Heard(x.of)' /\ x.among \subseteq sent
    BY <1>4, OrphansAre
  <2>2. \A c \in Batch : state'[c] = "refused" => state[c] = "refused" \/ c \in given
    BY <1>1
  <2>3. b \in Batch /\ state'[b] = "returned"
    BY <1>1
  <2>4. sent' = sent /\ given = Attributed(orphans, ps).given /\ orphans' = Attributed(orphans, ps).orphans
    BY <1>1 DEF given
  <2>5. (\A c \in Batch : state'[c] # "returned") => (\A c \in Batch : state[c] # "returned") /\ Sound(orphans, ps)
    BY <2>3
  <2>6. orphans \in SUBSET Orphan /\ ps \in SUBSET Batch
    BY <1>2
  <2> HIDE DEF ps
  <2> QED
    BY <1>3, <1>4, <2>1, <2>2, <2>4, <2>5, <2>6, AttributionKeeps
<1>6. WsTypeOK'
  <2>1. state' \in [Batch -> {"new", "pending", "answered", "refused", "unavailable", "returned"}]
    BY <1>1 DEF WsTypeOK
  <2> QED
    BY <1>1, <1>5, <2>1 DEF WsTypeOK
<1>7. OneConnection' /\ SocketsInTurn' /\ FramesInPlace'
  BY <1>1 DEF OneConnection, SocketsInTurn, FramesInPlace
<1>8. BatchesOnSockets'
  <2> SUFFICES ASSUME NEW c \in Batch PROVE BatchOnSocket(c)'
    BY DEF BatchesOnSockets
  <2>1. BatchOnSocket(c)
    BY DEF BatchesOnSockets
  <2>2. CASE c = b \/ c \in given
    <3>1. state[c] = "pending" /\ state'[c] \in {"returned", "refused"}
      BY <1>1, <1>2, <2>2 DEF Pending
    <3> QED
      BY <1>1, <2>1, <3>1 DEF BatchOnSocket
  <2>3. CASE c # b /\ c \notin given
    <3>1. state'[c] = state[c]
      BY <1>1, <2>3
    <3> QED
      BY <1>1, <2>1, <3>1 DEF BatchOnSocket
  <2> QED
    BY <2>2, <2>3
<1> QED
  BY <1>5, <1>6, <1>7, <1>8

\* What the transport owes its batches (SocketsKept), whatever the number of
\* batches, of their ops and of sockets: there is one connection to go on, a
\* batch is refused only if the server refused it, so that a frame without an op
\* id is never given to another's reader, and one told the server is not there
\* was on a socket that is gone.  No batch is sent between the end of a socket
\* and its close event (~Overlap): the listener that hears that event fails what
\* is pending on the socket that replaced it.
THEOREM WsSocketsKept == ~Overlap => (WsSpec => []SocketsKept)
<1> SUFFICES ASSUME ~Overlap PROVE WsSpec => []SocketsKept
  OBVIOUS
<1>1. WsInit => WsInv
  BY WsStarts
<1>2. WsInv /\ [WsNext]_wsVars => WsInv'
  <2> SUFFICES ASSUME WsInv, [WsNext]_wsVars PROVE WsInv'
    OBVIOUS
  <2>1. CASE UNCHANGED wsVars
    <3>1. UNCHANGED <<ready, socket, opening, state, on, sent, left, orphans, serving, owed, wire>>
      BY <2>1 DEF wsVars, conns, server
    <3>2. Pending' = Pending /\ AnsweredSome' = AnsweredSome
      BY <3>1 DEF Pending, AnsweredSome
    <3>3. WsTypeOK'
      BY <3>1, <3>2 DEF WsInv, WsTypeOK
    <3>4. BatchesOnSockets'
      BY <3>1 DEF WsInv, BatchesOnSockets, BatchOnSocket
    <3>5. OrphansInPlace'
      BY <3>1, <3>2 DEF WsInv, OrphansInPlace, Heard
    <3>6. OneConnection' /\ SocketsInTurn' /\ FramesInPlace'
      BY <3>1 DEF WsInv, OneConnection, SocketsInTurn, FramesInPlace
    <3> QED
      BY <3>3, <3>4, <3>5, <3>6 DEF WsInv
  <2>2. ASSUME NEW b \in Batch, SendNow(b) \/ SendLater(b) \/ Return(b) \/ RefuseEnvelope(b) \/ AnswerOp(b) PROVE WsInv'
    BY <2>2, SendNowKeeps, SendLaterKeeps, ReturnKeeps, ServerKeeps
  <2>3. ASSUME NEW s \in Socket, Opened(s) \/ NotOpened(s) \/ ReceiveFrame(s) \/ Close(s) \/ CloseEvent(s) PROVE WsInv'
    BY <2>3, OpenedKeeps, NotOpenedKeeps, ReceiveFrameKeeps, CloseKeeps, CloseEventKeeps
  <2> QED
    BY <2>1, <2>2, <2>3 DEF WsNext
<1>3. WsInv => SocketsKept
  <2> SUFFICES ASSUME WsInv PROVE OnlyRefusedFail /\ UnavailableOnItsSocket
    BY DEF WsInv, SocketsKept
  <2>1. OnlyRefusedFail
    BY DEF WsInv, OrphansInPlace, Heard, OnlyRefusedFail
  <2>2. UnavailableOnItsSocket
    BY DEF WsInv, BatchesOnSockets, BatchOnSocket, UnavailableOnItsSocket
  <2> QED
    BY <2>1, <2>2
<1> QED
  BY <1>1, <1>2, <1>3, PTL DEF WsSpec

-----------------------------------------------------------------------------
(* The frames of one kind on a wire                                          *)

At(w, f) == {j \in 1..Len(w) : w[j] = f}

LEMMA CountPutOn ==
  ASSUME NEW w \in Seq(Frame), NEW g \in Frame, NEW f \in Frame
  PROVE  /\ Cardinality(At(w, f)) \in Nat /\ Cardinality(At(Append(w, g), f)) \in Nat
         /\ Cardinality(At(Append(w, g), f)) = Cardinality(At(w, f)) + IF g = f THEN 1 ELSE 0
<1>1. /\ Len(w) \in Nat /\ Len(Append(w, g)) = Len(w) + 1 /\ Append(w, g)[Len(w) + 1] = g
      /\ \A j \in 1..Len(w) : Append(w, g)[j] = w[j]
  OBVIOUS
<1>2. IsFiniteSet(At(w, f))
  <2>1. IsFiniteSet(1..Len(w)) /\ At(w, f) \subseteq 1..Len(w)
    BY <1>1, FS_Interval DEF At
  <2> QED
    BY <2>1, FS_Subset
<1>3. Cardinality(At(w, f)) \in Nat
  BY <1>2, FS_CardinalityType
<1>4. CASE g = f
  <2>1. At(Append(w, g), f) = At(w, f) \cup {Len(w) + 1} /\ Len(w) + 1 \notin At(w, f)
    BY <1>1, <1>4 DEF At
  <2>2. Cardinality(At(w, f) \cup {Len(w) + 1}) = Cardinality(At(w, f)) + 1
    BY <1>2, <2>1, FS_AddElement
  <2> QED
    BY <1>3, <1>4, <2>1, <2>2
<1>5. CASE g # f
  <2>1. At(Append(w, g), f) = At(w, f)
    BY <1>1, <1>5 DEF At
  <2> QED
    BY <1>3, <1>5, <2>1
<1> QED
  BY <1>4, <1>5

LEMMA CountTakenOff ==
  ASSUME NEW w \in Seq(Frame), w # <<>>, NEW f \in Frame
  PROVE  /\ Cardinality(At(w, f)) \in Nat /\ Cardinality(At(Tail(w), f)) \in Nat
         /\ Cardinality(At(Tail(w), f)) + (IF Head(w) = f THEN 1 ELSE 0) <= Cardinality(At(w, f))
<1> DEFINE rest == At(w, f) \ {1}
           up == [j \in At(Tail(w), f) |-> j + 1]
<1>1. /\ Head(w) = w[1] /\ Len(w) \in Nat /\ Len(w) >= 1 /\ Len(Tail(w)) = Len(w) - 1
      /\ \A j \in 1..Len(Tail(w)) : Tail(w)[j] = w[j + 1] /\ j + 1 \in 1..Len(w) /\ j + 1 # 1
  BY FrameTakenOff
<1>2. IsFiniteSet(At(w, f)) /\ IsFiniteSet(At(Tail(w), f)) /\ IsFiniteSet(rest)
  <2>1. IsFiniteSet(1..Len(w)) /\ At(w, f) \subseteq 1..Len(w) /\ rest \subseteq 1..Len(w)
    BY <1>1, FS_Interval DEF At
  <2>2. IsFiniteSet(1..Len(Tail(w))) /\ At(Tail(w), f) \subseteq 1..Len(Tail(w))
    BY <1>1, FS_Interval DEF At
  <2> QED
    BY <2>1, <2>2, FS_Subset
<1>3. Cardinality(At(w, f)) \in Nat /\ Cardinality(At(Tail(w), f)) \in Nat /\ Cardinality(rest) \in Nat
  BY <1>2, FS_CardinalityType
<1>4. up \in Injection(At(Tail(w), f), rest)
  <2>1. \A j \in At(Tail(w), f) : j \in 1..Len(Tail(w)) /\ j \in Int /\ j + 1 \in rest
    BY <1>1 DEF At
  <2>2. up \in [At(Tail(w), f) -> rest]
    BY <2>1
  <2>3. \A j, k \in At(Tail(w), f) : up[j] = up[k] => j = k
    BY <2>1
  <2> QED
    BY <2>2, <2>3 DEF Injection, IsInjective
<1>5. Cardinality(At(Tail(w), f)) <= Cardinality(rest)
  BY <1>2, <1>4, FS_Injection
<1>6. CASE Head(w) = f
  <2>1. 1 \in At(w, f)
    BY <1>1, <1>6 DEF At
  <2>2. Cardinality(rest) = Cardinality(At(w, f)) - 1
    BY <1>2, <2>1, FS_RemoveElement
  <2> QED
    BY <1>3, <1>5, <1>6, <2>2
<1>7. CASE Head(w) # f
  <2>1. rest = At(w, f)
    BY <1>1, <1>7 DEF At
  <2> QED
    BY <1>3, <1>5, <1>7, <2>1
<1> QED
  BY <1>3, <1>6, <1>7

-----------------------------------------------------------------------------
(* KtTransport                                                               *)

\* How a socket's future stands to its connection, and that none is in use
\* whose closed() has begun.
KtSocketsInPlace ==
  /\ inUse # 0 => future[inUse] # "none" /\ line[inUse] \in {"none", "up"}
  /\ \A s \in KtSocket : /\ future[s] = "open" => line[s] # "none"
                         /\ future[s] \in {"none", "opening", "failed"} => line[s] = "none"
\* The frames that answer a batch and are on their way.
KtOnTheWay(b) == At(ktWire[rides[b]], [of |-> b, refusal |-> FALSE])
\* How a batch stands to its socket, to those pending, and to the server; one
\* that has no end and began is pending, and no socket of it is gone.
KtBatchInPlace(b) ==
  /\ step[b] = "new" => Open(b) /\ b \notin pending
  /\ step[b] # "new" /\ Open(b) => b \in pending
  /\ step[b] = "over" => ~Open(b)
  /\ step[b] \in {"new", "added", "awaits"} => b \notin written
  /\ step[b] \in {"awaits", "collects"} => rides[b] # 0 /\ future[rides[b]] # "none" /\ (line[rides[b]] = "gone" => ~Open(b))
  /\ b \in written => rides[b] # 0
  /\ asked[b] # "no" => b \in written
  /\ asked[b] # "answering" => toSend[b] = Frames /\ due[b] = Frames
  /\ asked[b] = "answering" => toSend[b] + Cardinality(KtOnTheWay(b)) <= due[b]
  /\ ended[b] = "refused" => b \notin pending
KtBatchesInPlace == \A b \in Batch : KtBatchInPlace(b)
\* What closed() is to forget has ended.
KtCleared == \A s \in KtSocket : line[s] = "clearing" => \A b \in pending : ~Open(b)
KtFramesInPlace ==
  \A s \in KtSocket :
    /\ \A j \in 1..Len(ktWire[s]) :
         /\ rides[ktWire[s][j].of] = s
         /\ asked[ktWire[s][j].of] = IF ktWire[s][j].refusal THEN "refused" ELSE "answering"
    /\ \A j, k \in 1..Len(ktWire[s]) : ktWire[s][j].refusal /\ ktWire[s][j] = ktWire[s][k] => j = k
KtHeard(b) == asked[b] = "refused" /\ \A s \in KtSocket : \A j \in 1..Len(ktWire[s]) : ktWire[s][j] # [of |-> b, refusal |-> TRUE]
\* Those the server refused are there to be told.
KtThereToBeTold == \A b \in Batch : asked[b] = "refused" => ended[b] \in {"no", "refused"}
KtUnownedInPlace ==
  /\ \A o \in unowned : KtHeard(o.of) /\ o.among \subseteq written
  /\ KtThereToBeTold => /\ Sound(unowned, pending \ Begun)
                        /\ \A b \in Batch : ended[b] = "refused" => KtHeard(b)

KtInv ==
  KtTypeOK /\ KtSocketsInPlace /\ KtBatchesInPlace /\ KtCleared /\ KtFramesInPlace /\ KtUnownedInPlace

LEMMA KtStarts == KtInit => KtInv
<1> SUFFICES ASSUME KtInit PROVE KtInv
  OBVIOUS
<1>1. KtTypeOK
  <2>1. ktWire \in [KtSocket -> Seq(Frame)]
    <3>1. <<>> \in Seq(Frame)
      OBVIOUS
    <3> QED
      BY <3>1 DEF KtInit
  <2> QED
    BY <2>1, KtAssumption DEF KtInit, KtTypeOK, Frame, KtSocket
<1>2. KtSocketsInPlace /\ KtCleared
  BY DEF KtInit, KtSocketsInPlace, KtCleared
<1>3. KtBatchesInPlace
  BY DEF KtInit, KtBatchesInPlace, KtBatchInPlace, Open
<1>4. KtFramesInPlace
  BY DEF KtInit, KtFramesInPlace
<1>5. KtUnownedInPlace
  BY DEF KtInit, KtUnownedInPlace, Sound
<1> QED
  BY <1>1, <1>2, <1>3, <1>4, <1>5 DEF KtInv

LEMMA KtFrameOnWire ==
  ASSUME KtTypeOK, KtFramesInPlace, NEW s \in KtSocket, NEW j \in 1..Len(ktWire[s])
  PROVE  /\ ktWire[s] \in Seq(Frame) /\ ktWire[s][j] \in Frame /\ rides[ktWire[s][j].of] = s
         /\ asked[ktWire[s][j].of] = IF ktWire[s][j].refusal THEN "refused" ELSE "answering"
<1>1. ktWire[s] \in Seq(Frame)
  BY DEF KtTypeOK, Frame
<1>2. ktWire[s][j] \in Frame
  BY <1>1
<1> QED
  BY <1>1, <1>2 DEF KtFramesInPlace

\* A step that leaves the frames, those without an op id and what the batches
\* have received alone, and makes nobody refused.
LEMMA KtQuiet ==
  ASSUME KtInv, UNCHANGED <<unowned, due, ktWire>>, pending \subseteq pending', written \subseteq written',
         \A c \in Batch : asked[c] \in {"refused", "answering"} => asked'[c] = asked[c] /\ rides'[c] = rides[c],
         \A c \in Batch : asked'[c] = "refused" => asked[c] = "refused",
         \A c \in Batch : ended[c] # "no" => ended'[c] = ended[c],
         \A c \in Batch : ended'[c] = "refused" => ended[c] = "refused"
  PROVE  /\ KtFramesInPlace' /\ KtUnownedInPlace'
         /\ unowned' \subseteq [of : Batch, among : (SUBSET written') \ {{}}]
         /\ \A c \in Batch : asked[c] = "answering" => KtOnTheWay(c)' = KtOnTheWay(c)
<1> USE DEF KtInv
<1>1. KtFramesInPlace'
  <2> SUFFICES ASSUME NEW s \in KtSocket
               PROVE  \A j \in 1..Len(ktWire[s]) :
                        /\ rides'[ktWire[s][j].of] = s
                        /\ asked'[ktWire[s][j].of] = IF ktWire[s][j].refusal THEN "refused" ELSE "answering"
    BY DEF KtFramesInPlace
  <2> SUFFICES ASSUME NEW j \in 1..Len(ktWire[s])
               PROVE  /\ rides'[ktWire[s][j].of] = s
                      /\ asked'[ktWire[s][j].of] = IF ktWire[s][j].refusal THEN "refused" ELSE "answering"
    OBVIOUS
  <2>1. /\ ktWire[s][j] \in Frame /\ rides[ktWire[s][j].of] = s
        /\ asked[ktWire[s][j].of] = IF ktWire[s][j].refusal THEN "refused" ELSE "answering"
    BY KtFrameOnWire
  <2>2. ktWire[s][j].of \in Batch /\ asked[ktWire[s][j].of] \in {"refused", "answering"}
    BY <2>1 DEF Frame
  <2> QED
    BY <2>1, <2>2
<1>2. ASSUME NEW c \in Batch, KtHeard(c) PROVE KtHeard(c)'
  BY <1>2 DEF KtHeard
<1>3. \A o \in unowned : o.of \in Batch
  BY DEF KtTypeOK
<1>4. \A o \in unowned : KtHeard(o.of)' /\ o.among \subseteq written'
  BY <1>2, <1>3 DEF KtUnownedInPlace
<1>5. ASSUME KtThereToBeTold'
      PROVE  Sound(unowned, pending' \ Begun') /\ \A c \in Batch : ended'[c] = "refused" => KtHeard(c)'
  <2>1. KtThereToBeTold
    <3> SUFFICES ASSUME NEW c \in Batch, asked[c] = "refused" PROVE ended[c] \in {"no", "refused"}
      BY DEF KtThereToBeTold
    <3>1. asked'[c] = "refused"
      OBVIOUS
    <3>2. ended'[c] \in {"no", "refused"}
      BY <1>5, <3>1 DEF KtThereToBeTold
    <3> QED
      BY <3>2
  <2>2. Begun' = Begun
    BY DEF Begun
  <2>3. Sound(unowned, pending' \ Begun')
    BY <2>1, <2>2 DEF KtUnownedInPlace, Sound
  <2> QED
    BY <1>2, <2>1, <2>3 DEF KtUnownedInPlace
<1>6. KtUnownedInPlace'
  BY <1>4, <1>5 DEF KtUnownedInPlace
<1>7. unowned' \subseteq [of : Batch, among : (SUBSET written') \ {{}}]
  BY DEF KtTypeOK
<1>8. ASSUME NEW c \in Batch, asked[c] = "answering" PROVE KtOnTheWay(c)' = KtOnTheWay(c)
  <2>1. rides'[c] = rides[c] /\ ktWire' = ktWire
    BY <1>8
  <2> QED
    BY <2>1 DEF KtOnTheWay
<1> QED
  BY <1>1, <1>6, <1>7, <1>8

LEMMA UnownedAre ==
  ASSUME KtInv
  PROVE  /\ unowned \in SUBSET Orphan
         /\ \A o \in unowned : o.of \in Batch /\ KtHeard(o.of) /\ o.among \subseteq written
<1>1. \A o \in unowned : o \in Orphan
  BY DEF KtInv, KtTypeOK, Orphan
<1> QED
  BY <1>1 DEF KtInv, KtUnownedInPlace, Orphan

\* A step that gives the frames os out among the batches ps.
LEMMA GivesOutKeeps ==
  ASSUME KtInv, NEW os \in SUBSET Orphan, NEW ps \in SUBSET pending, GivesOut(os, ps),
         written' = written, asked' = asked,
         \A c \in Batch : KtHeard(c) => KtHeard(c)',
         \A x \in os : KtHeard(x.of)' /\ x.among \subseteq written,
         KtThereToBeTold => Sound(os, ps \ Begun')
  PROVE  /\ KtUnownedInPlace'
         /\ unowned' \subseteq [of : Batch, among : (SUBSET written) \ {{}}]
         /\ pending' \subseteq ps
         /\ ended' \in [Batch -> {"no", "answered", "refused", "unavailable", "left"}]
         /\ \A c \in Batch : /\ ended[c] # "no" \/ c \notin ps => ended'[c] = ended[c]
                             /\ ended'[c] = "refused" => c \notin pending'
                             /\ ended'[c] = "no" /\ c \in ps => c \in pending'
<1> USE DEF KtInv
<1> DEFINE bs == ps \ Begun'
           given == Attributed(os, bs).given
<1>1. /\ unowned' = Attributed(os, bs).orphans /\ pending' = ps \ given
      /\ ended' = [b \in Batch |-> IF b \in given /\ Open(b) THEN "refused"
                                   ELSE IF b \in ps /\ due'[b] = 0 /\ Open(b) THEN "answered" ELSE ended[b]]
  BY DEF GivesOut
<1>2. bs \in SUBSET Batch /\ pending \subseteq Batch
  BY DEF KtTypeOK
<1>3. /\ given \subseteq bs
      /\ unowned' \subseteq [of : Batch, among : (SUBSET (bs \ given)) \ {{}}]
      /\ \A o \in unowned' : \E x \in os : x.of = o.of /\ o.among \subseteq x.among
      /\ Sound(os, bs) => Sound(unowned', bs \ given) /\ \A b \in given : \E x \in os : x.of = b
  <2> HIDE DEF bs
  <2>1. /\ Attributed(os, bs).given \subseteq bs
        /\ Attributed(os, bs).orphans \subseteq [of : Batch, among : (SUBSET (bs \ Attributed(os, bs).given)) \ {{}}]
        /\ \A o \in Attributed(os, bs).orphans : \E x \in os : x.of = o.of /\ o.among \subseteq x.among
        /\ Sound(os, bs) => /\ Sound(Attributed(os, bs).orphans, bs \ Attributed(os, bs).given)
                            /\ \A b \in Attributed(os, bs).given : \E x \in os : x.of = b
    BY <1>2, AttributedIs
  <2> QED
    BY <1>1, <2>1
<1> HIDE DEF bs, given
<1>4. \A o \in unowned' : KtHeard(o.of)' /\ o.among \subseteq written
  <2> SUFFICES ASSUME NEW o \in unowned' PROVE KtHeard(o.of)' /\ o.among \subseteq written
    OBVIOUS
  <2>1. PICK x \in os : x.of = o.of /\ o.among \subseteq x.among
    BY <1>3
  <2>2. KtHeard(x.of)' /\ x.among \subseteq written
    OBVIOUS
  <2> QED
    BY <2>1, <2>2 DEF KtHeard
<1>5. /\ ended' \in [Batch -> {"no", "answered", "refused", "unavailable", "left"}]
      /\ \A c \in Batch : /\ ended[c] # "no" \/ c \notin ps => ended'[c] = ended[c]
                          /\ ended'[c] = "refused" => ended[c] = "refused" \/ c \in given
                          /\ c \in given => ended'[c] # "no"
  <2>1. \A c \in Batch : ended[c] \in {"no", "answered", "refused", "unavailable", "left"}
    BY DEF KtTypeOK
  <2>2. given \subseteq ps
    BY <1>3 DEF bs
  <2> QED
    BY <1>1, <2>1, <2>2 DEF Open
<1>6. \A c \in Batch : /\ ended'[c] = "refused" => c \notin pending'
                       /\ ended'[c] = "no" /\ c \in ps => c \in pending'
  <2> SUFFICES ASSUME NEW c \in Batch
               PROVE  /\ ended'[c] = "refused" => c \notin pending'
                      /\ ended'[c] = "no" /\ c \in ps => c \in pending'
    OBVIOUS
  <2>1. KtBatchInPlace(c)
    BY DEF KtBatchesInPlace
  <2>2. ended[c] = "refused" => c \notin pending
    BY <2>1 DEF KtBatchInPlace
  <2> QED
    BY <1>1, <1>5, <2>2
<1>7. ASSUME KtThereToBeTold'
      PROVE  Sound(unowned', pending' \ Begun') /\ \A c \in Batch : ended'[c] = "refused" => KtHeard(c)'
  <2>1. KtThereToBeTold
    <3> SUFFICES ASSUME NEW c \in Batch, asked[c] = "refused" PROVE ended[c] \in {"no", "refused"}
      BY DEF KtThereToBeTold
    <3>1. ended'[c] \in {"no", "refused"}
      BY <1>7 DEF KtThereToBeTold
    <3> QED
      BY <1>5, <3>1
  <2>2. Sound(os, bs) /\ bs \ given = pending' \ Begun'
    BY <1>1, <2>1 DEF bs
  <2>3. ASSUME NEW c \in Batch, ended'[c] = "refused" PROVE KtHeard(c)'
    <3>1. CASE ended[c] = "refused"
      BY <2>1, <3>1 DEF KtUnownedInPlace
    <3>2. CASE c \in given
      <4>1. PICK x \in os : x.of = c
        BY <1>3, <2>2, <3>2
      <4>2. KtHeard(x.of)'
        OBVIOUS
      <4> QED
        BY <4>1, <4>2 DEF KtHeard
    <3> QED
      BY <1>5, <2>3, <3>1, <3>2
  <2> QED
    BY <1>3, <2>2, <2>3
<1>8. KtUnownedInPlace'
  BY <1>4, <1>7 DEF KtUnownedInPlace
<1>9. unowned' \subseteq [of : Batch, among : (SUBSET written) \ {{}}]
  <2> SUFFICES ASSUME NEW o \in unowned' PROVE o \in [of : Batch, among : (SUBSET written) \ {{}}]
    OBVIOUS
  <2>1. o \in [of : Batch, among : (SUBSET (bs \ given)) \ {{}}] /\ o.among \subseteq written
    BY <1>3, <1>4
  <2> QED
    BY <2>1
<1>10. pending' \subseteq ps
  BY <1>1
<1> QED
  BY <1>5, <1>6, <1>8, <1>9, <1>10

LEMMA KtAddKeeps ==
  ASSUME ~Racing, KtInv, NEW b \in Batch, KtAdd(b)
  PROVE  KtInv'
<1> USE DEF KtInv
<1>1. /\ step[b] = "new" /\ ~ClosedRuns /\ step' = [step EXCEPT ![b] = "added"] /\ pending' = pending \cup {b}
      /\ UNCHANGED <<inUse, future, line, rides, written, ended, due, unowned, asked, toSend, ktWire>>
  BY DEF KtAdd, ktConns, ktServer, Steps
<1>2. /\ KtFramesInPlace' /\ KtUnownedInPlace'
      /\ unowned' \subseteq [of : Batch, among : (SUBSET written') \ {{}}]
      /\ \A c \in Batch : asked[c] = "answering" => KtOnTheWay(c)' = KtOnTheWay(c)
  <2>1. pending \subseteq pending' /\ written \subseteq written'
    BY <1>1
  <2> QED
    BY <1>1, <2>1, KtQuiet
<1>3. KtTypeOK'
  BY <1>1, <1>2 DEF KtTypeOK
<1>4. KtSocketsInPlace' /\ KtCleared'
  BY <1>1 DEF KtSocketsInPlace, KtCleared, ClosedRuns
<1>5. KtBatchesInPlace'
  <2> SUFFICES ASSUME NEW c \in Batch PROVE KtBatchInPlace(c)'
    BY DEF KtBatchesInPlace
  <2>1. KtBatchInPlace(c)
    BY DEF KtBatchesInPlace
  <2>2. asked[c] = "answering" => KtOnTheWay(c)' = KtOnTheWay(c)
    BY <1>2
  <2>3. CASE c = b
    <3>1. step'[c] = "added"
      BY <1>1, <2>3 DEF KtTypeOK
    <3> QED
      BY <1>1, <2>1, <2>2, <2>3, <3>1 DEF KtBatchInPlace, Open
  <2>4. CASE c # b
    <3>1. step'[c] = step[c]
      BY <1>1, <2>4 DEF KtTypeOK
    <3> QED
      BY <1>1, <2>1, <2>2, <2>4, <3>1 DEF KtBatchInPlace, Open
  <2> QED
    BY <2>3, <2>4
<1> QED
  BY <1>2, <1>3, <1>4, <1>5

LEMMA KtTakeKeeps ==
  ASSUME KtInv, NEW b \in Batch, KtTake(b)
  PROVE  KtInv'
<1> USE DEF KtInv
<1>1. /\ step[b] = "added" /\ step' = [step EXCEPT ![b] = "awaits"]
      /\ UNCHANGED <<line, written, ended, pending, due, unowned, asked, toSend, ktWire>>
  BY DEF KtTake, ktConns, ktServer, Steps
<1>2. PICK s \in KtSocket :
        /\ rides' = [rides EXCEPT ![b] = s] /\ inUse' = s /\ line[s] \in {"none", "up"}
        /\ \/ future' = future /\ future[s] # "none"
           \/ future' = [future EXCEPT ![s] = "opening"] /\ line[s] = "none"
  <2>1. CASE inUse # 0
    <3>1. inUse \in KtSocket /\ rides' = [rides EXCEPT ![b] = inUse] /\ inUse' = inUse /\ future' = future
      BY <2>1, KtAssumption DEF KtTake, ktConns, KtTypeOK, KtSocket
    <3> QED
      BY <2>1, <3>1 DEF KtSocketsInPlace
  <2>2. CASE inUse = 0
    <3>1. PICK s \in KtUnopened : rides' = [rides EXCEPT ![b] = s] /\ inUse' = s /\ future' = [future EXCEPT ![s] = "opening"]
      BY <2>2 DEF KtTake
    <3>2. s \in KtSocket /\ line[s] = "none"
      BY <3>1 DEF KtUnopened, KtSocketsInPlace
    <3> QED
      BY <3>1, <3>2
  <2> QED
    BY <2>1, <2>2
<1>3. /\ future' \in [KtSocket -> {"none", "opening", "open", "failed", "cancelled"}] /\ future'[s] # "none"
      /\ \A t \in KtSocket : /\ t # s => future'[t] = future[t]
                             /\ future'[t] = "open" => future[t] = "open"
                             /\ future[t] # "none" => future'[t] # "none"
                             /\ future'[t] \in {"none", "opening", "failed"} => line[t] = "none"
  BY <1>2 DEF KtTypeOK, KtSocketsInPlace
<1>4. s # 0 /\ s \in 0..KtSockets
  BY KtAssumption DEF KtSocket
<1>5. KtBatchInPlace(b) /\ b \notin written /\ asked[b] = "no"
  <2>1. KtBatchInPlace(b)
    BY DEF KtBatchesInPlace
  <2> QED
    BY <1>1, <2>1 DEF KtBatchInPlace
<1>6. \A c \in Batch : c # b => rides'[c] = rides[c] /\ step'[c] = step[c]
  BY <1>1, <1>2 DEF KtTypeOK
<1>7. rides'[b] = s /\ step'[b] = "awaits"
  BY <1>1, <1>2 DEF KtTypeOK
<1>8. /\ KtFramesInPlace' /\ KtUnownedInPlace'
      /\ unowned' \subseteq [of : Batch, among : (SUBSET written') \ {{}}]
      /\ \A c \in Batch : asked[c] = "answering" => KtOnTheWay(c)' = KtOnTheWay(c)
  <2>1. pending \subseteq pending' /\ written \subseteq written'
    BY <1>1
  <2>2. \A c \in Batch : asked[c] \in {"refused", "answering"} => asked'[c] = asked[c] /\ rides'[c] = rides[c]
    BY <1>1, <1>5, <1>6
  <2> QED
    BY <1>1, <2>1, <2>2, KtQuiet
<1>9. KtTypeOK'
  BY <1>1, <1>2, <1>3, <1>4, <1>8 DEF KtTypeOK
<1>10. KtSocketsInPlace' /\ KtCleared'
  BY <1>1, <1>2, <1>3 DEF KtSocketsInPlace, KtCleared, Open
<1>11. KtBatchesInPlace'
  <2> SUFFICES ASSUME NEW c \in Batch PROVE KtBatchInPlace(c)'
    BY DEF KtBatchesInPlace
  <2>1. KtBatchInPlace(c) /\ rides[c] \in 0..KtSockets
    BY DEF KtBatchesInPlace, KtTypeOK
  <2>2. asked[c] = "answering" => KtOnTheWay(c)' = KtOnTheWay(c)
    BY <1>8
  <2>3. CASE c = b
    BY <1>1, <1>2, <1>3, <1>4, <1>5, <1>7, <2>1, <2>3 DEF KtBatchInPlace, Open
  <2>4. CASE c # b
    <3>1. rides'[c] = rides[c] /\ step'[c] = step[c]
      BY <1>6, <2>4
    <3>2. rides[c] # 0 => rides[c] \in KtSocket
      BY <2>1, KtAssumption DEF KtSocket
    <3>3. rides[c] # 0 /\ future[rides[c]] # "none" => future'[rides[c]] # "none"
      BY <1>3, <3>2
    <3> QED
      BY <1>1, <2>1, <2>2, <3>1, <3>3 DEF KtBatchInPlace, Open
  <2> QED
    BY <2>3, <2>4
<1> QED
  BY <1>8, <1>9, <1>10, <1>11

\* How the future of a socket ends, or its connection comes up.
LEMMA KtOpensKeeps ==
  ASSUME KtInv, NEW s \in KtSocket, KtOpened(s) \/ KtNotOpened(s) \/ KtUpForNobody(s)
  PROVE  KtInv'
<1> USE DEF KtInv
<1>1. UNCHANGED <<inUse, step, rides, written, ended, pending, due, unowned, asked, toSend, ktWire>>
  BY DEF KtOpened, KtNotOpened, KtUpForNobody, ktBatch, ktServer
<1>2. /\ future' \in [KtSocket -> {"none", "opening", "open", "failed", "cancelled"}]
      /\ line' \in [KtSocket -> {"none", "up", "ending", "clearing", "gone"}]
      /\ \A t \in KtSocket : t # s => future'[t] = future[t] /\ line'[t] = line[t]
      /\ line[s] = "none" /\ future[s] # "none" /\ future'[s] # "none"
      /\ \/ line'[s] = "up" /\ future'[s] \in {"open", "cancelled"}
         \/ line'[s] = "none" /\ future'[s] = "failed"
  <2>1. CASE KtOpened(s)
    BY <2>1 DEF KtOpened, KtTypeOK, KtSocketsInPlace
  <2>2. CASE KtNotOpened(s)
    BY <2>2 DEF KtNotOpened, KtTypeOK, KtSocketsInPlace
  <2>3. CASE KtUpForNobody(s)
    BY <2>3 DEF KtUpForNobody, KtTypeOK
  <2> QED
    BY <2>1, <2>2, <2>3
<1>3. /\ KtFramesInPlace' /\ KtUnownedInPlace'
      /\ unowned' \subseteq [of : Batch, among : (SUBSET written') \ {{}}]
      /\ \A c \in Batch : asked[c] = "answering" => KtOnTheWay(c)' = KtOnTheWay(c)
  <2>1. pending \subseteq pending' /\ written \subseteq written'
    BY <1>1
  <2> QED
    BY <1>1, <2>1, KtQuiet
<1>4. KtTypeOK'
  BY <1>1, <1>2, <1>3 DEF KtTypeOK
<1>5. KtSocketsInPlace'
  <2>1. inUse # 0 => inUse \in KtSocket
    BY KtAssumption DEF KtTypeOK, KtSocket
  <2> QED
    BY <1>1, <1>2, <2>1 DEF KtSocketsInPlace
<1>6. KtCleared'
  BY <1>1, <1>2 DEF KtCleared, Open
<1>7. KtBatchesInPlace'
  <2> SUFFICES ASSUME NEW c \in Batch PROVE KtBatchInPlace(c)'
    BY DEF KtBatchesInPlace
  <2>1. KtBatchInPlace(c) /\ rides[c] \in 0..KtSockets
    BY DEF KtBatchesInPlace, KtTypeOK
  <2>2. asked[c] = "answering" => KtOnTheWay(c)' = KtOnTheWay(c)
    BY <1>3
  <2>3. rides[c] # 0 => rides[c] \in KtSocket
    BY <2>1, KtAssumption DEF KtSocket
  <2>4. rides[c] # 0 => /\ line'[rides[c]] = "gone" => line[rides[c]] = "gone"
                        /\ future[rides[c]] # "none" => future'[rides[c]] # "none"
    BY <1>2, <2>3
  <2> QED
    BY <1>1, <2>1, <2>2, <2>4 DEF KtBatchInPlace, Open
<1> QED
  BY <1>3, <1>4, <1>5, <1>6, <1>7

LEMMA KtWriteKeeps ==
  ASSUME KtInv, NEW b \in Batch, KtWrite(b)
  PROVE  KtInv'
<1> USE DEF KtInv
<1>1. /\ step[b] = "awaits" /\ future[rides[b]] = "open" /\ step' = [step EXCEPT ![b] = "collects"]
      /\ written' = written \cup {b}
      /\ asked' = [asked EXCEPT ![b] = IF line[rides[b]] = "up" THEN "got" ELSE "no"]
      /\ UNCHANGED <<inUse, future, line, rides, ended, pending, due, unowned, toSend, ktWire>>
  BY DEF KtWrite, ktConns, Steps
<1>2. KtBatchInPlace(b) /\ b \notin written /\ asked[b] = "no" /\ toSend[b] = Frames /\ due[b] = Frames
  <2>1. KtBatchInPlace(b)
    BY DEF KtBatchesInPlace
  <2> QED
    BY <1>1, <2>1 DEF KtBatchInPlace
<1>3. /\ asked'[b] \in {"got", "no"} /\ step'[b] = "collects" /\ b \in written'
      /\ \A c \in Batch : c # b => asked'[c] = asked[c] /\ step'[c] = step[c] /\ (c \in written' <=> c \in written)
  BY <1>1 DEF KtTypeOK
<1>4. /\ KtFramesInPlace' /\ KtUnownedInPlace'
      /\ unowned' \subseteq [of : Batch, among : (SUBSET written') \ {{}}]
      /\ \A c \in Batch : asked[c] = "answering" => KtOnTheWay(c)' = KtOnTheWay(c)
  <2>1. pending \subseteq pending' /\ written \subseteq written'
    BY <1>1
  <2>2. \A c \in Batch : asked[c] \in {"refused", "answering"} => asked'[c] = asked[c] /\ rides'[c] = rides[c]
    BY <1>1, <1>2, <1>3
  <2>3. \A c \in Batch : asked'[c] = "refused" => asked[c] = "refused"
    BY <1>3
  <2> QED
    BY <1>1, <2>1, <2>2, <2>3, KtQuiet
<1>5. KtTypeOK'
  BY <1>1, <1>3, <1>4 DEF KtTypeOK
<1>6. KtSocketsInPlace' /\ KtCleared'
  BY <1>1 DEF KtSocketsInPlace, KtCleared, Open
<1>7. KtBatchesInPlace'
  <2> SUFFICES ASSUME NEW c \in Batch PROVE KtBatchInPlace(c)'
    BY DEF KtBatchesInPlace
  <2>1. KtBatchInPlace(c)
    BY DEF KtBatchesInPlace
  <2>2. asked[c] = "answering" => KtOnTheWay(c)' = KtOnTheWay(c)
    BY <1>4
  <2>3. CASE c = b
    BY <1>1, <1>2, <1>3, <2>3 DEF KtBatchInPlace, Open
  <2>4. CASE c # b
    <3>1. asked'[c] = asked[c] /\ step'[c] = step[c] /\ (c \in written' <=> c \in written)
      BY <1>3, <2>4
    <3> QED
      BY <1>1, <2>1, <2>2, <3>1 DEF KtBatchInPlace, Open
  <2> QED
    BY <2>3, <2>4
<1> QED
  BY <1>4, <1>5, <1>6, <1>7

\* A batch that ends before it was sent, or when its reader leaves.
LEMMA KtEndsKeeps ==
  ASSUME KtInv, NEW b \in Batch, KtNoConnection(b) \/ KtLeftOpening(b) \/ KtLeft(b)
  PROVE  KtInv'
<1> USE DEF KtInv
<1>1. PICK how \in {"unavailable", "left"} :
        /\ ended' = [c \in Batch |-> IF c = b /\ Open(c) THEN how ELSE ended[c]]
        /\ UNCHANGED <<line, rides, written, pending, due, unowned, asked, toSend, ktWire>>
  BY DEF KtNoConnection, KtLeftOpening, KtLeft, Ends, ktConns, ktBatch, ktServer
<1>2. /\ ended' \in [Batch -> {"no", "answered", "refused", "unavailable", "left"}] /\ ended'[b] # "no"
      /\ \A c \in Batch : /\ c # b => ended'[c] = ended[c]
                          /\ ended[c] # "no" => ended'[c] = ended[c]
                          /\ ended'[c] = "refused" => ended[c] = "refused"
  BY <1>1 DEF KtTypeOK, Open
<1>3. /\ step[b] \in {"awaits", "collects"} /\ step' \in [Batch -> {"new", "added", "awaits", "collects", "over"}]
      /\ step'[b] \in {"collects", "over"} /\ (\A c \in Batch : c # b => step'[c] = step[c])
      /\ inUse' \in {0, inUse}
  <2>1. CASE KtNoConnection(b)
    BY <2>1 DEF KtNoConnection, Steps, KtTypeOK
  <2>2. CASE KtLeftOpening(b)
    BY <2>2 DEF KtLeftOpening, Steps, KtTypeOK
  <2>3. CASE KtLeft(b)
    BY <2>3 DEF KtLeft, KtTypeOK, ktConns, ktBatch
  <2> QED
    BY <2>1, <2>2, <2>3
<1>4. KtBatchInPlace(b) /\ rides[b] \in KtSocket
  <2>1. KtBatchInPlace(b) /\ rides[b] \in 0..KtSockets
    BY DEF KtBatchesInPlace, KtTypeOK
  <2>2. rides[b] # 0
    BY <1>3, <2>1 DEF KtBatchInPlace
  <2> QED
    BY <2>1, <2>2, KtAssumption DEF KtSocket
<1>5. /\ future' \in [KtSocket -> {"none", "opening", "open", "failed", "cancelled"}]
      /\ \A t \in KtSocket : future'[t] = future[t] \/ (future[t] = "opening" /\ future'[t] = "cancelled")
  BY <1>4 DEF KtNoConnection, KtLeftOpening, KtLeft, KtTypeOK, ktConns
<1>6. /\ KtFramesInPlace' /\ KtUnownedInPlace'
      /\ unowned' \subseteq [of : Batch, among : (SUBSET written') \ {{}}]
      /\ \A c \in Batch : asked[c] = "answering" => KtOnTheWay(c)' = KtOnTheWay(c)
  <2>1. pending \subseteq pending' /\ written \subseteq written'
    BY <1>1
  <2> QED
    BY <1>1, <1>2, <2>1, KtQuiet
<1>7. KtTypeOK'
  <2>1. inUse' \in 0..KtSockets
    BY <1>3, KtAssumption DEF KtTypeOK
  <2> QED
    BY <1>1, <1>2, <1>3, <1>5, <1>6, <2>1 DEF KtTypeOK
<1>8. KtSocketsInPlace'
  <2>1. inUse # 0 => inUse \in KtSocket
    BY KtAssumption DEF KtTypeOK, KtSocket
  <2> QED
    BY <1>1, <1>3, <1>5, <2>1 DEF KtSocketsInPlace
<1>9. KtCleared'
  BY <1>1, <1>2 DEF KtCleared, Open, KtTypeOK
<1>10. KtBatchesInPlace'
  <2> SUFFICES ASSUME NEW c \in Batch PROVE KtBatchInPlace(c)'
    BY DEF KtBatchesInPlace
  <2>1. KtBatchInPlace(c) /\ rides[c] \in 0..KtSockets
    BY DEF KtBatchesInPlace, KtTypeOK
  <2>2. asked[c] = "answering" => KtOnTheWay(c)' = KtOnTheWay(c)
    BY <1>6
  <2>3. rides[c] # 0 => rides[c] \in KtSocket
    BY <2>1, KtAssumption DEF KtSocket
  <2>4. rides[c] # 0 /\ future[rides[c]] # "none" => future'[rides[c]] # "none"
    BY <1>5, <2>3
  <2>5. CASE c = b
    BY <1>1, <1>2, <1>3, <2>1, <2>2, <2>4, <2>5 DEF KtBatchInPlace, Open
  <2>6. CASE c # b
    <3>1. step'[c] = step[c] /\ ended'[c] = ended[c]
      BY <1>2, <1>3, <2>6
    <3> QED
      BY <1>1, <2>1, <2>2, <2>4, <3>1 DEF KtBatchInPlace, Open
  <2> QED
    BY <2>5, <2>6
<1> QED
  BY <1>6, <1>7, <1>8, <1>9, <1>10

LEMMA KtFailsKeeps ==
  ASSUME KtInv, NEW s \in KtSocket, KtFails(s)
  PROVE  KtInv'
<1> USE DEF KtInv
<1>1. /\ line[s] = "ending" /\ line' = [line EXCEPT ![s] = "clearing"]
      /\ ended' = [c \in Batch |-> IF c \in pending /\ Open(c) THEN "unavailable" ELSE ended[c]]
      /\ UNCHANGED <<inUse, future, step, rides, written, pending, due, unowned, asked, toSend, ktWire>>
  BY DEF KtFails, Ends, AllPending, ktBatch, ktServer
<1>2. /\ ended' \in [Batch -> {"no", "answered", "refused", "unavailable", "left"}]
      /\ \A c \in Batch : /\ ended[c] # "no" => ended'[c] = ended[c]
                          /\ ended'[c] = "refused" => ended[c] = "refused"
                          /\ c \in pending => ended'[c] # "no"
                          /\ c \notin pending => ended'[c] = ended[c]
  BY <1>1 DEF KtTypeOK, Open
<1>3. /\ line' \in [KtSocket -> {"none", "up", "ending", "clearing", "gone"}]
      /\ \A t \in KtSocket : /\ t # s => line'[t] = line[t]
                             /\ line'[t] = "gone" <=> line[t] = "gone"
                             /\ line'[t] = "none" <=> line[t] = "none"
                             /\ line[t] = "up" => line'[t] = "up"
  BY <1>1 DEF KtTypeOK
<1>4. /\ KtFramesInPlace' /\ KtUnownedInPlace'
      /\ unowned' \subseteq [of : Batch, among : (SUBSET written') \ {{}}]
      /\ \A c \in Batch : asked[c] = "answering" => KtOnTheWay(c)' = KtOnTheWay(c)
  <2>1. pending \subseteq pending' /\ written \subseteq written'
    BY <1>1
  <2> QED
    BY <1>1, <1>2, <2>1, KtQuiet
<1>5. KtTypeOK'
  BY <1>1, <1>2, <1>3, <1>4 DEF KtTypeOK
<1>6. KtSocketsInPlace'
  <2>1. inUse # 0 => inUse \in KtSocket
    BY KtAssumption DEF KtTypeOK, KtSocket
  <2> QED
    BY <1>1, <1>3, <2>1 DEF KtSocketsInPlace
<1>7. KtCleared'
  BY <1>1, <1>2 DEF KtCleared, Open, KtTypeOK
<1>8. KtBatchesInPlace'
  <2> SUFFICES ASSUME NEW c \in Batch PROVE KtBatchInPlace(c)'
    BY DEF KtBatchesInPlace
  <2>1. KtBatchInPlace(c) /\ rides[c] \in 0..KtSockets
    BY DEF KtBatchesInPlace, KtTypeOK
  <2>2. asked[c] = "answering" => KtOnTheWay(c)' = KtOnTheWay(c)
    BY <1>4
  <2>3. rides[c] # 0 => (line'[rides[c]] = "gone" <=> line[rides[c]] = "gone")
    BY <1>3, <2>1, KtAssumption DEF KtSocket
  <2>4. step[c] = "new" => c \notin pending
    BY <2>1 DEF KtBatchInPlace
  <2> QED
    BY <1>1, <1>2, <2>1, <2>2, <2>3, <2>4 DEF KtBatchInPlace, Open
<1> QED
  BY <1>4, <1>5, <1>6, <1>7, <1>8

LEMMA KtClearsKeeps ==
  ASSUME KtInv, NEW s \in KtSocket, KtClears(s)
  PROVE  KtInv'
<1> USE DEF KtInv
<1>1. /\ line[s] = "clearing" /\ line' = [line EXCEPT ![s] = "gone"] /\ pending' = {}
      /\ UNCHANGED <<inUse, future, step, rides, written, ended, due, unowned, asked, toSend, ktWire>>
  BY DEF KtClears, ktBatch, ktServer
<1>2. /\ line' \in [KtSocket -> {"none", "up", "ending", "clearing", "gone"}]
      /\ \A t \in KtSocket : /\ t # s => line'[t] = line[t]
                             /\ line'[t] = "none" <=> line[t] = "none"
                             /\ line[t] = "up" => line'[t] = "up"
                             /\ line'[t] = "clearing" => line[t] = "clearing"
  BY <1>1 DEF KtTypeOK
<1>3. \A b \in pending : ~Open(b)
  BY <1>1 DEF KtCleared
<1>4. KtTypeOK'
  BY <1>1, <1>2 DEF KtTypeOK
<1>5. KtSocketsInPlace'
  <2>1. inUse # 0 => inUse \in KtSocket
    BY KtAssumption DEF KtTypeOK, KtSocket
  <2> QED
    BY <1>1, <1>2, <2>1 DEF KtSocketsInPlace
<1>6. KtCleared' /\ KtFramesInPlace'
  BY <1>1 DEF KtCleared, KtFramesInPlace
<1>7. \A c \in Batch : step[c] # "new" => ~Open(c)
  <2> SUFFICES ASSUME NEW c \in Batch, step[c] # "new" PROVE ~Open(c)
    OBVIOUS
  <2>1. KtBatchInPlace(c)
    BY DEF KtBatchesInPlace
  <2> QED
    BY <1>3, <2>1 DEF KtBatchInPlace
<1>8. KtBatchesInPlace'
  <2> SUFFICES ASSUME NEW c \in Batch PROVE KtBatchInPlace(c)'
    BY DEF KtBatchesInPlace
  <2>1. KtBatchInPlace(c)
    BY DEF KtBatchesInPlace
  <2>2. KtOnTheWay(c)' = KtOnTheWay(c)
    BY <1>1 DEF KtOnTheWay
  <2>3. step[c] # "new" => ended[c] # "no"
    BY <1>7 DEF Open
  <2> QED
    BY <1>1, <2>1, <2>2, <2>3 DEF KtBatchInPlace, Open
<1>9. KtUnownedInPlace'
  <2>1. \A c \in Batch : KtHeard(c) => KtHeard(c)'
    BY <1>1 DEF KtHeard
  <2>2. \A o \in unowned : KtHeard(o.of)' /\ o.among \subseteq written'
    BY <1>1, <2>1, UnownedAre
  <2>3. ASSUME KtThereToBeTold PROVE unowned = {}
    <3> SUFFICES ASSUME NEW o \in unowned PROVE FALSE
      OBVIOUS
    <3>1. o.of \in Batch /\ o.of \in pending /\ asked[o.of] = "refused"
      BY <2>3, UnownedAre DEF KtUnownedInPlace, Sound, KtHeard
    <3>2. ended[o.of] = "refused"
      BY <1>3, <2>3, <3>1 DEF KtThereToBeTold, Open
    <3>3. KtBatchInPlace(o.of)
      BY <3>1 DEF KtBatchesInPlace
    <3> QED
      BY <3>1, <3>2, <3>3 DEF KtBatchInPlace
  <2>4. KtThereToBeTold' = KtThereToBeTold
    BY <1>1 DEF KtThereToBeTold
  <2>5. ASSUME KtThereToBeTold
        PROVE  Sound(unowned', pending' \ Begun') /\ \A c \in Batch : ended'[c] = "refused" => KtHeard(c)'
    <3>1. unowned' = {}
      BY <1>1, <2>3, <2>5
    <3>2. \A c \in Batch : ended'[c] = "refused" => KtHeard(c)'
      BY <1>1, <2>1, <2>5 DEF KtUnownedInPlace
    <3> QED
      BY <3>1, <3>2 DEF Sound
  <2> QED
    BY <1>1, <2>2, <2>4, <2>5 DEF KtUnownedInPlace
<1> QED
  BY <1>4, <1>5, <1>6, <1>8, <1>9

LEMMA KtEndingKeeps ==
  ASSUME KtInv, NEW s \in KtSocket, KtEnding(s)
  PROVE  KtInv'
<1> USE DEF KtInv
<1>1. /\ line[s] = "up" /\ line' = [line EXCEPT ![s] = "ending"] /\ inUse' = 0 /\ unowned' = {}
      /\ ktWire' = [ktWire EXCEPT ![s] = <<>>]
      /\ UNCHANGED <<future, step, rides, written, ended, pending, due, asked, toSend>>
  BY DEF KtEnding, ktBatch, ktServer
<1>2. /\ line' \in [KtSocket -> {"none", "up", "ending", "clearing", "gone"}]
      /\ \A t \in KtSocket : /\ line'[t] = "none" <=> line[t] = "none"
                             /\ line'[t] = "gone" <=> line[t] = "gone"
                             /\ line'[t] = "clearing" <=> line[t] = "clearing"
  BY <1>1 DEF KtTypeOK
<1>3. ktWire' \in [KtSocket -> Seq(Frame)] /\ ktWire'[s] = <<>> /\ \A t \in KtSocket : t # s => ktWire'[t] = ktWire[t]
  <2>1. <<>> \in Seq(Frame)
    OBVIOUS
  <2> QED
    BY <1>1, <2>1 DEF KtTypeOK, Frame
<1>4. KtTypeOK'
  <2>1. inUse' \in 0..KtSockets
    BY <1>1, KtAssumption
  <2>2. unowned' \subseteq [of : Batch, among : (SUBSET written) \ {{}}]
    BY <1>1
  <2> QED
    BY <1>1, <1>2, <1>3, <2>1, <2>2 DEF KtTypeOK, Frame
<1>5. KtSocketsInPlace' /\ KtCleared'
  BY <1>1, <1>2 DEF KtSocketsInPlace, KtCleared, Open
<1>6. KtFramesInPlace'
  <2> SUFFICES ASSUME NEW t \in KtSocket
               PROVE  /\ \A j \in 1..Len(ktWire'[t]) :
                           /\ rides[ktWire'[t][j].of] = t
                           /\ asked[ktWire'[t][j].of] = IF ktWire'[t][j].refusal THEN "refused" ELSE "answering"
                      /\ \A j, k \in 1..Len(ktWire'[t]) : ktWire'[t][j].refusal /\ ktWire'[t][j] = ktWire'[t][k] => j = k
    BY <1>1 DEF KtFramesInPlace
  <2>1. CASE t = s
    BY <1>3, <2>1
  <2>2. CASE t # s
    <3>1. ktWire'[t] = ktWire[t]
      BY <1>3, <2>2
    <3> QED
      BY <3>1 DEF KtFramesInPlace
  <2> QED
    BY <2>1, <2>2
<1>7. KtBatchesInPlace'
  <2> SUFFICES ASSUME NEW c \in Batch PROVE KtBatchInPlace(c)'
    BY DEF KtBatchesInPlace
  <2>1. KtBatchInPlace(c) /\ rides[c] \in 0..KtSockets
    BY DEF KtBatchesInPlace, KtTypeOK
  <2>2. rides[c] # 0 => rides[c] \in KtSocket /\ (line'[rides[c]] = "gone" <=> line[rides[c]] = "gone")
    BY <1>2, <2>1, KtAssumption DEF KtSocket
  <2>3. ASSUME asked[c] = "answering" PROVE toSend[c] + Cardinality(KtOnTheWay(c)') <= due[c]
    <3>1. rides[c] \in KtSocket /\ toSend[c] \in Nat /\ due[c] \in Nat /\ toSend[c] + Cardinality(KtOnTheWay(c)) <= due[c]
      BY <2>1, <2>2, <2>3, KtAssumption DEF KtBatchInPlace, KtTypeOK
    <3>2. CASE rides[c] = s
      <4>1. KtOnTheWay(c)' = {}
        BY <1>1, <1>3, <3>2 DEF KtOnTheWay, At
      <4>2. Cardinality(KtOnTheWay(c)) \in Nat
        <5>1. ktWire[s] \in Seq(Frame) /\ [of |-> c, refusal |-> FALSE] \in Frame
          BY DEF KtTypeOK, Frame
        <5> QED
          BY <3>2, <5>1, CountPutOn DEF KtOnTheWay
      <4>3. Cardinality(KtOnTheWay(c)') = 0
        BY <4>1, FS_EmptySet
      <4> QED
        BY <3>1, <4>2, <4>3
    <3>3. CASE rides[c] # s
      <4>1. KtOnTheWay(c)' = KtOnTheWay(c)
        BY <1>1, <1>3, <3>1, <3>3 DEF KtOnTheWay
      <4> QED
        BY <3>1, <4>1
    <3> QED
      BY <3>2, <3>3
  <2> QED
    BY <1>1, <2>1, <2>2, <2>3 DEF KtBatchInPlace, Open
<1>8. KtUnownedInPlace'
  <2>1. ASSUME NEW c \in Batch, KtHeard(c) PROVE KtHeard(c)'
    <3> SUFFICES ASSUME NEW t \in KtSocket, NEW j \in 1..Len(ktWire'[t]) PROVE ktWire'[t][j] # [of |-> c, refusal |-> TRUE]
      BY <1>1, <2>1 DEF KtHeard
    <3>1. t # s
      BY <1>3
    <3> QED
      BY <1>3, <2>1, <3>1 DEF KtHeard
  <2>2. KtThereToBeTold' = KtThereToBeTold
    BY <1>1 DEF KtThereToBeTold
  <2>3. ASSUME KtThereToBeTold PROVE \A c \in Batch : ended'[c] = "refused" => KtHeard(c)'
    BY <1>1, <2>1, <2>3 DEF KtUnownedInPlace
  <2> QED
    BY <1>1, <2>2, <2>3 DEF KtUnownedInPlace, Sound
<1> QED
  BY <1>4, <1>5, <1>6, <1>7, <1>8

\* A frame put on the wire of a socket that is open.
LEMMA KtFramePutOn ==
  ASSUME KtTypeOK, KtFramesInPlace, NEW b \in Batch, NEW r \in BOOLEAN, Gives(b, r),
         rides[b] \in KtSocket, rides' = rides, asked[b] # "refused", r => asked[b] = "got",
         asked' = [asked EXCEPT ![b] = IF r THEN "refused" ELSE "answering"]
  PROVE  /\ ktWire' \in [KtSocket -> Seq(Frame)] /\ KtFramesInPlace' /\ (\A c \in Batch : KtHeard(c) => KtHeard(c)')
         /\ \A c \in Batch : rides[c] \in KtSocket =>
              /\ Cardinality(KtOnTheWay(c)) \in Nat
              /\ Cardinality(KtOnTheWay(c)') = Cardinality(KtOnTheWay(c)) + IF c = b /\ ~r THEN 1 ELSE 0
<1> DEFINE s == rides[b]
           f == [of |-> b, refusal |-> r]
           w == ktWire[s]
<1>1. f \in Frame /\ w \in Seq(Frame) /\ f.of = b /\ f.refusal = r /\ s \in KtSocket
  BY DEF Frame, KtTypeOK
<1>2. ktWire' = [ktWire EXCEPT ![s] = Append(w, f)]
  BY DEF Gives
<1>3. ktWire'[s] = Append(w, f) /\ \A t \in KtSocket : t # s => ktWire'[t] = ktWire[t]
  BY <1>1, <1>2 DEF KtTypeOK
<1>4. asked'[b] = IF r THEN "refused" ELSE "answering"
  BY DEF KtTypeOK
<1>5. \A c \in Batch : c # b => asked'[c] = asked[c]
  BY DEF KtTypeOK
<1> DEFINE x == Append(w, f)
<1>6. /\ x \in Seq(Frame) /\ Len(w) \in Nat /\ Len(x) = Len(w) + 1
      /\ \A j \in 1..Len(x) : (j \in 1..Len(w) /\ x[j] = w[j]) \/ (j = Len(w) + 1 /\ x[j] = f)
  BY <1>1, FramePutOn
<1>7. \A t \in KtSocket : \A j \in 1..Len(ktWire[t]) :
        /\ ktWire[t][j] \in Frame /\ rides[ktWire[t][j].of] = t
        /\ asked'[ktWire[t][j].of] = IF ktWire[t][j].refusal THEN "refused" ELSE "answering"
        /\ r => ktWire[t][j] # f
  <2> SUFFICES ASSUME NEW t \in KtSocket, NEW j \in 1..Len(ktWire[t])
               PROVE  /\ ktWire[t][j] \in Frame /\ rides[ktWire[t][j].of] = t
                      /\ asked'[ktWire[t][j].of] = IF ktWire[t][j].refusal THEN "refused" ELSE "answering"
                      /\ r => ktWire[t][j] # f
    OBVIOUS
  <2> DEFINE g == ktWire[t][j]
  <2>1. g \in Frame /\ rides[g.of] = t /\ asked[g.of] \in {"refused", "answering"}
    BY KtFrameOnWire
  <2>2. asked[g.of] = IF g.refusal THEN "refused" ELSE "answering"
    BY DEF KtFramesInPlace
  <2>3. g.of \in Batch /\ g.refusal \in BOOLEAN
    BY <2>1 DEF Frame
  <2>4. CASE g.of = b
    <3>1. asked[b] = "answering" /\ ~g.refusal
      BY <2>1, <2>2, <2>3, <2>4
    <3>2. ~r
      BY <3>1
    <3>3. asked'[g.of] = "answering"
      BY <1>4, <2>4, <3>2
    <3> QED
      BY <2>1, <3>1, <3>2, <3>3
  <2>5. CASE g.of # b
    <3>1. asked'[g.of] = asked[g.of]
      BY <1>5, <2>3, <2>5
    <3>2. g # f
      BY <1>1, <2>5
    <3> QED
      BY <2>1, <2>2, <3>1, <3>2
  <2> QED
    BY <2>4, <2>5
<1> HIDE DEF s, f, w, x
<1>8. KtFramesInPlace'
  <2> SUFFICES ASSUME NEW t \in KtSocket
               PROVE  /\ \A j \in 1..Len(ktWire'[t]) :
                           /\ rides[ktWire'[t][j].of] = t
                           /\ asked'[ktWire'[t][j].of] = IF ktWire'[t][j].refusal THEN "refused" ELSE "answering"
                      /\ \A j, k \in 1..Len(ktWire'[t]) : ktWire'[t][j].refusal /\ ktWire'[t][j] = ktWire'[t][k] => j = k
    BY DEF KtFramesInPlace
  <2>1. CASE t = s
    <3>1. ktWire'[t] = x
      BY <1>3, <2>1 DEF x
    <3>2. /\ \A j \in 1..Len(w) : rides[w[j].of] = t /\ asked'[w[j].of] = (IF w[j].refusal THEN "refused" ELSE "answering") /\ (r => w[j] # f)
          /\ \A j, k \in 1..Len(w) : w[j].refusal /\ w[j] = w[k] => j = k
      BY <1>1, <1>7, <2>1 DEF w, KtFramesInPlace
    <3>3. rides[f.of] = t /\ asked'[f.of] = IF f.refusal THEN "refused" ELSE "answering"
      BY <1>1, <1>4, <2>1 DEF s
    <3>4. \A j \in 1..Len(x) : rides[x[j].of] = t /\ asked'[x[j].of] = IF x[j].refusal THEN "refused" ELSE "answering"
      BY <1>6, <3>2, <3>3
    <3>5. ASSUME NEW j \in 1..Len(x), NEW k \in 1..Len(x), x[j].refusal, x[j] = x[k] PROVE j = k
      <4>1. CASE x[j] = f
        <5>1. r
          BY <1>1, <3>5, <4>1
        <5> QED
          BY <1>6, <3>2, <3>5, <4>1, <5>1
      <4>2. CASE x[j] # f
        BY <1>6, <3>2, <3>5, <4>2
      <4> QED
        BY <4>1, <4>2
    <3> QED
      BY <1>4, <2>1, <3>1, <3>4, <3>5
  <2>2. CASE t # s
    <3>1. ktWire'[t] = ktWire[t]
      BY <1>3, <2>2
    <3> QED
      BY <1>7, <3>1 DEF KtFramesInPlace
  <2> QED
    BY <2>1, <2>2
<1>9. ASSUME NEW c \in Batch, KtHeard(c) PROVE KtHeard(c)'
  <2>1. c # b /\ asked'[c] = "refused"
    BY <1>5, <1>9 DEF KtHeard
  <2>2. ASSUME NEW t \in KtSocket, NEW j \in 1..Len(ktWire'[t]) PROVE ktWire'[t][j] # [of |-> c, refusal |-> TRUE]
    <3>1. CASE t = s
      <4>1. x[j] = f \/ (j \in 1..Len(w) /\ x[j] = w[j])
        BY <1>3, <1>6, <2>2, <3>1 DEF x
      <4>2. j \in 1..Len(w) => w[j] # [of |-> c, refusal |-> TRUE]
        BY <1>1, <1>9 DEF KtHeard, w
      <4>3. f # [of |-> c, refusal |-> TRUE]
        BY <1>1, <2>1
      <4> QED
        BY <1>3, <3>1, <4>1, <4>2, <4>3 DEF x
    <3>2. CASE t # s
      BY <1>3, <1>9, <3>2 DEF KtHeard
    <3> QED
      BY <3>1, <3>2
  <2> QED
    BY <2>1, <2>2 DEF KtHeard
<1>10. ktWire' \in [KtSocket -> Seq(Frame)]
  BY <1>1, <1>2, <1>6 DEF KtTypeOK, Frame, x
<1>11. ASSUME NEW c \in Batch, rides[c] \in KtSocket
       PROVE  /\ Cardinality(KtOnTheWay(c)) \in Nat
              /\ Cardinality(KtOnTheWay(c)') = Cardinality(KtOnTheWay(c)) + IF c = b /\ ~r THEN 1 ELSE 0
  <2> DEFINE g == [of |-> c, refusal |-> FALSE]
             v == ktWire[rides[c]]
  <2>1. g \in Frame /\ v \in Seq(Frame) /\ (f = g <=> c = b /\ ~r)
    BY <1>11 DEF Frame, KtTypeOK, f
  <2>2. Cardinality(KtOnTheWay(c)) \in Nat
    BY <2>1, CountPutOn DEF KtOnTheWay
  <2>3. CASE rides[c] = s
    <3>1. KtOnTheWay(c)' = At(Append(v, f), g) /\ KtOnTheWay(c) = At(v, g)
      BY <1>3, <2>3 DEF KtOnTheWay, s, w
    <3> HIDE DEF f, g, v
    <3>2. Cardinality(At(Append(v, f), g)) = Cardinality(At(v, g)) + IF f = g THEN 1 ELSE 0
      BY <1>1, <2>1, CountPutOn
    <3> QED
      BY <2>1, <2>2, <3>1, <3>2
  <2>4. CASE rides[c] # s
    <3>1. KtOnTheWay(c)' = KtOnTheWay(c)
      BY <1>3, <1>11, <2>4 DEF KtOnTheWay
    <3>2. c # b
      BY <2>4 DEF s
    <3> QED
      BY <2>2, <3>1, <3>2
  <2> QED
    BY <2>3, <2>4
<1> QED
  BY <1>8, <1>9, <1>10, <1>11

\* What the wire is once the first frame of it was received.
LEMMA KtFrameTaken ==
  ASSUME KtTypeOK, KtFramesInPlace, NEW s \in KtSocket, ktWire[s] # <<>>, ktWire' = [ktWire EXCEPT ![s] = Tail(ktWire[s])], UNCHANGED <<rides, asked>>
  PROVE  /\ Head(ktWire[s]) \in Frame /\ rides[Head(ktWire[s]).of] = s
         /\ asked[Head(ktWire[s]).of] = IF Head(ktWire[s]).refusal THEN "refused" ELSE "answering"
         /\ ~KtHeard(Head(ktWire[s]).of) \/ ~Head(ktWire[s]).refusal
         /\ ktWire' \in [KtSocket -> Seq(Frame)] /\ KtFramesInPlace' /\ (\A c \in Batch : KtHeard(c) => KtHeard(c)')
         /\ (\A c \in Batch : Head(ktWire[s]) = [of |-> c, refusal |-> TRUE] => KtHeard(c)')
         /\ \A c \in Batch : rides[c] \in KtSocket =>
              /\ Cardinality(KtOnTheWay(c)) \in Nat /\ Cardinality(KtOnTheWay(c)') \in Nat
              /\ Cardinality(KtOnTheWay(c)') + (IF Head(ktWire[s]) = [of |-> c, refusal |-> FALSE] THEN 1 ELSE 0) <= Cardinality(KtOnTheWay(c))
<1> DEFINE w == ktWire[s]
           f == Head(w)
           x == Tail(w)
<1>1. w # <<>> /\ ktWire' = [ktWire EXCEPT ![s] = x] /\ rides' = rides /\ asked' = asked
  OBVIOUS
<1>2. w \in Seq(Frame)
  BY DEF KtTypeOK, Frame
<1>3. ktWire'[s] = x /\ \A t \in KtSocket : t # s => ktWire'[t] = ktWire[t]
  BY <1>1 DEF KtTypeOK
<1>4. /\ f = w[1] /\ f \in Frame /\ x \in Seq(Frame) /\ Len(w) \in Nat /\ Len(w) >= 1 /\ Len(x) = Len(w) - 1
      /\ \A j \in 1..Len(x) : x[j] = w[j + 1] /\ j + 1 \in 1..Len(w) /\ j + 1 # 1
  BY <1>1, <1>2, FrameTakenOff
<1>5. 1 \in 1..Len(w)
  BY <1>4
<1>6. /\ \A j \in 1..Len(w) : rides[w[j].of] = s /\ asked[w[j].of] = IF w[j].refusal THEN "refused" ELSE "answering"
      /\ \A j, k \in 1..Len(w) : w[j].refusal /\ w[j] = w[k] => j = k
  BY DEF KtFramesInPlace
<1>7. f.of \in Batch /\ f.refusal \in BOOLEAN /\ (f.refusal => f = [of |-> f.of, refusal |-> TRUE])
  BY <1>4 DEF Frame
<1> HIDE DEF f, x
<1>8. ~KtHeard(f.of) \/ ~f.refusal
  <2> SUFFICES ASSUME f.refusal, KtHeard(f.of) PROVE FALSE
    OBVIOUS
  <2>1. w[1] # [of |-> f.of, refusal |-> TRUE]
    BY <1>5 DEF KtHeard
  <2> QED
    BY <1>4, <1>7, <2>1
<1>9. KtFramesInPlace'
  <2> SUFFICES ASSUME NEW t \in KtSocket
               PROVE  /\ \A j \in 1..Len(ktWire'[t]) :
                           /\ rides[ktWire'[t][j].of] = t
                           /\ asked[ktWire'[t][j].of] = IF ktWire'[t][j].refusal THEN "refused" ELSE "answering"
                      /\ \A j, k \in 1..Len(ktWire'[t]) : ktWire'[t][j].refusal /\ ktWire'[t][j] = ktWire'[t][k] => j = k
    BY <1>1 DEF KtFramesInPlace
  <2>1. CASE t = s
    <3>1. ktWire'[t] = x
      BY <1>3, <2>1
    <3>2. \A j \in 1..Len(x) : rides[x[j].of] = t /\ asked[x[j].of] = IF x[j].refusal THEN "refused" ELSE "answering"
      BY <1>4, <1>6, <2>1
    <3>3. ASSUME NEW j \in 1..Len(x), NEW k \in 1..Len(x), x[j].refusal, x[j] = x[k] PROVE j = k
      <4>1. j + 1 \in 1..Len(w) /\ k + 1 \in 1..Len(w) /\ w[j + 1].refusal /\ w[j + 1] = w[k + 1]
        BY <1>4, <3>3
      <4>2. j + 1 = k + 1
        BY <1>6, <4>1
      <4> QED
        BY <1>4, <3>3, <4>2
    <3>4. \A j, k \in 1..Len(x) : x[j].refusal /\ x[j] = x[k] => j = k
      BY <3>3
    <3>5. ASSUME NEW j \in 1..Len(ktWire'[t]) PROVE rides[ktWire'[t][j].of] = t /\ asked[ktWire'[t][j].of] = IF ktWire'[t][j].refusal THEN "refused" ELSE "answering"
      BY <3>1, <3>2
    <3>6. ASSUME NEW j \in 1..Len(ktWire'[t]), NEW k \in 1..Len(ktWire'[t]), ktWire'[t][j].refusal, ktWire'[t][j] = ktWire'[t][k] PROVE j = k
      <4>1. j \in 1..Len(x) /\ k \in 1..Len(x) /\ x[j].refusal /\ x[j] = x[k]
        BY <3>1, <3>6
      <4> QED
        BY <3>4, <4>1
    <3> QED
      BY <3>5, <3>6
  <2>2. CASE t # s
    <3>1. ktWire'[t] = ktWire[t]
      BY <1>3, <2>2
    <3> QED
      BY <3>1 DEF KtFramesInPlace
  <2> QED
    BY <2>1, <2>2
<1>10. ASSUME NEW c \in Batch, KtHeard(c) PROVE KtHeard(c)'
  <2>1. ASSUME NEW t \in KtSocket, NEW j \in 1..Len(ktWire'[t]) PROVE ktWire'[t][j] # [of |-> c, refusal |-> TRUE]
    <3>1. CASE t = s
      <4>1. x[j] = w[j + 1] /\ j + 1 \in 1..Len(w)
        BY <1>3, <1>4, <2>1, <3>1
      <4> QED
        BY <1>3, <1>10, <3>1, <4>1 DEF KtHeard
    <3>2. CASE t # s
      BY <1>3, <1>10, <2>1, <3>2 DEF KtHeard
    <3> QED
      BY <3>1, <3>2
  <2>2. asked'[c] = "refused"
    BY <1>1, <1>10 DEF KtHeard
  <2> QED
    BY <2>1, <2>2 DEF KtHeard
<1>11. ASSUME NEW c \in Batch, f = [of |-> c, refusal |-> TRUE] PROVE KtHeard(c)'
  <2>0. w[1].of = c /\ w[1].refusal = TRUE
    BY <1>4, <1>11
  <2>1. asked'[c] = "refused" /\ rides[c] = s
    BY <1>1, <1>5, <1>6, <2>0
  <2>2. ASSUME NEW t \in KtSocket, NEW j \in 1..Len(ktWire'[t]) PROVE ktWire'[t][j] # [of |-> c, refusal |-> TRUE]
    <3>1. CASE t = s
      <4>1. x[j] = w[j + 1] /\ j + 1 \in 1..Len(w) /\ j + 1 # 1
        BY <1>3, <1>4, <2>2, <3>1
      <4>2. w[j + 1] # w[1]
        <5>1. w[1].refusal /\ 1 \in 1..Len(w)
          BY <1>5, <2>0
        <5> QED
          BY <1>6, <4>1, <5>1
      <4> QED
        BY <1>3, <1>4, <1>7, <1>11, <3>1, <4>1, <4>2
    <3>2. CASE t # s
      <4>1. j \in 1..Len(ktWire[t]) /\ ktWire'[t][j] = ktWire[t][j]
        BY <1>3, <2>2, <3>2
      <4>2. rides[ktWire[t][j].of] = t
        BY <4>1 DEF KtFramesInPlace
      <4> QED
        BY <2>1, <3>2, <4>1, <4>2
    <3> QED
      BY <3>1, <3>2
  <2> QED
    BY <2>1, <2>2 DEF KtHeard
<1>12. ktWire' \in [KtSocket -> Seq(Frame)]
  BY <1>1, <1>4 DEF KtTypeOK, Frame
<1>13. ASSUME NEW c \in Batch, rides[c] \in KtSocket
       PROVE  /\ Cardinality(KtOnTheWay(c)) \in Nat /\ Cardinality(KtOnTheWay(c)') \in Nat
              /\ Cardinality(KtOnTheWay(c)') + (IF f = [of |-> c, refusal |-> FALSE] THEN 1 ELSE 0) <= Cardinality(KtOnTheWay(c))
  <2> DEFINE g == [of |-> c, refusal |-> FALSE]
             v == ktWire[rides[c]]
  <2>1. g \in Frame /\ v \in Seq(Frame)
    BY <1>13 DEF Frame, KtTypeOK
  <2>2. CASE rides[c] = s
    <3>1. KtOnTheWay(c)' = At(Tail(v), g) /\ KtOnTheWay(c) = At(v, g) /\ v # <<>> /\ Head(v) = f
      BY <1>1, <1>3, <2>2 DEF KtOnTheWay, x, f
    <3> HIDE DEF g, v
    <3>2. /\ Cardinality(At(v, g)) \in Nat /\ Cardinality(At(Tail(v), g)) \in Nat
          /\ Cardinality(At(Tail(v), g)) + (IF Head(v) = g THEN 1 ELSE 0) <= Cardinality(At(v, g))
      BY <2>1, <3>1, CountTakenOff
    <3> QED
      BY <3>1, <3>2 DEF g
  <2>3. CASE rides[c] # s
    <3>1. KtOnTheWay(c)' = KtOnTheWay(c)
      BY <1>1, <1>3, <1>13, <2>3 DEF KtOnTheWay
    <3>2. Cardinality(KtOnTheWay(c)) \in Nat
      BY <2>1, CountPutOn DEF KtOnTheWay
    <3>3. f # g
      <4>1. rides[f.of] = s
        BY <1>4, <1>5, <1>6
      <4>2. g.of = c
        OBVIOUS
      <4> QED
        BY <2>3, <4>1, <4>2
    <3> QED
      BY <3>1, <3>2, <3>3
  <2> QED
    BY <2>2, <2>3
<1> QED
  BY <1>4, <1>5, <1>6, <1>8, <1>9, <1>10, <1>11, <1>12, <1>13 DEF f, x

LEMMA KtServerKeeps ==
  ASSUME KtInv, NEW b \in Batch, KtRefuse(b) \/ KtAnswer(b)
  PROVE  KtInv'
<1> USE DEF KtInv
<1> DEFINE r == asked'[b] = "refused"
<1>1. /\ asked[b] \in {"got", "answering"}
      /\ UNCHANGED <<inUse, future, line, step, rides, written, ended, pending, due, unowned>>
  BY DEF KtRefuse, KtAnswer, ktConns, ktBatch
<1>2. /\ r \in BOOLEAN /\ Gives(b, r) /\ (r => asked[b] = "got")
      /\ asked' = [asked EXCEPT ![b] = IF r THEN "refused" ELSE "answering"]
      /\ toSend' \in [Batch -> 0..Frames] /\ \A c \in Batch : toSend'[c] = IF c = b /\ ~r THEN toSend[c] - 1 ELSE toSend[c]
  <2>1. CASE KtRefuse(b)
    <3>1. asked' = [asked EXCEPT ![b] = "refused"] /\ Gives(b, TRUE) /\ asked[b] = "got" /\ toSend' = toSend
      BY <2>1 DEF KtRefuse
    <3>2. r
      BY <3>1 DEF KtTypeOK
    <3>3. r = TRUE
      BY <3>2
    <3> QED
      BY <3>1, <3>2, <3>3 DEF KtTypeOK
  <2>2. CASE KtAnswer(b)
    <3>1. /\ asked' = [asked EXCEPT ![b] = "answering"] /\ Gives(b, FALSE) /\ toSend[b] > 0
          /\ toSend' = [toSend EXCEPT ![b] = toSend[b] - 1]
      BY <2>2 DEF KtAnswer
    <3>2. ~r
      BY <3>1 DEF KtTypeOK
    <3>3. r = FALSE
      BY <3>2
    <3>4. toSend[b] - 1 \in 0..Frames
      BY <3>1, KtAssumption DEF KtTypeOK
    <3> QED
      BY <3>1, <3>2, <3>3, <3>4 DEF KtTypeOK
  <2> QED
    BY <2>1, <2>2
<1> HIDE DEF r
<1>3. KtBatchInPlace(b) /\ b \in written /\ rides[b] \in KtSocket
  <2>1. KtBatchInPlace(b) /\ rides[b] \in 0..KtSockets
    BY DEF KtBatchesInPlace, KtTypeOK
  <2>2. b \in written /\ rides[b] # 0
    BY <1>1, <2>1 DEF KtBatchInPlace
  <2> QED
    BY <2>1, <2>2, KtAssumption DEF KtSocket
<1>4. /\ ktWire' \in [KtSocket -> Seq(Frame)] /\ KtFramesInPlace' /\ (\A c \in Batch : KtHeard(c) => KtHeard(c)')
      /\ \A c \in Batch : rides[c] \in KtSocket =>
           /\ Cardinality(KtOnTheWay(c)) \in Nat
           /\ Cardinality(KtOnTheWay(c)') = Cardinality(KtOnTheWay(c)) + IF c = b /\ ~r THEN 1 ELSE 0
  <2>1. asked[b] # "refused" /\ rides' = rides
    BY <1>1
  <2> QED
    BY <1>2, <1>3, <2>1, KtFramePutOn
<1>5. asked'[b] = (IF r THEN "refused" ELSE "answering") /\ \A c \in Batch : c # b => asked'[c] = asked[c]
  BY <1>2 DEF KtTypeOK
<1>6. KtTypeOK'
  BY <1>1, <1>2, <1>4 DEF KtTypeOK, Frame
<1>7. KtSocketsInPlace' /\ KtCleared'
  BY <1>1 DEF KtSocketsInPlace, KtCleared, Open
<1>8. asked[b] = "got" => Cardinality(KtOnTheWay(b)) = 0
  <2> SUFFICES ASSUME asked[b] = "got" PROVE KtOnTheWay(b) = {}
    BY FS_EmptySet
  <2> SUFFICES ASSUME NEW j \in 1..Len(ktWire[rides[b]]), ktWire[rides[b]][j] = [of |-> b, refusal |-> FALSE] PROVE FALSE
    BY DEF KtOnTheWay, At
  <2>1. asked[ktWire[rides[b]][j].of] = IF ktWire[rides[b]][j].refusal THEN "refused" ELSE "answering"
    BY <1>3 DEF KtFramesInPlace
  <2> QED
    BY <2>1
<1>9. KtBatchesInPlace'
  <2> SUFFICES ASSUME NEW c \in Batch PROVE KtBatchInPlace(c)'
    BY DEF KtBatchesInPlace
  <2>1. KtBatchInPlace(c) /\ rides[c] \in 0..KtSockets /\ toSend[c] \in Nat /\ due[c] \in Nat
    BY KtAssumption DEF KtBatchesInPlace, KtTypeOK
  <2>2. ASSUME asked'[c] = "answering" PROVE toSend'[c] + Cardinality(KtOnTheWay(c)') <= due[c]
    <3>1. CASE c = b
      <4>1. ~r /\ toSend'[c] = toSend[c] - 1
        BY <1>2, <1>5, <2>2, <3>1
      <4>2. Cardinality(KtOnTheWay(c)) \in Nat /\ Cardinality(KtOnTheWay(c)') = Cardinality(KtOnTheWay(c)) + 1
        BY <1>3, <1>4, <3>1, <4>1
      <4>3. toSend[c] + Cardinality(KtOnTheWay(c)) <= due[c]
        <5>1. CASE asked[c] = "got"
          <6>1. toSend[c] = due[c] /\ Cardinality(KtOnTheWay(c)) = 0
            BY <1>8, <2>1, <3>1, <5>1 DEF KtBatchInPlace
          <6> QED
            BY <2>1, <6>1
        <5>2. CASE asked[c] = "answering"
          BY <2>1, <5>2 DEF KtBatchInPlace
        <5> QED
          BY <1>1, <3>1, <5>1, <5>2
      <4> QED
        BY <2>1, <4>1, <4>2, <4>3
    <3>2. CASE c # b
      <4>1. asked[c] = "answering" /\ toSend'[c] = toSend[c]
        BY <1>2, <1>5, <2>2, <3>2
      <4>2. rides[c] \in KtSocket
        BY <2>1, <4>1, KtAssumption DEF KtBatchInPlace, KtSocket
      <4>3. Cardinality(KtOnTheWay(c)) \in Nat /\ Cardinality(KtOnTheWay(c)') = Cardinality(KtOnTheWay(c)) + 0
        BY <1>4, <3>2, <4>2
      <4>4. toSend[c] + Cardinality(KtOnTheWay(c)) <= due[c]
        BY <2>1, <4>1 DEF KtBatchInPlace
      <4> QED
        BY <4>1, <4>3, <4>4
    <3> QED
      BY <3>1, <3>2
  <2>3. CASE c = b
    <3>1. asked'[c] # "no" /\ (asked'[c] # "answering" => r)
      BY <1>5, <2>3
    <3>2. r => asked[c] = "got" /\ toSend'[c] = toSend[c]
      BY <1>2, <2>3
    <3> QED
      BY <1>1, <1>3, <2>1, <2>2, <2>3, <3>1, <3>2 DEF KtBatchInPlace, Open
  <2>4. CASE c # b
    <3>1. asked'[c] = asked[c] /\ toSend'[c] = toSend[c]
      BY <1>2, <1>5, <2>4
    <3> QED
      BY <1>1, <2>1, <2>2, <3>1 DEF KtBatchInPlace, Open
  <2> QED
    BY <2>3, <2>4
<1>10. KtUnownedInPlace'
  <2>1. \A o \in unowned : KtHeard(o.of)' /\ o.among \subseteq written'
    BY <1>1, <1>4, UnownedAre
  <2>2. ASSUME KtThereToBeTold' PROVE KtThereToBeTold
    <3> SUFFICES ASSUME NEW c \in Batch, asked[c] = "refused" PROVE ended[c] \in {"no", "refused"}
      BY DEF KtThereToBeTold
    <3>1. c # b
      BY <1>1
    <3>2. asked'[c] = "refused"
      BY <1>5, <3>1
    <3> QED
      BY <1>1, <2>2, <3>2 DEF KtThereToBeTold
  <2>3. Begun' = Begun
    BY <1>1 DEF Begun
  <2>4. ASSUME KtThereToBeTold'
        PROVE  Sound(unowned', pending' \ Begun') /\ \A c \in Batch : ended'[c] = "refused" => KtHeard(c)'
    BY <1>1, <1>4, <2>2, <2>3, <2>4 DEF KtUnownedInPlace
  <2> QED
    BY <1>1, <2>1, <2>4 DEF KtUnownedInPlace
<1> QED
  BY <1>4, <1>6, <1>7, <1>9, <1>10

\* A step that gives frames out leaves the batches in their places.
LEMMA KtBatchesAfter ==
  ASSUME KtInv, UNCHANGED <<inUse, future, line, rides, written, asked, toSend>>, pending' \subseteq pending,
         \A c \in Batch : step'[c] = step[c] \/ (step[c] = "collects" /\ step'[c] = "over" /\ ended[c] # "no"),
         \A c \in Batch : /\ ended[c] # "no" \/ c \notin pending => ended'[c] = ended[c]
                          /\ ended'[c] = "refused" => c \notin pending'
                          /\ ended'[c] = "no" /\ c \in pending => c \in pending',
         \A c \in Batch : /\ asked[c] # "answering" => due'[c] = due[c]
                          /\ asked[c] = "answering" => toSend[c] + Cardinality(KtOnTheWay(c)') <= due'[c]
  PROVE  KtSocketsInPlace' /\ KtCleared' /\ KtBatchesInPlace'
<1> USE DEF KtInv
<1>1. KtSocketsInPlace'
  BY DEF KtSocketsInPlace
<1>2. KtCleared'
  BY DEF KtCleared, Open, KtTypeOK
<1>3. KtBatchesInPlace'
  <2> SUFFICES ASSUME NEW c \in Batch PROVE KtBatchInPlace(c)'
    BY DEF KtBatchesInPlace
  <2>1. KtBatchInPlace(c)
    BY DEF KtBatchesInPlace
  <2>2. /\ step'[c] = step[c] \/ (step[c] = "collects" /\ step'[c] = "over" /\ ended[c] # "no")
        /\ ended[c] # "no" \/ c \notin pending => ended'[c] = ended[c]
        /\ ended'[c] = "refused" => c \notin pending'
        /\ ended'[c] = "no" /\ c \in pending => c \in pending'
        /\ asked[c] # "answering" => due'[c] = due[c]
        /\ asked[c] = "answering" => toSend[c] + Cardinality(KtOnTheWay(c)') <= due'[c]
    OBVIOUS
  <2> QED
    BY <2>1, <2>2 DEF KtBatchInPlace, Open
<1> QED
  BY <1>1, <1>2, <1>3

LEMMA KtReceiveKeeps ==
  ASSUME KtInv, NEW s \in KtSocket, KtReceive(s)
  PROVE  KtInv'
<1> USE DEF KtInv
<1> DEFINE f == Head(ktWire[s])
<1>1. /\ ktWire[s] # <<>> /\ ktWire' = [ktWire EXCEPT ![s] = Tail(ktWire[s])]
      /\ UNCHANGED <<inUse, future, line, step, rides, written, asked, toSend>>
      /\ IF f.refusal
         THEN UNCHANGED due /\ GivesOut(unowned \cup {[of |-> f.of, among |-> MayOwn]}, pending)
         ELSE /\ due' = IF f.of \in pending THEN [due EXCEPT ![f.of] = due[f.of] - 1] ELSE due
              /\ GivesOut(unowned, pending)
  BY DEF KtReceive, ktConns, ktBatch, ktServer
<1>2. /\ f \in Frame /\ rides[f.of] = s
      /\ asked[f.of] = IF f.refusal THEN "refused" ELSE "answering"
      /\ ~KtHeard(f.of) \/ ~f.refusal
      /\ ktWire' \in [KtSocket -> Seq(Frame)] /\ KtFramesInPlace' /\ (\A c \in Batch : KtHeard(c) => KtHeard(c)')
      /\ (\A c \in Batch : f = [of |-> c, refusal |-> TRUE] => KtHeard(c)')
      /\ \A c \in Batch : rides[c] \in KtSocket =>
           /\ Cardinality(KtOnTheWay(c)) \in Nat /\ Cardinality(KtOnTheWay(c)') \in Nat
           /\ Cardinality(KtOnTheWay(c)') + (IF f = [of |-> c, refusal |-> FALSE] THEN 1 ELSE 0) <= Cardinality(KtOnTheWay(c))
  BY <1>1, KtFrameTaken
<1> HIDE DEF f
<1>3. PICK b \in Batch, r \in BOOLEAN : f = [of |-> b, refusal |-> r]
  BY <1>2 DEF Frame
<1>4. /\ rides[b] = s /\ asked[b] = (IF r THEN "refused" ELSE "answering") /\ (r => ~KtHeard(b) /\ KtHeard(b)')
      /\ KtBatchInPlace(b)
  BY <1>2, <1>3 DEF KtBatchesInPlace
<1>5. ASSUME NEW c \in Batch, asked[c] = "answering"
      PROVE  /\ Cardinality(KtOnTheWay(c)') \in Nat
             /\ toSend[c] + Cardinality(KtOnTheWay(c)') + (IF c = b /\ ~r THEN 1 ELSE 0) <= due[c]
             /\ toSend[c] \in Nat /\ due[c] \in Nat
  <2>1. KtBatchInPlace(c) /\ rides[c] \in 0..KtSockets /\ toSend[c] \in Nat /\ due[c] \in Nat
    BY KtAssumption DEF KtBatchesInPlace, KtTypeOK
  <2>2. rides[c] \in KtSocket /\ toSend[c] + Cardinality(KtOnTheWay(c)) <= due[c]
    BY <1>5, <2>1, KtAssumption DEF KtBatchInPlace, KtSocket
  <2>3. f = [of |-> c, refusal |-> FALSE] <=> c = b /\ ~r
    BY <1>3
  <2>4. /\ Cardinality(KtOnTheWay(c)) \in Nat /\ Cardinality(KtOnTheWay(c)') \in Nat
        /\ Cardinality(KtOnTheWay(c)') + (IF f = [of |-> c, refusal |-> FALSE] THEN 1 ELSE 0) <= Cardinality(KtOnTheWay(c))
    BY <1>2, <2>2
  <2>5. Cardinality(KtOnTheWay(c)') + (IF c = b /\ ~r THEN 1 ELSE 0) <= Cardinality(KtOnTheWay(c))
    BY <2>3, <2>4
  <2> QED
    BY <2>1, <2>2, <2>4, <2>5
<1>6. /\ due' \in [Batch -> 0..Frames]
      /\ \A c \in Batch : /\ asked[c] # "answering" => due'[c] = due[c]
                          /\ asked[c] = "answering" => toSend[c] + Cardinality(KtOnTheWay(c)') <= due'[c]
                          /\ c # b \/ r => due'[c] = due[c]
  <2>1. CASE r \/ b \notin pending
    <3>1. due' = due
      BY <1>1, <1>3, <2>1
    <3>2. ASSUME NEW c \in Batch, asked[c] = "answering" PROVE toSend[c] + Cardinality(KtOnTheWay(c)') <= due[c]
      <4>1. /\ Cardinality(KtOnTheWay(c)') \in Nat /\ toSend[c] \in Nat /\ due[c] \in Nat
            /\ toSend[c] + Cardinality(KtOnTheWay(c)') + (IF c = b /\ ~r THEN 1 ELSE 0) <= due[c]
        BY <1>5, <3>2
      <4> QED
        BY <4>1
    <3>3. due' \in [Batch -> 0..Frames]
      BY <3>1 DEF KtTypeOK
    <3> QED
      BY <3>1, <3>2, <3>3
  <2>2. CASE ~r /\ b \in pending
    <3>1. due' = [due EXCEPT ![b] = due[b] - 1]
      BY <1>1, <1>3, <2>2
    <3>2. asked[b] = "answering" /\ due[b] - 1 \in 0..Frames
      <4>1. asked[b] = "answering" /\ due[b] \in 0..Frames
        BY <1>4, <2>2 DEF KtTypeOK
      <4>2. /\ Cardinality(KtOnTheWay(b)') \in Nat /\ toSend[b] \in Nat
            /\ toSend[b] + Cardinality(KtOnTheWay(b)') + 1 <= due[b]
        BY <1>5, <2>2, <4>1
      <4> QED
        BY <4>1, <4>2, KtAssumption
    <3>3. due'[b] = due[b] - 1 /\ \A c \in Batch : c # b => due'[c] = due[c]
      BY <3>1 DEF KtTypeOK
    <3>4. ASSUME NEW c \in Batch, asked[c] = "answering" PROVE toSend[c] + Cardinality(KtOnTheWay(c)') <= due'[c]
      BY <1>5, <2>2, <3>3, <3>4
    <3> QED
      BY <2>2, <3>1, <3>2, <3>3, <3>4 DEF KtTypeOK
  <2> QED
    BY <2>1, <2>2
<1>7. pending \subseteq Batch /\ written \subseteq Batch
  BY DEF KtTypeOK
<1>8. PICK os \in SUBSET Orphan :
        /\ GivesOut(os, pending)
        /\ \A x \in os : KtHeard(x.of)' /\ x.among \subseteq written
        /\ KtThereToBeTold => Sound(os, pending \ Begun')
  <2>1. CASE r
    <3> DEFINE new == [of |-> b, among |-> MayOwn]
               os == unowned \cup {new}
    <3>1. GivesOut(os, pending) /\ due' = due
      BY <1>1, <1>3, <2>1
    <3>2. new \in Orphan /\ new.of = b /\ new.among = (pending \cap written) \ Begun
      BY <1>7 DEF Orphan, MayOwn
    <3>3. os \in SUBSET Orphan
      BY <3>2, UnownedAre
    <3> HIDE DEF new
    <3>4. \A x \in os : KtHeard(x.of)' /\ x.among \subseteq written
      <4> SUFFICES ASSUME NEW x \in os PROVE KtHeard(x.of)' /\ x.among \subseteq written
        OBVIOUS
      <4>1. CASE x \in unowned
        BY <1>2, <4>1, UnownedAre
      <4>2. CASE x = new
        <5>1. x.of = b /\ x.among \subseteq written
          BY <3>2, <4>2
        <5> QED
          BY <1>4, <2>1, <5>1 DEF KtHeard
      <4> QED
        BY <4>1, <4>2
    <3>5. ASSUME KtThereToBeTold PROVE Sound(os, pending \ Begun')
      <4>1. Begun' = Begun
        BY <3>1 DEF Begun
      <4>2. b \in pending /\ b \in written /\ b \notin Begun
        <5>1. asked[b] = "refused" /\ ended[b] # "refused"
          BY <1>4, <2>1, <3>5 DEF KtUnownedInPlace
        <5>2. Open(b)
          BY <3>5, <5>1 DEF KtThereToBeTold, Open
        <5>3. b \in written /\ due[b] = Frames
          BY <1>4, <5>1 DEF KtBatchInPlace
        <5>4. b \in pending
          BY <1>4, <5>2, <5>3 DEF KtBatchInPlace
        <5> QED
          BY <5>3, <5>4, KtAssumption DEF Begun
      <4>3. Sound(unowned, pending \ Begun) /\ \A o \in unowned : o.of # b
        BY <1>4, <2>1, <3>5, UnownedAre DEF KtUnownedInPlace
      <4>4. new.of \in new.among /\ new.of \in pending \ Begun
        BY <3>2, <4>2
      <4> QED
        BY <3>2, <4>1, <4>3, <4>4 DEF Sound
    <3> HIDE DEF os
    <3> QED
      BY <3>1, <3>3, <3>4, <3>5
  <2>2. CASE ~r
    <3>1. GivesOut(unowned, pending)
      BY <1>1, <1>3, <2>2
    <3>2. unowned \in SUBSET Orphan /\ \A x \in unowned : KtHeard(x.of)' /\ x.among \subseteq written
      BY <1>2, UnownedAre
    <3>3. ASSUME KtThereToBeTold PROVE Sound(unowned, pending \ Begun')
      <4>1. \A c \in Batch : c \in Begun' => c \in Begun \/ c = b
        BY <1>6 DEF Begun
      <4>2. \A o \in unowned : o.of # b /\ o.of \in Batch
        BY <1>4, <2>2, UnownedAre DEF KtHeard
      <4>3. Sound(unowned, pending \ Begun)
        BY <3>3 DEF KtUnownedInPlace
      <4> QED
        BY <4>1, <4>2, <4>3 DEF Sound
    <3> QED
      BY <3>1, <3>2, <3>3
  <2> QED
    BY <2>1, <2>2
<1>9. /\ KtUnownedInPlace'
      /\ unowned' \subseteq [of : Batch, among : (SUBSET written) \ {{}}]
      /\ pending' \subseteq pending
      /\ ended' \in [Batch -> {"no", "answered", "refused", "unavailable", "left"}]
      /\ \A c \in Batch : /\ ended[c] # "no" \/ c \notin pending => ended'[c] = ended[c]
                          /\ ended'[c] = "refused" => c \notin pending'
                          /\ ended'[c] = "no" /\ c \in pending => c \in pending'
  <2>1. written' = written /\ asked' = asked /\ pending \in SUBSET pending
    BY <1>1
  <2> QED
    BY <1>2, <1>8, <2>1, GivesOutKeeps
<1>10. KtTypeOK'
  BY <1>1, <1>2, <1>6, <1>9 DEF KtTypeOK, Frame
<1>11. KtSocketsInPlace' /\ KtCleared' /\ KtBatchesInPlace'
  BY <1>1, <1>6, <1>9, KtBatchesAfter
<1> QED
  BY <1>2, <1>9, <1>10, <1>11

LEMMA KtOverKeeps ==
  ASSUME KtInv, NEW b \in Batch, KtOver(b)
  PROVE  KtInv'
<1> USE DEF KtInv
<1> DEFINE ps == pending \ {b}
<1>1. /\ step[b] = "collects" /\ ~Open(b) /\ step' = [step EXCEPT ![b] = "over"] /\ GivesOut(unowned, ps)
      /\ UNCHANGED <<inUse, future, line, rides, written, asked, toSend, due, ktWire>>
  BY DEF KtOver, Steps, ktConns, ktServer
<1>2. \A c \in Batch : KtHeard(c) => KtHeard(c)'
  BY <1>1 DEF KtHeard
<1>3. unowned \in SUBSET Orphan /\ \A x \in unowned : KtHeard(x.of)' /\ x.among \subseteq written
  BY <1>2, UnownedAre
<1>4. ASSUME KtThereToBeTold PROVE Sound(unowned, ps \ Begun')
  <2>1. Begun' = Begun /\ Sound(unowned, pending \ Begun)
    BY <1>1, <1>4 DEF Begun, KtUnownedInPlace
  <2>2. \A o \in unowned : o.of # b
    <3> SUFFICES ASSUME NEW o \in unowned, o.of = b PROVE FALSE
      OBVIOUS
    <3>1. asked[b] = "refused" /\ b \in pending
      BY <2>1, UnownedAre DEF KtHeard, Sound
    <3>2. ended[b] = "refused"
      BY <1>1, <1>4, <3>1 DEF KtThereToBeTold, Open
    <3>3. KtBatchInPlace(b)
      BY DEF KtBatchesInPlace
    <3> QED
      BY <3>1, <3>2, <3>3 DEF KtBatchInPlace
  <2> QED
    BY <2>1, <2>2 DEF Sound
<1>5. /\ KtUnownedInPlace'
      /\ unowned' \subseteq [of : Batch, among : (SUBSET written) \ {{}}]
      /\ pending' \subseteq ps
      /\ ended' \in [Batch -> {"no", "answered", "refused", "unavailable", "left"}]
      /\ \A c \in Batch : /\ ended[c] # "no" \/ c \notin ps => ended'[c] = ended[c]
                          /\ ended'[c] = "refused" => c \notin pending'
                          /\ ended'[c] = "no" /\ c \in ps => c \in pending'
  <2>1. written' = written /\ asked' = asked /\ ps \in SUBSET pending
    BY <1>1
  <2> HIDE DEF ps
  <2> QED
    BY <1>1, <1>2, <1>3, <1>4, <2>1, GivesOutKeeps
<1>6. \A c \in Batch : /\ ended[c] # "no" \/ c \notin pending => ended'[c] = ended[c]
                       /\ ended'[c] = "no" /\ c \in pending => c \in pending'
  BY <1>1, <1>5 DEF Open
<1>7. /\ step' \in [Batch -> {"new", "added", "awaits", "collects", "over"}]
      /\ \A c \in Batch : step'[c] = step[c] \/ (step[c] = "collects" /\ step'[c] = "over" /\ ended[c] # "no")
  BY <1>1 DEF KtTypeOK, Open
<1>8. KtTypeOK'
  BY <1>1, <1>5, <1>7 DEF KtTypeOK
<1>9. \A c \in Batch : /\ asked[c] # "answering" => due'[c] = due[c]
                       /\ asked[c] = "answering" => toSend[c] + Cardinality(KtOnTheWay(c)') <= due'[c]
  <2> SUFFICES ASSUME NEW c \in Batch, asked[c] = "answering" PROVE toSend[c] + Cardinality(KtOnTheWay(c)') <= due[c]
    BY <1>1
  <2>1. KtBatchInPlace(c) /\ KtOnTheWay(c)' = KtOnTheWay(c)
    BY <1>1 DEF KtBatchesInPlace, KtOnTheWay
  <2> QED
    BY <2>1 DEF KtBatchInPlace
<1>10. KtSocketsInPlace' /\ KtCleared' /\ KtBatchesInPlace'
  <2>1. pending' \subseteq pending
    BY <1>5
  <2> QED
    BY <1>1, <1>5, <1>6, <1>7, <1>9, <2>1, KtBatchesAfter
<1>11. KtFramesInPlace'
  BY <1>1 DEF KtFramesInPlace
<1> QED
  BY <1>5, <1>8, <1>10, <1>11

\* What the Kotlin transport owes its batches (KtSocketsKept), whatever the
\* number of batches, of their frames and of sockets: a batch is refused only if
\* the server refused it, while those it refused are there to be told, and once
\* a socket's closed() is through no batch that rode it waits for frames.  No
\* batch begins while closed() runs (~Racing): it forgets, after it failed those
\* pending, the ones that came meanwhile too.
THEOREM KotlinSocketsKept == ~Racing => (KtSpec => []KtSocketsKept)
<1> SUFFICES ASSUME ~Racing PROVE KtSpec => []KtSocketsKept
  OBVIOUS
<1>1. KtInit => KtInv
  BY KtStarts
<1>2. KtInv /\ [KtNext]_ktVars => KtInv'
  <2> SUFFICES ASSUME KtInv, [KtNext]_ktVars PROVE KtInv'
    OBVIOUS
  <2>1. CASE UNCHANGED ktVars
    <3>1. UNCHANGED <<inUse, future, line, step, rides, written, ended, pending, due, unowned, asked, toSend, ktWire>>
      BY <2>1 DEF ktVars, ktConns, ktBatch, ktServer
    <3>2. /\ KtFramesInPlace' /\ KtUnownedInPlace'
          /\ \A c \in Batch : asked[c] = "answering" => KtOnTheWay(c)' = KtOnTheWay(c)
      <4>1. pending \subseteq pending' /\ written \subseteq written'
        BY <3>1
      <4> QED
        BY <3>1, <4>1, KtQuiet
    <3>3. KtTypeOK'
      BY <3>1 DEF KtInv, KtTypeOK
    <3>4. KtSocketsInPlace' /\ KtCleared'
      BY <3>1 DEF KtInv, KtSocketsInPlace, KtCleared, Open
    <3>5. KtBatchesInPlace'
      BY <3>1, <3>2 DEF KtInv, KtBatchesInPlace, KtBatchInPlace, Open
    <3> QED
      BY <3>2, <3>3, <3>4, <3>5 DEF KtInv
  <2>2. ASSUME NEW b \in Batch, KtAdd(b) \/ KtProceeds(b) \/ KtLeftOpening(b) \/ KtLeft(b) \/ KtRefuse(b) \/ KtAnswer(b) PROVE KtInv'
    <3>1. CASE KtProceeds(b)
      BY <3>1, KtTakeKeeps, KtWriteKeeps, KtEndsKeeps, KtOverKeeps DEF KtProceeds
    <3> QED
      BY <2>2, <3>1, KtAddKeeps, KtEndsKeeps, KtServerKeeps
  <2>3. ASSUME NEW s \in KtSocket,
               KtOpened(s) \/ KtNotOpened(s) \/ KtUpForNobody(s) \/ KtReceive(s) \/ KtEnding(s) \/ KtClosing(s)
        PROVE  KtInv'
    BY <2>3, KtOpensKeeps, KtReceiveKeeps, KtEndingKeeps, KtFailsKeeps, KtClearsKeeps DEF KtClosing
  <2> QED
    BY <2>1, <2>2, <2>3 DEF KtNext
<1>3. KtInv => KtSocketsKept
  <2> SUFFICES ASSUME KtInv PROVE KtOnlyRefusedFail /\ SocketEndsItsBatches
    BY DEF KtInv, KtSocketsKept
  <2>1. KtOnlyRefusedFail
    BY DEF KtInv, KtUnownedInPlace, KtThereToBeTold, KtHeard, KtOnlyRefusedFail
  <2>2. SocketEndsItsBatches
    BY DEF KtInv, KtBatchesInPlace, KtBatchInPlace, SocketEndsItsBatches
  <2> QED
    BY <2>1, <2>2
<1> QED
  BY <1>1, <1>2, <1>3, PTL DEF KtSpec

-----------------------------------------------------------------------------
(* Queues in the order commands were made                                    *)

\* Some member of a nonempty set of numbers is the least.
LEMMA LeastIs ==
  ASSUME NEW S, S \subseteq Nat, S # {}
  PROVE  Min(S) \in S /\ \A x \in S : Min(S) <= x
<1>1. \E x \in S : \A y \in S : x <= y
  <2> SUFFICES ASSUME \A x \in S : \E y \in S : ~(x <= y) PROVE FALSE
    OBVIOUS
  <2>1. PICK n \in S : TRUE
    OBVIOUS
  <2> DEFINE A == {m \in 0..n : \A x \in S : m <= x}
             up == [m \in A |-> m + 1]
  <2>2. 0 \in A /\ \A m \in A : m + 1 \in A
    <3>1. 0 \in A
      BY <2>1
    <3>2. ASSUME NEW m \in A PROVE m + 1 \in A
      <4>1. m \notin S
        BY <3>2
      <4>2. \A x \in S : m + 1 <= x
        BY <4>1, <3>2
      <4> QED BY <4>2, <2>1
    <3> QED BY <3>1, <3>2
  <2>3. IsFiniteSet(A)
    BY FS_Interval, FS_Subset, 0 \in Int, n \in Int, A \subseteq 0..n
  <2>4. up \in Injection(A, A \ {0})
    <3>1. \A i \in A : i + 1 \in A \ {0}
      BY <2>2
    <3>2. \A i, j \in A : i + 1 = j + 1 => i = j
      OBVIOUS
    <3> HIDE DEF A
    <3> QED BY <3>1, <3>2 DEF Injection, IsInjective
  <2>5. IsFiniteSet(A \ {0}) /\ Cardinality(A \ {0}) = Cardinality(A) - 1
    BY <2>2, <2>3, FS_RemoveElement
  <2>6. Cardinality(A) <= Cardinality(A \ {0})
    BY <2>3, <2>4, <2>5, FS_Injection
  <2>7. Cardinality(A) \in Nat
    BY <2>3, FS_CardinalityType
  <2> HIDE DEF A
  <2> QED BY <2>5, <2>6, <2>7
<1> QED BY <1>1, Zenon DEF Min

Rising(q) == \A i, j \in 1..Len(q) : i < j => q[i] < q[j]

LEMMA Members ==
  ASSUME NEW q \in Seq(Nat)
  PROVE  /\ Len(q) \in Nat /\ DOMAIN q = 1..Len(q) /\ \A i \in 1..Len(q) : q[i] \in Nat
         /\ \A c : c \in ToSet(q) <=> \E i \in 1..Len(q) : q[i] = c
         /\ \A c : Contains(q, c) <=> c \in ToSet(q)
<1>1. Len(q) \in Nat /\ DOMAIN q = 1..Len(q) /\ \A i \in 1..Len(q) : q[i] \in Nat
  OBVIOUS
<1>2. \A c : c \in ToSet(q) <=> \E i \in 1..Len(q) : q[i] = c
  BY <1>1, Zenon DEF ToSet
<1>3. \A c : Contains(q, c) <=> \E i \in 1..Len(q) : q[i] = c
  BY Zenon DEF Contains
<1> QED BY <1>1, <1>2, <1>3

\* Two queues behind one another.
After(s, t, r, m, n) ==
  /\ r \in Seq(Nat) /\ Len(r) = m + n
  /\ \A i \in 1..m : r[i] = s[i]
  /\ \A i \in m + 1..m + n : r[i] = t[i - m]

LEMMA Behinds ==
  ASSUME NEW s \in Seq(Nat), NEW t \in Seq(Nat)
  PROVE  After(s, t, s \o t, Len(s), Len(t))
<1>1. /\ s \o t \in Seq(Nat) /\ Len(s \o t) = Len(s) + Len(t)
      /\ \A i \in 1..Len(s) + Len(t) : (s \o t)[i] = IF i <= Len(s) THEN s[i] ELSE t[i - Len(s)]
  BY ConcatProperties
<1>2. Len(s) \in Nat /\ Len(t) \in Nat
  OBVIOUS
<1> DEFINE r == s \o t
<1> HIDE DEF r
<1>3. \A i \in 1..Len(s) : r[i] = s[i]
  BY <1>1, <1>2 DEF r
<1>4. \A i \in Len(s) + 1..Len(s) + Len(t) : r[i] = t[i - Len(s)]
  BY <1>1, <1>2 DEF r
<1> QED BY <1>1, <1>3, <1>4 DEF After, r

\* Where a command belongs among those that wait.
Belongs(q, c, p) == \A i \in 1..Len(q) : (i < p => q[i] < c) /\ (p <= i => c < q[i])

LEMMA PlacedAt ==
  ASSUME NEW q \in Seq(Nat), Rising(q), NEW c \in Nat, c \notin ToSet(q)
  PROVE  \E p \in 1..Len(q) + 1 : InPlace(q, c) = InsertAt(q, p, c) /\ Belongs(q, c, p)
<1> DEFINE later == {i \in DOMAIN q : q[i] > c}
           p == IF later = {} THEN Len(q) + 1 ELSE Min(later)
<1>1. InPlace(q, c) = InsertAt(q, p, c)
  BY Zenon DEF InPlace
<1>2. Len(q) \in Nat /\ later = {i \in 1..Len(q) : c < q[i]}
  BY Members
<1>3. \A i \in 1..Len(q) : q[i] # c /\ q[i] \in Nat
  BY Members
<1>4. CASE later = {}
  <2>1. p = Len(q) + 1
    BY <1>4
  <2>2. \A i \in 1..Len(q) : q[i] < c
    BY <1>2, <1>3, <1>4
  <2> HIDE DEF p, later
  <2>3. p \in 1..Len(q) + 1 /\ Belongs(q, c, p)
    BY <1>2, <2>1, <2>2 DEF Belongs
  <2> QED BY <1>1, <2>3
<1>5. CASE later # {}
  <2>1. later \subseteq Nat
    BY <1>2
  <2>2. p \in later /\ \A x \in later : p <= x
    <3>1. p = Min(later)
      BY <1>5
    <3> HIDE DEF p, later
    <3> QED BY <1>5, <2>1, <3>1, LeastIs
  <2>3. p \in 1..Len(q) /\ c < q[p]
    <3> HIDE DEF p
    <3> QED BY <2>2, <1>2
  <2>4. ASSUME NEW i \in 1..Len(q), i < p PROVE q[i] < c
    <3>1. i \notin later
      <4> HIDE DEF p, later
      <4> QED BY <2>2, <2>3, <2>4
    <3> QED BY <1>2, <1>3, <3>1
  <2> HIDE DEF p, later
  <2>5. ASSUME NEW i \in 1..Len(q), p <= i PROVE c < q[i]
    <3>1. p = i \/ q[p] < q[i]
      BY <2>3, <2>5 DEF Rising
    <3> QED BY <2>3, <3>1, <1>3
  <2> QED BY <1>1, <1>2, <2>3, <2>4, <2>5 DEF Belongs
<1> QED BY <1>4, <1>5

Inserted(q, r, p, c) ==
  /\ r \in Seq(Nat) /\ Len(r) = Len(q) + 1
  /\ \A i \in 1..Len(q) + 1 : r[i] = IF i < p THEN q[i] ELSE IF i = p THEN c ELSE q[i - 1]

LEMMA InsertedAt ==
  ASSUME NEW q \in Seq(Nat), NEW c \in Nat, NEW p \in 1..Len(q) + 1
  PROVE  Inserted(q, InsertAt(q, p, c), p, c)
<1> DEFINE before == SubSeq(q, 1, p - 1)
           one == <<c>>
           after == SubSeq(q, p, Len(q))
<1>1. /\ before \in Seq(Nat) /\ Len(before) = p - 1 /\ \A i \in 1..p - 1 : before[i] = q[i]
      /\ after \in Seq(Nat) /\ Len(after) = Len(q) - p + 1 /\ \A i \in 1..Len(q) - p + 1 : after[i] = q[p + i - 1]
      /\ one \in Seq(Nat) /\ Len(one) = 1 /\ one[1] = c
  OBVIOUS
<1>2. InsertAt(q, p, c) = (before \o one) \o after
  BY DEF InsertAt
<1>0. Len(q) \in Nat
  OBVIOUS
<1> HIDE DEF before, one, after
<1> DEFINE m == p - 1
           n == Len(q) - p + 1
           most == before \o one
           r == most \o after
<1>3. m \in Nat /\ n \in Nat /\ m + 1 = p /\ p + n = Len(q) + 1
  BY <1>0
<1>4. /\ most \in Seq(Nat) /\ Len(most) = m + 1
      /\ \A i \in 1..m : most[i] = before[i]
      /\ most[m + 1] = c
  <2>1. before \in Seq(Nat) /\ one \in Seq(Nat) /\ Len(before) = m /\ Len(one) = 1 /\ m \in Nat /\ one[1] = c
    BY <1>1, <1>3
  <2> HIDE DEF m
  <2>2. After(before, one, most, m, 1)
    BY <2>1, Behinds, Zenon
  <2> HIDE DEF most
  <2>3. m + 1 \in m + 1..m + 1 /\ m + 1 - m = 1
    BY <2>1
  <2>4. \A i \in m + 1..m + 1 : most[i] = one[i - m]
    BY <2>2 DEF After
  <2>5. most[m + 1] = one[1]
    BY <2>1, <2>3, <2>4
  <2> QED BY <2>1, <2>2, <2>5 DEF After
<1>5. /\ r \in Seq(Nat) /\ Len(r) = p + n
      /\ \A i \in 1..p : r[i] = most[i]
      /\ \A i \in p + 1..p + n : r[i] = after[i - p]
  <2> HIDE DEF most, m, n
  <2>1. most \in Seq(Nat) /\ after \in Seq(Nat) /\ Len(most) = p /\ Len(after) = n /\ p \in Nat /\ n \in Nat
    BY <1>0, <1>1, <1>3, <1>4 DEF n
  <2>2. After(most, after, r, p, n)
    BY <2>1, Behinds, Zenon
  <2> HIDE DEF r
  <2> QED BY <2>2 DEF After
<1> HIDE DEF r, most
<1>6. ASSUME NEW i \in 1..Len(q) + 1 PROVE r[i] = IF i < p THEN q[i] ELSE IF i = p THEN c ELSE q[i - 1]
  <2>1. CASE i < p
    <3>1. r[i] = before[i] /\ i \in 1..p - 1
      BY <2>1, <1>0, <1>3, <1>4, <1>5
    <3> QED BY <2>1, <3>1, <1>1
  <2>2. CASE i = p
    BY <2>2, <1>0, <1>3, <1>4, <1>5
  <2>3. CASE p < i
    <3>1. r[i] = after[i - p] /\ i - p \in 1..Len(q) - p + 1 /\ p + (i - p) - 1 = i - 1
      BY <2>3, <1>0, <1>3, <1>5
    <3> QED BY <1>0, <2>3, <3>1, <1>1
  <2> QED BY <1>0, <2>1, <2>2, <2>3
<1>7. InsertAt(q, p, c) = r
  BY <1>2 DEF r, most
<1> QED BY <1>3, <1>5, <1>6, <1>7 DEF Inserted

\* OfflineQueue.add keeps the order, and adds one command.
LEMMA AddRises ==
  ASSUME NEW q \in Seq(Nat), Rising(q), NEW c \in Nat, c \notin ToSet(q)
  PROVE  /\ InPlace(q, c) \in Seq(Nat) /\ Rising(InPlace(q, c))
         /\ ToSet(InPlace(q, c)) = ToSet(q) \cup {c}
<1>1. PICK p \in 1..Len(q) + 1 : InPlace(q, c) = InsertAt(q, p, c) /\ Belongs(q, c, p)
  BY PlacedAt
<1> DEFINE r == InPlace(q, c)
<1>2. Inserted(q, r, p, c)
  BY <1>1, InsertedAt
<1> HIDE DEF r
<1>0. Len(q) \in Nat /\ p \in Nat /\ \A i \in 1..Len(q) : q[i] \in Nat
  BY Members
<1>3. /\ r \in Seq(Nat) /\ Len(r) = Len(q) + 1
      /\ \A i \in 1..Len(q) + 1 : r[i] = IF i < p THEN q[i] ELSE IF i = p THEN c ELSE q[i - 1]
  BY <1>2, Zenon DEF Inserted
<1>4. Rising(r)
  <2> SUFFICES ASSUME NEW i \in 1..Len(q) + 1, NEW j \in 1..Len(q) + 1, i < j PROVE r[i] < r[j]
    BY <1>3 DEF Rising
  <2>1. CASE j < p
    <3>1. r[i] = q[i] /\ r[j] = q[j] /\ i \in 1..Len(q) /\ j \in 1..Len(q)
      BY <2>1, <1>0, <1>3
    <3> QED BY <3>1 DEF Rising
  <2>2. CASE j = p
    <3>1. r[i] = q[i] /\ r[j] = c /\ i \in 1..Len(q)
      BY <2>2, <1>0, <1>3
    <3> QED BY <1>0, <1>1, <2>2, <3>1 DEF Belongs
  <2>3. CASE p < j /\ i < p
    <3>1. r[i] = q[i] /\ r[j] = q[j - 1] /\ i \in 1..Len(q) /\ j - 1 \in 1..Len(q)
      BY <2>3, <1>0, <1>3
    <3>2. q[i] < c /\ c < q[j - 1]
      BY <1>0, <1>1, <2>3, <3>1 DEF Belongs
    <3> QED BY <1>0, <3>1, <3>2
  <2>4. CASE p < j /\ i = p
    <3>1. r[i] = c /\ r[j] = q[j - 1] /\ j - 1 \in 1..Len(q)
      BY <2>4, <1>0, <1>3
    <3> QED BY <1>0, <1>1, <2>4, <3>1 DEF Belongs
  <2>5. CASE p < j /\ p < i
    <3>1. r[i] = q[i - 1] /\ r[j] = q[j - 1] /\ i - 1 \in 1..Len(q) /\ j - 1 \in 1..Len(q)
      BY <2>5, <1>0, <1>3
    <3> QED BY <3>1 DEF Rising
  <2> QED BY <1>0, <2>1, <2>2, <2>3, <2>4, <2>5
<1>5. ToSet(r) = ToSet(q) \cup {c}
  <2>1. ASSUME NEW i \in 1..Len(q) + 1 PROVE r[i] \in ToSet(q) \cup {c}
    <3>1. CASE i < p
      <4>1. r[i] = q[i] /\ i \in 1..Len(q)
        BY <3>1, <1>0, <1>3
      <4> QED BY <4>1, Members
    <3>2. CASE i = p
      BY <3>2, <1>3
    <3>3. CASE p < i
      <4>1. r[i] = q[i - 1] /\ i - 1 \in 1..Len(q)
        BY <3>3, <1>0, <1>3
      <4> QED BY <4>1, Members
    <3> QED BY <1>0, <3>1, <3>2, <3>3
  <2>2. ASSUME NEW i \in 1..Len(q) PROVE \E n \in 1..Len(r) : r[n] = q[i]
    <3>1. CASE i < p
      <4>1. i \in 1..Len(q) + 1 /\ i \in 1..Len(r)
        BY <1>0, <1>3
      <4>2. r[i] = q[i]
        BY <3>1, <4>1, <1>3
      <4> QED BY <4>1, <4>2
    <3>2. CASE p <= i
      <4>1. i + 1 \in 1..Len(q) + 1 /\ i + 1 \in 1..Len(r)
        BY <1>0, <1>3
      <4>2. ~(i + 1 < p) /\ i + 1 # p /\ i + 1 - 1 = i
        BY <3>2, <1>0
      <4>3. r[i + 1] = q[i]
        BY <4>1, <4>2, <1>3
      <4> QED BY <4>1, <4>3
    <3> QED BY <1>0, <3>1, <3>2
  <2>3. r[p] = c /\ p \in 1..Len(r)
    BY <1>0, <1>3
  <2>4. \A x : x \in ToSet(q) <=> \E i \in 1..Len(q) : q[i] = x
    BY Members
  <2>5. \A x : x \in ToSet(r) <=> \E i \in 1..Len(r) : r[i] = x
    BY <1>3, Members
  <2>6. ToSet(r) \subseteq ToSet(q) \cup {c}
    BY <1>3, <2>1, <2>5
  <2>7. ToSet(q) \subseteq ToSet(r)
    BY <2>2, <2>4, <2>5
  <2>8. c \in ToSet(r)
    BY <2>3, <2>5
  <2> QED BY <2>6, <2>7, <2>8
<1> QED BY <1>3, <1>4, <1>5 DEF r

\* A queue without one of its commands.
Removed(q, r, p) ==
  /\ r \in Seq(Nat) /\ Len(r) = Len(q) - 1
  /\ \A i \in 1..Len(q) - 1 : r[i] = IF i < p THEN q[i] ELSE q[i + 1]

LEMMA RemovedAt ==
  ASSUME NEW q \in Seq(Nat), NEW p \in 1..Len(q)
  PROVE  Removed(q, RemoveAt(q, p), p)
<1> DEFINE before == SubSeq(q, 1, p - 1)
           after == SubSeq(q, p + 1, Len(q))
<1>0. Len(q) \in Nat
  OBVIOUS
<1>1. /\ before \in Seq(Nat) /\ Len(before) = p - 1 /\ \A i \in 1..p - 1 : before[i] = q[i]
      /\ after \in Seq(Nat) /\ Len(after) = Len(q) - p /\ \A i \in 1..Len(q) - p : after[i] = q[p + i]
  OBVIOUS
<1>2. RemoveAt(q, p) = before \o after
  BY DEF RemoveAt
<1> HIDE DEF before, after
<1> DEFINE m == p - 1
           n == Len(q) - p
           r == before \o after
<1>3. m \in Nat /\ n \in Nat /\ m + n = Len(q) - 1
  BY <1>0
<1>4. /\ r \in Seq(Nat) /\ Len(r) = m + n
      /\ \A i \in 1..m : r[i] = before[i]
      /\ \A i \in m + 1..m + n : r[i] = after[i - m]
  <2>1. before \in Seq(Nat) /\ after \in Seq(Nat) /\ Len(before) = m /\ Len(after) = n /\ m \in Nat /\ n \in Nat
    BY <1>1, <1>3
  <2> HIDE DEF m, n
  <2>2. After(before, after, r, m, n)
    BY <2>1, Behinds, Zenon
  <2> HIDE DEF r
  <2> QED BY <2>2 DEF After
<1> HIDE DEF r
<1>5. ASSUME NEW i \in 1..Len(q) - 1 PROVE r[i] = IF i < p THEN q[i] ELSE q[i + 1]
  <2>1. CASE i < p
    <3>1. i \in 1..m /\ i \in 1..p - 1
      BY <2>1, <1>0
    <3> QED BY <2>1, <3>1, <1>1, <1>4
  <2>2. CASE p <= i
    <3> DEFINE x == i - m
    <3>1. i \in m + 1..m + n /\ x \in 1..Len(q) - p /\ p + x = i + 1
      BY <2>2, <1>0
    <3>2. r[i] = after[x]
      BY <3>1, <1>4
    <3> HIDE DEF x
    <3>3. after[x] = q[i + 1]
      BY <3>1, <1>1
    <3>4. ~(i < p)
      BY <1>0, <2>2
    <3> QED BY <3>2, <3>3, <3>4
  <2> QED BY <1>0, <2>1, <2>2
<1> QED BY <1>2, <1>3, <1>4, <1>5 DEF Removed, r

LEMMA RemovedRises ==
  ASSUME NEW q \in Seq(Nat), Rising(q), NEW p \in 1..Len(q)
  PROVE  /\ RemoveAt(q, p) \in Seq(Nat) /\ Rising(RemoveAt(q, p))
         /\ ToSet(RemoveAt(q, p)) = ToSet(q) \ {q[p]}
<1> DEFINE r == RemoveAt(q, p)
<1>1. Removed(q, r, p)
  BY RemovedAt
<1> HIDE DEF r
<1>0. Len(q) \in Nat /\ p \in Nat /\ \A i \in 1..Len(q) : q[i] \in Nat
  BY Members
<1>2. /\ r \in Seq(Nat) /\ Len(r) = Len(q) - 1
      /\ \A i \in 1..Len(q) - 1 : r[i] = IF i < p THEN q[i] ELSE q[i + 1]
  BY <1>1, Zenon DEF Removed
<1>3. Rising(r)
  <2> SUFFICES ASSUME NEW i \in 1..Len(q) - 1, NEW j \in 1..Len(q) - 1, i < j PROVE r[i] < r[j]
    BY <1>2 DEF Rising
  <2> DEFINE m == IF i < p THEN i ELSE i + 1
             n == IF j < p THEN j ELSE j + 1
  <2>1. m \in 1..Len(q) /\ n \in 1..Len(q) /\ m < n
    BY <1>0
  <2>2. r[i] = q[m] /\ r[j] = q[n]
    BY <1>2
  <2> HIDE DEF m, n
  <2> QED BY <2>1, <2>2 DEF Rising
<1>4. \A i \in 1..Len(q) : i # p => q[i] # q[p]
  BY <1>0 DEF Rising
<1>5. ToSet(r) = ToSet(q) \ {q[p]}
  <2>1. ASSUME NEW i \in 1..Len(q) - 1 PROVE \E n \in 1..Len(q) : n # p /\ r[i] = q[n]
    <3>1. CASE i < p
      <4>1. r[i] = q[i] /\ i \in 1..Len(q) /\ i # p
        BY <3>1, <1>0, <1>2
      <4> QED BY <4>1
    <3>2. CASE p <= i
      <4>1. r[i] = q[i + 1] /\ i + 1 \in 1..Len(q) /\ i + 1 # p
        BY <3>2, <1>0, <1>2
      <4> QED BY <4>1
    <3> QED BY <1>0, <3>1, <3>2
  <2>2. ASSUME NEW i \in 1..Len(q), i # p PROVE \E n \in 1..Len(r) : r[n] = q[i]
    <3>1. CASE i < p
      <4>1. i \in 1..Len(q) - 1
        BY <3>1, <1>0
      <4>2. r[i] = q[i]
        BY <3>1, <4>1, <1>2
      <4> QED BY <4>1, <4>2, <1>2
    <3>2. CASE p < i
      <4>1. i - 1 \in 1..Len(q) - 1 /\ ~(i - 1 < p) /\ i - 1 + 1 = i
        BY <3>2, <1>0
      <4>2. r[i - 1] = q[i]
        BY <4>1, <1>2
      <4> QED BY <4>1, <4>2, <1>2
    <3> QED BY <1>0, <2>2, <3>1, <3>2
  <2>4. \A x : x \in ToSet(q) <=> \E i \in 1..Len(q) : q[i] = x
    BY Members
  <2>5. \A x : x \in ToSet(r) <=> \E i \in 1..Len(r) : r[i] = x
    BY <1>2, Members
  <2>6. ASSUME NEW x \in ToSet(r) PROVE x \in ToSet(q) /\ x # q[p]
    <3>1. PICK i \in 1..Len(r) : r[i] = x
      BY <2>5
    <3>2. PICK n \in 1..Len(q) : n # p /\ r[i] = q[n]
      BY <1>2, <2>1
    <3> QED BY <1>4, <2>4, <3>1, <3>2
  <2>7. \A x \in ToSet(q) : x # q[p] => x \in ToSet(r)
    BY <2>2, <2>4, <2>5
  <2> QED BY <2>6, <2>7
<1> QED BY <1>2, <1>3, <1>5 DEF r

LEMMA TailRises ==
  ASSUME NEW q \in Seq(Nat), Rising(q), q # <<>>
  PROVE  /\ Tail(q) \in Seq(Nat) /\ Rising(Tail(q)) /\ ToSet(Tail(q)) = ToSet(q) \ {q[1]}
<1>1. 1 \in 1..Len(q) /\ Len(q) \in Nat
  OBVIOUS
<1> DEFINE r == RemoveAt(q, 1)
<1>2. Removed(q, r, 1)
  BY <1>1, RemovedAt
<1> HIDE DEF r
<1>3. Tail(q) = r
  <2>1. Tail(q) \in Seq(Nat) /\ Len(Tail(q)) = Len(q) - 1 /\ \A i \in 1..Len(q) - 1 : Tail(q)[i] = q[i + 1]
    OBVIOUS
  <2>2. r \in Seq(Nat) /\ Len(r) = Len(q) - 1 /\ \A i \in 1..Len(q) - 1 : r[i] = q[i + 1]
    BY <1>1, <1>2 DEF Removed
  <2> QED BY <2>1, <2>2, SeqEqual
<1> QED BY <1>1, <1>3, RemovedRises DEF r

LEMMA RemoveRises ==
  ASSUME NEW q \in Seq(Nat), Rising(q), NEW c, c \in ToSet(q)
  PROVE  /\ RemoveFirst(q, c) \in Seq(Nat) /\ Rising(RemoveFirst(q, c))
         /\ ToSet(RemoveFirst(q, c)) = ToSet(q) \ {c}
<1> DEFINE I == {i \in 1..Len(q) : q[i] = c}
           p == Min(I)
<1>1. \E i \in 1..Len(q) : q[i] = c
  BY Members
<1>2. I # {} /\ I \subseteq Nat
  BY <1>1, Members
<1>3. p \in I
  <2> HIDE DEF I
  <2> QED BY <1>2, LeastIs
<1>4. p \in 1..Len(q) /\ q[p] = c
  <2> HIDE DEF p
  <2> QED BY <1>3
<1>5. SelectInSeq(q, LAMBDA v : v = c) = p
  BY <1>2, Zenon DEF SelectInSeq
<1>6. RemoveFirst(q, c) = RemoveAt(q, p)
  BY <1>1, <1>5, Zenon DEF RemoveFirst
<1> HIDE DEF p
<1> QED BY <1>4, <1>6, RemovedRises


-----------------------------------------------------------------------------
(* The queue of the TypeScript client                                        *)

QueueTyped ==
  /\ next \in 0..N /\ entries \in Seq(Nat) /\ Rising(entries) /\ saved = entries /\ ran \in Seq(Nat)
  /\ Waiting \cup direct \cup layers \cup settled \cup gone \cup stray \cup ToSet(ran) \subseteq 1..next
  /\ att \in [Command -> {"none", "sent", "ok", "refused", "lost"}] /\ accept \in [Command -> BOOLEAN]
  /\ run \in {"idle", "loop", "send", "save"} /\ head \in 0..next /\ again \in BOOLEAN /\ called \in BOOLEAN
  /\ reachable \in BOOLEAN /\ outages \in 0..MaxOutages /\ reloads \in 0..MaxReloads

\* Nothing waits beside a command on its own way, and an attempt in flight is its
\* or that of the first entry, which the drain sends.
OneAtATime ==
  /\ direct # {} => Waiting = {}
  /\ \A c, d \in direct : c = d
  /\ run = "send" => head \in Waiting /\ \A c \in Waiting : head <= c
  /\ run = "save" => head \in Command /\ head \notin direct /\ head \notin Waiting
  /\ \A c \in Command : att[c] # "none" => c \in direct \/ (run = "send" /\ c = head)

\* The commands whose turn is over, and one whose turn came.
Over       == Saving \cup settled \cup gone
Engaged(d) == att[d] # "none" \/ d \in stray \/ d \in ToSet(ran)

\* A command's turn comes when the turn of all made before it is over, and what
\* its caller is told is so.
InTurn ==
  /\ \A c \in Command : att[c] = "ok" => c \in ToSet(ran)
  /\ \A c \in Command : att[c] = "refused" => ~accept[c]
  /\ \A c \in Saving \cup settled : c \in ToSet(ran) \/ ~accept[c]
  /\ \A d \in Command : Engaged(d) => \A c \in 1..d - 1 : c \in Over

QueueInv == QueueTyped /\ NoCommandLost /\ PredictionIsShown /\ RunInOrder /\ OneAtATime /\ InTurn

LEMMA QueueNumbers == N \in Nat /\ MaxDirect \in Nat /\ MaxOutages \in Nat /\ MaxReloads \in Nat /\ Command = 1..N
BY QueueAssumption DEF Command

LEMMA EmptySet == ToSet(<<>>) = {}
BY DEF ToSet

LEMMA QueueBegins == QueueInit => QueueInv
<1> SUFFICES ASSUME QueueInit PROVE QueueInv
  OBVIOUS
<1>1. Waiting = {} /\ ToSet(ran) = {} /\ stray = {}
  BY EmptySet DEF QueueInit, DeliveryInit, Waiting
<1>2. QueueTyped
  <2>1. Rising(entries)
    BY EmptySet DEF Rising, QueueInit
  <2>2. /\ next = 0 /\ entries = <<>> /\ saved = entries /\ ran = <<>> /\ run = "idle" /\ head = 0
        /\ again = FALSE /\ called = FALSE /\ reachable = TRUE /\ outages = 0 /\ reloads = 0
        /\ Waiting \cup direct \cup layers \cup settled \cup gone \cup stray \cup ToSet(ran) = {}
    BY <1>1 DEF QueueInit, DeliveryInit
  <2>3. att \in [Command -> {"none", "sent", "ok", "refused", "lost"}] /\ accept \in [Command -> BOOLEAN]
    BY DEF QueueInit, DeliveryInit
  <2>4. <<>> \in Seq(Nat) /\ 0 \in 0..N /\ 0 \in 0..MaxOutages /\ 0 \in 0..MaxReloads /\ 0 \in 0..0
    BY QueueNumbers
  <2> QED BY <2>1, <2>2, <2>3, <2>4 DEF QueueTyped
<1>3. NoCommandLost /\ PredictionIsShown
  BY <1>1, QueueNumbers DEF QueueInit, NoCommandLost, PredictionIsShown, Saving
<1>4. RunInOrder
  BY DEF QueueInit, DeliveryInit, RunInOrder
<1>5. OneAtATime
  BY DEF QueueInit, DeliveryInit, OneAtATime
<1>6. InTurn
  BY <1>1 DEF QueueInit, DeliveryInit, InTurn, Saving, Engaged
<1> QED BY <1>2, <1>3, <1>4, <1>5, <1>6 DEF QueueInv

\* What queueing a command makes of the queue.
LEMMA Added ==
  ASSUME QueueTyped, NEW c \in Command, c \notin Waiting, Add(c)
  PROVE  /\ entries' \in Seq(Nat) /\ Rising(entries') /\ saved' = entries'
         /\ Waiting' = Waiting \cup {c}
<1>1. c \in Nat
  BY QueueNumbers
<1>2. /\ InPlace(entries, c) \in Seq(Nat) /\ Rising(InPlace(entries, c))
      /\ ToSet(InPlace(entries, c)) = ToSet(entries) \cup {c}
  BY <1>1, AddRises DEF QueueTyped, Waiting
<1> QED BY <1>2 DEF Add, Waiting

\* What the server has run stays in order as long as it runs nothing.
LEMMA OrderStays == ASSUME RunInOrder, ran' = ran, gone \subseteq gone' PROVE RunInOrder'
BY DEF RunInOrder

\* The first entry is the command made first of those that wait.
LEMMA First ==
  ASSUME QueueTyped
  PROVE  /\ entries = <<>> <=> Waiting = {}
         /\ entries # <<>> => entries[1] \in Waiting /\ \A c \in Waiting : entries[1] <= c
<1>1. entries = <<>> => Waiting = {}
  BY EmptySet DEF Waiting
<1>2. ASSUME entries # <<>> PROVE entries[1] \in Waiting /\ \A c \in Waiting : entries[1] <= c
  <2>1. entries \in Seq(Nat) /\ Rising(entries)
    BY DEF QueueTyped
  <2>2. Len(entries) \in Nat /\ 1 \in 1..Len(entries) /\ \A i \in 1..Len(entries) : entries[i] \in Nat
    BY <1>2, <2>1
  <2>3. \A i \in 1..Len(entries) : entries[1] <= entries[i]
    BY <2>1, <2>2 DEF Rising
  <2>4. \A c : c \in Waiting <=> \E i \in 1..Len(entries) : entries[i] = c
    BY <2>1, Members DEF Waiting
  <2> QED BY <2>2, <2>3, <2>4
<1> QED BY <1>1, <1>2

LEMMA Making ==
  ASSUME QueueInv, MakeQueued
  PROVE  QueueInv'
<1> USE DEF QueueInv
<1>1. next + 1 \in Command /\ next + 1 \notin 1..next /\ next' = next + 1 /\ 1..next' = 1..next \cup {next + 1}
  BY QueueNumbers DEF MakeQueued, QueueTyped
<1>2. /\ entries' \in Seq(Nat) /\ Rising(entries') /\ saved' = entries'
      /\ Waiting' = Waiting \cup {next + 1}
  BY <1>1, Added DEF MakeQueued, QueueTyped
<1>3. QueueTyped'
  BY <1>1, <1>2, QueueNumbers DEF MakeQueued, QueueTyped, AskDrain, network
<1>4. direct = {}
  BY First DEF MakeQueued, Behind, OneAtATime
<1>5. Saving' = Saving /\ Over' = Over /\ \A d \in Command : Engaged(d)' <=> Engaged(d)
  BY DEF MakeQueued, AskDrain, network, Saving, Over, Engaged
<1>6. (NoCommandLost /\ PredictionIsShown)'
  <2>1. /\ direct' = direct /\ settled' = settled /\ gone' = gone /\ layers' = layers \cup {next + 1}
        /\ settled \subseteq 1..next /\ Saving \subseteq 1..next
    BY <1>1 DEF MakeQueued, QueueTyped, NoCommandLost
  <2>2. NoCommandLost'
    BY <1>1, <1>2, <1>5, <2>1 DEF NoCommandLost
  <2>3. PredictionIsShown'
    BY <1>1, <1>2, <1>5, <2>1 DEF PredictionIsShown
  <2> QED BY <2>2, <2>3
<1>7. RunInOrder'
  BY OrderStays DEF MakeQueued, network
<1>8. OneAtATime'
  BY <1>1, <1>2, <1>4 DEF MakeQueued, OneAtATime, AskDrain, QueueTyped
<1>9. InTurn'
  BY <1>5 DEF MakeQueued, InTurn, network
<1> QED BY <1>3, <1>6, <1>7, <1>8, <1>9

LEMMA MakingDirect ==
  ASSUME MaxDirect <= 1, QueueInv, MakeDirect
  PROVE  QueueInv'
<1> USE DEF QueueInv
<1>1. next + 1 \in Command /\ next + 1 \notin 1..next /\ next' = next + 1 /\ 1..next' = 1..next \cup {next + 1}
  BY QueueNumbers DEF MakeDirect, QueueTyped
<1>2. Waiting = {} /\ Waiting' = {} /\ run # "send"
  BY First DEF MakeDirect, Behind, OneAtATime, Waiting
<1>3. direct = {}
  <2>1. direct \subseteq 1..next /\ next \in Nat
    BY DEF QueueTyped
  <2>2. IsFiniteSet(direct)
    BY <2>1, FS_Interval, FS_Subset, 1 \in Int, next \in Int
  <2>3. Cardinality(direct) = 0
    BY <2>2, FS_CardinalityType, QueueNumbers DEF MakeDirect
  <2> QED BY <2>2, <2>3, FS_EmptySet
<1>4. QueueTyped'
  BY <1>1, <1>2, QueueNumbers DEF MakeDirect, QueueTyped, Attempt, network
<1>5. Saving' = Saving /\ Over' = Over /\ Over = 1..next
  BY <1>2, <1>3 DEF MakeDirect, Saving, Over, NoCommandLost
<1>6. (NoCommandLost /\ PredictionIsShown)'
  BY <1>1, <1>2, <1>5 DEF MakeDirect, NoCommandLost, PredictionIsShown, QueueTyped, Saving
<1>7. RunInOrder'
  BY OrderStays DEF MakeDirect, network
<1>8. OneAtATime'
  BY <1>1, <1>2, <1>3 DEF MakeDirect, OneAtATime, Attempt, QueueTyped
<1>9. InTurn'
  <2>1. ASSUME NEW d \in Command, Engaged(d)' PROVE \A c \in 1..d - 1 : c \in Over'
    <3>1. d = next + 1 \/ Engaged(d)
      BY <1>1, <2>1 DEF MakeDirect, Attempt, Engaged, network, QueueTyped
    <3>2. CASE d = next + 1
      BY <1>5, <3>2 DEF QueueTyped
    <3> QED BY <1>5, <3>1, <3>2 DEF InTurn
  <2> QED BY <1>1, <1>5, <2>1 DEF MakeDirect, InTurn, network, Attempt, QueueTyped
<1> QED BY <1>4, <1>6, <1>7, <1>8, <1>9

LEMMA Answering ==
  ASSUME QueueInv, NEW c \in Command, DirectAnswered(c)
  PROVE  QueueInv'
<1> USE DEF QueueInv
<1>1. QueueTyped'
  BY DEF DirectAnswered, QueueTyped, Taken, network, Waiting
<1>2. Saving' = Saving /\ Waiting' = Waiting /\ c \notin Waiting /\ c \notin Saving
  BY DEF DirectAnswered, Saving, Waiting, OneAtATime
<1>3. (NoCommandLost /\ PredictionIsShown)'
  BY <1>2 DEF DirectAnswered, NoCommandLost, PredictionIsShown
<1>4. RunInOrder'
  BY OrderStays DEF DirectAnswered, network
<1>5. OneAtATime'
  BY <1>2 DEF DirectAnswered, OneAtATime, Taken, QueueTyped
<1>6. InTurn'
  <2>1. Over \subseteq Over' /\ \A d \in Command : Engaged(d)' => Engaged(d)
    BY <1>2 DEF DirectAnswered, Over, Engaged, Taken, network, QueueTyped
  <2>2. c \in ToSet(ran) \/ ~accept[c]
    BY DEF DirectAnswered, InTurn
  <2> QED BY <1>2, <2>1, <2>2 DEF DirectAnswered, InTurn, Taken, network, QueueTyped
<1> QED BY <1>1, <1>3, <1>4, <1>5, <1>6

LEMMA Queueing ==
  ASSUME QueueInv, NEW c \in Command, DirectUnreachable(c)
  PROVE  QueueInv'
<1> USE DEF QueueInv
<1>1. Waiting = {} /\ c \in direct /\ run # "send" /\ c \notin Saving
  BY DEF DirectUnreachable, OneAtATime, Saving
<1>2. /\ entries' \in Seq(Nat) /\ Rising(entries') /\ saved' = entries' /\ Waiting' = {c}
  BY <1>1, Added DEF DirectUnreachable
<1>3. direct' = {}
  BY <1>1 DEF DirectUnreachable, OneAtATime
<1>4. QueueTyped'
  BY <1>1, <1>2, <1>3 DEF DirectUnreachable, QueueTyped, Taken, network
<1>5. Saving' = Saving /\ Over' = Over
  BY DEF DirectUnreachable, Saving, Over
<1>6. (NoCommandLost /\ PredictionIsShown)'
  BY <1>1, <1>2, <1>3, <1>5 DEF DirectUnreachable, NoCommandLost, PredictionIsShown, OneAtATime
<1>7. RunInOrder'
  BY OrderStays DEF DirectUnreachable, network
<1>8. OneAtATime'
  BY <1>1, <1>2, <1>3 DEF DirectUnreachable, OneAtATime, Taken, QueueTyped, Saving
<1>9. InTurn'
  <2>1. \A d \in Command : Engaged(d)' => Engaged(d)
    BY DEF DirectUnreachable, Engaged, Taken, network, QueueTyped
  <2> QED BY <1>5, <2>1 DEF DirectUnreachable, InTurn, Taken, network, QueueTyped
<1> QED BY <1>4, <1>6, <1>7, <1>8, <1>9

LEMMA Earlier ==
  ASSUME NEW h \in Nat, NEW n \in Nat, h <= n
  PROVE  1..h - 1 \subseteq 1..n /\ \A c \in 1..h - 1 : ~(h <= c)
OBVIOUS

LEMMA Sending ==
  ASSUME QueueInv, DrainNext
  PROVE  QueueInv'
<1> USE DEF QueueInv
<1>1. head' \in Waiting /\ (\A c \in Waiting : head' <= c) /\ run = "loop" /\ direct = {} /\ Saving = {} /\ Saving' = {}
  BY First DEF DrainNext, OneAtATime, Saving
<1>2. head' \in Command /\ head' \in 1..next /\ Waiting' = Waiting
  BY <1>1, QueueNumbers DEF DrainNext, QueueTyped, Waiting
<1>3. QueueTyped'
  BY <1>1, <1>2 DEF DrainNext, QueueTyped, Attempt, network
<1>4. (NoCommandLost /\ PredictionIsShown)'
  BY <1>1, <1>2 DEF DrainNext, NoCommandLost, PredictionIsShown
<1>5. RunInOrder'
  BY OrderStays DEF DrainNext, network
<1>6. OneAtATime'
  BY <1>1, <1>2 DEF DrainNext, OneAtATime, Attempt, QueueTyped
<1>7. InTurn'
  <2>1. Over' = Over
    BY <1>1 DEF DrainNext, Over
  <2>2. \A c \in 1..head' - 1 : c \in Over
    <3>0. next \in Nat /\ head' \in Nat /\ head' <= next
      <4>1. next \in 0..N
        BY DEF QueueTyped
      <4>2. next \in Nat
        BY <4>1, QueueNumbers
      <4> QED BY <1>2, <4>2
    <3>1. 1..head' - 1 \subseteq 1..next /\ \A c \in 1..head' - 1 : ~(head' <= c)
      BY <3>0, Earlier
    <3>2. 1..next = Waiting \cup Over
      BY <1>1 DEF NoCommandLost, Over
    <3> QED BY <1>1, <3>1, <3>2
  <2>3. \A d \in Command : Engaged(d)' => d = head' \/ Engaged(d)
    BY <1>2 DEF DrainNext, Engaged, Attempt, network, QueueTyped
  <2>4. \A d \in Command : Engaged(d)' => \A c \in 1..d - 1 : c \in Over'
    BY <2>1, <2>2, <2>3 DEF InTurn
  <2> QED BY <1>1, <1>2, <2>4 DEF DrainNext, InTurn, Attempt, network, QueueTyped
<1> QED BY <1>3, <1>4, <1>5, <1>6, <1>7

\* A run that ends, or begins anew, sends nothing.
LEMMA Resting ==
  ASSUME QueueInv, DrainEnds, run # "save", Saving' = {},
         UNCHANGED <<next, entries, saved, direct, layers, settled, gone, network, reloads>>,
         \A c \in Command : att'[c] = att[c] \/ att'[c] = "none",
         att' \in [Command -> {"none", "sent", "ok", "refused", "lost"}],
         \A c \in Command : att'[c] # "none" => c \in direct
  PROVE  QueueInv'
<1> USE DEF QueueInv
<1>1. Saving = {} /\ Waiting' = Waiting /\ ran' = ran /\ accept' = accept /\ stray' = stray
  BY DEF Saving, Waiting, network
<1>2. QueueTyped'
  <2>1. run' \in {"idle", "loop"} /\ again' \in BOOLEAN /\ called' \in BOOLEAN
    <3>1. called' = (called /\ entries # <<>>)
      BY DEF DrainEnds
    <3>2. called' \in BOOLEAN
      BY <3>1, Zenon
    <3> QED BY <3>2 DEF DrainEnds
  <2>2. head' = 0 /\ 0 \in 0..next
    BY QueueNumbers DEF DrainEnds, QueueTyped
  <2> QED BY <1>1, <2>1, <2>2 DEF QueueTyped, network
<1>3. (NoCommandLost /\ PredictionIsShown)'
  BY <1>1 DEF NoCommandLost, PredictionIsShown
<1>4. RunInOrder'
  BY <1>1, OrderStays
<1>5. OneAtATime'
  BY <1>1 DEF OneAtATime, DrainEnds
<1>6. InTurn'
  <2>1. Over' = Over /\ \A d \in Command : Engaged(d)' => Engaged(d)
    BY <1>1 DEF Over, Engaged
  <2> QED BY <1>1, <2>1 DEF InTurn
<1> QED BY <1>2, <1>3, <1>4, <1>5, <1>6

LEMMA DrainRests ==
  ASSUME QueueInv, DrainDone \/ DrainUnreachable
  PROVE  QueueInv'
<1>1. run # "save" /\ DrainEnds /\ UNCHANGED <<next, entries, saved, direct, layers, settled, gone, network, reloads>>
  BY DEF DrainDone, DrainUnreachable
<1>2. Saving' = {}
  BY <1>1 DEF DrainEnds, Saving
<1>3. /\ \A c \in Command : att'[c] = att[c] \/ att'[c] = "none"
      /\ att' \in [Command -> {"none", "sent", "ok", "refused", "lost"}]
      /\ \A c \in Command : att'[c] # "none" => c \in direct
  BY DEF DrainDone, DrainUnreachable, Taken, QueueInv, QueueTyped, OneAtATime
<1> QED BY <1>1, <1>2, <1>3, Resting

LEMMA TakingAnswer ==
  ASSUME QueueInv, DrainAnswered
  PROVE  QueueInv'
<1> USE DEF QueueInv
<1>1. head \in Waiting /\ (\A c \in Waiting : head <= c) /\ direct = {} /\ Saving = {} /\ Saving' = {head} /\ head' = head
  BY DEF DrainAnswered, OneAtATime, Saving
<1>2. head \in Command /\ head \in 1..next
  BY <1>1, QueueNumbers DEF QueueTyped
<1>3. entries # <<>> /\ entries[1] = head
  BY <1>1, First DEF QueueTyped
<1>4. entries' \in Seq(Nat) /\ Rising(entries') /\ saved' = entries' /\ Waiting' = Waiting \ {head}
  BY <1>3, TailRises DEF DrainAnswered, QueueTyped, Waiting
<1>5. QueueTyped'
  BY <1>2, <1>4 DEF DrainAnswered, QueueTyped, Taken, network
<1>6. (NoCommandLost /\ PredictionIsShown)'
  BY <1>1, <1>4 DEF DrainAnswered, NoCommandLost, PredictionIsShown
<1>7. RunInOrder'
  BY OrderStays DEF DrainAnswered, network
<1>8. OneAtATime'
  BY <1>1, <1>2, <1>4 DEF DrainAnswered, OneAtATime, Taken, QueueTyped
<1>9. InTurn'
  <2>1. Over \subseteq Over' /\ \A d \in Command : Engaged(d)' => Engaged(d)
    BY <1>1 DEF DrainAnswered, Over, Engaged, Taken, network, QueueTyped
  <2>2. head \in ToSet(ran) \/ ~accept[head]
    BY <1>2 DEF DrainAnswered, InTurn
  <2> QED BY <1>1, <2>1, <2>2 DEF DrainAnswered, InTurn, Taken, network, QueueTyped
<1> QED BY <1>5, <1>6, <1>7, <1>8, <1>9

LEMMA Settling ==
  ASSUME QueueInv, DrainSettles
  PROVE  QueueInv'
<1> USE DEF QueueInv
<1>1. /\ Saving = {head} /\ Saving' = {} /\ Waiting' = Waiting /\ head \notin direct /\ head \notin Waiting /\ head \in Command
      /\ head \in 1..next
  BY QueueNumbers DEF DrainSettles, OneAtATime, Saving, Waiting, QueueTyped, NoCommandLost
<1>2. QueueTyped'
  BY <1>1 DEF DrainSettles, QueueTyped, network
<1>3. (NoCommandLost /\ PredictionIsShown)'
  BY <1>1 DEF DrainSettles, NoCommandLost, PredictionIsShown
<1>4. RunInOrder'
  BY OrderStays DEF DrainSettles, network
<1>5. OneAtATime'
  BY <1>1 DEF DrainSettles, OneAtATime
<1>6. InTurn'
  <2>1. Over' = Over /\ \A d \in Command : Engaged(d)' => Engaged(d)
    BY <1>1 DEF DrainSettles, Over, Engaged, network
  <2> QED BY <1>1, <2>1 DEF DrainSettles, InTurn, network
<1> QED BY <1>2, <1>3, <1>4, <1>5, <1>6

LEMMA Reloading ==
  ASSUME QueueInv, Reload
  PROVE  QueueInv'
<1> USE DEF QueueInv
<1>1. /\ Saving' = {} /\ Waiting' = Waiting /\ Saving \cap Waiting = {} /\ settled' = settled \cup Saving
      /\ saved = entries /\ Saving \subseteq 1..next
  BY DEF Reload, OneAtATime, Saving, Waiting, QueueTyped, NoCommandLost
<1>2. QueueTyped'
  <2>1. stray' \subseteq 1..next
    BY QueueNumbers DEF Reload, Abandoned, QueueTyped, OneAtATime
  <2>2. layers' = Waiting
    BY <1>1 DEF Reload, Restored, Waiting
  <2>3. run' \in {"idle", "loop"} /\ again' \in BOOLEAN /\ called' \in BOOLEAN
    <3>1. called' = (saved # <<>> /\ reachable)
      BY DEF Reload
    <3>2. called' \in BOOLEAN
      BY <3>1, Zenon
    <3> QED BY <3>2 DEF Reload
  <2>5. head' \in 0..next /\ reloads' \in 0..MaxReloads
    BY QueueNumbers DEF Reload, QueueTyped
  <2>4. att' \in [Command -> {"none", "sent", "ok", "refused", "lost"}]
    BY DEF Reload, Abandoned, QueueTyped
  <2> QED BY <1>1, <2>1, <2>2, <2>3, <2>4, <2>5 DEF Reload, QueueTyped
<1>3. (NoCommandLost /\ PredictionIsShown)'
  BY <1>1 DEF Reload, Restored, Waiting, NoCommandLost, PredictionIsShown
<1>4. RunInOrder'
  BY OrderStays DEF Reload
<1>5. OneAtATime'
  BY <1>1 DEF Reload, OneAtATime, Abandoned
<1>6. InTurn'
  <2>1. Over \subseteq Over' /\ \A d \in Command : Engaged(d)' => Engaged(d)
    BY <1>1 DEF Reload, Over, Engaged, Abandoned
  <2> QED BY <1>1, <2>1 DEF Reload, InTurn, Abandoned
<1> QED BY <1>2, <1>3, <1>4, <1>5, <1>6

-----------------------------------------------------------------------------
(* The server and the network, to the queue                                  *)

LEMMA Ran ==
  ASSUME ran \in Seq(Nat), NEW c \in Nat, RunOnce(c)
  PROVE  /\ ran' \in Seq(Nat) /\ ToSet(ran) \subseteq ToSet(ran') /\ ToSet(ran') \subseteq ToSet(ran) \cup {c}
         /\ accept[c] => c \in ToSet(ran')
         /\ ran' = ran \/ (accept[c] /\ c \notin ToSet(ran) /\ ran' = Append(ran, c))
<1>1. Contains(ran, c) <=> c \in ToSet(ran)
  BY Members
<1>2. CASE accept[c] /\ ~Contains(ran, c)
  <2>1. ran' = Append(ran, c) /\ ran' \in Seq(Nat) /\ Len(ran') = Len(ran) + 1
    BY <1>2 DEF RunOnce
  <2>2. \A i \in 1..Len(ran) : ran'[i] = ran[i]
    BY <2>1
  <2>3. ran'[Len(ran) + 1] = c
    BY <2>1
  <2>4. Len(ran) \in Nat /\ \A i \in 1..Len(ran') : i \in 1..Len(ran) \/ i = Len(ran) + 1
    BY <2>1
  <2>5. \A x : x \in ToSet(ran) <=> \E i \in 1..Len(ran) : ran[i] = x
    BY Members
  <2>6. \A x : x \in ToSet(ran') <=> \E i \in 1..Len(ran') : ran'[i] = x
    BY <2>1, Members
  <2>7. ToSet(ran) \subseteq ToSet(ran')
    BY <2>1, <2>2, <2>4, <2>5, <2>6
  <2>8. ToSet(ran') \subseteq ToSet(ran) \cup {c}
    BY <2>2, <2>3, <2>4, <2>5, <2>6
  <2>9. c \in ToSet(ran')
    BY <2>1, <2>3, <2>4, <2>6
  <2> QED BY <1>1, <1>2, <2>1, <2>7, <2>8, <2>9
<1>3. CASE ~(accept[c] /\ ~Contains(ran, c))
  BY <1>1, <1>3 DEF RunOnce
<1> QED BY <1>2, <1>3

\* A command runs when the turn of those made before it is over: they ran, were
\* refused, or their page is gone.
LEMMA OrderGrows ==
  ASSUME RunInOrder, ran \in Seq(Nat), gone' = gone, NEW c \in Nat, ran' = Append(ran, c),
         \A d \in ToSet(ran) : c < d => c \in gone
  PROVE  RunInOrder'
<1>1. ran' \in Seq(Nat) /\ Len(ran) \in Nat /\ DOMAIN ran = 1..Len(ran) /\ DOMAIN ran' = 1..Len(ran) + 1
  OBVIOUS
<1>2. (\A i \in 1..Len(ran) : ran'[i] = ran[i]) /\ ran'[Len(ran) + 1] = c
  OBVIOUS
<1>3. \A i \in 1..Len(ran) : ran[i] \in ToSet(ran)
  BY Members
<1> SUFFICES ASSUME NEW i \in 1..Len(ran) + 1, NEW j \in 1..Len(ran) + 1, i < j, ran'[j] < ran'[i]
    PROVE ran'[j] \in gone
  BY <1>1 DEF RunInOrder
<1>4. i \in 1..Len(ran)
  BY <1>1
<1>5. CASE j = Len(ran) + 1
  BY <1>2, <1>3, <1>4, <1>5
<1>6. CASE j \in 1..Len(ran)
  BY <1>1, <1>2, <1>4, <1>6 DEF RunInOrder
<1> QED BY <1>1, <1>5, <1>6

LEMMA Running ==
  ASSUME QueueInv, NEW c \in Command, Delivers(Serve(c)) \/ Delivers(ServeStray(c))
  PROVE  QueueInv'
<1> USE DEF QueueInv
<1>1. /\ RunOnce(c) /\ Engaged(c) /\ c \in 1..next
      /\ UNCHANGED <<next, client, gone, reloads, called, accept, reachable, outages>>
  BY QueueNumbers DEF Delivers, Serve, ServeStray, Engaged, QueueTyped, OneAtATime
<1>2. /\ ran' \in Seq(Nat) /\ ToSet(ran) \subseteq ToSet(ran') /\ ToSet(ran') \subseteq ToSet(ran) \cup {c}
      /\ accept[c] => c \in ToSet(ran')
      /\ ran' = ran \/ (accept[c] /\ c \notin ToSet(ran) /\ ran' = Append(ran, c))
  BY <1>1, QueueNumbers, Ran DEF QueueTyped
<1>3. /\ att' \in [Command -> {"none", "sent", "ok", "refused", "lost"}] /\ stray' \subseteq stray
      /\ \A d \in Command : att'[d] = att[d] \/ (d = c /\ att[c] # "none" /\ att'[c] = IF accept[c] THEN "ok" ELSE "refused")
  BY DEF Delivers, Serve, ServeStray, QueueTyped
<1>4. Waiting' = Waiting /\ Saving' = Saving /\ Over' = Over
  BY <1>1 DEF client, Waiting, Saving, Over
<1>5. QueueTyped'
  BY <1>1, <1>2, <1>3, <1>4 DEF QueueTyped, client
<1>6. (NoCommandLost /\ PredictionIsShown)'
  BY <1>1, <1>4 DEF NoCommandLost, PredictionIsShown, client
<1>7. RunInOrder'
  <2>1. CASE ran' = ran
    BY <1>1, <2>1, OrderStays
  <2>2. CASE accept[c] /\ c \notin ToSet(ran) /\ ran' = Append(ran, c)
    <3>1. ASSUME NEW d \in ToSet(ran), c < d PROVE c \in gone
      <4>1. Engaged(d) /\ d \in Command /\ c \in 1..d - 1
        BY <3>1, QueueNumbers DEF Engaged, QueueTyped
      <4>2. c \in Over
        BY <4>1 DEF InTurn
      <4> QED BY <2>2, <4>2 DEF Over, InTurn
    <3> QED BY <1>1, <2>2, <3>1, QueueNumbers, OrderGrows DEF QueueTyped
  <2> QED BY <1>2, <2>1, <2>2
<1>8. OneAtATime'
  BY <1>1, <1>3, <1>4 DEF OneAtATime, client
<1>9. InTurn'
  <2>1. \A d \in Command : Engaged(d)' => Engaged(d)
    BY <1>1, <1>2, <1>3 DEF Engaged
  <2> QED BY <1>1, <1>2, <1>3, <1>4, <2>1 DEF InTurn, client
<1> QED BY <1>5, <1>6, <1>7, <1>8, <1>9

\* Whatever happens between the client and the server, and drains that are asked for.
LEMMA Around ==
  ASSUME QueueInv, UNCHANGED <<next, entries, saved, direct, head, layers, settled, gone, accept, ran, reloads>>,
         run' = run \/ (run = "idle" /\ run' = "loop"), again' \in BOOLEAN, called' \in BOOLEAN,
         reachable' \in BOOLEAN, outages' \in 0..MaxOutages, stray' \subseteq stray \cup {c \in Command : att[c] = "sent"},
         att' \in [Command -> {"none", "sent", "ok", "refused", "lost"}],
         \A c \in Command : att'[c] = att[c] \/ (att[c] # "none" /\ att'[c] = "lost")
  PROVE  QueueInv'
<1> USE DEF QueueInv
<1>1. Waiting' = Waiting /\ Saving' = Saving /\ Over' = Over
  BY DEF Waiting, Saving, Over
<1>2. stray' \subseteq 1..next
  BY QueueNumbers DEF QueueTyped, OneAtATime
<1>3. QueueTyped'
  BY <1>1, <1>2 DEF QueueTyped
<1>4. (NoCommandLost /\ PredictionIsShown)'
  BY <1>1 DEF NoCommandLost, PredictionIsShown
<1>5. RunInOrder'
  BY OrderStays
<1>6. OneAtATime'
  BY <1>1 DEF OneAtATime
<1>7. InTurn'
  <2>1. \A d \in Command : Engaged(d)' => Engaged(d)
    BY DEF Engaged
  <2> QED BY <1>1, <2>1 DEF InTurn
<1> QED BY <1>3, <1>4, <1>5, <1>6, <1>7

LEMMA QueueGoesOn ==
  ASSUME MaxDirect <= 1, QueueInv, [QueueNext]_queueVars
  PROVE  QueueInv'
<1>0. att \in [Command -> {"none", "sent", "ok", "refused", "lost"}] /\ again \in BOOLEAN /\ called \in BOOLEAN
      /\ reachable \in BOOLEAN /\ outages \in 0..MaxOutages
  BY DEF QueueInv, QueueTyped
<1>1. CASE MakeQueued
  BY <1>1, Making
<1>2. CASE MakeDirect
  BY <1>2, MakingDirect
<1>3. CASE DrainSteps
  BY <1>3, Sending, DrainRests, TakingAnswer, Settling DEF DrainSteps
<1>4. CASE AppDrains
  BY <1>0, <1>4, Around DEF AppDrains, AskDrain, network
<1>5. CASE Reload
  BY <1>5, Reloading
<1>6. CASE Outage
  <2>1. outages' \in 0..MaxOutages /\ called' \in BOOLEAN /\ reachable' \in BOOLEAN
    <3>1. outages' = outages + 1 /\ outages < MaxOutages /\ called' = FALSE /\ reachable' = FALSE
      BY <1>6 DEF Outage, GoesDown
    <3>2. outages + 1 \in 0..MaxOutages
      BY <1>0, <3>1, QueueNumbers
    <3> QED BY <3>1, <3>2
  <2> QED BY <1>0, <1>6, <2>1, Around DEF Outage, GoesDown, client
<1>7. CASE Online
  BY <1>0, <1>7, Around DEF Online, ComesBack, AskDrain
<1>8. CASE BackSilently
  BY <1>0, <1>8, Around DEF BackSilently, ComesBack, client
<1>9. ASSUME NEW c \in Command, DirectAnswered(c) PROVE QueueInv'
  BY <1>9, Answering
<1>10. ASSUME NEW c \in Command, DirectUnreachable(c) PROVE QueueInv'
  BY <1>10, Queueing
<1>11. ASSUME NEW c \in Command, Delivers(Serve(c)) \/ Delivers(ServeStray(c)) PROVE QueueInv'
  BY <1>11, Running
<1>12. ASSUME NEW c \in Command, Delivers(Lose(c)) PROVE QueueInv'
  BY <1>0, <1>12, Around DEF Delivers, Lose, client
<1>13. CASE UNCHANGED queueVars
  BY <1>0, <1>13, Around DEF queueVars, client, network
<1> QED BY <1>1, <1>2, <1>3, <1>4, <1>5, <1>6, <1>7, <1>8, <1>9, <1>10, <1>11, <1>12, <1>13 DEF QueueNext

LEMMA QueueShows == QueueInv => QueueKept
<1> SUFFICES ASSUME QueueInv PROVE QueueKept
  OBVIOUS
<1>1. DOMAIN entries = 1..Len(entries)
  BY DEF QueueInv, QueueTyped
<1>2. 1..next \subseteq Command /\ next \in Nat
  BY QueueNumbers DEF QueueInv, QueueTyped
<1>3. DeliveryOK
  BY <1>2 DEF DeliveryOK, QueueInv, QueueTyped
<1>4. QueueTypeOK
  BY <1>1, <1>2, <1>3 DEF QueueTypeOK, QueueInv, QueueTyped, Rising, Waiting
<1> QED BY <1>4 DEF QueueKept, QueueInv

\* With one command at a time outside the queue, over any outages, reloads and
\* drains: no command is lost, each shows its prediction until it is answered, and
\* the server runs them in the order they were made (offline.ts add and run;
\* client.ts command).
THEOREM OfflineCommandsKept == MaxDirect <= 1 => (QueueSpec => []QueueKept)
<1> SUFFICES ASSUME MaxDirect <= 1 PROVE QueueSpec => []QueueKept
  OBVIOUS
<1>1. QueueInit => QueueInv
  BY QueueBegins
<1>2. QueueInv /\ [QueueNext]_queueVars => QueueInv'
  BY QueueGoesOn
<1>3. QueueInv => QueueKept
  BY QueueShows
<1> QED BY <1>1, <1>2, <1>3, PTL DEF QueueSpec

-----------------------------------------------------------------------------
(* The queue of the Kotlin client                                            *)

Attempts == {"none", "sent", "ok", "refused", "lost"}
States   == {"new", "made", "adding", "direct", "waiting", "settled", "gone"}

KqTyped ==
  /\ kqNext \in 0..N /\ kqHead \in 0..kqNext /\ kqAsked \in Nat
  /\ kqEntries \in Seq(Nat) /\ Rising(kqEntries) /\ ran \in Seq(Nat)
  /\ stray \cup ToSet(ran) \subseteq Command /\ kqLayers \subseteq 1..kqNext
  /\ kqState \in [Command -> States] /\ kqBeside \in [Command -> SUBSET Command]
  /\ att \in [Command -> Attempts] /\ accept \in [Command -> BOOLEAN]
  /\ kqDrain \in {"none", "loop", "send", "remove", "settle"}
  /\ reachable \in BOOLEAN /\ outages \in 0..MaxOutages
  /\ \A c \in Command : kqState[c] = "new" <=> kqNext < c

Held    == ToSet(kqEntries)
Waits   == {c \in Command : kqState[c] = "waiting"}
Leaving == IF kqDrain = "settle" THEN {kqHead} ELSE {}
Going   == IF kqDrain \in {"remove", "settle"} THEN {kqHead} ELSE {}
Shown   == {c \in Command : kqState[c] \in {"made", "adding", "direct", "waiting"}}

\* The queue holds what waits, and the screen shows what is not answered.
KqHolds == Held = Waits \ Leaving /\ kqLayers \ Going = Shown \ Going

\* The command the drain is at waits, in the queue until it is removed.
KqAtHead ==
  /\ kqHead # 0 <=> kqDrain \in {"send", "remove", "settle"}
  /\ kqHead # 0 => kqHead \in Waits
  /\ kqDrain \in {"send", "remove"} => kqHead \in Held
  /\ \A c \in Command : att[c] # "none" => kqState[c] = "direct" \/ (kqDrain = "send" /\ kqHead = c)

\* As many drains are asked for as commands were queued, and one more.
Queued == {c \in Command : kqState[c] \in {"waiting", "settled"}}
FewAsk == kqAsked <= 1 + Cardinality(Queued)

\* What is under way beside a command that chose its way was so when it chose.
KqBesides ==
  \A d \in Command : kqState[d] \notin {"new", "made"} =>
    \A c \in 1..d - 1 : c \in OnTheirWay => c \in kqBeside[d]

Ended(c)   == kqState[c] = "settled" \/ (kqDrain = "settle" /\ kqHead = c)
Past(c, d) == c \in kqBeside[d] \/ kqState[c] = "gone" \/ Ended(c)

\* A command's turn comes when those made before it, but for the ones under way
\* beside it, have ended; and what its caller is told is so.
KqInTurn ==
  /\ \A c \in Command : att[c] = "ok" => c \in ToSet(ran)
  /\ \A c \in Command : att[c] = "refused" => ~accept[c]
  /\ \A c \in Command : Ended(c) \/ c \in Going => c \in ToSet(ran) \/ ~accept[c]
  /\ \A d \in Command : Engaged(d) => kqState[d] \notin {"new", "made"} /\ \A c \in 1..d - 1 : Past(c, d)

KqInv == KqTyped /\ KqHolds /\ KqAtHead /\ FewAsk /\ KqBesides /\ KqInTurn /\ KqInOrder

LEMMA KqNumbers == N \in Nat /\ MaxOutages \in Nat /\ Command = 1..N /\ \A c \in Command : 1..c - 1 \subseteq Command
BY KtQueueAssumption DEF Command

LEMMA KqBegins == KqInit => KqInv
<1> SUFFICES ASSUME KqInit PROVE KqInv
  OBVIOUS
<1>1. Held = {} /\ ToSet(ran) = {} /\ stray = {} /\ Waits = {} /\ Shown = {} /\ Leaving = {} /\ Going = {}
  BY EmptySet DEF KqInit, DeliveryInit, Held, Waits, Shown, Leaving, Going
<1>2. KqTyped
  <2>1. Rising(kqEntries)
    BY EmptySet DEF Rising, KqInit
  <2>2. /\ kqNext = 0 /\ kqEntries = <<>> /\ ran = <<>> /\ kqDrain = "none" /\ kqHead = 0
        /\ reachable = TRUE /\ outages = 0 /\ kqAsked = 0 /\ kqLayers = {}
    BY DEF KqInit, DeliveryInit
  <2>3. /\ att \in [Command -> Attempts] /\ accept \in [Command -> BOOLEAN] /\ kqState \in [Command -> States]
        /\ kqBeside \in [Command -> SUBSET Command] /\ \A c \in Command : kqState[c] = "new"
    BY DEF KqInit, DeliveryInit, Attempts, States
  <2>4. <<>> \in Seq(Nat) /\ 0 \in 0..N /\ 0 \in 0..MaxOutages /\ 0 \in 0..0 /\ \A c \in Command : 0 < c
    BY KqNumbers
  <2> QED BY <1>1, <2>1, <2>2, <2>3, <2>4 DEF KqTyped
<1>3. KqHolds
  BY <1>1 DEF KqHolds, KqInit
<1>4. KqAtHead
  BY DEF KqInit, DeliveryInit, KqAtHead
<1>5. FewAsk
  <2>1. Queued = {}
    BY DEF KqInit, Queued
  <2> QED BY <2>1, FS_EmptySet DEF FewAsk, KqInit
<1>6. KqBesides
  BY DEF KqInit, KqBesides
<1>7. KqInTurn
  BY <1>1 DEF KqInit, DeliveryInit, KqInTurn, Engaged, Ended
<1>8. KqInOrder
  BY DEF KqInit, DeliveryInit, KqInOrder
<1> QED BY <1>2, <1>3, <1>4, <1>5, <1>6, <1>7, <1>8 DEF KqInv

LEMMA KqOrderStays ==
  ASSUME KqTyped, KqInOrder, ran' = ran, \A x \in ToSet(ran) : kqBeside'[x] = kqBeside[x],
         \A x \in Command : kqState[x] = "gone" => kqState'[x] = "gone"
  PROVE  KqInOrder'
<1>1. \A i \in DOMAIN ran : ran[i] \in ToSet(ran)
  BY DEF ToSet
<1>2. \A i \in DOMAIN ran : ran[i] \in Command
  BY <1>1 DEF KqTyped
<1> QED BY <1>1, <1>2 DEF KqInOrder

LEMMA FewAskStays ==
  ASSUME FewAsk, kqAsked \in Nat, kqAsked' \in Nat, kqAsked' <= kqAsked \/ kqAsked' <= 1, Queued \subseteq Queued'
  PROVE  FewAsk'
<1>1. IsFiniteSet(Command)
  BY FS_Interval, KqNumbers
<1>2. IsFiniteSet(Queued')
  BY <1>1, FS_Subset DEF Queued
<1>3. Cardinality(Queued) <= Cardinality(Queued') /\ Cardinality(Queued) \in Nat /\ Cardinality(Queued') \in Nat
  BY <1>2, FS_Subset, FS_CardinalityType
<1> QED BY <1>3 DEF FewAsk

\* Where only the way of one command changes.
LEMMA KqMaking ==
  ASSUME KqInv, KqMake
  PROVE  KqInv'
<1> USE DEF KqInv
<1> DEFINE n == kqNext + 1
<1>1. n \in Command /\ n \notin 1..kqNext /\ 1..n = 1..kqNext \cup {n} /\ kqNext' = n /\ kqState[n] = "new"
  BY KqNumbers DEF KqMake, KqTyped
<1>2. /\ kqState' \in [Command -> States] /\ kqState'[n] = "made"
      /\ \A d \in Command : d # n => kqState'[d] = kqState[d]
  BY <1>1 DEF KqMake, Goes, KqTyped, States
<1>3. UNCHANGED <<kqBeside, kqEntries, kqDrain, kqHead, kqAsked, att, ran, accept, stray, reachable, outages>> /\ kqLayers' = kqLayers \cup {n}
  BY <1>1 DEF KqMake, network
<1> HIDE DEF n
<1>4. KqTyped'
  <2>1. \A c \in Command : kqState'[c] = "new" <=> n < c
    BY <1>1, <1>2, KqNumbers DEF KqTyped, n
  <2>2. kqHead' \in 0..kqNext'
    BY <1>1, <1>3, KqNumbers DEF KqTyped
  <2>3. kqLayers' \subseteq 1..kqNext' /\ kqNext' \in 0..N
    BY <1>1, <1>3, KqNumbers DEF KqTyped
  <2> QED BY <1>1, <1>2, <1>3, <2>1, <2>2, <2>3 DEF KqTyped
<1>5. Held' = Held /\ Waits' = Waits /\ Leaving' = Leaving /\ Going' = Going /\ Shown' = Shown \cup {n}
  BY <1>1, <1>2, <1>3 DEF Held, Waits, Leaving, Going, Shown
<1>6. KqHolds'
  BY <1>3, <1>5 DEF KqHolds
<1>7. KqAtHead'
  BY <1>1, <1>2, <1>3, <1>5 DEF KqAtHead
<1>8. FewAsk'
  <2>1. Queued \subseteq Queued'
    BY <1>1, <1>2 DEF Queued
  <2> QED BY <1>3, <2>1, FewAskStays DEF KqTyped
<1>9. KqBesides'
  <2>1. ASSUME NEW d \in Command, kqState'[d] \notin {"new", "made"}, NEW c \in 1..d - 1, c \in OnTheirWay' PROVE c \in kqBeside'[d]
    <3>1. d # n /\ kqState[d] \notin {"new", "made"} /\ d \in 1..kqNext
      BY <1>1, <1>2, <2>1, KqNumbers DEF KqTyped
    <3>2. c \in Command /\ c # n
      BY <1>1, <3>1, KqNumbers DEF KqTyped
    <3>3. c \in OnTheirWay
      BY <1>2, <2>1, <3>2 DEF OnTheirWay
    <3> QED BY <1>3, <3>1, <3>3 DEF KqBesides
  <2> QED BY <2>1 DEF KqBesides
<1>10. KqInTurn'
  <2>1. \A d \in Command : (Engaged(d)' <=> Engaged(d)) /\ (Ended(d)' <=> Ended(d))
    BY <1>1, <1>2, <1>3 DEF Engaged, Ended
  <2>2. \A d \in Command, c \in Command : Past(c, d) => Past(c, d)'
    BY <1>1, <1>2, <1>3, <2>1 DEF Past
  <2>3. ASSUME NEW d \in Command, Engaged(d)' PROVE kqState'[d] \notin {"new", "made"} /\ \A c \in 1..d - 1 : Past(c, d)'
    BY <1>1, <1>2, <2>1, <2>2, <2>3, KqNumbers DEF KqInTurn
  <2> QED BY <1>3, <1>5, <2>1, <2>3 DEF KqInTurn
<1>11. KqInOrder'
  BY <1>1, <1>2, <1>3, KqOrderStays
<1> QED BY <1>4, <1>6, <1>7, <1>8, <1>9, <1>10, <1>11

LEMMA KqChoosing ==
  ASSUME KqInv, NEW e \in Command, KqChoose(e)
  PROVE  KqInv'
<1> USE DEF KqInv
<1>1. /\ kqState[e] = "made" /\ kqState' \in [Command -> States] /\ kqState'[e] \in {"direct", "adding"}
      /\ \A d \in Command : d # e => kqState'[d] = kqState[d]
      /\ kqState'[e] = "direct" => kqEntries = <<>>
      /\ kqBeside' \in [Command -> SUBSET Command] /\ kqBeside'[e] = OnTheirWay \ {e}
      /\ \A d \in Command : d # e => kqBeside'[d] = kqBeside[d]
  BY DEF KqChoose, Goes, KqTyped, States, FindsNobodyWaiting, OnTheirWay
<1>2. /\ att' \in [Command -> Attempts] /\ att'[e] \in {att[e], "sent"}
      /\ (\A d \in Command : d # e => att'[d] = att[d])
      /\ kqState'[e] # "direct" => att' = att
      /\ UNCHANGED <<kqNext, kqEntries, kqDrain, kqHead, kqAsked, kqLayers, ran, accept, stray, reachable, outages>>
  BY DEF KqChoose, Goes, Attempt, KqTyped, Attempts, kqQueue, network
<1>3. KqTyped'
  BY <1>1, <1>2 DEF KqTyped
<1>4. Held' = Held /\ Waits' = Waits /\ Leaving' = Leaving /\ Going' = Going /\ Shown' = Shown /\ OnTheirWay' = OnTheirWay
  BY <1>1, <1>2 DEF Held, Waits, Leaving, Going, Shown, OnTheirWay
<1>5. KqHolds'
  BY <1>2, <1>4 DEF KqHolds
<1>6. KqAtHead'
  <2>1. att[e] = "none"
    BY <1>1 DEF KqAtHead, Waits
  <2>2. \A d \in Command : att'[d] # "none" => kqState'[d] = "direct" \/ (kqDrain' = "send" /\ kqHead' = d)
    BY <1>1, <1>2, <2>1 DEF KqAtHead
  <2> QED BY <1>2, <1>4, <2>2 DEF KqAtHead
<1>7. FewAsk'
  <2>1. Queued \subseteq Queued'
    BY <1>1 DEF Queued
  <2> QED BY <1>2, <2>1, FewAskStays DEF KqTyped
<1>8. KqBesides'
  <2>1. ASSUME NEW d \in Command, kqState'[d] \notin {"new", "made"}, NEW c \in 1..d - 1, c \in OnTheirWay' PROVE c \in kqBeside'[d]
    <3>1. CASE d = e
      BY <1>1, <1>4, <2>1, <3>1
    <3>2. CASE d # e
      BY <1>1, <1>4, <2>1, <3>2 DEF KqBesides
    <3> QED BY <3>1, <3>2
  <2> QED BY <2>1 DEF KqBesides
<1>9. KqInTurn'
  <2>0. ~Engaged(e)
    BY <1>1 DEF KqInTurn
  <2>1. \A d \in Command : d # e => (Engaged(d)' <=> Engaged(d)) /\ (Ended(d)' <=> Ended(d))
    BY <1>1, <1>2 DEF Engaged, Ended
  <2>2. Ended(e)' <=> Ended(e)
    BY <1>1, <1>2 DEF Ended, KqAtHead, Waits
  <2>3. ASSUME NEW d \in Command, Engaged(d)', d # e PROVE kqState'[d] \notin {"new", "made"} /\ \A c \in 1..d - 1 : Past(c, d)'
    BY <1>1, <1>2, <2>1, <2>2, <2>3, KqNumbers DEF KqInTurn, Past
  <2>4. ASSUME Engaged(e)', NEW c \in 1..e - 1 PROVE Past(c, e)'
    <3>0. att'[e] # "none" /\ att[e] = "none"
      BY <1>2, <2>0, <2>4 DEF Engaged
    <3>1. kqState'[e] = "direct" /\ Held = {}
      <4>1. kqState'[e] = "direct"
        BY <1>2, <3>0
      <4>2. kqEntries = <<>>
        BY <1>1, <4>1, Zenon
      <4>3. Held = {}
        BY <4>2, EmptySet DEF Held
      <4> QED BY <4>1, <4>3
    <3>2. c \in Command /\ kqState[c] # "new" /\ c # e
      <4>1. e \in Command /\ e \in 1..N /\ N \in Nat /\ c \in 1..e - 1 /\ 1..e - 1 \subseteq Command
        BY KqNumbers
      <4>2. c \in Command /\ c \in Nat /\ e \in Nat /\ c < e /\ kqNext \in Nat
        BY <4>1, KqNumbers DEF KqTyped
      <4>3. ~(kqNext < e)
        BY <1>1 DEF KqTyped
      <4>4. ~(kqNext < c)
        BY <4>2, <4>3
      <4> QED BY <4>2, <4>4 DEF KqTyped
    <3>3. c \in Waits => Ended(c)
      BY <3>1 DEF KqHolds, Leaving, Ended
    <3>4. kqState[c] \in States
      BY <3>2 DEF KqTyped
    <3>5. kqState[c] \in {"made", "adding", "direct"} => c \in kqBeside'[e]
      BY <1>1, <3>2 DEF OnTheirWay
    <3> QED BY <1>1, <2>1, <3>2, <3>3, <3>4, <3>5 DEF Past, Waits, Ended, States
  <2>5. \A d \in Command : Engaged(d)' => kqState'[d] \notin {"new", "made"} /\ \A c \in 1..d - 1 : Past(c, d)'
    BY <1>1, <2>3, <2>4
  <2>6. \A d \in Command : att'[d] \in {"ok", "refused"} => att'[d] = att[d]
    BY <1>2
  <2> QED BY <1>2, <1>4, <2>1, <2>2, <2>5, <2>6 DEF KqInTurn
<1>10. KqInOrder'
  <2>1. e \notin ToSet(ran)
    BY <1>1 DEF KqInTurn, Engaged
  <2>2. \A x \in ToSet(ran) : kqBeside'[x] = kqBeside[x]
    BY <1>1, <2>1 DEF KqTyped
  <2> QED BY <1>1, <1>2, <2>2, KqOrderStays
<1> QED BY <1>3, <1>5, <1>6, <1>7, <1>8, <1>9, <1>10

\* Where a command leaves its own way.
LEMMA KqLeaving ==
  ASSUME KqInv, NEW e \in Command, kqState[e] \in {"adding", "direct"},
         kqState' \in [Command -> States], kqState'[e] \in {"waiting", "settled", "gone"},
         \A d \in Command : d # e => kqState'[d] = kqState[d],
         att' \in [Command -> Attempts], att'[e] = "none", \A d \in Command : d # e => att'[d] = att[d],
         stray' \subseteq stray \cup {d \in Command : att[d] = "sent"},
         kqState'[e] = "settled" => e \in ToSet(ran) \/ ~accept[e],
         UNCHANGED <<kqNext, kqBeside, kqDrain, kqHead, ran, accept, reachable, outages>>
  PROVE  KqBesides' /\ KqInTurn' /\ KqInOrder' /\ stray' \subseteq Command
<1> USE DEF KqInv
<1>1. KqBesides'
  <2>1. OnTheirWay' \subseteq OnTheirWay
    BY DEF OnTheirWay
  <2> QED BY <2>1 DEF KqBesides
<1>2. \A d \in Command : (Engaged(d)' => Engaged(d)) /\ (Ended(d) => Ended(d)')
  BY DEF Engaged, Ended
<1>3. KqInTurn'
  <2>1. \A d \in Command, c \in Command : Past(c, d) => Past(c, d)'
    BY <1>2 DEF Past
  <2>2. ASSUME NEW d \in Command, Engaged(d)' PROVE kqState'[d] \notin {"new", "made"} /\ \A c \in 1..d - 1 : Past(c, d)'
    BY <1>2, <2>1, <2>2, KqNumbers DEF KqInTurn
  <2>3. Going' = Going
    BY DEF Going
  <2>4. ASSUME NEW c \in Command, Ended(c)' \/ c \in Going' PROVE c \in ToSet(ran) \/ ~accept[c]
    BY <2>3, <2>4 DEF KqInTurn, Ended
  <2>5. \A d \in Command : att'[d] \in {"ok", "refused"} => att'[d] = att[d]
    OBVIOUS
  <2> QED BY <2>2, <2>4, <2>5 DEF KqInTurn
<1>4. KqInOrder'
  BY KqOrderStays
<1>5. stray' \subseteq Command
  BY DEF KqTyped
<1> QED BY <1>1, <1>3, <1>4, <1>5

\* What queueing a command makes of the queue.
LEMMA KqAdded ==
  ASSUME KqTyped, KqHolds, KqAtHead, NEW e \in Command, kqState[e] \in {"adding", "direct"},
         kqEntries' = InItsPlace(kqEntries, e)
  PROVE  /\ kqEntries' \in Seq(Nat) /\ Rising(kqEntries')
         /\ Held' = Held \cup {e}
<1>0. InItsPlace(kqEntries, e) = InPlace(kqEntries, e)
  BY Zenon DEF InItsPlace, InPlace
<1>1. e \in Nat /\ kqEntries' = InPlace(kqEntries, e)
  BY <1>0, KqNumbers
<1>2. e \notin Held
  BY DEF KqHolds, Waits
<1> QED BY <1>1, <1>2, AddRises DEF KqTyped, Held

LEMMA KqQueueing ==
  ASSUME KqInv, NEW e \in Command, KqAdd(e) \/ KqUnreachable(e)
  PROVE  KqInv'
<1> USE DEF KqInv
<1>1. /\ kqState[e] \in {"adding", "direct"} /\ kqState' \in [Command -> States] /\ kqState'[e] = "waiting"
      /\ \A d \in Command : d # e => kqState'[d] = kqState[d]
  BY DEF KqAdd, KqUnreachable, Goes, KqTyped, States
<1>2. /\ UNCHANGED <<kqNext, kqBeside, kqDrain, kqHead, kqLayers, ran, accept, stray, reachable, outages>>
      /\ kqEntries' = InItsPlace(kqEntries, e) /\ kqAsked' \in {kqAsked, kqAsked + 1}
  BY DEF KqAdd, KqUnreachable, network
<1>3. att' \in [Command -> Attempts] /\ att'[e] = "none" /\ \A d \in Command : d # e => att'[d] = att[d]
  <2>1. kqState[e] = "adding" => att[e] = "none"
    BY DEF KqAtHead, Waits
  <2> QED BY <2>1 DEF KqAdd, KqUnreachable, Taken, KqTyped, Attempts
<1>4. kqEntries' \in Seq(Nat) /\ Rising(kqEntries') /\ Held' = Held \cup {e}
  BY <1>1, <1>2, KqAdded
<1>5. e # kqHead /\ kqAsked \in Nat
  BY <1>1, KqNumbers DEF KqAtHead, Waits, KqTyped
<1>6. KqTyped'
  BY <1>1, <1>2, <1>3, <1>4, <1>5 DEF KqTyped
<1>7. /\ Waits' = Waits \cup {e} /\ Leaving' = Leaving /\ Going' = Going /\ Shown' = Shown
      /\ e \notin Waits /\ e \notin Leaving /\ Queued' = Queued \cup {e} /\ e \notin Queued
  BY <1>1, <1>2, <1>5 DEF Waits, Leaving, Going, Shown, Queued
<1>8. KqHolds'
  BY <1>2, <1>4, <1>7 DEF KqHolds
<1>9. KqAtHead'
  BY <1>1, <1>2, <1>3, <1>4, <1>7 DEF KqAtHead
<1>10. FewAsk'
  <2>1. IsFiniteSet(Queued)
    BY FS_Interval, FS_Subset, KqNumbers DEF Queued
  <2>2. Cardinality(Queued') = Cardinality(Queued) + 1 /\ Cardinality(Queued) \in Nat
    BY <1>7, <2>1, FS_AddElement, FS_CardinalityType
  <2> QED BY <1>2, <1>5, <2>2 DEF FewAsk
<1>11. KqBesides' /\ KqInTurn' /\ KqInOrder'
  BY <1>1, <1>2, <1>3, KqLeaving
<1> QED BY <1>6, <1>8, <1>9, <1>10, <1>11

LEMMA KqEnding ==
  ASSUME KqInv, NEW e \in Command, KqAnswered(e) \/ KqCancelled(e)
  PROVE  KqInv'
<1> USE DEF KqInv
<1>1. /\ kqState[e] = "direct" /\ kqState' \in [Command -> States] /\ kqState'[e] \in {"settled", "gone"}
      /\ \A d \in Command : d # e => kqState'[d] = kqState[d]
  BY DEF KqAnswered, KqCancelled, Goes, KqTyped, States
<1>2. /\ UNCHANGED <<kqNext, kqBeside, kqEntries, kqDrain, kqHead, kqAsked, ran, accept, reachable, outages>>
      /\ kqLayers' = kqLayers \ {e} /\ stray' \subseteq stray \cup {d \in Command : att[d] = "sent"}
  BY DEF KqAnswered, KqCancelled, Abandoned, network
<1>3. att' \in [Command -> Attempts] /\ att'[e] = "none" /\ \A d \in Command : d # e => att'[d] = att[d]
  BY DEF KqAnswered, KqCancelled, Taken, Abandoned, KqTyped, Attempts
<1>4. kqState'[e] = "settled" => e \in ToSet(ran) \/ ~accept[e]
  BY DEF KqAnswered, KqCancelled, Goes, KqTyped, KqInTurn
<1>5. KqBesides' /\ KqInTurn' /\ KqInOrder' /\ stray' \subseteq Command
  BY <1>1, <1>2, <1>3, <1>4, KqLeaving
<1>6. KqTyped'
  BY <1>1, <1>2, <1>3, <1>5 DEF KqTyped
<1>7. /\ Held' = Held /\ Waits' = Waits /\ Leaving' = Leaving /\ Going' = Going /\ Shown' = Shown \ {e}
      /\ Queued \subseteq Queued'
  BY <1>1, <1>2 DEF Held, Waits, Leaving, Going, Shown, Queued
<1>8. KqHolds'
  BY <1>2, <1>7 DEF KqHolds
<1>9. KqAtHead'
  BY <1>1, <1>2, <1>3, <1>7 DEF KqAtHead
<1>10. FewAsk'
  BY <1>2, <1>7, FewAskStays DEF KqTyped
<1> QED BY <1>5, <1>6, <1>8, <1>9, <1>10

\* Where the network, the callers that ask and the drain itself leave the queue alone.
LEMMA KqRests ==
  ASSUME KqInv,
         UNCHANGED <<kqNext, kqState, kqBeside, kqEntries, kqLayers, accept, ran>>,
         \/ kqDrain' = kqDrain /\ kqHead' = kqHead
         \/ kqDrain \in {"none", "loop", "send"} /\ kqDrain' \in {"none", "loop"} /\ kqHead' = 0,
         kqAsked' \in Nat, kqAsked' <= kqAsked \/ kqAsked' <= 1,
         att' \in [Command -> Attempts],
         \A c \in Command : att'[c] \in {"none", "lost", att[c]},
         \A c \in Command : att'[c] # "none" =>
           att[c] # "none" /\ (kqDrain = "send" /\ kqHead = c => kqDrain' = kqDrain /\ kqHead' = kqHead),
         stray' \subseteq stray \cup {c \in Command : att[c] = "sent"},
         reachable' \in BOOLEAN, outages' \in 0..MaxOutages
  PROVE  KqInv'
<1> USE DEF KqInv
<1>1. /\ Held' = Held /\ Waits' = Waits /\ Leaving' = Leaving /\ Going' = Going /\ Shown' = Shown
      /\ OnTheirWay' = OnTheirWay /\ Queued' = Queued
  BY DEF Held, Waits, Leaving, Going, Shown, OnTheirWay, Queued
<1>2. KqTyped'
  <2>1. kqHead' \in 0..kqNext' /\ kqDrain' \in {"none", "loop", "send", "remove", "settle"}
    BY KqNumbers DEF KqTyped
  <2> QED BY <2>1 DEF KqTyped
<1>3. KqHolds'
  BY <1>1 DEF KqHolds
<1>4. KqAtHead'
  <2>1. \A c \in Command : att'[c] # "none" => kqState'[c] = "direct" \/ (kqDrain' = "send" /\ kqHead' = c)
    BY DEF KqAtHead
  <2> QED BY <1>1, <2>1 DEF KqAtHead
<1>5. FewAsk'
  BY <1>1, FewAskStays DEF KqTyped
<1>6. KqBesides'
  BY <1>1 DEF KqBesides
<1>7. KqInTurn'
  <2>1. \A d \in Command : (Engaged(d)' => Engaged(d)) /\ (Ended(d)' <=> Ended(d))
    BY DEF Engaged, Ended
  <2>2. \A d \in Command, c \in Command : Past(c, d) => Past(c, d)'
    BY <2>1 DEF Past
  <2>3. ASSUME NEW d \in Command, Engaged(d)' PROVE kqState'[d] \notin {"new", "made"} /\ \A c \in 1..d - 1 : Past(c, d)'
    BY <2>1, <2>2, <2>3, KqNumbers DEF KqInTurn
  <2>4. \A d \in Command : att'[d] \in {"ok", "refused"} => att'[d] = att[d]
    OBVIOUS
  <2> QED BY <1>1, <2>1, <2>3, <2>4 DEF KqInTurn
<1>8. KqInOrder'
  BY KqOrderStays
<1> QED BY <1>2, <1>3, <1>4, <1>5, <1>6, <1>7, <1>8

LEMMA KqResting ==
  ASSUME KqInv,
         \/ KqAsk \/ KqLock \/ KqDrained \/ KqStillOffline \/ KqDrainCancelled
         \/ KqDelivers(GoesDown) \/ KqDelivers(ComesBack) \/ UNCHANGED kqVars
         \/ \E c \in Command : KqDelivers(Lose(c))
  PROVE  KqInv'
<1> USE DEF KqInv
<1>0. /\ kqAsked \in Nat /\ att \in [Command -> Attempts] /\ reachable \in BOOLEAN /\ outages \in 0..MaxOutages
      /\ kqNext \in Nat /\ kqHead \in 0..kqNext
      /\ kqHead # 0 <=> kqDrain \in {"send", "remove", "settle"}
      /\ \A c \in Command : att[c] # "none" => kqState[c] = "direct" \/ (kqDrain = "send" /\ kqHead = c)
  BY KqNumbers DEF KqTyped, KqAtHead
<1>1. CASE KqAsk
  BY <1>0, <1>1, KqRests DEF KqAsk, kqCalls, network
<1>2. CASE KqLock
  <2>1. kqAsked' \in Nat /\ kqAsked' <= kqAsked
    BY <1>0, <1>2 DEF KqLock
  <2>2. kqDrain = "none" /\ kqDrain' = "loop" /\ kqHead' = 0
    BY <1>0, <1>2 DEF KqLock
  <2> QED BY <1>0, <1>2, <2>1, <2>2, KqRests DEF KqLock, kqCalls, network
<1>3. CASE KqDrained
  BY <1>0, <1>3, KqRests DEF KqDrained, Unlock, kqCalls, network
<1>4. CASE KqStillOffline
  <2>1. att' \in [Command -> Attempts] /\ \A c \in Command : att'[c] = IF c = kqHead THEN "none" ELSE att[c]
    <3>1. kqHead \in Command /\ "none" \in Attempts
      BY <1>0, <1>4 DEF KqStillOffline, KqAtHead, Waits, Attempts
    <3> QED BY <1>0, <1>4, <3>1 DEF KqStillOffline, Taken
  <2> QED BY <1>0, <1>4, <2>1, KqRests DEF KqStillOffline, Unlock, kqCalls, network
<1>5. CASE KqDrainCancelled
  <2>1. /\ att' \in [Command -> Attempts] /\ \A c \in Command : att'[c] = IF c = kqHead THEN "none" ELSE att[c]
        /\ stray' \subseteq stray \cup {c \in Command : att[c] = "sent"}
    <3>1. kqHead \in Command
      BY <1>0, <1>5 DEF KqDrainCancelled, KqAtHead, Waits
    <3> QED BY <1>0, <1>5, <3>1 DEF KqDrainCancelled, Abandoned, Attempts
  <2> QED BY <1>0, <1>5, <2>1, KqRests DEF KqDrainCancelled, Unlock, kqCalls
<1>6. CASE KqDelivers(GoesDown)
  <2>1. reachable' \in BOOLEAN /\ outages' \in 0..MaxOutages
    <3>1. outages' = outages + 1 /\ outages < MaxOutages /\ reachable' = FALSE
      BY <1>6 DEF KqDelivers, GoesDown
    <3>2. outages + 1 \in 0..MaxOutages
      BY <1>0, <3>1, KqNumbers
    <3> QED BY <3>1, <3>2
  <2> QED BY <1>0, <1>6, <2>1, KqRests DEF KqDelivers, GoesDown, kqCalls, kqQueue
<1>7. CASE KqDelivers(ComesBack)
  BY <1>0, <1>7, KqRests DEF KqDelivers, ComesBack, kqCalls, kqQueue
<1>8. CASE UNCHANGED kqVars
  BY <1>0, <1>8, KqRests DEF kqVars, kqCalls, kqQueue, network
<1>9. ASSUME NEW c \in Command, KqDelivers(Lose(c)) PROVE KqInv'
  BY <1>0, <1>9, KqRests DEF KqDelivers, Lose, kqCalls, kqQueue, Attempts
<1> QED BY <1>1, <1>2, <1>3, <1>4, <1>5, <1>6, <1>7, <1>8, <1>9

\* The first entry is the command made first of those held.
LEMMA KqFirst ==
  ASSUME KqTyped, kqEntries # <<>>
  PROVE  kqEntries[1] \in Held /\ \A c \in Held : kqEntries[1] <= c
<1>1. kqEntries \in Seq(Nat) /\ Rising(kqEntries)
  BY DEF KqTyped
<1>2. Len(kqEntries) \in Nat /\ 1 \in 1..Len(kqEntries) /\ \A i \in 1..Len(kqEntries) : kqEntries[i] \in Nat
  BY <1>1
<1>3. \A i \in 1..Len(kqEntries) : kqEntries[1] <= kqEntries[i]
  BY <1>1, <1>2 DEF Rising
<1>4. \A c : c \in Held <=> \E i \in 1..Len(kqEntries) : kqEntries[i] = c
  BY <1>1, Members DEF Held
<1> QED BY <1>2, <1>3, <1>4

\* Whoever is made before a command that is made is made too.
LEMMA KqMadeBefore ==
  ASSUME KqTyped, NEW d \in Command, kqState[d] # "new", NEW c \in 1..d - 1
  PROVE  c \in Command /\ c \in Nat /\ d \in Nat /\ c < d /\ kqState[c] \in States \ {"new"}
<1>1. d \in 1..N /\ N \in Nat /\ 1..d - 1 \subseteq Command
  BY KqNumbers
<1>2. c \in Command /\ c \in Nat /\ d \in Nat /\ c < d /\ kqNext \in Nat
  BY <1>1, KqNumbers DEF KqTyped
<1>3. ~(kqNext < d)
  BY DEF KqTyped
<1>4. ~(kqNext < c)
  BY <1>2, <1>3
<1> QED BY <1>2, <1>4 DEF KqTyped

LEMMA KqSending ==
  ASSUME KqInv, KqSend
  PROVE  KqInv'
<1> USE DEF KqInv
<1>0. PICK e \in Held : e = kqEntries[1] /\ \A c \in Held : e <= c
  BY KqFirst DEF KqSend
<1>1. /\ kqDrain = "loop" /\ kqDrain' = "send" /\ kqHead' = e /\ kqHead = 0 /\ e \in Held
      /\ \A c \in Held : e <= c
  BY <1>0 DEF KqSend, KqAtHead
<1>2. e \in Command /\ kqState[e] = "waiting" /\ e \in 1..kqNext /\ Held = Waits
  <2>1. Held = Waits
    BY <1>1 DEF KqHolds, Leaving
  <2>2. e \in Command /\ kqState[e] = "waiting"
    BY <1>1, <2>1 DEF Waits
  <2>3. e \in 1..N /\ kqNext \in 0..N /\ ~(kqNext < e)
    BY <2>2, KqNumbers DEF KqTyped
  <2>4. e \in 1..kqNext
    BY <2>3, KqNumbers
  <2> QED BY <2>1, <2>2, <2>4
<1>3. /\ att' \in [Command -> Attempts] /\ att'[e] = "sent" /\ (\A c \in Command : c # e => att'[c] = att[c])
      /\ UNCHANGED <<kqNext, kqState, kqBeside, kqEntries, kqAsked, kqLayers, ran, accept, stray, reachable, outages>>
  BY <1>1, <1>2 DEF KqSend, Attempt, KqTyped, Attempts, kqCalls, network
<1>4. /\ Held' = Held /\ Waits' = Waits /\ Leaving' = Leaving /\ Going' = Going /\ Shown' = Shown
      /\ OnTheirWay' = OnTheirWay /\ Queued' = Queued
  BY <1>1, <1>3 DEF Held, Waits, Leaving, Going, Shown, OnTheirWay, Queued
<1>5. KqTyped'
  <2>1. kqHead' \in 0..kqNext'
    BY <1>1, <1>2, <1>3, KqNumbers DEF KqTyped
  <2> QED BY <1>1, <1>3, <2>1 DEF KqTyped
<1>6. KqHolds'
  BY <1>3, <1>4 DEF KqHolds
<1>7. KqAtHead'
  <2>1. \A c \in Command : att'[c] # "none" => kqState'[c] = "direct" \/ (kqDrain' = "send" /\ kqHead' = c)
    BY <1>1, <1>3 DEF KqAtHead
  <2>2. e # 0
    BY <1>2, KqNumbers
  <2> QED BY <1>1, <1>2, <1>4, <2>1, <2>2 DEF KqAtHead
<1>8. FewAsk'
  BY <1>3, <1>4 DEF FewAsk
<1>9. KqBesides'
  BY <1>3, <1>4 DEF KqBesides
<1>10. KqInTurn'
  <2>1. \A d \in Command : (d # e /\ Engaged(d)' => Engaged(d)) /\ (Ended(d)' <=> Ended(d))
    BY <1>1, <1>3 DEF Engaged, Ended
  <2>2. \A d \in Command, c \in Command : Past(c, d) => Past(c, d)'
    BY <1>3, <2>1 DEF Past
  <2>3. ASSUME NEW d \in Command, d # e, Engaged(d)' PROVE kqState'[d] \notin {"new", "made"} /\ \A c \in 1..d - 1 : Past(c, d)'
    BY <1>3, <2>1, <2>2, <2>3, KqNumbers DEF KqInTurn
  <2>4. ASSUME NEW c \in 1..e - 1 PROVE Past(c, e)
    <3>1. c \in Command /\ c < e /\ c \in Nat /\ e \in Nat /\ kqState[c] \in States \ {"new"}
      BY <1>2, KqMadeBefore
    <3>2. c \notin Held
      BY <1>1, <3>1
    <3>3. c \in OnTheirWay => c \in kqBeside[e]
      BY <1>2 DEF KqBesides
    <3> QED BY <1>2, <3>1, <3>2, <3>3 DEF Past, Ended, OnTheirWay, Waits, States
  <2>5. \A c \in 1..e - 1 : Past(c, e)'
    BY <1>2, <2>2, <2>4, KqNumbers
  <2>6. ASSUME NEW d \in Command, Engaged(d)' PROVE kqState'[d] \notin {"new", "made"} /\ \A c \in 1..d - 1 : Past(c, d)'
    <3>1. CASE d = e
      BY <1>2, <1>3, <2>5, <3>1
    <3> QED BY <2>3, <2>6, <3>1
  <2>7. \A d \in Command : att'[d] \in {"ok", "refused"} => att'[d] = att[d]
    BY <1>3
  <2> QED BY <1>3, <1>4, <2>1, <2>6, <2>7 DEF KqInTurn
<1>11. KqInOrder'
  BY <1>3, KqOrderStays
<1> QED BY <1>5, <1>6, <1>7, <1>8, <1>9, <1>10, <1>11

\* Where the drain goes on with an entry that was answered.
LEMMA KqTaking ==
  ASSUME KqInv, KqDrainAnswered
  PROVE  KqInv'
<1> USE DEF KqInv
<1>1. /\ kqDrain = "send" /\ kqDrain' = "remove" /\ kqHead' = kqHead /\ att[kqHead] \in {"ok", "refused"}
      /\ UNCHANGED <<kqNext, kqState, kqBeside, kqEntries, kqAsked, ran, accept, stray, reachable, outages>>
      /\ kqLayers' \in {kqLayers, kqLayers \ {kqHead}}
  BY DEF KqDrainAnswered, kqCalls, network
<1>2. kqHead \in Command /\ kqState[kqHead] = "waiting"
  BY <1>1 DEF KqAtHead, Waits
<1>3. att' \in [Command -> Attempts] /\ att'[kqHead] = "none" /\ \A c \in Command : c # kqHead => att'[c] = att[c]
  BY <1>2 DEF KqDrainAnswered, Taken, KqTyped, Attempts
<1>4. /\ Held' = Held /\ Waits' = Waits /\ Leaving' = Leaving /\ Going' = {kqHead} /\ Going = {} /\ Shown' = Shown
      /\ OnTheirWay' = OnTheirWay /\ Queued' = Queued
  BY <1>1 DEF Held, Waits, Leaving, Going, Shown, OnTheirWay, Queued
<1>5. KqTyped'
  BY <1>1, <1>3 DEF KqTyped
<1>6. KqHolds'
  BY <1>1, <1>4 DEF KqHolds
<1>7. KqAtHead'
  BY <1>1, <1>3, <1>4 DEF KqAtHead
<1>8. FewAsk'
  BY <1>1, <1>4 DEF FewAsk
<1>9. KqBesides'
  BY <1>1, <1>4 DEF KqBesides
<1>10. KqInTurn'
  <2>1. \A d \in Command : (Engaged(d)' => Engaged(d)) /\ (Ended(d)' <=> Ended(d))
    BY <1>1, <1>3 DEF Engaged, Ended
  <2>2. \A d \in Command, c \in Command : Past(c, d) => Past(c, d)'
    BY <1>1, <2>1 DEF Past
  <2>3. ASSUME NEW d \in Command, Engaged(d)' PROVE kqState'[d] \notin {"new", "made"} /\ \A c \in 1..d - 1 : Past(c, d)'
    BY <1>1, <2>1, <2>2, <2>3, KqNumbers DEF KqInTurn
  <2>4. \A d \in Command : att'[d] \in {"ok", "refused"} => att'[d] = att[d]
    BY <1>3
  <2>5. kqHead \in ToSet(ran) \/ ~accept[kqHead]
    BY <1>1, <1>2 DEF KqInTurn
  <2> QED BY <1>1, <1>4, <2>1, <2>3, <2>4, <2>5 DEF KqInTurn
<1>11. KqInOrder'
  BY <1>1, KqOrderStays
<1> QED BY <1>5, <1>6, <1>7, <1>8, <1>9, <1>10, <1>11

LEMMA KqRemoving ==
  ASSUME KqInv, KqRemove
  PROVE  KqInv'
<1> USE DEF KqInv
<1>1. /\ kqDrain = "remove" /\ kqDrain' = "settle" /\ kqHead' = kqHead /\ kqEntries' = RemoveFirst(kqEntries, kqHead)
      /\ UNCHANGED <<kqNext, kqState, kqBeside, kqAsked, kqLayers, att, ran, accept, stray, reachable, outages>>
  BY DEF KqRemove, kqCalls, network
<1>2. kqHead \in Command /\ kqState[kqHead] = "waiting" /\ kqHead \in Held
  BY <1>1 DEF KqAtHead, Waits
<1>3. kqEntries' \in Seq(Nat) /\ Rising(kqEntries') /\ Held' = Held \ {kqHead}
  BY <1>1, <1>2, RemoveRises DEF KqTyped, Held
<1>4. /\ Waits' = Waits /\ Leaving' = {kqHead} /\ Leaving = {} /\ Going' = Going /\ Shown' = Shown
      /\ OnTheirWay' = OnTheirWay /\ Queued' = Queued
  BY <1>1 DEF Waits, Leaving, Going, Shown, OnTheirWay, Queued
<1>5. KqTyped'
  BY <1>1, <1>3 DEF KqTyped
<1>6. KqHolds'
  BY <1>1, <1>3, <1>4 DEF KqHolds
<1>7. KqAtHead'
  BY <1>1, <1>2, <1>4 DEF KqAtHead
<1>8. FewAsk'
  BY <1>1, <1>4 DEF FewAsk
<1>9. KqBesides'
  BY <1>1, <1>4 DEF KqBesides
<1>10. KqInTurn'
  <2>1. \A d \in Command : (Engaged(d)' <=> Engaged(d)) /\ (Ended(d) => Ended(d)') /\ (Ended(d)' => Ended(d) \/ d \in Going)
    BY <1>1 DEF Engaged, Ended, Going
  <2>2. \A d \in Command, c \in Command : Past(c, d) => Past(c, d)'
    BY <1>1, <2>1 DEF Past
  <2>3. ASSUME NEW d \in Command, Engaged(d)' PROVE kqState'[d] \notin {"new", "made"} /\ \A c \in 1..d - 1 : Past(c, d)'
    BY <1>1, <2>1, <2>2, <2>3, KqNumbers DEF KqInTurn
  <2> QED BY <1>1, <1>4, <2>1, <2>3 DEF KqInTurn
<1>11. KqInOrder'
  BY <1>1, KqOrderStays
<1> QED BY <1>5, <1>6, <1>7, <1>8, <1>9, <1>10, <1>11

LEMMA KqSettling ==
  ASSUME KqInv, KqSettle
  PROVE  KqInv'
<1> USE DEF KqInv
<1> DEFINE e == kqHead
<1>1. /\ kqDrain = "settle" /\ kqDrain' = "loop" /\ kqHead' = 0 /\ kqLayers' = kqLayers \ {e}
      /\ UNCHANGED <<kqNext, kqBeside, kqEntries, kqAsked, att, ran, accept, stray, reachable, outages>>
  BY DEF KqSettle, network
<1>2. e \in Command /\ kqState[e] = "waiting"
  BY <1>1 DEF KqAtHead, Waits
<1>3. kqState' \in [Command -> States] /\ kqState'[e] = "settled" /\ \A c \in Command : c # e => kqState'[c] = kqState[c]
  BY <1>2 DEF KqSettle, Goes, KqTyped, States
<1>4. /\ Held' = Held /\ Waits' = Waits \ {e} /\ Leaving = {e} /\ Leaving' = {} /\ Going = {e} /\ Going' = {}
      /\ Shown' = Shown \ {e} /\ OnTheirWay' = OnTheirWay /\ Queued' = Queued
  BY <1>1, <1>2, <1>3 DEF Held, Waits, Leaving, Going, Shown, OnTheirWay, Queued
<1>5. KqTyped'
  <2>1. kqHead' \in 0..kqNext' /\ kqDrain' \in {"none", "loop", "send", "remove", "settle"} /\ kqLayers' \subseteq 1..kqNext'
    BY <1>1, KqNumbers DEF KqTyped
  <2>2. \A c \in Command : kqState'[c] = "new" <=> kqNext' < c
    BY <1>1, <1>2, <1>3 DEF KqTyped
  <2> QED BY <1>1, <1>3, <2>1, <2>2 DEF KqTyped
<1>6. KqHolds'
  BY <1>1, <1>4 DEF KqHolds
<1>7. KqAtHead'
  BY <1>1, <1>2, <1>3, <1>4 DEF KqAtHead
<1>8. FewAsk'
  BY <1>1, <1>4 DEF FewAsk
<1>9. KqBesides'
  BY <1>1, <1>2, <1>3, <1>4 DEF KqBesides
<1>10. KqInTurn'
  <2>1. \A d \in Command : (Engaged(d)' <=> Engaged(d)) /\ (Ended(d)' <=> Ended(d))
    BY <1>1, <1>2, <1>3 DEF Engaged, Ended
  <2>2. \A d \in Command, c \in Command : Past(c, d) => Past(c, d)'
    BY <1>1, <1>2, <1>3, <2>1 DEF Past
  <2>3. ASSUME NEW d \in Command, Engaged(d)' PROVE kqState'[d] \notin {"new", "made"} /\ \A c \in 1..d - 1 : Past(c, d)'
    BY <1>1, <1>2, <1>3, <2>1, <2>2, <2>3, KqNumbers DEF KqInTurn
  <2> QED BY <1>1, <1>4, <2>1, <2>3 DEF KqInTurn
<1>11. KqInOrder'
  BY <1>1, <1>2, <1>3, KqOrderStays
<1> QED BY <1>5, <1>6, <1>7, <1>8, <1>9, <1>10, <1>11

LEMMA KqRestarting ==
  ASSUME KqInv, KqRestart
  PROVE  KqInv'
<1> USE DEF KqInv
<1>1. /\ kqDrain' = "none" /\ kqHead' = 0 /\ kqAsked' = 0 /\ kqLayers' = Held
      /\ UNCHANGED <<kqNext, kqBeside, kqEntries, ran, accept, reachable, outages>>
      /\ stray' = stray \cup {c \in Command : att[c] = "sent"}
  BY DEF KqRestart, Unlock, Abandoned, Held
<1>2. att' \in [Command -> Attempts] /\ \A c \in Command : att'[c] = "none"
  BY DEF KqRestart, Abandoned, Attempts
<1>3. \A c \in Command : Contains(kqEntries, c) <=> c \in Held
  BY Members DEF KqTyped, Held
<1>4. \A c \in Command : kqState'[c] =
        IF kqState[c] \in {"made", "adding", "direct"} THEN "gone"
        ELSE IF kqState[c] = "waiting" /\ c \notin Held THEN "settled" ELSE kqState[c]
  BY <1>3, Zenon DEF KqRestart
<1>5. kqState' \in [Command -> States]
  <2>1. \A c \in Command : kqState'[c] \in States
    BY <1>4 DEF KqTyped, States
  <2>2. kqState' = [c \in Command |-> kqState'[c]]
    BY DEF KqRestart
  <2> QED BY <2>1, <2>2
<1>6. Held \subseteq Command /\ (\A c \in Held : kqState[c] = "waiting") /\ Held = Waits \ Leaving
  BY DEF KqHolds, Waits
<1>7. /\ Held' = Held /\ Waits' = Held /\ Leaving' = {} /\ Going' = {} /\ Shown' = Held /\ OnTheirWay' = {}
      /\ Queued \subseteq Queued'
  BY <1>1, <1>4, <1>6 DEF Held, Waits, Leaving, Going, Shown, OnTheirWay, Queued
<1>8. KqTyped'
  <2>1. \A c \in Command : kqState'[c] = "new" <=> kqNext' < c
    BY <1>1, <1>4 DEF KqTyped
  <2>2. kqLayers' \subseteq 1..kqNext' /\ kqHead' \in 0..kqNext'
    <3>1. \A c \in Held : c \in 1..N /\ ~(kqNext < c) /\ kqNext \in Nat
      BY <1>6, KqNumbers DEF KqTyped
    <3>2. \A c \in Held : c \in 1..kqNext
      BY <3>1, KqNumbers
    <3>3. 0 \in 0..kqNext
      BY KqNumbers DEF KqTyped
    <3> QED BY <1>1, <3>2, <3>3
  <2>3. stray' \cup ToSet(ran') \subseteq Command /\ kqAsked' \in Nat
    BY <1>1 DEF KqTyped
  <2> QED BY <1>1, <1>2, <1>5, <2>1, <2>2, <2>3 DEF KqTyped
<1>9. KqHolds'
  BY <1>1, <1>7 DEF KqHolds
<1>10. KqAtHead'
  BY <1>1, <1>2 DEF KqAtHead
<1>11. FewAsk'
  BY <1>1, <1>7, FewAskStays DEF KqTyped
<1>12. KqBesides'
  BY <1>7 DEF KqBesides
<1>13. KqInTurn'
  <2>1. \A d \in Command : Engaged(d)' => Engaged(d)
    BY <1>1, <1>2 DEF Engaged
  <2>2. \A d \in Command : Ended(d)' <=> Ended(d)
    <3>1. \A d \in Command : kqState[d] = "waiting" => (d \notin Held <=> (kqDrain = "settle" /\ kqHead = d))
      BY <1>6 DEF Waits, Leaving
    <3>2. kqDrain = "settle" /\ kqHead \in Command => kqState[kqHead] = "waiting"
      BY DEF KqAtHead, Waits
    <3> QED BY <1>1, <1>4, <3>1, <3>2 DEF Ended
  <2>3. \A d \in Command, c \in Command : Past(c, d) => Past(c, d)'
    BY <1>1, <1>4, <2>2 DEF Past
  <2>4. ASSUME NEW d \in Command, Engaged(d)' PROVE kqState'[d] \notin {"new", "made"} /\ \A c \in 1..d - 1 : Past(c, d)'
    BY <1>4, <2>1, <2>3, <2>4, KqNumbers DEF KqInTurn
  <2> QED BY <1>1, <1>2, <1>7, <2>2, <2>4 DEF KqInTurn
<1>14. KqInOrder'
  BY <1>1, <1>4, KqOrderStays
<1> QED BY <1>8, <1>9, <1>10, <1>11, <1>12, <1>13, <1>14

\* A command runs when those made before it, but for the ones under way beside it,
\* have ended.
LEMMA KqOrderGrows ==
  ASSUME KqInOrder, ran \in Seq(Nat), kqBeside' = kqBeside, kqState' = kqState,
         NEW c \in Nat, ran' = Append(ran, c),
         \A d \in ToSet(ran) : c < d => c \in kqBeside[d] \/ kqState[c] = "gone"
  PROVE  KqInOrder'
<1>1. ran' \in Seq(Nat) /\ Len(ran) \in Nat /\ DOMAIN ran = 1..Len(ran) /\ DOMAIN ran' = 1..Len(ran) + 1
  OBVIOUS
<1>2. (\A i \in 1..Len(ran) : ran'[i] = ran[i]) /\ ran'[Len(ran) + 1] = c
  OBVIOUS
<1>3. \A i \in 1..Len(ran) : ran[i] \in ToSet(ran)
  BY Members
<1> SUFFICES ASSUME NEW i \in 1..Len(ran) + 1, NEW j \in 1..Len(ran) + 1, i < j, ran'[j] < ran'[i]
    PROVE ran'[j] \in kqBeside[ran'[i]] \/ kqState[ran'[j]] = "gone"
  BY <1>1 DEF KqInOrder
<1>4. i \in 1..Len(ran)
  BY <1>1
<1>5. CASE j = Len(ran) + 1
  BY <1>2, <1>3, <1>4, <1>5
<1>6. CASE j \in 1..Len(ran)
  BY <1>1, <1>2, <1>4, <1>6 DEF KqInOrder
<1> QED BY <1>1, <1>5, <1>6

LEMMA KqRunning ==
  ASSUME KqInv, NEW c \in Command, KqDelivers(Serve(c)) \/ KqDelivers(ServeStray(c))
  PROVE  KqInv'
<1> USE DEF KqInv
<1>1. /\ RunOnce(c) /\ Engaged(c)
      /\ UNCHANGED <<kqNext, kqState, kqBeside, kqQueue, accept, reachable, outages>>
  BY DEF KqDelivers, Serve, ServeStray, Engaged, kqCalls
<1>2. /\ ran' \in Seq(Nat) /\ ToSet(ran) \subseteq ToSet(ran') /\ ToSet(ran') \subseteq ToSet(ran) \cup {c}
      /\ accept[c] => c \in ToSet(ran')
      /\ ran' = ran \/ (accept[c] /\ c \notin ToSet(ran) /\ ran' = Append(ran, c))
  BY <1>1, KqNumbers, Ran DEF KqTyped
<1>3. /\ att' \in [Command -> Attempts] /\ stray' \subseteq stray
      /\ \A d \in Command : att'[d] = att[d] \/ (d = c /\ att[c] # "none" /\ att'[c] = IF accept[c] THEN "ok" ELSE "refused")
  BY DEF KqDelivers, Serve, ServeStray, KqTyped, Attempts
<1>4. /\ Held' = Held /\ Waits' = Waits /\ Leaving' = Leaving /\ Going' = Going /\ Shown' = Shown
      /\ OnTheirWay' = OnTheirWay /\ Queued' = Queued
  BY <1>1 DEF kqQueue, Held, Waits, Leaving, Going, Shown, OnTheirWay, Queued
<1>5. KqTyped'
  BY <1>1, <1>2, <1>3 DEF KqTyped, kqQueue
<1>6. KqHolds'
  BY <1>1, <1>4 DEF KqHolds, kqQueue
<1>7. KqAtHead'
  BY <1>1, <1>3, <1>4 DEF KqAtHead, kqQueue
<1>8. FewAsk'
  BY <1>1, <1>4 DEF FewAsk, kqQueue
<1>9. KqBesides'
  BY <1>1, <1>4 DEF KqBesides
<1>10. KqInTurn'
  <2>1. \A d \in Command : (Engaged(d)' => Engaged(d)) /\ (Ended(d)' <=> Ended(d))
    BY <1>1, <1>2, <1>3 DEF Engaged, Ended, kqQueue
  <2>2. \A d \in Command, x \in Command : Past(x, d) => Past(x, d)'
    BY <1>1, <2>1 DEF Past
  <2>3. ASSUME NEW d \in Command, Engaged(d)' PROVE kqState'[d] \notin {"new", "made"} /\ \A x \in 1..d - 1 : Past(x, d)'
    BY <1>1, <2>1, <2>2, <2>3, KqNumbers DEF KqInTurn
  <2> QED BY <1>1, <1>2, <1>3, <1>4, <2>1, <2>3 DEF KqInTurn
<1>11. KqInOrder'
  <2>1. CASE ran' = ran
    BY <1>1, <2>1, KqOrderStays
  <2>2. CASE accept[c] /\ c \notin ToSet(ran) /\ ran' = Append(ran, c)
    <3>1. ASSUME NEW d \in ToSet(ran), c < d PROVE c \in kqBeside[d] \/ kqState[c] = "gone"
      <4>1. Engaged(d) /\ d \in Command /\ c \in 1..d - 1
        BY <3>1, KqNumbers DEF Engaged, KqTyped
      <4>2. Past(c, d)
        BY <4>1 DEF KqInTurn
      <4>3. ~Ended(c)
        BY <2>2 DEF KqInTurn
      <4> QED BY <4>2, <4>3 DEF Past
    <3> QED BY <1>1, <2>2, <3>1, KqNumbers, KqOrderGrows DEF KqTyped
  <2> QED BY <1>2, <2>1, <2>2
<1> QED BY <1>5, <1>6, <1>7, <1>8, <1>9, <1>10, <1>11

LEMMA KqGoesOn ==
  ASSUME KqInv, [KqNext]_kqVars
  PROVE  KqInv'
<1>1. CASE KqMake
  BY <1>1, KqMaking
<1>2. CASE KqDrainSteps
  BY <1>2, KqResting, KqSending, KqTaking, KqRemoving, KqSettling DEF KqDrainSteps
<1>3. CASE KqRestart
  BY <1>3, KqRestarting
<1>4. CASE KqAsk \/ KqDrainCancelled \/ KqDelivers(GoesDown) \/ KqDelivers(ComesBack) \/ UNCHANGED kqVars
  BY <1>4, KqResting
<1>5. ASSUME NEW c \in Command, KqDelivers(Lose(c)) PROVE KqInv'
  BY <1>5, KqResting
<1>6. ASSUME NEW c \in Command, KqChoose(c) PROVE KqInv'
  BY <1>6, KqChoosing
<1>7. ASSUME NEW c \in Command, KqAdd(c) \/ KqUnreachable(c) PROVE KqInv'
  BY <1>7, KqQueueing
<1>8. ASSUME NEW c \in Command, KqAnswered(c) \/ KqCancelled(c) PROVE KqInv'
  BY <1>8, KqEnding
<1>9. ASSUME NEW c \in Command, KqDelivers(Serve(c)) \/ KqDelivers(ServeStray(c)) PROVE KqInv'
  BY <1>9, KqRunning
<1> QED BY <1>1, <1>2, <1>3, <1>4, <1>5, <1>6, <1>7, <1>8, <1>9 DEF KqNext

LEMMA KqShows == KqInv => KqKept
<1> SUFFICES ASSUME KqInv PROVE KqKept
  OBVIOUS
<1> USE DEF KqInv
<1>1. DOMAIN kqEntries = 1..Len(kqEntries)
  BY DEF KqTyped
<1>2. kqAsked \in 0..N + 1
  <2>1. IsFiniteSet(Command) /\ Cardinality(Command) = N
    BY FS_Interval, KqNumbers
  <2>2. Cardinality(Queued) <= Cardinality(Command) /\ Cardinality(Queued) \in Nat
    <3>1. Queued \subseteq Command
      BY DEF Queued
    <3>2. IsFiniteSet(Queued)
      BY <2>1, <3>1, FS_Subset
    <3> QED BY <2>1, <3>1, <3>2, FS_Subset, FS_CardinalityType
  <2>3. kqAsked \in Nat /\ N \in Nat
    BY KqNumbers DEF KqTyped
  <2> QED BY <2>1, <2>2, <2>3 DEF FewAsk
<1>3. KqTypeOK
  <2>1. DeliveryOK
    BY DEF DeliveryOK, KqTyped, Attempts
  <2>2. /\ kqNext \in 0..N /\ kqHead \in 0..kqNext /\ kqLayers \subseteq 1..kqNext /\ kqBeside \in [Command -> SUBSET Command]
        /\ kqDrain \in {"none", "loop", "send", "remove", "settle"}
        /\ kqState \in [Command -> {"new", "made", "adding", "direct", "waiting", "settled", "gone"}]
    BY DEF KqTyped, States
  <2>3. /\ (kqHead # 0) <=> (kqDrain \in {"send", "remove", "settle"})
        /\ \A c \in Command : att[c] # "none" => kqState[c] = "direct" \/ (kqDrain = "send" /\ kqHead = c)
    BY DEF KqAtHead
  <2> QED BY <1>2, <2>1, <2>2, <2>3 DEF KqTypeOK
<1>4. KqNoneLost
  BY <1>1 DEF KqTyped, Rising, KqNoneLost, KqHolds, Held, Waits, Leaving
<1>5. KqPredictionIsShown
  BY DEF KqPredictionIsShown, KqHolds, Going, Shown
<1> QED BY <1>3, <1>4, <1>5 DEF KqKept

\* Whatever callers, drains, cancellations, outages and restarts do to one another,
\* for any number of each: no command is lost, each shows its prediction until it is
\* answered, and the server runs them in the order they were made but for those that
\* were on their way at once (OfflineQueue.kt; RayfoldClient.kt command).
THEOREM KotlinCommandsKept == KqSpec => []KqKept
<1>1. KqInit => KqInv
  BY KqBegins
<1>2. KqInv /\ [KqNext]_kqVars => KqInv'
  BY KqGoesOn
<1>3. KqInv => KqKept
  BY KqShows
<1> QED BY <1>1, <1>2, <1>3, PTL DEF KqSpec
=============================================================================
