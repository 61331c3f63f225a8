--------------------------- MODULE CommandsProofs ---------------------------
(* Proofs about Commands for every set of attempts, keys and servers and     *)
(* every lease, time to live and bound.                                      *)
EXTENDS Commands, TLAPS

LEMMA RenewEveryType == RenewEvery \in Nat \ {0}
  BY ConstantsAssumption DEF RenewEvery

-----------------------------------------------------------------------------
(* Type correctness.                                                        *)

LEMMA InitTypeOK == Init => TypeOK
  BY ConstantsAssumption, RenewEveryType
  DEF Init, TypeOK, Row, Free, Timer, NoTimer, Answers, Answer

\* Where an attempt that ends leaves the variables End assigns.
LEMMA EndType ==
  ASSUME TypeOK, NEW a \in Attempts, End(a)
  PROVE  /\ pc' \in [Attempts -> {"idle"} \cup Working \cup Finished]
         /\ timer' \in [Attempts -> Timer]
         /\ answer' \in [Attempts -> Answers]
<1>1. pc' \in [Attempts -> {"idle"} \cup Working \cup Finished]
  BY DEF End, Goto, TypeOK, Finished
<1>2. timer' \in [Attempts -> Timer]
  BY ConstantsAssumption, RenewEveryType DEF End, NoTimer, Timer, TypeOK
<1>3. answer' \in [Attempts -> Answers]
  BY DEF End, Answer, Answers, TypeOK
<1> QED BY <1>1, <1>2, <1>3

LEMMA NextTypeOK == TypeOK /\ [Next]_vars => TypeOK'
<1> SUFFICES ASSUME TypeOK, [Next]_vars PROVE TypeOK'
  OBVIOUS
<1> USE ConstantsAssumption, RenewEveryType DEF history
<1>1. CASE Tick
  BY <1>1 DEF Tick, Timed, TypeOK, Row, Timer, Dec
<1>2. ASSUME NEW a \in Attempts, Arrive(a) PROVE TypeOK'
  BY <1>2 DEF Arrive, Goto, TypeOK, Working, Renewing, Finished
<1>3. ASSUME NEW a \in Attempts, Step(a) PROVE TypeOK'
  <2>1. CASE ClaimOwned(a)
    BY <2>1 DEF ClaimOwned, Take, SetRow, HeldBy, Goto, SetTimer, TypeOK, Row, Timer, Working, Renewing, Finished
  <2>2. CASE ClaimRefused(a)
    BY <2>2 DEF ClaimRefused, Goto, TypeOK, Working, Renewing, Finished
  <2>3. CASE LookGone(a)
    BY <2>3 DEF LookGone, Goto, TypeOK, Working, Renewing, Finished
  <2>4. CASE LookDone(a)
    BY <2>4 DEF LookDone, Replayed, Answer, Answers, RowOf, Row, Goto, TypeOK, Working, Renewing, Finished
  <2>5. CASE LookHeld(a)
    <3>1. CASE aborted[a]
      BY <2>5, <3>1, EndType DEF LookHeld, TypeOK
    <3>2. CASE ~aborted[a]
      BY <2>5, <3>2 DEF LookHeld, Goto, TypeOK, Working
    <3> QED BY <3>1, <3>2
  <2>6. CASE Wake(a)
    <3>1. CASE aborted[a]
      BY <2>6, <3>1, EndType DEF Wake, TypeOK
    <3>2. CASE ~aborted[a]
      BY <2>6, <3>2 DEF Wake, Goto, TypeOK, Working
    <3> QED BY <3>1, <3>2
  <2>7. CASE Commit(a)
    BY <2>7 DEF Commit, Goto, TypeOK, Working, Renewing, Finished
  <2>8. CASE ResolverFails(a)
    BY <2>8 DEF ResolverFails, Goto, TypeOK, Working, Renewing, Finished
  <2>9. CASE Emit(a)
    BY <2>9 DEF Emit, Answer, Answers, Goto, TypeOK, Working, Renewing, Finished
  <2>10. CASE ProjectionFails(a)
    BY <2>10 DEF ProjectionFails, Goto, TypeOK, Working, Renewing, Finished
  <2>11. CASE Put(a)
    <3>1. DoneBy(a, RecordOf(a)) \in Row
      BY DEF DoneBy, RecordOf, RecordKinds, Row
    <3>2. rows' \in [Keys -> Row]
      BY <2>11, <3>1 DEF Put, SetRow, TypeOK
    <3>3. pc' \in [Attempts -> {"idle"} \cup Working \cup Finished]
      BY <2>11 DEF Put, Goto, TypeOK, Working, Renewing
    <3> QED BY <2>11, <3>2, <3>3 DEF Put, TypeOK
  <2>12. CASE Release(a)
    <3>1. rows' \in [Keys -> Row]
      <4>1. Free \in Row
        BY DEF Free, Row
      <4> QED BY <4>1, <2>12 DEF Release, SetRow, TypeOK
    <3> QED BY <2>12, <3>1, EndType DEF Release, TypeOK
  <2>13. CASE Expire(a)
    <3>1. rows' \in [Keys -> Row] /\ epoch' \in [Keys -> Nat] /\ mine' \in [Attempts -> Nat]
      BY <2>13 DEF Expire, Drop, Free, Row, TypeOK
    <3>2. puts' \in [Servers -> 0..(TrimEvery - 1)]
      <4>1. \A n \in 0..(TrimEvery - 1) : (n + 1) % TrimEvery \in 0..(TrimEvery - 1)
        OBVIOUS
      <4> QED BY <4>1, <2>13 DEF Expire, TypeOK
    <3>3. pc' \in [Attempts -> {"idle"} \cup Working \cup Finished]
      BY <2>13, EndType DEF Expire, Goto, TypeOK, Working, Renewing
    <3>4. timer' \in [Attempts -> Timer] /\ answer' \in [Attempts -> Answers]
      BY <2>13, EndType DEF Expire, TypeOK
    <3> QED BY <3>1, <3>2, <3>3, <3>4, <2>13 DEF Expire, TypeOK
  <2>14. CASE Trim(a)
    <3>1. rows' \in [Keys -> Row] /\ epoch' \in [Keys -> Nat] /\ mine' \in [Attempts -> Nat]
      BY <2>14 DEF Trim, Drop, Free, Row, TypeOK
    <3> QED
      BY <3>1, <2>14, EndType DEF Trim, TypeOK
  <2> QED
    BY <1>3, <2>1, <2>2, <2>3, <2>4, <2>5, <2>6, <2>7, <2>8, <2>9, <2>10, <2>11, <2>12, <2>13, <2>14 DEF Step
<1>4. ASSUME NEW a \in Attempts, Renew(a) PROVE TypeOK'
  <2>1. Timed(RowOf(a), Lease, RowOf(a).age) \in Row
    BY DEF Timed, RowOf, Row, TypeOK
  <2>2. SetTimer \in Timer /\ [holding |-> FALSE, due |-> RenewEvery, missed |-> 0] \in Timer
    BY DEF SetTimer, Timer
  <2>3. rows' \in [Keys -> Row]
    BY <1>4, <2>1 DEF Renew, SetRow, TypeOK
  <2>4. timer' \in [Attempts -> Timer]
    BY <1>4, <2>2 DEF Renew, TypeOK
  <2> QED BY <1>4, <2>3, <2>4 DEF Renew, TypeOK
<1>5. ASSUME NEW a \in Attempts, RenewMissed(a) PROVE TypeOK'
  BY <1>5 DEF RenewMissed, TimerFires, TimerRuns, Timer, TypeOK
<1>6. ASSUME NEW a \in Attempts, Abort(a) PROVE TypeOK'
  BY <1>6 DEF Abort, TypeOK
<1>7. ASSUME NEW a \in Attempts, StoreFails(a) PROVE TypeOK'
  BY <1>7, EndType DEF StoreFails, TypeOK
<1>8. ASSUME NEW a \in Attempts, ClaimAnswerLost(a) PROVE TypeOK'
  <2>1. rows' \in [Keys -> Row] /\ epoch' \in [Keys -> Nat] /\ mine' \in [Attempts -> Nat]
    BY <1>8 DEF ClaimAnswerLost, Take, SetRow, HeldBy, Row, TypeOK
  <2> QED BY <1>8, <2>1, EndType DEF ClaimAnswerLost, TypeOK
<1>9. ASSUME NEW s \in Servers, Crash(s) PROVE TypeOK'
  BY <1>9 DEF Crash, NoTimer, Timer, TypeOK, Working, Renewing, Finished
<1>10. CASE UNCHANGED vars
  BY <1>10 DEF vars, TypeOK
<1> QED
  BY <1>1, <1>2, <1>3, <1>4, <1>5, <1>6, <1>7, <1>8, <1>9, <1>10 DEF Next

\* Every variable of the command path and of the store stays in its domain.
THEOREM TypeCorrect == Spec => []TypeOK
  BY InitTypeOK, NextTypeOK, PTL DEF Spec

-----------------------------------------------------------------------------
(* One effect per epoch.                                                    *)

\* The attempt may yet take effect under the key it took, or has done so.
Engaged(a) == pc[a] \in {"run", "release"} \/ committed[a]

\* Nobody has taken effect before the resolver returned.
EffectComesLast ==
  \A a \in Attempts : committed[a] =>
    pc[a] \notin {"idle", "claim", "look", "wait", "run", "release"}

\* An epoch has one engaged attempt; while the epoch lasts the row is there,
\* and held by that attempt or finished.
EpochInv ==
  /\ \A a \in Attempts : Engaged(a) => mine[a] <= epoch[KeyOf[a]]
  /\ \A a, b \in Attempts :
       (a # b /\ KeyOf[a] = KeyOf[b] /\ Engaged(a) /\ Engaged(b)) => mine[a] # mine[b]
  /\ \A a \in Attempts : (Engaged(a) /\ mine[a] = epoch[KeyOf[a]]) =>
       RowOf(a).st # "free" /\ (RowOf(a).st = "held" => RowOf(a).by = a)

OnceInv == TypeOK /\ EffectComesLast /\ EpochInv

LEMMA InitOnce == Init => OnceInv
  BY InitTypeOK DEF Init, OnceInv, EffectComesLast, EpochInv, Engaged

LEMMA NextEffectComesLast == TypeOK /\ EffectComesLast /\ [Next]_vars => EffectComesLast'
<1> SUFFICES ASSUME TypeOK, EffectComesLast, [Next]_vars PROVE EffectComesLast'
  OBVIOUS
<1> USE DEF EffectComesLast, TypeOK
<1>1. CASE Tick
  BY <1>1 DEF Tick
<1>2. ASSUME NEW a \in Attempts, Arrive(a) PROVE EffectComesLast'
  BY <1>2 DEF Arrive, Goto
<1>3. ASSUME NEW a \in Attempts, Step(a) PROVE EffectComesLast'
  BY <1>3 DEF Step, ClaimOwned, ClaimRefused, LookGone, LookDone, LookHeld, Wake, Commit, ResolverFails,
              Emit, ProjectionFails, Put, Release, Expire, Trim, End, Goto
<1>4. ASSUME NEW a \in Attempts, Renew(a) \/ RenewMissed(a) \/ Abort(a) PROVE EffectComesLast'
  BY <1>4 DEF Renew, RenewMissed, Abort
<1>5. ASSUME NEW a \in Attempts, StoreFails(a) \/ ClaimAnswerLost(a) PROVE EffectComesLast'
  BY <1>5 DEF StoreFails, ClaimAnswerLost, End, Goto
<1>6. ASSUME NEW s \in Servers, Crash(s) PROVE EffectComesLast'
  BY <1>6 DEF Crash
<1>7. CASE UNCHANGED vars
  BY <1>7 DEF vars
<1> QED BY <1>1, <1>2, <1>3, <1>4, <1>5, <1>6, <1>7 DEF Next

\* A step that engages nobody new, keeps the epochs and keeps st and by of
\* every row keeps the invariant.
LEMMA QuietStep ==
  ASSUME EpochInv, UNCHANGED <<epoch, mine>>,
         \A a \in Attempts : Engaged(a)' => Engaged(a),
         \A a \in Attempts : RowOf(a)'.st = RowOf(a).st /\ RowOf(a)'.by = RowOf(a).by
  PROVE  EpochInv'
  BY DEF EpochInv

\* Giving keys up: the epoch of each moves past everyone engaged under it.
LEMMA DropStep ==
  ASSUME TypeOK, EpochInv, NEW D, Drop(D), \A a \in Attempts : Engaged(a)' => Engaged(a)
  PROVE  EpochInv'
  BY ConstantsAssumption DEF TypeOK, EpochInv, Drop, RowOf, Free

\* Taking a key: a free row has nobody engaged in the current epoch, any other
\* row is given up first.
LEMMA TakeStep ==
  ASSUME TypeOK, EpochInv, NEW a \in Attempts, Take(a), ~Engaged(a),
         \A b \in Attempts : b # a => (Engaged(b)' => Engaged(b))
  PROVE  EpochInv'
<1> USE ConstantsAssumption DEF TypeOK
<1>1. RowOf(a)' = HeldBy(a) /\ \A b \in Attempts : KeyOf[b] # KeyOf[a] => RowOf(b)' = RowOf(b)
  BY DEF Take, SetRow, RowOf
<1>2. /\ \A k \in Keys \ {KeyOf[a]} : epoch'[k] = epoch[k]
      /\ epoch'[KeyOf[a]] = IF RowOf(a).st = "free" THEN epoch[KeyOf[a]] ELSE epoch[KeyOf[a]] + 1
      /\ epoch \in [Keys -> Nat] /\ epoch' \in [Keys -> Nat]
  <2>1. KeyOf[a] \in Keys /\ epoch \in [Keys -> Nat]
    OBVIOUS
  <2>2. CASE RowOf(a).st = "free"
    BY <2>1, <2>2 DEF Take
  <2>3. CASE RowOf(a).st # "free"
    <3>1. epoch' = [epoch EXCEPT ![KeyOf[a]] = epoch[KeyOf[a]] + 1]
      BY <2>3 DEF Take
    <3> QED BY <2>1, <2>3, <3>1
  <2> QED BY <2>2, <2>3
<1>2a. mine'[a] = epoch'[KeyOf[a]] /\ \A b \in Attempts : b # a => mine'[b] = mine[b]
  BY DEF Take
<1>2b. \A b \in Attempts : KeyOf[b] \in Keys /\ mine[b] \in Nat /\ epoch[KeyOf[b]] \in Nat
  OBVIOUS
<1>3. ASSUME NEW b \in Attempts, b # a, KeyOf[b] = KeyOf[a], Engaged(b)'
      PROVE  mine[b] < epoch'[KeyOf[a]]
  <2>1. Engaged(b) /\ mine[b] <= epoch[KeyOf[a]] /\ RowOf(b) = RowOf(a)
    BY <1>3 DEF EpochInv, RowOf
  <2>2. RowOf(a).st = "free" => mine[b] # epoch[KeyOf[a]]
    BY <2>1, <1>3 DEF EpochInv
  <2> HIDE DEF TypeOK
  <2> QED BY <2>1, <2>2, <1>2, <1>2b, <1>3
<1>4. ASSUME NEW b \in Attempts, Engaged(b)' PROVE mine'[b] <= epoch'[KeyOf[b]]
  BY <1>2, <1>2a, <1>2b, <1>3, <1>4 DEF EpochInv
<1>5. ASSUME NEW b \in Attempts, NEW c \in Attempts, b # c, KeyOf[b] = KeyOf[c], Engaged(b)', Engaged(c)'
      PROVE  mine'[b] # mine'[c]
  BY <1>2a, <1>3, <1>5 DEF EpochInv
<1>6. ASSUME NEW b \in Attempts, Engaged(b)', mine'[b] = epoch'[KeyOf[b]]
      PROVE  RowOf(b)'.st # "free" /\ (RowOf(b)'.st = "held" => RowOf(b)'.by = b)
  <2>1. CASE KeyOf[b] # KeyOf[a]
    BY <2>1, <1>1, <1>2, <1>2a, <1>2b, <1>6 DEF EpochInv
  <2>2. CASE KeyOf[b] = KeyOf[a] /\ b # a
    BY <2>2, <1>2a, <1>2b, <1>3, <1>6
  <2>3. CASE b = a
    BY <2>3, <1>1 DEF HeldBy
  <2> QED BY <2>1, <2>2, <2>3
<1> QED BY <1>4, <1>5, <1>6 DEF EpochInv
LEMMA NextEpochInv == OnceInv /\ [Next]_vars => EpochInv'
<1> SUFFICES ASSUME TypeOK, EffectComesLast, EpochInv, [Next]_vars PROVE EpochInv'
  BY DEF OnceInv
<1> USE ConstantsAssumption DEF history
<1> DEFINE Same == UNCHANGED <<epoch, mine>>
           Calm == \A b \in Attempts : Engaged(b)' => Engaged(b)
           Rows == \A b \in Attempts : RowOf(b)'.st = RowOf(b).st /\ RowOf(b)'.by = RowOf(b).by
<1>1. CASE Tick
  <2>1. Same /\ Calm
    BY <1>1 DEF Tick, Engaged
  <2>2. Rows
    BY <1>1 DEF Tick, Timed, RowOf, TypeOK
  <2> QED BY <2>1, <2>2, QuietStep
<1>2. ASSUME NEW a \in Attempts, Arrive(a) PROVE EpochInv'
  <2>1. Same /\ Calm /\ Rows
    BY <1>2 DEF Arrive, Goto, Engaged, RowOf, TypeOK
  <2> QED BY <2>1, QuietStep
<1>3. ASSUME NEW a \in Attempts, ClaimOwned(a) PROVE EpochInv'
  <2>1. Take(a) /\ ~Engaged(a)
    BY <1>3 DEF ClaimOwned, Engaged, EffectComesLast
  <2>2. \A b \in Attempts : b # a => (Engaged(b)' => Engaged(b))
    BY <1>3 DEF ClaimOwned, Goto, Engaged, TypeOK
  <2> QED BY <2>1, <2>2, TakeStep
<1>4. ASSUME NEW a \in Attempts, ClaimAnswerLost(a) PROVE EpochInv'
  <2>1. Take(a) /\ ~Engaged(a)
    BY <1>4 DEF ClaimAnswerLost, Engaged, EffectComesLast
  <2>2. \A b \in Attempts : b # a => (Engaged(b)' => Engaged(b))
    BY <1>4 DEF ClaimAnswerLost, End, Goto, Engaged, TypeOK
  <2> QED BY <2>1, <2>2, TakeStep
<1>5. ASSUME NEW a \in Attempts,
             ClaimRefused(a) \/ LookGone(a) \/ LookDone(a) \/ LookHeld(a) \/ Wake(a)
             \/ Emit(a) \/ ProjectionFails(a) \/ StoreFails(a)
      PROVE  EpochInv'
  <2>1. Same /\ Calm /\ Rows
    BY <1>5 DEF ClaimRefused, LookGone, LookDone, LookHeld, Wake, Emit, ProjectionFails, StoreFails,
                End, Goto, Engaged, RowOf, TypeOK
  <2> QED BY <2>1, QuietStep
<1>6. ASSUME NEW a \in Attempts, Commit(a) \/ ResolverFails(a) PROVE EpochInv'
  <2>1. Same /\ Calm /\ Rows
    BY <1>6 DEF Commit, ResolverFails, Goto, Engaged, RowOf, TypeOK
  <2> QED BY <2>1, QuietStep
<1>7. ASSUME NEW a \in Attempts, Put(a) PROVE EpochInv'
  <2>1. Same /\ Calm
    BY <1>7 DEF Put, Goto, Engaged, TypeOK
  <2>2. \A b \in Attempts : RowOf(b)' = RowOf(b) \/ RowOf(b)'.st = "done"
    BY <1>7 DEF Put, SetRow, DoneBy, RowOf, TypeOK
  <2> QED BY <2>1, <2>2 DEF EpochInv
<1>8. ASSUME NEW a \in Attempts, Release(a) PROVE EpochInv'
  <2>1. Same /\ Calm /\ ~Engaged(a)'
    BY <1>8 DEF Release, End, Goto, Engaged, EffectComesLast, TypeOK
  <2>2. ASSUME NEW b \in Attempts, Engaged(b)', mine[b] = epoch[KeyOf[b]]
        PROVE  RowOf(b)' = RowOf(b)
    <3>1. RowOf(b).st = "held" => RowOf(b).by = b
      BY <2>1, <2>2 DEF EpochInv
    <3>2. b # a
      BY <2>1, <2>2
    <3>3. CASE KeyOf[b] = KeyOf[a]
      BY <1>8, <3>1, <3>2, <3>3 DEF Release, RowOf
    <3>4. CASE KeyOf[b] # KeyOf[a]
      BY <1>8, <3>4 DEF Release, SetRow, RowOf, TypeOK
    <3> QED BY <3>3, <3>4
  <2> QED BY <2>1, <2>2 DEF EpochInv
<1>9. ASSUME NEW a \in Attempts, Expire(a) PROVE EpochInv'
  <2>1. Calm
    BY <1>9 DEF Expire, End, Goto, Engaged, TypeOK
  <2> QED BY <1>9, <2>1, DropStep DEF Expire
<1>10. ASSUME NEW a \in Attempts, Trim(a) PROVE EpochInv'
  <2>1. Calm
    BY <1>10 DEF Trim, End, Goto, Engaged, TypeOK
  <2> QED BY <1>10, <2>1, DropStep DEF Trim
<1>11. ASSUME NEW a \in Attempts, Renew(a) PROVE EpochInv'
  <2>1. Same /\ Calm
    BY <1>11 DEF Renew, Engaged
  <2>2. Rows
    BY <1>11 DEF Renew, SetRow, Timed, RowOf, TypeOK
  <2> QED BY <2>1, <2>2, QuietStep
<1>12. ASSUME NEW a \in Attempts, RenewMissed(a) \/ Abort(a) PROVE EpochInv'
  <2>1. Same /\ Calm /\ Rows
    BY <1>12 DEF RenewMissed, Abort, Engaged, RowOf
  <2> QED BY <2>1, QuietStep
<1>13. ASSUME NEW s \in Servers, Crash(s) PROVE EpochInv'
  <2>1. Same /\ Calm /\ Rows
    BY <1>13 DEF Crash, Engaged, RowOf, TypeOK
  <2> QED BY <2>1, QuietStep
<1>14. CASE UNCHANGED vars
  <2>1. Same /\ Calm /\ Rows
    BY <1>14 DEF vars, Engaged, RowOf
  <2> QED BY <2>1, QuietStep
<1> QED
  BY <1>1, <1>2, <1>3, <1>4, <1>5, <1>6, <1>7, <1>8, <1>9, <1>10, <1>11, <1>12, <1>13, <1>14 DEF Next, Step

\* Two attempts with one key take effect only if the key was given up between
\* their claims: one execution per key, however many servers share the store
\* (spec 03 section 4), with the lease, the time to live and the bound the only
\* ways around it.
THEOREM OneEffectPerEpoch == Spec => []AtMostOncePerEpoch
<1>1. Init => OnceInv
  BY InitOnce
<1>2. OnceInv /\ [Next]_vars => OnceInv'
  BY NextTypeOK, NextEffectComesLast, NextEpochInv DEF OnceInv
<1>3. OnceInv => AtMostOncePerEpoch
  BY DEF OnceInv, EpochInv, Engaged, AtMostOncePerEpoch
<1> QED BY <1>1, <1>2, <1>3, PTL DEF Spec
-----------------------------------------------------------------------------
(* The owner keeps its key while its server is up.                          *)

\* Timers on time, and a lease longer than the renewals the store may miss and
\* the one that follows them.
LeaseCovers == Timely /\ (MaxMissed + 1) * RenewEvery < Lease

Owning(a) == pc[a] \in {"run", "project", "put", "putfail", "release"}

\* The lease left outlasts the renewals that may yet be missed.
Margin(a) == timer[a].due + (MaxMissed - timer[a].missed) * RenewEvery

LeaseInv ==
  \A a \in Attempts : Owning(a) =>
    /\ RowOf(a).st = "held" /\ RowOf(a).by = a
    /\ timer[a].holding /\ RowOf(a).left > Margin(a)

LEMMA InitLease == Init => LeaseInv
  BY DEF Init, LeaseInv, Owning

\* What the margin is made of, as integers.
LEMMA MarginType ==
  ASSUME TypeOK, NEW a \in Attempts
  PROVE  /\ timer[a].due \in Nat /\ timer[a].missed \in Nat /\ MaxMissed - timer[a].missed \in Nat
         /\ timer[a].holding \in BOOLEAN
         /\ RowOf(a).left \in Nat /\ RowOf(a) \in Row
         /\ (MaxMissed - timer[a].missed) * RenewEvery \in Nat
<1>1. timer[a] \in Timer /\ RowOf(a) \in Row
  BY ConstantsAssumption DEF TypeOK, RowOf
<1>2. timer[a].due \in Nat /\ timer[a].missed \in 0..MaxMissed /\ timer[a].holding \in BOOLEAN
  BY <1>1, RenewEveryType, ConstantsAssumption DEF Timer
<1>3. RowOf(a).left \in Nat
  BY <1>1, ConstantsAssumption DEF Row
<1>4. MaxMissed - timer[a].missed \in Nat
  BY <1>2, ConstantsAssumption
<1>5. \A m, n \in Nat : m * n \in Nat
  OBVIOUS
<1> QED BY <1>1, <1>2, <1>3, <1>4, <1>5, RenewEveryType

\* A step keeps the claim of an owner whose row and timer it does not touch.
LEMMA KeptClaim ==
  ASSUME LeaseInv,
         \A a \in Attempts : Owning(a)' => Owning(a) /\ timer'[a] = timer[a] /\ RowOf(a)' = RowOf(a)
  PROVE  LeaseInv'
  BY DEF LeaseInv, Margin

\* Nobody can take a key that is owned.
LEMMA OwnedIsNotFree ==
  ASSUME TypeOK, LeaseInv, NEW a \in Attempts, Owning(a)
  PROVE  ~CanTake(RowOf(a))
<1>1. RowOf(a).left > 0 /\ RowOf(a).st = "held"
  BY MarginType DEF LeaseInv, Margin
<1> QED BY <1>1 DEF CanTake, LeaseRanOut, RecordExpired

LEMMA NextLease == LeaseCovers => (TypeOK /\ LeaseInv /\ [Next]_vars => LeaseInv')
<1> SUFFICES ASSUME LeaseCovers, TypeOK, LeaseInv, [Next]_vars PROVE LeaseInv'
  OBVIOUS
<1> USE ConstantsAssumption, RenewEveryType DEF history
<1>1. CASE Tick
  <2> SUFFICES ASSUME NEW a \in Attempts, Owning(a)'
               PROVE  /\ RowOf(a)'.st = "held" /\ RowOf(a)'.by = a
                      /\ timer'[a].holding /\ RowOf(a)'.left > Margin(a)'
    BY DEF LeaseInv
  <2>1. Owning(a) /\ RowOf(a).st = "held" /\ RowOf(a).by = a /\ timer[a].holding /\ RowOf(a).left > Margin(a)
    BY <1>1 DEF Tick, Owning, LeaseInv
  <2>2. timer[a].due > 0
    BY <1>1, <2>1, MarginType DEF Tick, LeaseCovers, TimerFires, TimerRuns, Owning, Renewing
  <2>3. /\ timer'[a].holding = timer[a].holding /\ timer'[a].missed = timer[a].missed
        /\ timer'[a].due = timer[a].due - 1
    BY <1>1, <2>2 DEF Tick, Dec
  <2>4. RowOf(a).left > 0
    BY <2>1, MarginType DEF Margin
  <2>5. RowOf(a)'.st = RowOf(a).st /\ RowOf(a)'.by = RowOf(a).by /\ RowOf(a)'.left = RowOf(a).left - 1
    BY <1>1, <2>1, <2>4 DEF Tick, Timed, Dec, RowOf, TypeOK
  <2> QED BY <2>1, <2>2, <2>3, <2>5, MarginType DEF Margin
<1>2. ASSUME NEW a \in Attempts, ClaimOwned(a) PROVE LeaseInv'
  <2>1. CanTake(RowOf(a)) /\ RowOf(a)' = HeldBy(a)
    BY <1>2 DEF ClaimOwned, Take, SetRow, RowOf, TypeOK
  <2>2. timer'[a] = SetTimer
    BY <1>2 DEF ClaimOwned, TypeOK
  <2>3. HeldBy(a).left > Margin(a)'
    BY <2>2 DEF HeldBy, SetTimer, Margin, LeaseCovers
  <2>4. ASSUME NEW b \in Attempts, b # a, Owning(b)'
        PROVE  Owning(b) /\ timer'[b] = timer[b] /\ RowOf(b)' = RowOf(b)
    <3>1. Owning(b) /\ timer'[b] = timer[b]
      BY <1>2, <2>4 DEF ClaimOwned, Goto, Owning, TypeOK
    <3>2. KeyOf[b] # KeyOf[a]
      BY <3>1, <2>1, OwnedIsNotFree DEF RowOf
    <3> QED BY <1>2, <3>1, <3>2 DEF ClaimOwned, Take, SetRow, RowOf, TypeOK
  <2>5. RowOf(a)'.st = "held" /\ RowOf(a)'.by = a /\ timer'[a].holding /\ RowOf(a)'.left > Margin(a)'
    BY <2>1, <2>2, <2>3 DEF HeldBy, SetTimer
  <2> QED BY <2>4, <2>5 DEF LeaseInv, Margin
<1>3. ASSUME NEW a \in Attempts, ClaimAnswerLost(a) PROVE LeaseInv'
  <2>1. ASSUME NEW b \in Attempts, Owning(b)'
        PROVE  Owning(b) /\ timer'[b] = timer[b] /\ RowOf(b)' = RowOf(b)
    <3>1. b # a /\ Owning(b) /\ timer'[b] = timer[b]
      BY <1>3, <2>1 DEF ClaimAnswerLost, End, Goto, Owning, TypeOK
    <3>2. KeyOf[b] # KeyOf[a]
      BY <1>3, <3>1, OwnedIsNotFree DEF ClaimAnswerLost, Take, RowOf
    <3> QED BY <1>3, <3>1, <3>2 DEF ClaimAnswerLost, Take, SetRow, RowOf, TypeOK
  <2> QED BY <2>1, KeptClaim
<1>4. ASSUME NEW a \in Attempts,
             Arrive(a) \/ ClaimRefused(a) \/ LookGone(a) \/ LookDone(a) \/ LookHeld(a) \/ Wake(a)
             \/ Commit(a) \/ ResolverFails(a) \/ Emit(a) \/ ProjectionFails(a)
             \/ StoreFails(a) \/ Abort(a)
      PROVE  LeaseInv'
  <2>1. \A b \in Attempts : Owning(b)' => Owning(b) /\ timer'[b] = timer[b] /\ RowOf(b)' = RowOf(b)
    BY <1>4 DEF Arrive, ClaimRefused, LookGone, LookDone, LookHeld, Wake, Commit, ResolverFails, Emit,
                ProjectionFails, StoreFails, Abort, End, Goto, Owning, RowOf, TypeOK
  <2> QED BY <2>1, KeptClaim
<1>5. ASSUME NEW a \in Attempts, Put(a) \/ Release(a) PROVE LeaseInv'
  <2>1. ASSUME NEW b \in Attempts, Owning(b)'
        PROVE  Owning(b) /\ timer'[b] = timer[b] /\ RowOf(b)' = RowOf(b)
    <3>1. b # a /\ Owning(b) /\ timer'[b] = timer[b]
      BY <1>5, <2>1 DEF Put, Release, End, Goto, Owning, TypeOK
    <3>2. RowOf(b).st = "held" /\ RowOf(b).by = b
      BY <3>1 DEF LeaseInv
    <3>3. CASE KeyOf[b] = KeyOf[a]
      BY <1>5, <3>1, <3>2, <3>3 DEF Put, Release, RowOf
    <3>4. CASE KeyOf[b] # KeyOf[a]
      BY <1>5, <3>1, <3>4 DEF Put, Release, SetRow, RowOf, TypeOK
    <3> QED BY <3>1, <3>3, <3>4
  <2> QED BY <2>1, KeptClaim
<1>6. ASSUME NEW a \in Attempts, Expire(a) \/ Trim(a) PROVE LeaseInv'
  <2>1. ASSUME NEW b \in Attempts, Owning(b)'
        PROVE  Owning(b) /\ timer'[b] = timer[b] /\ RowOf(b)' = RowOf(b)
    <3>1. Owning(b) /\ timer'[b] = timer[b]
      BY <1>6, <2>1 DEF Expire, Trim, End, Goto, Owning, TypeOK
    <3>2. RowOf(b).st = "held" /\ RowOf(b).left > 0
      BY <3>1, MarginType DEF LeaseInv, Margin
    <3>3. PICK D : Drop(D) /\ (D = {k \in Keys : RecordExpired(rows[k])} \/ D \subseteq Evictable)
      BY <1>6 DEF Expire, Trim, Trimmable
    <3>4. KeyOf[b] \notin D
      BY <3>2, <3>3 DEF RecordExpired, Evictable, LeaseRanOut, RowOf
    <3> QED BY <3>1, <3>3, <3>4 DEF Drop, RowOf
  <2> QED BY <2>1, KeptClaim
<1>7. ASSUME NEW a \in Attempts, Renew(a) PROVE LeaseInv'
  <2>1. ASSUME NEW b \in Attempts, b # a, Owning(b)'
        PROVE  Owning(b) /\ timer'[b] = timer[b] /\ RowOf(b)' = RowOf(b)
    <3>1. Owning(b) /\ timer'[b] = timer[b] /\ RowOf(b).st = "held" /\ RowOf(b).by = b
      BY <1>7, <2>1 DEF Renew, Owning, LeaseInv, TypeOK
    <3>2. CASE KeyOf[b] = KeyOf[a]
      BY <1>7, <2>1, <3>1, <3>2 DEF Renew, RowOf
    <3>3. CASE KeyOf[b] # KeyOf[a]
      BY <1>7, <3>1, <3>3 DEF Renew, SetRow, RowOf, TypeOK
    <3> QED BY <3>1, <3>2, <3>3
  <2>2. ASSUME Owning(a)'
        PROVE  /\ RowOf(a)'.st = "held" /\ RowOf(a)'.by = a
               /\ timer'[a].holding /\ RowOf(a)'.left > Margin(a)'
    <3>1. RowOf(a).st = "held" /\ RowOf(a).by = a
      BY <1>7, <2>2 DEF Renew, Owning, LeaseInv
    <3>2. timer'[a] = SetTimer /\ RowOf(a)' = Timed(RowOf(a), Lease, RowOf(a).age)
      BY <1>7, <3>1 DEF Renew, SetRow, RowOf, TypeOK
    <3>3. RowOf(a)'.left = Lease /\ RowOf(a)'.st = "held" /\ RowOf(a)'.by = a
      BY <3>1, <3>2 DEF Timed
    <3>4. Lease > Margin(a)'
      BY <3>2 DEF SetTimer, Margin, LeaseCovers
    <3> QED BY <3>2, <3>3, <3>4 DEF SetTimer
  <2> QED BY <2>1, <2>2 DEF LeaseInv, Margin
<1>8. ASSUME NEW a \in Attempts, RenewMissed(a) PROVE LeaseInv'
  <2>1. ASSUME NEW b \in Attempts, Owning(b)'
        PROVE  Owning(b) /\ RowOf(b)' = RowOf(b) /\ (b # a => timer'[b] = timer[b])
    BY <1>8, <2>1 DEF RenewMissed, Owning, RowOf, TypeOK
  <2>2. timer'[a].holding /\ timer'[a].due = RenewEvery /\ timer'[a].missed = timer[a].missed + 1
    BY <1>8 DEF RenewMissed, TypeOK
  <2>3. timer[a].due = 0 /\ timer[a].missed < MaxMissed
    BY <1>8 DEF RenewMissed, TimerFires
  <2>4. \A m, n \in Nat : m < n => (n - m) * RenewEvery = RenewEvery + (n - (m + 1)) * RenewEvery
    OBVIOUS
  <2>5. Margin(a)' = Margin(a)
    BY <2>2, <2>3, <2>4, MarginType DEF Margin
  <2> QED BY <2>1, <2>2, <2>5 DEF LeaseInv, Margin
<1>9. ASSUME NEW s \in Servers, Crash(s) PROVE LeaseInv'
  <2>1. \A b \in Attempts : Owning(b)' => Owning(b) /\ timer'[b] = timer[b] /\ RowOf(b)' = RowOf(b)
    BY <1>9 DEF Crash, Owning, RowOf, TypeOK
  <2> QED BY <2>1, KeptClaim
<1>10. CASE UNCHANGED vars
  BY <1>10, KeptClaim DEF vars, Owning, RowOf
<1> QED
  BY <1>1, <1>2, <1>3, <1>4, <1>5, <1>6, <1>7, <1>8, <1>9, <1>10 DEF Next, Step

\* While the lease covers the renewals the store may miss, no claim and no sweep
\* takes the key from a command that runs, from its claim to its record.
THEOREM OwnerKeepsKey == LeaseCovers => (Spec => []OwnerHoldsKey)
<1>1. Init => TypeOK /\ LeaseInv
  BY InitTypeOK, InitLease
<1>2. LeaseCovers => (TypeOK /\ LeaseInv /\ [Next]_vars => (TypeOK /\ LeaseInv)')
  BY NextTypeOK, NextLease
<1>3. LeaseInv => OwnerHoldsKey
  BY DEF LeaseInv, Owning, OwnerHoldsKey
<1> SUFFICES ASSUME LeaseCovers PROVE Spec => []OwnerHoldsKey
  OBVIOUS
<1>4. TypeOK /\ LeaseInv /\ [Next]_vars => (TypeOK /\ LeaseInv)'
  BY <1>2
<1> QED BY <1>1, <1>3, <1>4, PTL DEF Spec
-----------------------------------------------------------------------------
(* The shared store implements KeyStore.                                    *)

\* A row that is not there says nothing.
FreeIsBlank == \A k \in Keys : rows[k].st = "free" => rows[k].by = NoOne

\* What a step may make of the row of k: KeyStore!KeyStep in terms of rows.
OverRow(k) == LeaseRanOut(rows[k]) \/ RecordExpired(rows[k])
RowKept(k) == rows'[k].st = rows[k].st /\ rows'[k].by = rows[k].by
RowTaken(k) == (rows[k].st = "free" \/ OverRow(k)) /\ rows'[k].st = "held" /\ rows'[k].by \in Attempts
RowRecorded(k) == rows[k].st = "held" /\ rows'[k].st = "done" /\ rows'[k].by = rows[k].by
RowGivenUp(k) ==
  /\ rows[k].st = "done" \/ OverRow(k) \/ (rows[k].by \in Attempts /\ pc[rows[k].by] = "release")
  /\ rows'[k] = Free
RowStep(k) == RowKept(k) \/ RowTaken(k) \/ RowRecorded(k) \/ RowGivenUp(k)

LEMMA TakeRow ==
  ASSUME TypeOK, NEW a \in Attempts, Take(a) PROVE \A k \in Keys : RowStep(k)
  BY ConstantsAssumption
  DEF Take, SetRow, RowOf, CanTake, HeldBy, TypeOK, RowStep, RowTaken, RowKept, OverRow

LEMMA NextRowStep == TypeOK /\ [Next]_vars => \A k \in Keys : RowStep(k)
<1> SUFFICES ASSUME TypeOK, [Next]_vars, NEW k \in Keys PROVE RowStep(k)
  OBVIOUS
<1> USE ConstantsAssumption
<1>1. CASE UNCHANGED rows
  BY <1>1 DEF RowStep, RowKept
<1>2. CASE Tick
  BY <1>2 DEF Tick, Timed, TypeOK, RowStep, RowKept
<1>3. ASSUME NEW a \in Attempts, ClaimOwned(a) \/ ClaimAnswerLost(a) PROVE RowStep(k)
  BY <1>3, TakeRow DEF ClaimOwned, ClaimAnswerLost
<1>4. ASSUME NEW a \in Attempts, Put(a) PROVE RowStep(k)
  BY <1>4 DEF Put, SetRow, RowOf, DoneBy, TypeOK, RowStep, RowKept, RowRecorded
<1>5. ASSUME NEW a \in Attempts, Release(a) PROVE RowStep(k)
  BY <1>5 DEF Release, SetRow, RowOf, TypeOK, RowStep, RowKept, RowGivenUp
<1>6. ASSUME NEW a \in Attempts, Expire(a) PROVE RowStep(k)
  BY <1>6 DEF Expire, Drop, TypeOK, RowStep, RowKept, RowGivenUp, OverRow
<1>7. ASSUME NEW a \in Attempts, Trim(a) PROVE RowStep(k)
  <2>1. PICK D \in SUBSET Keys : Trimmable(D) /\ Drop(D)
    BY <1>7 DEF Trim
  <2>2. k \in D => rows[k].st = "done" \/ LeaseRanOut(rows[k])
    BY <2>1 DEF Trimmable, Evictable
  <2> QED BY <2>1, <2>2 DEF Drop, RowStep, RowKept, RowGivenUp, OverRow
<1>8. ASSUME NEW a \in Attempts, Renew(a) PROVE RowStep(k)
  BY <1>8 DEF Renew, SetRow, RowOf, Timed, TypeOK, RowStep, RowKept
<1>9. ASSUME NEW a \in Attempts, Step(a) PROVE RowStep(k)
  BY <1>1, <1>3, <1>4, <1>5, <1>6, <1>7, <1>9
  DEF Step, ClaimRefused, LookGone, LookDone, LookHeld, Wake, Commit, ResolverFails, Emit, ProjectionFails
<1> QED BY <1>1, <1>2, <1>3, <1>8, <1>9 DEF Next, vars, Arrive, RenewMissed, Abort, StoreFails, Crash

LEMMA NextFreeIsBlank == TypeOK /\ FreeIsBlank /\ [Next]_vars => FreeIsBlank'
  BY NextRowStep DEF FreeIsBlank, RowStep, RowKept, RowTaken, RowRecorded, RowGivenUp, Free

\* A free slot of KeyStore is the row that is not there.
LEMMA NextKeyStep ==
  ASSUME TypeOK, FreeIsBlank, [Next]_vars, NEW k \in Keys PROVE Shared!KeyStep(k)
<1>1. RowStep(k)
  BY NextRowStep
<1>2. CASE RowKept(k)
  BY <1>2 DEF RowKept, Shared!KeyStep
<1>3. CASE RowTaken(k)
  BY <1>3 DEF RowTaken, OverRow, FreeIsBlank, Shared!KeyStep, Shared!Claim, Shared!Free
<1>4. CASE RowRecorded(k)
  BY <1>4 DEF RowRecorded, Shared!KeyStep, Shared!Record
<1>5. CASE RowGivenUp(k)
  BY <1>5 DEF RowGivenUp, OverRow, Free, Shared!KeyStep, Shared!GiveUp, Shared!Free
<1> QED BY <1>1, <1>2, <1>3, <1>4, <1>5 DEF RowStep

\* The fleet's store keeps the promises of KeyStore, for any number of servers,
\* attempts and keys: nobody loses a key whose lease runs, and what is recorded
\* is the holder's.
THEOREM SharedStoreImplements == Spec => SharedKeepsKeys
<1>1. Init => TypeOK /\ FreeIsBlank /\ Shared!Init
  BY InitTypeOK DEF Init, FreeIsBlank, Free, Shared!Init, Shared!Free
<1>2. TypeOK /\ FreeIsBlank /\ [Next]_vars => TypeOK' /\ FreeIsBlank'
  BY NextTypeOK, NextFreeIsBlank
<1>3. TypeOK /\ FreeIsBlank /\ [Next]_vars => Shared!Next
  <2> SUFFICES ASSUME TypeOK, FreeIsBlank, [Next]_vars PROVE Shared!Next
    OBVIOUS
  <2>1. \A k \in Keys : Shared!KeyStep(k)
    BY NextKeyStep
  <2>2. TypeOK'
    BY NextTypeOK
  <2> QED BY <2>1, <2>2 DEF Shared!Next, TypeOK, Row
<1> QED BY <1>1, <1>2, <1>3, PTL DEF Spec, SharedKeepsKeys, Shared!Spec
-----------------------------------------------------------------------------
(* Records and answers.                                                     *)

\* Where no terminal frame has been sent, and where a record may stand already.
Unanswered == {"idle", "claim", "look", "wait", "run", "project", "putfail", "release"}
Recorded == {"expire", "trim", "ended", "crashed"}

\* Whose a row is, what a record says of its attempt, and where an attempt has
\* an answer: a record only of one that is past its put.
AnswersInv ==
  /\ \A a \in Attempts : pc[a] \in Unanswered => answer[a] = Answer("none", NoOne)
  /\ \A a \in Attempts : pc[a] = "put" => answer[a] = Answer("ok", a)
  /\ \A a \in Attempts : pc[a] \in {"project", "put", "putfail"} => committed[a]
  /\ \A a \in Attempts : answer[a].kind \in {"replay", "mismatch"} => pc[a] = "ended"

RowsInv ==
  \A k \in Keys : rows[k].st # "free" =>
    /\ rows[k].by \in Attempts /\ KeyOf[rows[k].by] = k
    /\ rows[k].st = "done" =>
         LET b == rows[k].by IN
         /\ pc[b] \in Recorded /\ committed[b]
         /\ rows[k].kind \in RecordKinds
         /\ rows[k].kind = "ok" => answer[b] = Answer("ok", b)
         /\ rows[k].kind # "ok" => answer[b].kind \in {"none", "failed"}

\* Whoever was given another attempt's record was given one there is.
ReplayInv ==
  /\ ReplayIsOfTheSameCommand
  /\ \A a \in Attempts : answer[a].kind \in {"replay", "mismatch"} => answer[a].of \in Attempts

TrueInv == TypeOK /\ EffectComesLast /\ AnswersInv /\ RowsInv /\ ReplayInv

LEMMA InitTrue == Init => TrueInv
  BY InitTypeOK, InitOnce
  DEF Init, OnceInv, TrueInv, AnswersInv, RowsInv, ReplayInv, ReplayIsOfTheSameCommand, Free, Answer

LEMMA NextAnswers == TypeOK /\ AnswersInv /\ [Next]_vars => AnswersInv'
<1> SUFFICES ASSUME TypeOK, AnswersInv, [Next]_vars PROVE AnswersInv'
  OBVIOUS
<1> USE DEF AnswersInv, TypeOK, Unanswered, Answer
<1>1. CASE Tick
  BY <1>1 DEF Tick
<1>2. ASSUME NEW a \in Attempts, Arrive(a) PROVE AnswersInv'
  BY <1>2 DEF Arrive, Goto
<1>3. ASSUME NEW a \in Attempts, ClaimOwned(a) \/ ClaimRefused(a) \/ LookGone(a) PROVE AnswersInv'
  BY <1>3 DEF ClaimOwned, ClaimRefused, LookGone, Goto
<1>4. ASSUME NEW a \in Attempts, LookDone(a) PROVE AnswersInv'
  BY <1>4 DEF LookDone, Replayed, Goto
<1>5. ASSUME NEW a \in Attempts, LookHeld(a) \/ Wake(a) PROVE AnswersInv'
  BY <1>5 DEF LookHeld, Wake, End, Goto
<1>6. ASSUME NEW a \in Attempts, Commit(a) \/ ResolverFails(a) \/ Emit(a) \/ ProjectionFails(a) PROVE AnswersInv'
  BY <1>6 DEF Commit, ResolverFails, Emit, ProjectionFails, Goto
<1>7. ASSUME NEW a \in Attempts, Put(a) \/ Release(a) PROVE AnswersInv'
  BY <1>7 DEF Put, Release, End, Goto
<1>8. ASSUME NEW a \in Attempts, Expire(a) \/ Trim(a) PROVE AnswersInv'
  BY <1>8 DEF Expire, Trim, End, Goto
<1>9. ASSUME NEW a \in Attempts, Renew(a) \/ RenewMissed(a) \/ Abort(a) PROVE AnswersInv'
  BY <1>9 DEF Renew, RenewMissed, Abort
<1>10. ASSUME NEW a \in Attempts, StoreFails(a) \/ ClaimAnswerLost(a) PROVE AnswersInv'
  BY <1>10 DEF StoreFails, ClaimAnswerLost, End, Goto
<1>11. ASSUME NEW s \in Servers, Crash(s) PROVE AnswersInv'
  BY <1>11 DEF Crash, Working, Renewing
<1>12. CASE UNCHANGED vars
  BY <1>12 DEF vars
<1> QED
  BY <1>1, <1>2, <1>3, <1>4, <1>5, <1>6, <1>7, <1>8, <1>9, <1>10, <1>11, <1>12 DEF Next, Step

LEMMA NextRows == TypeOK /\ EffectComesLast /\ AnswersInv /\ RowsInv /\ [Next]_vars => RowsInv'
<1> SUFFICES ASSUME TypeOK, EffectComesLast, AnswersInv, RowsInv, [Next]_vars PROVE RowsInv'
  OBVIOUS
<1> USE ConstantsAssumption DEF TypeOK, Answer
<1>1. CASE Tick
  BY <1>1 DEF Tick, Timed, RowsInv
<1>2. ASSUME NEW a \in Attempts, Arrive(a) \/ ClaimRefused(a) \/ LookGone(a) \/ LookHeld(a) \/ Wake(a) \/ StoreFails(a)
      PROVE  RowsInv'
  <2>1. UNCHANGED <<rows, committed>> /\ \A b \in Attempts : pc[b] \in Recorded => pc'[b] \in Recorded
    BY <1>2 DEF Arrive, ClaimRefused, LookGone, LookHeld, Wake, StoreFails, End, Goto, Recorded, history
  <2>2. \A b \in Attempts : answer'[b] = answer[b] \/ (answer[b].kind = "none" /\ answer'[b].kind = "failed")
    BY <1>2 DEF Arrive, ClaimRefused, LookGone, LookHeld, Wake, StoreFails, End
  <2> QED BY <2>1, <2>2 DEF RowsInv
<1>3. ASSUME NEW a \in Attempts, ClaimOwned(a) \/ ClaimAnswerLost(a) PROVE RowsInv'
  <2>1. /\ committed' = committed
        /\ \A b \in Attempts : pc[b] \in Recorded => pc'[b] = pc[b] /\ answer'[b] = answer[b]
    BY <1>3 DEF ClaimOwned, ClaimAnswerLost, End, Goto, Recorded
  <2>2. /\ rows'[KeyOf[a]] = HeldBy(a)
        /\ \A k \in Keys : k # KeyOf[a] => rows'[k] = rows[k]
    BY <1>3 DEF ClaimOwned, ClaimAnswerLost, Take, SetRow
  <2> QED BY <2>1, <2>2 DEF RowsInv, HeldBy
<1>4. ASSUME NEW a \in Attempts, LookDone(a) PROVE RowsInv'
  <2>1. UNCHANGED <<rows, committed>>
    BY <1>4 DEF LookDone
  <2>2. \A b \in Attempts : pc[b] \in Recorded => pc'[b] = pc[b] /\ answer'[b] = answer[b]
    BY <1>4 DEF LookDone, Goto, Recorded
  <2> QED BY <2>1, <2>2 DEF RowsInv
<1>5. ASSUME NEW a \in Attempts, Commit(a) \/ ResolverFails(a) \/ Emit(a) \/ ProjectionFails(a) PROVE RowsInv'
  <2>1. rows' = rows /\ \A b \in Attempts : committed[b] => committed'[b]
    BY <1>5 DEF Commit, ResolverFails, Emit, ProjectionFails
  <2>2. \A b \in Attempts : pc[b] \in Recorded => pc'[b] = pc[b] /\ answer'[b] = answer[b]
    BY <1>5 DEF Commit, ResolverFails, Emit, ProjectionFails, Goto, Recorded
  <2> QED BY <2>1, <2>2 DEF RowsInv
<1>6. ASSUME NEW a \in Attempts, Put(a) PROVE RowsInv'
  <2>1. UNCHANGED <<committed, answer>> /\ pc' = [pc EXCEPT ![a] = "expire"]
    BY <1>6 DEF Put, Goto
  <2>2. committed[a] /\ (pc[a] = "put" => answer[a] = Answer("ok", a))
                    /\ (pc[a] = "putfail" => answer[a].kind = "none")
    BY <1>6 DEF Put, AnswersInv, Unanswered
  <2>3. CASE rows' = rows
    BY <2>1, <2>3 DEF RowsInv, Recorded
  <2>4. CASE RowOf(a).st = "held" /\ RowOf(a).by = a /\ rows' = [rows EXCEPT ![KeyOf[a]] = DoneBy(a, RecordOf(a))]
    <3>1. RecordOf(a) \in RecordKinds /\ (RecordOf(a) = "ok" <=> pc[a] = "put")
      BY DEF RecordOf, RecordKinds
    <3>2. pc[a] = "put" \/ pc[a] = "putfail"
      BY <1>6 DEF Put
    <3> QED BY <2>1, <2>2, <2>4, <3>1, <3>2 DEF RowsInv, Recorded, DoneBy
  <2> QED BY <1>6, <2>3, <2>4 DEF Put, SetRow
<1>7. ASSUME NEW a \in Attempts, Release(a) PROVE RowsInv'
  <2>1. committed' = committed /\ \A b \in Attempts : pc[b] \in Recorded => pc'[b] \in Recorded
    BY <1>7 DEF Release, End, Goto, Recorded
  <2>2. \A b \in Attempts : answer'[b] = answer[b] \/ (answer[b].kind = "none" /\ answer'[b].kind = "failed")
    BY <1>7 DEF Release, End
  <2>3. \A k \in Keys : rows'[k] = rows[k] \/ rows'[k] = Free
    BY <1>7 DEF Release, SetRow
  <2> QED BY <2>1, <2>2, <2>3 DEF RowsInv, Free
<1>8. ASSUME NEW a \in Attempts, Expire(a) \/ Trim(a) PROVE RowsInv'
  <2>1. committed' = committed /\ \A b \in Attempts : pc[b] \in Recorded => pc'[b] \in Recorded
    BY <1>8 DEF Expire, Trim, End, Goto, Recorded
  <2>2. \A b \in Attempts : answer'[b] = answer[b] \/ (answer[b].kind = "none" /\ answer'[b].kind = "failed")
    BY <1>8 DEF Expire, Trim, End
  <2>3. \A k \in Keys : rows'[k] = rows[k] \/ rows'[k] = Free
    BY <1>8 DEF Expire, Trim, Drop
  <2> QED BY <2>1, <2>2, <2>3 DEF RowsInv, Free
<1>9. ASSUME NEW a \in Attempts, Renew(a) \/ RenewMissed(a) \/ Abort(a) PROVE RowsInv'
  <2>1. UNCHANGED <<pc, committed, answer>>
    BY <1>9 DEF Renew, RenewMissed, Abort
  <2>2. \A k \in Keys : rows'[k] = rows[k] \/ (rows[k].st = "held" /\ rows'[k].st = "held" /\ rows'[k].by = rows[k].by)
    BY <1>9 DEF Renew, RenewMissed, Abort, SetRow, Timed, RowOf
  <2> QED BY <2>1, <2>2 DEF RowsInv
<1>10. ASSUME NEW s \in Servers, Crash(s) PROVE RowsInv'
  BY <1>10 DEF Crash, RowsInv, Recorded
<1>11. CASE UNCHANGED vars
  BY <1>11 DEF vars, RowsInv
<1> QED
  BY <1>1, <1>2, <1>3, <1>4, <1>5, <1>6, <1>7, <1>8, <1>9, <1>10, <1>11 DEF Next, Step

\* An attempt that ends with a replay never takes effect, and what it was given
\* stays what it is.
LEMMA NextReplay ==
  TypeOK /\ EffectComesLast /\ AnswersInv /\ RowsInv /\ ReplayInv /\ [Next]_vars => ReplayInv'
<1> SUFFICES ASSUME TypeOK, EffectComesLast, AnswersInv, RowsInv, ReplayInv, [Next]_vars PROVE ReplayInv'
  OBVIOUS
<1> USE ConstantsAssumption DEF TypeOK
<1> DEFINE Given(b) == answer[b].kind \in {"replay", "mismatch"}
<1>1. ASSUME NEW b \in Attempts, Given(b) PROVE committed'[b] = committed[b] /\ answer'[b] = answer[b]
  <2>1. pc[b] = "ended"
    BY <1>1 DEF AnswersInv
  <2>2. committed'[b] = committed[b]
    BY <2>1 DEF Next, Step, vars, Tick, Arrive, ClaimOwned, ClaimRefused, LookGone, LookDone, LookHeld, Wake, Commit,
       ResolverFails, Emit, ProjectionFails, Put, Release, Expire, Trim, Renew, RenewMissed, Abort,
       StoreFails, ClaimAnswerLost, Crash
  <2>3. ASSUME NEW a \in Attempts, End(a) PROVE answer'[b] = answer[b]
    BY <1>1, <2>3 DEF End
  <2>4. ASSUME NEW a \in Attempts, Step(a) \/ StoreFails(a) \/ ClaimAnswerLost(a) PROVE answer'[b] = answer[b]
    BY <2>1, <2>3, <2>4 DEF Step, ClaimOwned, ClaimRefused, LookGone, LookDone, LookHeld, Wake, Commit,
       ResolverFails, Emit, ProjectionFails, Put, Release, Expire, Trim, StoreFails, ClaimAnswerLost
  <2> QED
    BY <2>2, <2>4 DEF Next, vars, Tick, Arrive, Renew, RenewMissed, Abort, Crash
<1>2. \A b \in Attempts : committed[b] => committed'[b]
  BY DEF Next, Step, vars, Tick, Arrive, ClaimOwned, ClaimRefused, LookGone, LookDone, LookHeld, Wake, Commit,
       ResolverFails, Emit, ProjectionFails, Put, Release, Expire, Trim, Renew, RenewMissed, Abort,
       StoreFails, ClaimAnswerLost, Crash
<1>3. ASSUME NEW b \in Attempts, ~Given(b), Given(b)' PROVE LookDone(b)
  <2>1. ASSUME NEW a \in Attempts, End(a) PROVE FALSE
    BY <1>3, <2>1 DEF End, Answer
  <2>2. ASSUME NEW a \in Attempts, LookDone(a) PROVE a = b
    BY <1>3, <2>2 DEF LookDone
  <2>3. ASSUME NEW a \in Attempts, Step(a) \/ StoreFails(a) \/ ClaimAnswerLost(a) PROVE LookDone(b)
    BY <1>3, <2>1, <2>2, <2>3 DEF Step, ClaimOwned, ClaimRefused, LookGone, LookHeld, Wake, Commit,
       ResolverFails, Emit, ProjectionFails, Put, Release, Expire, Trim, StoreFails, ClaimAnswerLost, Answer
  <2> QED
    BY <1>3, <2>3 DEF Next, vars, Tick, Arrive, Renew, RenewMissed, Abort, Crash
<1>4. ASSUME NEW b \in Attempts, LookDone(b)
      PROVE  /\ answer'[b] = Replayed(b) /\ ~committed'[b]
             /\ RowOf(b).by \in Attempts /\ KeyOf[RowOf(b).by] = KeyOf[b] /\ committed[RowOf(b).by]
  BY <1>4 DEF LookDone, RowOf, RowsInv, EffectComesLast
<1>5. ASSUME NEW b \in Attempts, Given(b)'
      PROVE  LET c == answer'[b].of IN
             /\ c \in Attempts
             /\ answer'[b].kind = "replay" =>
                  ~committed'[b] /\ committed'[c] /\ KeyOf[c] = KeyOf[b] /\ HashOf[c] = HashOf[b]
             /\ answer'[b].kind = "mismatch" =>
                  ~committed'[b] /\ KeyOf[c] = KeyOf[b] /\ HashOf[c] # HashOf[b]
  <2>1. CASE Given(b)
    BY <1>1, <1>2, <2>1 DEF ReplayInv, ReplayIsOfTheSameCommand
  <2>2. CASE ~Given(b)
    <3>1. LookDone(b)
      BY <1>3, <1>5, <2>2
    <3>2. answer'[b] = Replayed(b)
      BY <1>4, <3>1
    <3>3. CASE HashOf[RowOf(b).by] = HashOf[b]
      <4>1. answer'[b].of = RowOf(b).by /\ answer'[b].kind = "replay"
        BY <3>2, <3>3 DEF Replayed, Answer
      <4> QED BY <1>2, <1>4, <3>1, <3>3, <4>1
    <3>4. CASE HashOf[RowOf(b).by] # HashOf[b]
      <4>1. answer'[b].of = RowOf(b).by /\ answer'[b].kind = "mismatch"
        BY <3>2, <3>4 DEF Replayed, Answer
      <4> QED BY <1>2, <1>4, <3>1, <3>4, <4>1
    <3> QED BY <3>3, <3>4
  <2> QED BY <2>1, <2>2
<1> QED BY <1>5 DEF ReplayInv, ReplayIsOfTheSameCommand

\* The table says what is true: a record stands for an effect that happened and
\* says of it what the first caller was told, and a retry is answered with its
\* own command or refused (batch.ts: put and its catch, replayed()).
THEOREM RecordsTellTheTruth == Spec => []RecordsAreTrue
<1>1. Init => TrueInv
  BY InitTrue
<1>2. TrueInv /\ [Next]_vars => TrueInv'
  BY NextTypeOK, NextEffectComesLast, NextAnswers, NextRows, NextReplay DEF TrueInv
<1>3. TrueInv => RecordsAreTrue
  <2> SUFFICES ASSUME TrueInv PROVE RecordsAreTrue
    OBVIOUS
  <2>1. RecordMatchesFirstAnswer
    BY DEF TrueInv, RowsInv, RecordKinds, Answer, RecordMatchesFirstAnswer
  <2> QED BY <2>1 DEF TrueInv, ReplayInv, RecordsAreTrue
<1> QED BY <1>1, <1>2, <1>3, PTL DEF Spec

-----------------------------------------------------------------------------
(* A key whose lease is running.                                            *)

\* While the lease runs a row stays its holder's, or the holder gives it up.
LEMMA LeaseRunsOn ==
  ASSUME TypeOK, RowsInv, [Next]_vars, NEW k \in Keys,
         rows[k].st = "held", rows[k].left > 0, rows'[k].by # rows[k].by
  PROVE  pc[rows[k].by] = "release" /\ pc'[rows[k].by] = "ended"
<1> USE ConstantsAssumption DEF TypeOK
<1>1. rows'[k] # rows[k]
  OBVIOUS
<1>2. ASSUME NEW a \in Attempts, Take(a) PROVE FALSE
  BY <1>1, <1>2 DEF Take, SetRow, CanTake, LeaseRanOut, RecordExpired, RowOf
<1>3. ASSUME NEW D, Drop(D), D \subseteq {j \in Keys : RecordExpired(rows[j])} \/ D \subseteq Evictable PROVE FALSE
  BY <1>1, <1>3 DEF Drop, RecordExpired, Evictable, LeaseRanOut
<1>4. ASSUME NEW a \in Attempts, Release(a) PROVE pc[rows[k].by] = "release" /\ pc'[rows[k].by] = "ended"
  <2>1. k = KeyOf[a] /\ rows[k].by = a
    BY <1>1, <1>4 DEF Release, SetRow, RowOf
  <2> QED BY <1>4, <2>1 DEF Release, End, Goto
<1>5. CASE Tick
  BY <1>5 DEF Tick, Timed
<1>6. ASSUME NEW a \in Attempts, Renew(a) PROVE FALSE
  BY <1>6 DEF Renew, SetRow, Timed, RowOf
<1>7. ASSUME NEW a \in Attempts, Put(a) PROVE FALSE
  BY <1>7 DEF Put, SetRow, DoneBy, RowOf
<1>8. ASSUME NEW a \in Attempts, Expire(a) \/ Trim(a) PROVE FALSE
  BY <1>3, <1>8 DEF Expire, Trim, Trimmable
<1> QED
  BY <1>1, <1>2, <1>4, <1>5, <1>6, <1>7, <1>8
  DEF Next, Step, vars, Arrive, ClaimOwned, ClaimRefused, LookGone, LookDone, LookHeld, Wake, Commit,
      ResolverFails, Emit, ProjectionFails, RenewMissed, Abort, StoreFails, ClaimAnswerLost, Crash

\* No sweep, trim or claim of anyone else takes a key whose lease is running
\* (spec 12 section 3.6), whatever the bound, the time to live and the clock.
THEOREM RunningLeaseIsKept == Spec => LiveLeaseIsNotTaken
<1>1. Init => TrueInv
  BY InitTrue
<1>2. TrueInv /\ [Next]_vars => TrueInv'
  BY NextTypeOK, NextEffectComesLast, NextAnswers, NextRows, NextReplay DEF TrueInv
<1>3. TrueInv /\ [Next]_vars =>
        [\A k \in Keys : (rows[k].st = "held" /\ rows[k].left > 0 /\ rows'[k].by # rows[k].by) =>
           pc[rows[k].by] = "release" /\ pc'[rows[k].by] = "ended"]_vars
  BY LeaseRunsOn DEF TrueInv
<1> QED BY <1>1, <1>2, <1>3, PTL DEF Spec, LiveLeaseIsNotTaken
=============================================================================
