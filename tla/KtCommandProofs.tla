-------------------------- MODULE KtCommandProofs ---------------------------
(* Proofs about KtCommand for every set of attempts and keys, every lease,    *)
(* time to live, bound and number of tries.                                   *)
EXTENDS KtCommand, FiniteSetTheorems, TLAPS

-----------------------------------------------------------------------------
(* Types                                                                     *)

KcAfter == {"expire", "count", "oldest", "drop", "ended"}
KcBefore == {"idle", "insert", "read", "take", "wait", "run", "release"}
KcLabels == KcBefore \union {"project", "leave"} \union KcPutting \union KcAfter
KcFrameSet == [kind : {"ok", "failed", "replay", "mismatch"}, of : KcAttempts \union {KcNoOne}]
KcHands == [t : 0..KcMaxNow, row : KcRow, tries : 0..(KcTries - 1), over : Nat, oldest : SUBSET KcKeys]

\* At most one terminal frame is part of the type of what an op has sent.
KcTyped ==
  /\ kcNow \in 0..KcMaxNow
  /\ kcRows \in [KcKeys -> KcRow]
  /\ kcPc \in [KcAttempts -> KcLabels]
  /\ kcHand \in [KcAttempts -> KcHands]
  /\ kcRenewAt \in [KcAttempts -> Nat]
  /\ kcStop \in [KcAttempts -> {"no", "cancel", "renewal"}]
  /\ kcCommitted \in [KcAttempts -> BOOLEAN]
  /\ kcFrames \in [KcAttempts -> {<<>>} \union {<<f>> : f \in KcFrameSet}]
  /\ kcEpoch \in [KcKeys -> Nat]
  /\ kcMine \in [KcAttempts -> Nat]

\* The rows of the table.
KcTaken == {k \in KcKeys : kcRows[k].st # "free"}

\* Nothing was sent, and nothing took effect, before the places where it is.
KcPhase(a) ==
  /\ kcPc[a] \in KcBefore \union {"project"} => kcFrames[a] = <<>>
  /\ kcPc[a] \in KcBefore => ~kcCommitted[a]
  /\ kcPc[a] \in {"project", "leave"} \union KcPutting => kcCommitted[a]
  /\ kcPc[a] \in {"leave", "putok"} => kcFrames[a] = <<KcFrame("ok", a)>>
  /\ kcStop[a] = "renewal" => kcPc[a] \in {"run", "release", "ended"} /\ ~kcCommitted[a]
KcPhases == \A a \in KcAttempts : KcPhase(a)

LEMMA KcTimes == KcEvery \in Nat \ {0} /\ KcLease \in Nat \ {0} /\ KcMaxNow \in Nat /\ KcTries \in Nat \ {0}
BY KcConstants DEF KcConstants, KcEvery

LEMMA KcFreeIsRow == KcFree \in KcRow /\ KcEmpty \in KcHands
<1>1. 0 \in 0..(KcMaxNow + KcLease) /\ 0 \in 0..KcMaxNow /\ 0 \in 0..(KcTries - 1)
  BY KcTimes
<1>2. KcFree \in KcRow
  BY <1>1 DEF KcFree, KcRow, KcTime
<1> QED
  BY <1>1, <1>2 DEF KcEmpty, KcHands

\* What the steps that end an attempt, or begin a round of its claim, leave.
LEMMA KcEndTypes ==
  ASSUME KcTyped, NEW a \in KcAttempts, KcEnd(a)
  PROVE  /\ kcPc' = [kcPc EXCEPT ![a] = "ended"] /\ kcPc' \in [KcAttempts -> KcLabels]
         /\ kcHand' \in [KcAttempts -> KcHands] /\ kcRenewAt' \in [KcAttempts -> Nat]
BY KcFreeIsRow DEF KcEnd, KcGoto, KcTyped, KcLabels, KcAfter

LEMMA KcFailTypes ==
  ASSUME KcTyped, NEW a \in KcAttempts, kcFrames[a] = <<>>, NEW f \in KcFrameSet, KcSend(a, f)
  PROVE  kcFrames' = [kcFrames EXCEPT ![a] = <<f>>] /\ kcFrames' \in [KcAttempts -> {<<>>} \union {<<g>> : g \in KcFrameSet}]
<1>1. Append(<<>>, f) = <<f>>
  OBVIOUS
<1>2. kcFrames' = [kcFrames EXCEPT ![a] = <<f>>]
  BY <1>1 DEF KcSend
<1> QED
  BY <1>2 DEF KcTyped

LEMMA KcFailed == KcFrame("failed", KcNoOne) \in KcFrameSet
BY DEF KcFrame, KcFrameSet

\* A step of one attempt leaves the others' places, answers and effects alone.
KcOnly(a) ==
  \A b \in KcAttempts : b # a =>
    kcPc'[b] = kcPc[b] /\ kcFrames'[b] = kcFrames[b] /\ kcCommitted'[b] = kcCommitted[b] /\ kcStop'[b] = kcStop[b]

LEMMA KcPhasesOfOthers ==
  ASSUME KcPhases, NEW a \in KcAttempts, KcOnly(a), KcPhase(a)'
  PROVE  KcPhases'
<1> SUFFICES ASSUME NEW b \in KcAttempts PROVE KcPhase(b)'
  BY DEF KcPhases
<1>1. CASE b = a
  BY <1>1
<1>2. CASE b # a
  <2>1. KcPhase(b)
    BY DEF KcPhases
  <2> QED
    BY <1>2, <2>1 DEF KcOnly, KcPhase
<1> QED
  BY <1>1, <1>2

LEMMA KcStart == KcInit => KcTyped /\ KcPhases
<1> SUFFICES ASSUME KcInit PROVE KcTyped /\ KcPhases
  OBVIOUS
<1>1. 0 \in 0..KcMaxNow
  BY KcTimes
<1>2. KcTyped
  BY <1>1, KcFreeIsRow DEF KcInit, KcTyped, KcLabels, KcBefore
<1>3. KcPhases
  BY DEF KcInit, KcPhases, KcPhase, KcBefore, KcPutting
<1> QED
  BY <1>2, <1>3

\* The end of an attempt that has sent nothing, by an error, or that sent its
\* answer before, keeps types and phases.
LEMMA KcFailKeeps ==
  ASSUME KcTyped, KcPhases, NEW a \in KcAttempts, kcFrames[a] = <<>>, kcPc[a] \notin {"leave", "putok"},
         KcFail(a), KcStays, kcCommitted' = kcCommitted,
         kcRows' \in [KcKeys -> KcRow], kcEpoch' \in [KcKeys -> Nat], kcMine' = kcMine
  PROVE  KcTyped' /\ KcPhases'
<1>1. KcEnd(a) /\ KcSend(a, KcFrame("failed", KcNoOne))
  BY DEF KcFail
<1>2. /\ kcPc' = [kcPc EXCEPT ![a] = "ended"] /\ kcPc' \in [KcAttempts -> KcLabels]
      /\ kcHand' \in [KcAttempts -> KcHands] /\ kcRenewAt' \in [KcAttempts -> Nat]
  BY <1>1, KcEndTypes
<1>3. /\ kcFrames' = [kcFrames EXCEPT ![a] = <<KcFrame("failed", KcNoOne)>>]
      /\ kcFrames' \in [KcAttempts -> {<<>>} \union {<<g>> : g \in KcFrameSet}]
  BY <1>1, KcFailed, KcFailTypes
<1>4. KcTyped'
  BY <1>2, <1>3 DEF KcTyped, KcStays
<1>5. KcOnly(a)
  BY <1>2, <1>3 DEF KcTyped, KcStays, KcOnly
<1>6. KcPhase(a)'
  <2>1. kcPc'[a] = "ended" /\ kcStop'[a] = kcStop[a] /\ kcCommitted'[a] = kcCommitted[a]
    BY <1>2 DEF KcTyped, KcStays
  <2> QED
    BY <2>1 DEF KcPhases, KcPhase, KcBefore, KcPutting
<1> QED
  BY <1>4, <1>5, <1>6, KcPhasesOfOthers

LEMMA KcThroughKeeps ==
  ASSUME KcTyped, KcPhases, NEW a \in KcAttempts, kcPc[a] \in KcPutting \union KcAfter,
         KcThrough(a), KcStays, kcCommitted' = kcCommitted,
         kcRows' \in [KcKeys -> KcRow], kcEpoch' \in [KcKeys -> Nat], kcMine' = kcMine
  PROVE  KcTyped' /\ KcPhases'
<1>1. CASE kcFrames[a] = <<>>
  <2>1. KcFail(a)
    BY <1>1 DEF KcThrough, KcFail
  <2>2. kcPc[a] \notin {"leave", "putok"}
    <3>1. <<KcFrame("ok", a)>> # <<>>
      OBVIOUS
    <3> QED
      BY <1>1, <3>1 DEF KcPhases, KcPhase
  <2> QED
    BY <1>1, <2>1, <2>2, KcFailKeeps
<1>2. CASE kcFrames[a] # <<>>
  <2>1. KcEnd(a) /\ kcFrames' = kcFrames
    BY <1>2 DEF KcThrough
  <2>2. /\ kcPc' = [kcPc EXCEPT ![a] = "ended"] /\ kcPc' \in [KcAttempts -> KcLabels]
        /\ kcHand' \in [KcAttempts -> KcHands] /\ kcRenewAt' \in [KcAttempts -> Nat]
    BY <2>1, KcEndTypes
  <2>3. KcTyped'
    BY <2>1, <2>2 DEF KcTyped, KcStays
  <2>4. KcOnly(a)
    BY <2>1, <2>2 DEF KcTyped, KcStays, KcOnly
  <2>5. kcPc'[a] = "ended" /\ kcStop'[a] = kcStop[a] /\ kcCommitted'[a] = kcCommitted[a]
    BY <2>2 DEF KcTyped, KcStays
  <2>6. KcPhase(a)'
    BY <2>5 DEF KcPhases, KcPhase, KcBefore, KcPutting
  <2> QED
    BY <2>3, <2>4, <2>6, KcPhasesOfOthers
<1> QED
  BY <1>1, <1>2

\* The next round of a claim.
LEMMA KcAskKeeps ==
  ASSUME KcTyped, KcPhases, NEW a \in KcAttempts, NEW n \in 0..(KcTries - 1), KcAsk(a, n),
         kcPc[a] \in {"idle", "read", "take", "wait"}, kcStop[a] # "renewal",
         KcStays, UNCHANGED <<kcRows, kcRenewAt, kcFrames, kcCommitted, kcEpoch, kcMine>>
  PROVE  KcTyped' /\ KcPhases'
<1>1. kcPc' = [kcPc EXCEPT ![a] = "insert"]
  BY DEF KcAsk, KcGoto
<1>2. [KcEmpty EXCEPT !.t = kcNow, !.tries = n] \in KcHands
  BY KcFreeIsRow DEF KcTyped, KcHands, KcEmpty
<1>3. kcHand' \in [KcAttempts -> KcHands]
  BY <1>2 DEF KcAsk, KcTyped
<1>4. KcTyped'
  BY <1>1, <1>3 DEF KcTyped, KcStays, KcLabels, KcBefore
<1>5. KcOnly(a)
  BY <1>1 DEF KcTyped, KcStays, KcOnly
<1>6. kcPc'[a] = "insert"
  BY <1>1 DEF KcTyped
<1>7. KcPhase(a)'
  BY <1>6 DEF KcPhases, KcPhase, KcBefore, KcPutting, KcStays
<1> QED
  BY <1>4, <1>5, <1>7, KcPhasesOfOthers

LEMMA KcAgainKeeps ==
  ASSUME KcTyped, KcPhases, NEW a \in KcAttempts, KcAgain(a), kcPc[a] \in {"read", "take"},
         KcStays, UNCHANGED <<kcRows, kcCommitted, kcEpoch, kcMine>>
  PROVE  KcTyped' /\ KcPhases'
<1>1. kcFrames[a] = <<>> /\ kcStop[a] # "renewal"
  BY DEF KcPhases, KcPhase, KcBefore
<1>2. kcHand[a].tries \in 0..(KcTries - 1)
  BY DEF KcTyped, KcHands
<1>3. CASE kcHand[a].tries + 1 = KcTries
  <2>1. KcFail(a)
    BY <1>3 DEF KcAgain
  <2> QED
    BY <1>1, <2>1, KcFailKeeps DEF KcTyped
<1>4. CASE kcHand[a].tries + 1 # KcTries
  <2>1. kcHand[a].tries + 1 \in 0..(KcTries - 1)
    BY <1>2, <1>4, KcTimes
  <2>2. KcAsk(a, kcHand[a].tries + 1) /\ UNCHANGED <<kcRenewAt, kcFrames>>
    BY <1>4 DEF KcAgain
  <2> QED
    BY <1>1, <2>1, <2>2, KcAskKeeps
<1> QED
  BY <1>3, <1>4

\* What an attempt does while it is not through: its place moves, from one before
\* its effect to another, or along the way from its effect to its record.
LEMMA KcMoveKeeps ==
  ASSUME KcTyped, KcPhases, NEW a \in KcAttempts, NEW l \in KcLabels,
         kcPc' = [kcPc EXCEPT ![a] = l],
         kcHand' \in [KcAttempts -> KcHands], kcRenewAt' \in [KcAttempts -> Nat],
         kcRows' \in [KcKeys -> KcRow], kcEpoch' \in [KcKeys -> Nat], kcMine' \in [KcAttempts -> Nat],
         KcStays, UNCHANGED <<kcCommitted, kcFrames>>,
         \/ kcPc[a] \in KcBefore /\ l \in KcBefore /\ (kcStop[a] = "renewal" => l \in {"run", "release"})
         \/ kcPc[a] = "project" /\ l \in {"putfailed", "putcommitted"}
         \/ kcPc[a] = "leave" /\ l \in {"putok", "putcommitted"}
         \/ kcPc[a] \in KcPutting \union {"expire", "count", "oldest"} /\ l \in KcAfter
  PROVE  KcTyped' /\ KcPhases'
<1>1. KcTyped'
  BY DEF KcTyped, KcStays
<1>2. KcOnly(a)
  BY DEF KcTyped, KcStays, KcOnly
<1>3. kcPc'[a] = l /\ kcFrames'[a] = kcFrames[a] /\ kcCommitted'[a] = kcCommitted[a] /\ kcStop'[a] = kcStop[a]
  BY DEF KcTyped, KcStays
<1>4. KcPhase(a)
  BY DEF KcPhases
<1>5. KcPhase(a)'
  <2>1. CASE kcPc[a] \in KcBefore /\ l \in KcBefore /\ (kcStop[a] = "renewal" => l \in {"run", "release"})
    BY <1>3, <1>4, <2>1 DEF KcPhase, KcBefore, KcPutting
  <2>2. CASE kcPc[a] = "project" /\ l \in {"putfailed", "putcommitted"}
    BY <1>3, <1>4, <2>2 DEF KcPhase, KcBefore, KcPutting
  <2>3. CASE kcPc[a] = "leave" /\ l \in {"putok", "putcommitted"}
    BY <1>3, <1>4, <2>3 DEF KcPhase, KcBefore, KcPutting
  <2>4. CASE kcPc[a] \in KcPutting \union {"expire", "count", "oldest"} /\ l \in KcAfter
    BY <1>3, <1>4, <2>4 DEF KcPhase, KcBefore, KcPutting, KcAfter
  <2> QED
    BY <2>1, <2>2, <2>3, <2>4
<1> QED
  BY <1>1, <1>2, <1>5, KcPhasesOfOthers

LEMMA KcOwnKeeps ==
  ASSUME KcTyped, KcPhases, NEW a \in KcAttempts, KcOwn(a), kcPc[a] \in {"insert", "take"}
  PROVE  KcTyped' /\ KcPhases'
<1>1. KcKeyOf[a] \in KcKeys
  BY KcConstants DEF KcConstants
<1>2. kcHand[a].t \in 0..KcMaxNow /\ kcHand[a].t \in KcTime /\ kcHand[a].t + KcLease \in KcTime
  <2>1. kcHand[a].t \in 0..KcMaxNow
    BY DEF KcTyped, KcHands
  <2> QED
    BY <2>1, KcTimes DEF KcTime
<1>3. [st |-> "held", by |-> a, until |-> kcHand[a].t + KcLease, at |-> kcHand[a].t, kind |-> "none"] \in KcRow
  BY <1>2 DEF KcRow
<1>4. kcRows' \in [KcKeys -> KcRow]
  BY <1>1, <1>3 DEF KcOwn, KcTyped
<1>5. kcEpoch' \in [KcKeys -> Nat] /\ kcEpoch'[KcKeyOf[a]] \in Nat
  <2>1. CASE KcOver(KcKeyOf[a])
    BY <1>1, <2>1 DEF KcOwn, KcTyped
  <2>2. CASE ~KcOver(KcKeyOf[a])
    BY <1>1, <2>2 DEF KcOwn, KcTyped
  <2> QED
    BY <2>1, <2>2
<1>6. kcMine' \in [KcAttempts -> Nat]
  BY <1>5 DEF KcOwn, KcTyped
<1>7. kcPc' = [kcPc EXCEPT ![a] = "run"] /\ KcStays /\ UNCHANGED <<kcCommitted, kcFrames>>
  BY DEF KcOwn, KcGoto
<1>8. kcHand' \in [KcAttempts -> KcHands]
  BY KcFreeIsRow DEF KcOwn, KcTyped
<1>9. kcRenewAt' \in [KcAttempts -> Nat]
  <2>1. kcNow + KcEvery \in Nat
    BY KcTimes DEF KcTyped
  <2> QED
    BY <2>1 DEF KcOwn, KcTyped
<1>10. kcPc[a] \in KcBefore /\ "run" \in KcBefore /\ "run" \in KcLabels
  BY DEF KcBefore, KcLabels
<1> QED
  BY <1>4, <1>5, <1>6, <1>7, <1>8, <1>9, <1>10, KcMoveKeeps

LEMMA KcClaimKeeps ==
  ASSUME KcTyped, KcPhases, NEW a \in KcAttempts,
         KcArrive(a) \/ KcInsert(a) \/ KcRead(a) \/ KcTakeOver(a) \/ KcWake(a)
  PROVE  KcTyped' /\ KcPhases'
<1>1. KcPhase(a) /\ 0 \in 0..(KcTries - 1)
  BY KcTimes DEF KcPhases
<1>2. kcRows \in [KcKeys -> KcRow] /\ kcEpoch \in [KcKeys -> Nat] /\ kcMine \in [KcAttempts -> Nat]
      /\ kcHand \in [KcAttempts -> KcHands] /\ kcRenewAt \in [KcAttempts -> Nat]
  BY DEF KcTyped
<1>3. CASE KcArrive(a)
  <2>1. kcPc[a] = "idle" /\ KcStays /\ UNCHANGED <<kcRows, kcCommitted, kcEpoch, kcMine>>
    BY <1>3 DEF KcArrive, kcHistory
  <2>2. kcFrames[a] = <<>> /\ kcStop[a] # "renewal"
    BY <1>1, <2>1 DEF KcPhase, KcBefore
  <2>3. CASE KcFail(a)
    BY <2>1, <2>2, <2>3, <1>2, KcFailKeeps
  <2>4. CASE KcAsk(a, 0) /\ UNCHANGED <<kcRenewAt, kcFrames>>
    BY <2>1, <2>2, <2>4, <1>1, KcAskKeeps
  <2> QED
    BY <1>3, <2>3, <2>4 DEF KcArrive
<1>4. CASE KcInsert(a)
  <2>1. kcPc[a] = "insert"
    BY <1>4 DEF KcInsert
  <2>2. CASE KcOwn(a)
    BY <2>1, <2>2, KcOwnKeeps
  <2>3. CASE ~KcOwn(a)
    <3>1. kcPc' = [kcPc EXCEPT ![a] = "read"] /\ KcStays
          /\ UNCHANGED <<kcRows, kcHand, kcRenewAt, kcCommitted, kcFrames, kcEpoch, kcMine>>
      BY <1>4, <2>3 DEF KcInsert, KcGoto, kcHistory
    <3>2. kcPc[a] \in KcBefore /\ "read" \in KcBefore /\ "read" \in KcLabels /\ kcStop[a] # "renewal"
      BY <1>1, <2>1 DEF KcBefore, KcLabels, KcPhase
    <3>3. /\ kcRows' \in [KcKeys -> KcRow] /\ kcEpoch' \in [KcKeys -> Nat] /\ kcMine' \in [KcAttempts -> Nat]
          /\ kcHand' \in [KcAttempts -> KcHands] /\ kcRenewAt' \in [KcAttempts -> Nat]
      BY <1>2, <3>1
    <3> QED
      BY <3>1, <3>2, <3>3, KcMoveKeeps
  <2> QED
    BY <2>2, <2>3
<1>5. CASE KcRead(a)
  <2> DEFINE r == KcRowOf(a)
             t == kcHand[a].t
  <2>1. kcPc[a] = "read" /\ KcStays /\ UNCHANGED <<kcRows, kcCommitted, kcEpoch, kcMine>>
    BY <1>5 DEF KcRead, kcHistory
  <2>2. kcFrames[a] = <<>> /\ kcStop[a] # "renewal" /\ kcPc[a] \in KcBefore /\ ~kcCommitted[a]
    BY <1>1, <2>1 DEF KcPhase, KcBefore
  <2>3. r \in KcRow
    BY KcConstants DEF KcRowOf, KcTyped, KcConstants
  <2>4. CASE KcAgain(a)
    BY <2>1, <2>4, KcAgainKeeps
  <2>5. CASE KcEnd(a) /\ KcSend(a, KcReplay(a))
    <3>1. KcReplay(a) \in KcFrameSet
      BY <2>3 DEF KcReplay, KcFrame, KcFrameSet, KcRow
    <3>2. /\ kcFrames' = [kcFrames EXCEPT ![a] = <<KcReplay(a)>>]
          /\ kcFrames' \in [KcAttempts -> {<<>>} \union {<<g>> : g \in KcFrameSet}]
      BY <2>2, <2>5, <3>1, KcFailTypes
    <3>3. /\ kcPc' = [kcPc EXCEPT ![a] = "ended"] /\ kcPc' \in [KcAttempts -> KcLabels]
          /\ kcHand' \in [KcAttempts -> KcHands] /\ kcRenewAt' \in [KcAttempts -> Nat]
      BY <2>5, KcEndTypes
    <3>4. KcTyped'
      BY <2>1, <3>2, <3>3 DEF KcTyped, KcStays
    <3>5. KcOnly(a)
      BY <2>1, <3>2, <3>3 DEF KcTyped, KcStays, KcOnly
    <3>6. kcPc'[a] = "ended" /\ kcStop'[a] = kcStop[a] /\ kcCommitted'[a] = kcCommitted[a]
      BY <2>1, <3>3 DEF KcTyped, KcStays
    <3>7. KcPhase(a)'
      BY <2>2, <3>6 DEF KcPhase, KcBefore, KcPutting
    <3> QED
      BY <3>4, <3>5, <3>7, KcPhasesOfOthers
  <2>6. CASE KcGoto(a, "wait") /\ kcHand' = [kcHand EXCEPT ![a] = KcEmpty] /\ UNCHANGED <<kcRenewAt, kcFrames>>
    <3>1. kcHand' \in [KcAttempts -> KcHands]
      BY <2>6, <1>2, KcFreeIsRow
    <3>2. "wait" \in KcBefore /\ "wait" \in KcLabels /\ kcPc' = [kcPc EXCEPT ![a] = "wait"]
      BY <2>6 DEF KcBefore, KcLabels, KcGoto
    <3>3. kcRows' \in [KcKeys -> KcRow] /\ kcEpoch' \in [KcKeys -> Nat] /\ kcMine' \in [KcAttempts -> Nat]
          /\ kcRenewAt' \in [KcAttempts -> Nat] /\ UNCHANGED <<kcCommitted, kcFrames>>
      BY <1>2, <2>1, <2>6
    <3> QED
      BY <2>1, <2>2, <3>1, <3>2, <3>3, KcMoveKeeps
  <2>7. CASE KcGoto(a, "take") /\ kcHand' = [kcHand EXCEPT ![a].row = r] /\ UNCHANGED <<kcRenewAt, kcFrames>>
    <3>1. [kcHand[a] EXCEPT !.row = r] \in KcHands
      BY <1>2, <2>3 DEF KcHands
    <3>2. kcHand' \in [KcAttempts -> KcHands]
      BY <2>7, <3>1, <1>2
    <3>3. "take" \in KcBefore /\ "take" \in KcLabels /\ kcPc' = [kcPc EXCEPT ![a] = "take"]
      BY <2>7 DEF KcBefore, KcLabels, KcGoto
    <3>4. kcRows' \in [KcKeys -> KcRow] /\ kcEpoch' \in [KcKeys -> Nat] /\ kcMine' \in [KcAttempts -> Nat]
          /\ kcRenewAt' \in [KcAttempts -> Nat] /\ UNCHANGED <<kcCommitted, kcFrames>>
      BY <1>2, <2>1, <2>7
    <3> QED
      BY <2>1, <2>2, <3>2, <3>3, <3>4, KcMoveKeeps
  <2> QED
    BY <1>5, <2>4, <2>5, <2>6, <2>7 DEF KcRead
<1>6. CASE KcTakeOver(a)
  <2>1. kcPc[a] = "take"
    BY <1>6 DEF KcTakeOver
  <2>2. CASE KcOwn(a)
    BY <2>1, <2>2, KcOwnKeeps
  <2>3. CASE KcAgain(a) /\ KcStays /\ UNCHANGED <<kcRows, kcCommitted, kcEpoch, kcMine>>
    BY <2>1, <2>3, KcAgainKeeps
  <2> QED
    BY <1>6, <2>2, <2>3 DEF KcTakeOver, kcHistory
<1>7. CASE KcWake(a)
  <2>1. kcPc[a] = "wait" /\ KcStays /\ UNCHANGED <<kcRows, kcCommitted, kcEpoch, kcMine>>
    BY <1>7 DEF KcWake, kcHistory
  <2>2. kcFrames[a] = <<>> /\ kcStop[a] # "renewal"
    BY <1>1, <2>1 DEF KcPhase, KcBefore
  <2>3. CASE KcFail(a)
    BY <2>1, <2>2, <2>3, <1>2, KcFailKeeps
  <2>4. CASE KcAsk(a, 0) /\ UNCHANGED <<kcRenewAt, kcFrames>>
    BY <2>1, <2>2, <2>4, <1>1, KcAskKeeps
  <2> QED
    BY <1>7, <2>3, <2>4 DEF KcWake
<1> QED
  BY <1>3, <1>4, <1>5, <1>6, <1>7

\* What an attempt does under its key, until it records or gives the key back.
LEMMA KcRunKeeps ==
  ASSUME ~LateFailures, KcTyped, KcPhases, NEW a \in KcAttempts,
         KcCommit(a) \/ KcEmit(a) \/ KcResolverFails(a) \/ KcProjectionFails(a) \/ KcLeave(a) \/ KcStopped(a)
  PROVE  KcTyped' /\ KcPhases'
<1>1. KcPhase(a)
  BY DEF KcPhases
<1>2. /\ kcRows \in [KcKeys -> KcRow] /\ kcEpoch \in [KcKeys -> Nat] /\ kcMine \in [KcAttempts -> Nat]
      /\ kcHand \in [KcAttempts -> KcHands] /\ kcRenewAt \in [KcAttempts -> Nat]
      /\ kcStop[a] \in {"no", "cancel", "renewal"}
  BY DEF KcTyped
<1>3. ASSUME NEW from, NEW to \in KcLabels, KcRuns(a, from, to), UNCHANGED <<kcCommitted, kcFrames>>,
             \/ from \in KcBefore /\ to \in KcBefore /\ (kcStop[a] = "renewal" => to \in {"run", "release"})
             \/ from = "project" /\ to \in {"putfailed", "putcommitted"}
             \/ from = "leave" /\ to \in {"putok", "putcommitted"}
      PROVE  KcTyped' /\ KcPhases'
  <2>1. kcPc[a] = from /\ kcPc' = [kcPc EXCEPT ![a] = to] /\ KcStays /\ UNCHANGED <<kcRows, kcHand, kcRenewAt, kcEpoch, kcMine>>
    BY <1>3 DEF KcRuns, KcGoto, kcHistory
  <2>2. /\ kcRows' \in [KcKeys -> KcRow] /\ kcEpoch' \in [KcKeys -> Nat] /\ kcMine' \in [KcAttempts -> Nat]
        /\ kcHand' \in [KcAttempts -> KcHands] /\ kcRenewAt' \in [KcAttempts -> Nat]
    BY <1>2, <2>1
  <2> QED
    BY <1>3, <2>1, <2>2, KcMoveKeeps
<1>4. CASE KcCommit(a)
  <2>1. kcPc[a] = "run" /\ kcPc' = [kcPc EXCEPT ![a] = "project"] /\ kcStop[a] # "renewal" /\ KcStays
        /\ UNCHANGED <<kcRows, kcHand, kcRenewAt, kcEpoch, kcMine, kcFrames>>
        /\ kcCommitted' = [kcCommitted EXCEPT ![a] = TRUE]
    BY <1>4 DEF KcCommit, KcRuns, KcGoto, kcHistory
  <2>2. KcTyped'
    BY <2>1 DEF KcTyped, KcStays, KcLabels
  <2>3. KcOnly(a)
    BY <2>1 DEF KcTyped, KcStays, KcOnly
  <2>4. kcPc'[a] = "project" /\ kcCommitted'[a] = TRUE /\ kcStop'[a] = kcStop[a] /\ kcFrames'[a] = kcFrames[a]
    BY <2>1 DEF KcTyped, KcStays
  <2>5. KcPhase(a)'
    BY <1>1, <2>1, <2>4 DEF KcPhase, KcBefore, KcPutting
  <2> QED
    BY <2>2, <2>3, <2>5, KcPhasesOfOthers
<1>5. CASE KcEmit(a)
  <2>1. kcPc[a] = "project" /\ kcPc' = [kcPc EXCEPT ![a] = "leave"] /\ KcStays
        /\ UNCHANGED <<kcRows, kcHand, kcRenewAt, kcEpoch, kcMine, kcCommitted>>
        /\ KcSend(a, KcFrame("ok", a))
    BY <1>5 DEF KcEmit, KcRuns, KcGoto, kcHistory
  <2>2. kcFrames[a] = <<>> /\ kcStop[a] # "renewal"
    BY <1>1, <2>1 DEF KcPhase
  <2>3. KcFrame("ok", a) \in KcFrameSet
    BY DEF KcFrame, KcFrameSet
  <2>4. /\ kcFrames' = [kcFrames EXCEPT ![a] = <<KcFrame("ok", a)>>]
        /\ kcFrames' \in [KcAttempts -> {<<>>} \union {<<g>> : g \in KcFrameSet}]
    BY <2>1, <2>2, <2>3, KcFailTypes
  <2>5. KcTyped'
    BY <2>1, <2>4 DEF KcTyped, KcStays, KcLabels
  <2>6. KcOnly(a)
    BY <2>1, <2>4 DEF KcTyped, KcStays, KcOnly
  <2>7. kcPc'[a] = "leave" /\ kcCommitted'[a] = kcCommitted[a] /\ kcStop'[a] = kcStop[a] /\ kcFrames'[a] = <<KcFrame("ok", a)>>
    BY <2>1, <2>4 DEF KcTyped, KcStays
  <2>8. KcPhase(a)'
    BY <1>1, <2>1, <2>2, <2>7 DEF KcPhase, KcBefore, KcPutting
  <2> QED
    BY <2>5, <2>6, <2>8, KcPhasesOfOthers
<1>6. CASE KcResolverFails(a)
  BY <1>3, <1>6 DEF KcResolverFails, KcBefore, KcLabels
<1>7. CASE KcProjectionFails(a)
  BY <1>3, <1>7 DEF KcProjectionFails, KcLabels, KcPutting
<1>8. CASE KcLeave(a)
  BY <1>3, <1>8 DEF KcLeave, KcLabels, KcPutting
<1>9. CASE KcStopped(a)
  <2>1. PICK l \in {"run", "project", "leave"} :
          KcRuns(a, l, IF kcCommitted[a] /\ kcStop[a] = "cancel" THEN "putcommitted" ELSE "release")
    BY <1>9 DEF KcStopped
  <2>2. kcPc[a] = l /\ kcStop[a] # "no" /\ UNCHANGED <<kcCommitted, kcFrames>>
    BY <1>9, <2>1 DEF KcStopped, KcRuns
  <2>3. CASE l = "run"
    <3>1. ~kcCommitted[a]
      BY <1>1, <2>2, <2>3 DEF KcPhase, KcBefore
    <3>2. KcRuns(a, "run", "release")
      BY <2>1, <2>3, <3>1
    <3> QED
      BY <1>3, <2>2, <3>2 DEF KcBefore, KcLabels
  <2>4. CASE l \in {"project", "leave"}
    <3>1. kcCommitted[a] /\ kcStop[a] = "cancel"
      BY <1>1, <1>2, <2>2, <2>4 DEF KcPhase
    <3>2. KcRuns(a, l, "putcommitted")
      BY <2>1, <3>1
    <3> QED
      BY <1>3, <2>2, <2>4, <3>2 DEF KcLabels, KcPutting
  <2> QED
    BY <2>3, <2>4
<1> QED
  BY <1>4, <1>5, <1>6, <1>7, <1>8, <1>9

\* The record, the release, and the sweep after a record.
LEMMA KcStoreKeeps ==
  ASSUME KcTyped, KcPhases, IsFiniteSet(KcTaken), NEW a \in KcAttempts,
         KcPut(a) \/ KcRelease(a) \/ KcExpire(a) \/ KcCount(a) \/ KcOldest(a) \/ KcDrop(a) \/ KcStoreFails(a)
  PROVE  KcTyped' /\ KcPhases'
<1>1. KcPhase(a) /\ KcKeyOf[a] \in KcKeys
  BY KcConstants DEF KcPhases, KcConstants
<1>2. /\ kcRows \in [KcKeys -> KcRow] /\ kcEpoch \in [KcKeys -> Nat] /\ kcMine \in [KcAttempts -> Nat]
      /\ kcHand \in [KcAttempts -> KcHands] /\ kcRenewAt \in [KcAttempts -> Nat]
  BY DEF KcTyped
<1>3. kcNow \in 0..KcMaxNow /\ kcNow \in KcTime /\ 0 \in KcTime
  BY KcTimes DEF KcTyped, KcTime
<1>4. ASSUME NEW D \in SUBSET KcKeys, KcDelete(D)
      PROVE  kcRows' \in [KcKeys -> KcRow] /\ kcEpoch' \in [KcKeys -> Nat] /\ kcMine' = kcMine /\ kcCommitted' = kcCommitted /\ KcStays
  <2>1. \A k \in KcKeys : (IF k \in D THEN KcFree ELSE kcRows[k]) \in KcRow
    BY KcFreeIsRow, <1>2
  <2>2. \A k \in KcKeys : (IF k \in D THEN kcEpoch[k] + 1 ELSE kcEpoch[k]) \in Nat
    BY <1>2
  <2> QED
    BY <1>4, <2>1, <2>2 DEF KcDelete
<1>5. ASSUME NEW l \in KcAfter, kcPc' = [kcPc EXCEPT ![a] = l], kcPc[a] \in KcPutting \union {"expire", "count", "oldest"},
             kcHand' \in [KcAttempts -> KcHands], kcRows' \in [KcKeys -> KcRow], kcEpoch' \in [KcKeys -> Nat],
             UNCHANGED <<kcMine, kcRenewAt, kcCommitted, kcFrames>>, KcStays
      PROVE  KcTyped' /\ KcPhases'
  <2>1. l \in KcLabels /\ kcRenewAt' \in [KcAttempts -> Nat] /\ kcMine' \in [KcAttempts -> Nat]
    BY <1>2, <1>5 DEF KcLabels
  <2> QED
    BY <1>5, <2>1, KcMoveKeeps
<1>6. CASE KcPut(a)
  <2>1. kcPc[a] \in KcPutting /\ KcStays /\ UNCHANGED <<kcCommitted, kcEpoch, kcMine>>
    BY <1>6 DEF KcPut, kcHistory
  <2>2. CASE KcIsMine(a)
    <3>1. /\ kcRows' = [kcRows EXCEPT ![KcKeyOf[a]] =
                          [st |-> "done", by |-> a, until |-> 0, at |-> kcNow, kind |-> KcKindOf(a)]]
          /\ kcPc' = [kcPc EXCEPT ![a] = "expire"]
          /\ kcHand' = [kcHand EXCEPT ![a].t = kcNow]
          /\ UNCHANGED <<kcRenewAt, kcFrames>>
      BY <1>6, <2>2 DEF KcPut, KcGoto
    <3>2. KcKindOf(a) \in {"none", "ok", "failed", "committed"}
      BY DEF KcKindOf
    <3>3. [st |-> "done", by |-> a, until |-> 0, at |-> kcNow, kind |-> KcKindOf(a)] \in KcRow
      BY <1>3, <3>2 DEF KcRow
    <3>4. kcRows' \in [KcKeys -> KcRow]
      BY <1>2, <3>1, <3>3
    <3>5. [kcHand[a] EXCEPT !.t = kcNow] \in KcHands
      BY <1>2, <1>3 DEF KcHands
    <3>6. kcHand' \in [KcAttempts -> KcHands]
      BY <1>2, <3>1, <3>5
    <3>7. "expire" \in KcAfter /\ kcEpoch' \in [KcKeys -> Nat]
      BY <1>2, <2>1 DEF KcAfter
    <3> QED
      BY <1>5, <2>1, <3>1, <3>4, <3>6, <3>7
  <2>3. CASE ~KcIsMine(a)
    <3>1. KcThrough(a) /\ kcRows' = kcRows
      BY <1>6, <2>3 DEF KcPut
    <3> QED
      BY <1>2, <2>1, <3>1, KcThroughKeeps
  <2> QED
    BY <2>2, <2>3
<1>7. CASE KcRelease(a)
  <2>1. kcPc[a] = "release" /\ KcFail(a) /\ KcStays /\ UNCHANGED <<kcCommitted, kcEpoch, kcMine>>
    BY <1>7 DEF KcRelease, kcHistory
  <2>2. kcRows' \in [KcKeys -> KcRow]
    <3>1. CASE KcIsMine(a) /\ KcRowOf(a).st = "held"
      BY <1>1, <1>2, <1>7, <3>1, KcFreeIsRow DEF KcRelease
    <3>2. CASE ~(KcIsMine(a) /\ KcRowOf(a).st = "held")
      BY <1>2, <1>7, <3>2 DEF KcRelease
    <3> QED
      BY <3>1, <3>2
  <2>3. kcFrames[a] = <<>>
    BY <1>1, <2>1 DEF KcPhase, KcBefore
  <2> QED
    BY <1>2, <2>1, <2>2, <2>3, KcFailKeeps
<1>8. CASE KcExpire(a)
  <2> DEFINE D == {k \in KcKeys : KcLeaseOver(kcRows[k], kcHand[a].t) \/ KcExpired(kcRows[k], kcHand[a].t)}
  <2>1. kcPc[a] = "expire" /\ KcDelete(D) /\ kcPc' = [kcPc EXCEPT ![a] = "count"] /\ UNCHANGED <<kcHand, kcRenewAt, kcFrames>>
    BY <1>8 DEF KcExpire, KcGoto
  <2>2. kcRows' \in [KcKeys -> KcRow] /\ kcEpoch' \in [KcKeys -> Nat] /\ kcMine' = kcMine /\ kcCommitted' = kcCommitted /\ KcStays
    <3>1. D \in SUBSET KcKeys
      OBVIOUS
    <3> HIDE DEF D
    <3> QED
      BY <1>4, <2>1, <3>1
  <2>3. "count" \in KcAfter /\ kcHand' \in [KcAttempts -> KcHands]
    BY <1>2, <2>1 DEF KcAfter
  <2> QED
    BY <1>5, <2>1, <2>2, <2>3
<1>9. CASE KcCount(a)
  <2> DEFINE over == Cardinality({k \in KcKeys : kcRows[k].st # "free"}) - KcMaxSize
  <2>1. kcPc[a] = "count" /\ KcStays /\ UNCHANGED <<kcRows, kcCommitted, kcEpoch, kcMine>>
    BY <1>9 DEF KcCount, kcHistory
  <2>2. CASE KcThrough(a)
    BY <1>2, <2>1, <2>2, KcThroughKeeps DEF KcAfter
  <2>3. CASE ~KcThrough(a)
    <3>1. over > 0 /\ kcPc' = [kcPc EXCEPT ![a] = "oldest"] /\ kcHand' = [kcHand EXCEPT ![a] = [KcEmpty EXCEPT !.over = over]]
          /\ UNCHANGED <<kcRenewAt, kcFrames>>
      BY <1>9, <2>3 DEF KcCount, KcGoto
    <3>2. over \in Nat
      <4>1. Cardinality(KcTaken) \in Nat
        BY FS_CardinalityType
      <4>2. over = Cardinality(KcTaken) - KcMaxSize
        BY DEF KcTaken
      <4> HIDE DEF over
      <4> QED
        BY <3>1, <4>1, <4>2, KcConstants DEF KcConstants
    <3>3. [KcEmpty EXCEPT !.over = over] \in KcHands
      <4> HIDE DEF over
      <4> QED
        BY <3>2, KcFreeIsRow DEF KcHands
    <3>4. kcHand' \in [KcAttempts -> KcHands]
      <4> HIDE DEF over
      <4> QED
        BY <1>2, <3>1, <3>3
    <3>5. "oldest" \in KcAfter /\ kcRows' \in [KcKeys -> KcRow] /\ kcEpoch' \in [KcKeys -> Nat]
      BY <1>2, <2>1 DEF KcAfter
    <3> QED
      BY <1>5, <2>1, <3>1, <3>4, <3>5
  <2> QED
    BY <2>2, <2>3
<1>10. CASE KcOldest(a)
  <2> DEFINE records == {k \in KcKeys : kcRows[k].st = "done"}
  <2>1. kcPc[a] = "oldest" /\ kcPc' = [kcPc EXCEPT ![a] = "drop"] /\ KcStays
        /\ UNCHANGED <<kcRows, kcRenewAt, kcFrames, kcCommitted, kcEpoch, kcMine>>
    BY <1>10 DEF KcOldest, kcHistory, KcGoto
  <2>2. PICK D \in SUBSET records : kcHand' = [kcHand EXCEPT ![a] = [KcEmpty EXCEPT !.oldest = D]]
    BY <1>10 DEF KcOldest
  <2>3. [KcEmpty EXCEPT !.oldest = D] \in KcHands
    BY KcFreeIsRow DEF KcHands
  <2>4. kcHand' \in [KcAttempts -> KcHands]
    BY <1>2, <2>2, <2>3
  <2>5. "drop" \in KcAfter /\ kcRows' \in [KcKeys -> KcRow] /\ kcEpoch' \in [KcKeys -> Nat]
    BY <1>2, <2>1 DEF KcAfter
  <2> QED
    BY <1>5, <2>1, <2>4, <2>5
<1>11. CASE KcDrop(a)
  <2> DEFINE D == {k \in kcHand[a].oldest : kcRows[k].st = "done"}
  <2>1. kcPc[a] = "drop" /\ KcDelete(D) /\ KcThrough(a)
    BY <1>11 DEF KcDrop
  <2>2. D \in SUBSET KcKeys
    BY <1>2 DEF KcHands
  <2>3. kcRows' \in [KcKeys -> KcRow] /\ kcEpoch' \in [KcKeys -> Nat] /\ kcMine' = kcMine /\ kcCommitted' = kcCommitted /\ KcStays
    <3> HIDE DEF D
    <3> QED
      BY <1>4, <2>1, <2>2
  <2>4. kcPc[a] \in KcPutting \union KcAfter
    BY <2>1 DEF KcAfter
  <2> QED
    BY <2>1, <2>3, <2>4, KcThroughKeeps
<1>12. CASE KcStoreFails(a)
  <2>1. KcStays /\ UNCHANGED <<kcRows, kcCommitted, kcEpoch, kcMine>>
    BY <1>12 DEF KcStoreFails, kcHistory
  <2>2. CASE kcPc[a] \in {"insert", "read", "take", "release"} /\ KcFail(a)
    <3>1. kcFrames[a] = <<>>
      BY <1>1, <2>2 DEF KcPhase, KcBefore
    <3> QED
      BY <1>2, <2>1, <2>2, <3>1, KcFailKeeps
  <2>3. CASE kcPc[a] \in KcPutting \union {"expire", "count", "oldest", "drop"} /\ KcThrough(a)
    <3>1. kcPc[a] \in KcPutting \union KcAfter
      BY <2>3 DEF KcAfter
    <3> QED
      BY <1>2, <2>1, <2>3, <3>1, KcThroughKeeps
  <2> QED
    BY <1>12, <2>2, <2>3 DEF KcStoreFails
<1> QED
  BY <1>6, <1>7, <1>8, <1>9, <1>10, <1>11, <1>12

-----------------------------------------------------------------------------
(* What a step does to the rows and to who holds them                        *)

\* A row belongs to an attempt of its key, and a claim is told from a record by
\* `until` alone: that is why the update of KcTakeOver may leave out `st`.
KcRowFact(k) ==
  /\ kcRows[k].st = "free" => kcRows[k] = KcFree
  /\ kcRows[k].st # "free" => kcRows[k].by \in KcAttempts /\ KcKeyOf[kcRows[k].by] = k
  /\ kcRows[k].st = "held" => kcRows[k].until > 0
  /\ kcRows[k].st = "done" => kcRows[k].until = 0
\* What an attempt goes by is no later than now, and it takes over what it saw run out.
KcStale(r, t) == (KcLeaseOver(r, t) /\ r.until > 0) \/ (KcExpired(r, t) /\ r.until = 0)
KcHandFact(a) ==
  /\ kcHand[a].t <= kcNow
  /\ kcPc[a] = "take" => KcStale(kcHand[a].row, kcHand[a].t)
KcRowFacts == \A k \in KcKeys : KcRowFact(k)
KcHandFacts == \A a \in KcAttempts : KcHandFact(a)

KcKept(k) ==
  /\ kcEpoch'[k] = kcEpoch[k]
  /\ \/ kcRows'[k] = kcRows[k]
     \/ kcRows[k].st = "held" /\ \E u \in KcTime \ {0} : kcRows'[k] = [kcRows[k] EXCEPT !.until = u]
KcDropped(k) ==
  /\ kcRows[k].st = "done" \/ KcOver(k)
  /\ kcRows'[k] = KcFree /\ kcEpoch'[k] = kcEpoch[k] + 1
KcOwned(a) ==
  LET k == KcKeyOf[a] IN
  /\ kcRows[k].st = "free" \/ KcOver(k)
  /\ kcPc'[a] = "run"
  /\ kcRows'[k].st = "held" /\ kcRows'[k].by = a /\ kcRows'[k].until > 0
  /\ kcEpoch'[k] = IF KcOver(k) THEN kcEpoch[k] + 1 ELSE kcEpoch[k]
  /\ kcMine'[a] = kcEpoch'[k]
KcRecorded(a) ==
  LET k == KcKeyOf[a] IN
  /\ kcPc[a] \in KcPutting /\ kcRows[k].st # "free" /\ kcRows[k].by = a
  /\ kcRows'[k].st = "done" /\ kcRows'[k].by = a /\ kcRows'[k].until = 0 /\ kcRows'[k].kind = KcKindOf(a)
  /\ kcEpoch'[k] = kcEpoch[k]
KcReleased(a) ==
  LET k == KcKeyOf[a] IN
  /\ kcPc[a] = "release" /\ kcPc'[a] = "ended"
  /\ kcRows[k].st = "held" /\ kcRows[k].by = a
  /\ kcRows'[k] = KcFree /\ kcEpoch'[k] = kcEpoch[k]

\* A step of one attempt touches the rows of other keys only to drop them.
KcRowsStep(a) ==
  \A k \in KcKeys : KcKept(k) \/ KcDropped(k) \/ (k = KcKeyOf[a] /\ (KcOwned(a) \/ KcRecorded(a) \/ KcReleased(a)))

KcHolder(a) == kcPc[a] = "run" \/ kcCommitted[a]
KcReplays(a, f) ==
  /\ KcRowOf(a).st = "done" /\ f.of = KcRowOf(a).by
  /\ f.kind = "replay" => KcHashOf[f.of] = KcHashOf[a]
  /\ ~kcCommitted[a]
KcAnswers(a) ==
  \/ kcFrames'[a] = kcFrames[a]
  \/ kcFrames[a] = <<>> /\ \E f \in KcFrameSet : kcFrames'[a] = <<f>> /\ (f.kind = "replay" => KcReplays(a, f))
KcSelf(a) ==
  /\ KcOwned(a) \/ (kcMine'[a] = kcMine[a] /\ (KcHolder(a)' => KcHolder(a)))
  /\ kcCommitted'[a] = kcCommitted[a] \/ (kcPc[a] = "run" /\ kcCommitted'[a] /\ kcFrames'[a] = kcFrames[a])
  /\ KcAnswers(a)
KcStepOf(a) ==
  /\ KcRowsStep(a) /\ KcOnly(a) /\ KcSelf(a)
  /\ \A b \in KcAttempts : b # a => kcMine'[b] = kcMine[b]

LEMMA KcUntouched == ASSUME UNCHANGED <<kcRows, kcEpoch>> PROVE \A k \in KcKeys : KcKept(k)
BY DEF KcKept

\* A step that only moves its attempt along, and takes nothing.
LEMMA KcMoved ==
  ASSUME KcTyped, NEW a \in KcAttempts, NEW l \in KcLabels, kcPc' = [kcPc EXCEPT ![a] = l], l # "run",
         KcStays, UNCHANGED <<kcMine, kcCommitted, kcFrames>>, KcRowsStep(a)
  PROVE  KcStepOf(a)
<1>1. KcOnly(a)
  BY DEF KcOnly, KcTyped, KcStays
<1>2. KcSelf(a)
  <2>1. kcPc'[a] = l
    BY DEF KcTyped
  <2> QED
    BY <2>1 DEF KcSelf, KcHolder, KcAnswers
<1> QED
  BY <1>1, <1>2 DEF KcStepOf

\* A step that ends its attempt, with a frame or without.
LEMMA KcEnded ==
  ASSUME KcTyped, NEW a \in KcAttempts, KcEnd(a), KcStays, UNCHANGED <<kcMine, kcCommitted>>, KcRowsStep(a),
         \/ kcFrames' = kcFrames
         \/ kcFrames[a] = <<>> /\ \E f \in KcFrameSet : KcSend(a, f) /\ (f.kind = "replay" => KcReplays(a, f))
  PROVE  KcStepOf(a)
<1>1. kcPc' = [kcPc EXCEPT ![a] = "ended"] /\ kcPc'[a] = "ended"
  BY DEF KcEnd, KcGoto, KcTyped
<1>2. KcAnswers(a) /\ \A b \in KcAttempts : b # a => kcFrames'[b] = kcFrames[b]
  <2>1. CASE kcFrames' = kcFrames
    BY <2>1 DEF KcAnswers
  <2>2. CASE kcFrames[a] = <<>> /\ \E f \in KcFrameSet : KcSend(a, f) /\ (f.kind = "replay" => KcReplays(a, f))
    <3>1. PICK f \in KcFrameSet : KcSend(a, f) /\ (f.kind = "replay" => KcReplays(a, f))
      BY <2>2
    <3>2. kcFrames' = [kcFrames EXCEPT ![a] = <<f>>]
      BY <2>2, <3>1, KcFailTypes
    <3> QED
      BY <2>2, <3>1, <3>2 DEF KcAnswers, KcTyped
  <2> QED
    BY <2>1, <2>2
<1>3. KcOnly(a)
  BY <1>1, <1>2 DEF KcOnly, KcTyped, KcStays
<1>4. KcSelf(a)
  BY <1>1, <1>2 DEF KcSelf, KcHolder
<1> QED
  BY <1>3, <1>4 DEF KcStepOf

LEMMA KcEndedByError ==
  ASSUME KcTyped, NEW a \in KcAttempts, KcFail(a), kcFrames[a] = <<>>, KcStays, UNCHANGED <<kcMine, kcCommitted>>, KcRowsStep(a)
  PROVE  KcStepOf(a)
<1>1. KcEnd(a) /\ KcSend(a, KcFrame("failed", KcNoOne))
  BY DEF KcFail
<1>2. KcFrame("failed", KcNoOne) \in KcFrameSet /\ KcFrame("failed", KcNoOne).kind # "replay"
  BY KcFailed DEF KcFrame
<1> QED
  BY <1>1, <1>2, KcEnded

LEMMA KcEndedThrough ==
  ASSUME KcTyped, NEW a \in KcAttempts, KcThrough(a), KcStays, UNCHANGED <<kcMine, kcCommitted>>, KcRowsStep(a)
  PROVE  KcStepOf(a)
<1>1. CASE kcFrames[a] = <<>>
  BY <1>1, KcEndedByError DEF KcThrough, KcFail
<1>2. CASE kcFrames[a] # <<>>
  BY <1>2, KcEnded DEF KcThrough
<1> QED
  BY <1>1, <1>2

\* The statement that makes the key an attempt's own takes a free key, or one
\* whose lease ran out or whose record expired by now.
LEMMA KcOwnStep ==
  ASSUME KcTyped, KcRowFacts, KcHandFacts, NEW a \in KcAttempts, KcOwn(a), kcPc[a] \in {"insert", "take"},
         KcRowOf(a).st = "free" \/ KcOver(KcKeyOf[a])
  PROVE  KcStepOf(a)
<1> DEFINE k == KcKeyOf[a]
<1>1. k \in KcKeys
  BY KcConstants DEF KcConstants
<1>2. kcHand[a].t \in Nat /\ kcHand[a].t + KcLease > 0
  <2>1. kcHand[a].t \in 0..KcMaxNow
    BY DEF KcTyped, KcHands
  <2> QED
    BY <2>1, KcTimes
<1>3. kcPc' = [kcPc EXCEPT ![a] = "run"] /\ kcPc'[a] = "run" /\ KcStays /\ UNCHANGED <<kcCommitted, kcFrames>>
  BY DEF KcOwn, KcGoto, KcTyped
<1>4. kcRows'[k] = [st |-> "held", by |-> a, until |-> kcHand[a].t + KcLease, at |-> kcHand[a].t, kind |-> "none"]
  BY <1>1 DEF KcOwn, KcTyped
<1>5. kcEpoch'[k] = IF KcOver(k) THEN kcEpoch[k] + 1 ELSE kcEpoch[k]
  <2>1. CASE KcOver(k)
    BY <1>1, <2>1 DEF KcOwn, KcTyped
  <2>2. CASE ~KcOver(k)
    BY <1>1, <2>2 DEF KcOwn, KcTyped
  <2> QED
    BY <2>1, <2>2
<1>6. kcMine' = [kcMine EXCEPT ![a] = kcEpoch'[k]] /\ kcMine'[a] = kcEpoch'[k]
  BY DEF KcOwn, KcTyped
<1>7. KcOwned(a)
  BY <1>2, <1>3, <1>4, <1>5, <1>6 DEF KcOwned, KcRowOf
<1>8. ASSUME NEW j \in KcKeys, j # k PROVE KcKept(j)
  <2>1. kcRows'[j] = kcRows[j]
    BY <1>8 DEF KcOwn, KcTyped
  <2>2. kcEpoch'[j] = kcEpoch[j]
    <3>1. CASE KcOver(k)
      BY <1>8, <3>1 DEF KcOwn, KcTyped
    <3>2. CASE ~KcOver(k)
      BY <1>8, <3>2 DEF KcOwn, KcTyped
    <3> QED
      BY <3>1, <3>2
  <2> QED
    BY <2>1, <2>2 DEF KcKept
<1>9. KcRowsStep(a)
  BY <1>7, <1>8 DEF KcRowsStep
<1>10. KcOnly(a)
  BY <1>3 DEF KcOnly, KcTyped, KcStays
<1>11. KcSelf(a)
  BY <1>3, <1>7 DEF KcSelf, KcAnswers
<1>12. \A b \in KcAttempts : b # a => kcMine'[b] = kcMine[b]
  BY <1>6 DEF KcTyped
<1> QED
  BY <1>9, <1>10, <1>11, <1>12 DEF KcStepOf

\* A key whose row is still the one that was stale is stale.
LEMMA KcStillStale ==
  ASSUME KcTyped, KcRowFacts, KcHandFacts, NEW a \in KcAttempts, kcPc[a] = "take",
         KcRowOf(a).st # "free", KcSame(KcRowOf(a), kcHand[a].row)
  PROVE  KcOver(KcKeyOf[a])
<1> DEFINE k == KcKeyOf[a]
           r == kcRows[k]
           h == kcHand[a]
<1>1. k \in KcKeys /\ KcRowFact(k) /\ KcHandFact(a)
  BY KcConstants DEF KcConstants, KcRowFacts, KcHandFacts
<1>2. /\ r.st \in {"held", "done"} /\ r.until \in Nat /\ r.at \in Nat
      /\ h.t \in Nat /\ h.row.until \in Nat /\ h.row.at \in Nat /\ kcNow \in Nat
  <2>1. r \in KcRow /\ h \in KcHands
    BY <1>1 DEF KcTyped
  <2>2. \A s \in KcRow : s.st \in {"free", "held", "done"} /\ s.until \in Nat /\ s.at \in Nat
    BY KcTimes DEF KcRow, KcTime
  <2>3. h.row \in KcRow /\ h.t \in Nat /\ kcNow \in Nat
    BY <2>1, KcTimes DEF KcHands, KcTyped
  <2>4. r.st # "free"
    BY DEF KcRowOf
  <2> HIDE DEF r, h
  <2> QED
    BY <2>1, <2>2, <2>3, <2>4
<1>3. r.at = h.row.at /\ r.until = h.row.until /\ h.t <= kcNow
  BY <1>1 DEF KcSame, KcRowOf, KcHandFact
<1>4. CASE KcLeaseOver(h.row, h.t) /\ h.row.until > 0
  <2>1. r.st = "held"
    BY <1>1, <1>2, <1>3, <1>4 DEF KcRowFact
  <2> QED
    BY <1>2, <1>3, <1>4, <2>1 DEF KcOver, KcLeaseOver
<1>5. CASE KcExpired(h.row, h.t) /\ h.row.until = 0
  <2>1. r.st = "done"
    BY <1>1, <1>2, <1>3, <1>5 DEF KcRowFact
  <2> QED
    BY <1>2, <1>3, <1>5, <2>1, KcConstants DEF KcOver, KcExpired, KcConstants
<1> QED
  BY <1>1, <1>4, <1>5 DEF KcHandFact, KcStale

LEMMA KcQuiet ==
  ASSUME UNCHANGED <<kcRows, kcEpoch>>, NEW a \in KcAttempts PROVE KcRowsStep(a)
BY KcUntouched DEF KcRowsStep

LEMMA KcAskedStep ==
  ASSUME KcTyped, NEW a \in KcAttempts, NEW n \in 0..(KcTries - 1), KcAsk(a, n), KcStays,
         UNCHANGED <<kcRows, kcEpoch, kcMine, kcCommitted, kcFrames>>
  PROVE  KcStepOf(a)
<1>1. kcPc' = [kcPc EXCEPT ![a] = "insert"] /\ "insert" \in KcLabels
  BY DEF KcAsk, KcGoto, KcLabels, KcBefore
<1> QED
  BY <1>1, KcQuiet, KcMoved

LEMMA KcAgainStep ==
  ASSUME KcTyped, KcPhases, NEW a \in KcAttempts, KcAgain(a), kcPc[a] \in {"read", "take"}, KcStays,
         UNCHANGED <<kcRows, kcEpoch, kcMine, kcCommitted>>
  PROVE  KcStepOf(a)
<1>1. CASE kcHand[a].tries + 1 = KcTries
  <2>1. KcFail(a) /\ kcFrames[a] = <<>>
    BY <1>1 DEF KcAgain, KcPhases, KcPhase, KcBefore
  <2> QED
    BY <2>1, KcQuiet, KcEndedByError
<1>2. CASE kcHand[a].tries + 1 # KcTries
  <2>1. kcHand[a].tries + 1 \in 0..(KcTries - 1)
    <3>1. kcHand[a].tries \in 0..(KcTries - 1)
      BY DEF KcTyped, KcHands
    <3> QED
      BY <3>1, <1>2, KcTimes
  <2>2. KcAsk(a, kcHand[a].tries + 1) /\ UNCHANGED <<kcRenewAt, kcFrames>>
    BY <1>2 DEF KcAgain
  <2> QED
    BY <2>1, <2>2, KcAskedStep
<1> QED
  BY <1>1, <1>2

LEMMA KcClaimStep ==
  ASSUME KcTyped, KcPhases, KcRowFacts, KcHandFacts, NEW a \in KcAttempts,
         KcArrive(a) \/ KcInsert(a) \/ KcRead(a) \/ KcTakeOver(a) \/ KcWake(a)
  PROVE  KcStepOf(a)
<1>1. KcPhase(a) /\ 0 \in 0..(KcTries - 1)
  BY KcTimes DEF KcPhases
<1>2. CASE KcArrive(a)
  <2>1. kcFrames[a] = <<>> /\ KcStays /\ UNCHANGED <<kcRows, kcEpoch, kcMine, kcCommitted>>
    BY <1>1, <1>2 DEF KcArrive, kcHistory, KcPhase, KcBefore
  <2>2. KcRowsStep(a)
    BY <2>1, KcQuiet
  <2>3. CASE KcFail(a)
    BY <2>1, <2>2, <2>3, KcEndedByError
  <2>4. CASE KcAsk(a, 0) /\ UNCHANGED <<kcRenewAt, kcFrames>>
    BY <1>1, <2>1, <2>4, KcAskedStep
  <2> QED
    BY <1>2, <2>3, <2>4 DEF KcArrive
<1>3. CASE KcInsert(a)
  <2>1. kcPc[a] = "insert"
    BY <1>3 DEF KcInsert
  <2>2. CASE KcRowOf(a).st = "free" /\ KcOwn(a)
    BY <2>1, <2>2, KcOwnStep
  <2>3. CASE ~(KcRowOf(a).st = "free" /\ KcOwn(a))
    <3>1. kcPc' = [kcPc EXCEPT ![a] = "read"] /\ KcStays
          /\ UNCHANGED <<kcRows, kcCommitted, kcFrames, kcEpoch, kcMine>>
      BY <1>3, <2>3 DEF KcInsert, KcGoto, kcHistory
    <3>2. "read" \in KcLabels /\ KcRowsStep(a)
      BY <3>1, KcQuiet DEF KcBefore, KcLabels
    <3> QED
      BY <3>1, <3>2, KcMoved
  <2> QED
    BY <2>2, <2>3
<1>4. CASE KcRead(a)
  <2>1. kcPc[a] = "read" /\ KcStays /\ UNCHANGED <<kcRows, kcCommitted, kcEpoch, kcMine>>
    BY <1>4 DEF KcRead, kcHistory
  <2>2. kcFrames[a] = <<>> /\ ~kcCommitted[a] /\ KcRowsStep(a)
    BY <1>1, <2>1, KcQuiet DEF KcPhase, KcBefore
  <2>3. CASE KcAgain(a)
    BY <2>1, <2>3, KcAgainStep
  <2>4. CASE KcRowOf(a).st = "done" /\ KcEnd(a) /\ KcSend(a, KcReplay(a))
    <3>1. KcRowOf(a) \in KcRow
      BY KcConstants DEF KcRowOf, KcTyped, KcConstants
    <3>2. KcReplay(a) \in KcFrameSet /\ (KcReplay(a).kind = "replay" => KcReplays(a, KcReplay(a)))
      BY <2>2, <2>4, <3>1 DEF KcReplay, KcFrame, KcFrameSet, KcRow, KcReplays
    <3> QED
      BY <2>1, <2>2, <2>4, <3>2, KcEnded
  <2>5. ASSUME NEW l \in {"wait", "take"}, KcGoto(a, l), UNCHANGED kcFrames PROVE KcStepOf(a)
    <3>1. kcPc' = [kcPc EXCEPT ![a] = l] /\ l \in KcLabels /\ l # "run"
      BY <2>5 DEF KcGoto, KcLabels, KcBefore
    <3> QED
      BY <2>1, <2>2, <2>5, <3>1, KcMoved
  <2> QED
    BY <1>4, <2>3, <2>4, <2>5 DEF KcRead
<1>5. CASE KcTakeOver(a)
  <2>1. kcPc[a] = "take"
    BY <1>5 DEF KcTakeOver
  <2>2. CASE KcRowOf(a).st # "free" /\ KcSame(KcRowOf(a), kcHand[a].row) /\ KcOwn(a)
    BY <2>1, <2>2, KcStillStale, KcOwnStep
  <2>3. CASE KcAgain(a) /\ KcStays /\ UNCHANGED <<kcRows, kcCommitted, kcHistory>>
    BY <2>1, <2>3, KcAgainStep DEF kcHistory
  <2> QED
    BY <1>5, <2>2, <2>3 DEF KcTakeOver
<1>6. CASE KcWake(a)
  <2>1. kcFrames[a] = <<>> /\ KcStays /\ UNCHANGED <<kcRows, kcEpoch, kcMine, kcCommitted>>
    BY <1>1, <1>6 DEF KcWake, kcHistory, KcPhase, KcBefore
  <2>2. KcRowsStep(a)
    BY <2>1, KcQuiet
  <2>3. CASE KcFail(a)
    BY <2>1, <2>2, <2>3, KcEndedByError
  <2>4. CASE KcAsk(a, 0) /\ UNCHANGED <<kcRenewAt, kcFrames>>
    BY <1>1, <2>1, <2>4, KcAskedStep
  <2> QED
    BY <1>6, <2>3, <2>4 DEF KcWake
<1> QED
  BY <1>2, <1>3, <1>4, <1>5, <1>6

LEMMA KcRunStep ==
  ASSUME ~LateFailures, KcTyped, KcPhases, NEW a \in KcAttempts,
         KcCommit(a) \/ KcEmit(a) \/ KcResolverFails(a) \/ KcProjectionFails(a) \/ KcLeave(a) \/ KcStopped(a)
  PROVE  KcStepOf(a)
<1>1. KcPhase(a)
  BY DEF KcPhases
<1>2. ASSUME NEW from, NEW to \in KcLabels \ {"run"}, KcRuns(a, from, to), UNCHANGED <<kcCommitted, kcFrames>>
      PROVE  KcStepOf(a)
  <2>1. kcPc' = [kcPc EXCEPT ![a] = to] /\ KcStays /\ UNCHANGED <<kcRows, kcEpoch, kcMine>>
    BY <1>2 DEF KcRuns, KcGoto, kcHistory
  <2>2. KcRowsStep(a)
    BY <2>1, KcQuiet
  <2> QED
    BY <1>2, <2>1, <2>2, KcMoved
<1>3. CASE KcCommit(a)
  <2>1. kcPc[a] = "run" /\ kcPc' = [kcPc EXCEPT ![a] = "project"] /\ KcStays
        /\ UNCHANGED <<kcRows, kcEpoch, kcMine, kcFrames>>
        /\ kcCommitted' = [kcCommitted EXCEPT ![a] = TRUE]
    BY <1>3 DEF KcCommit, KcRuns, KcGoto, kcHistory
  <2>2. KcOnly(a) /\ kcCommitted'[a] /\ KcRowsStep(a)
    BY <2>1, KcQuiet DEF KcOnly, KcTyped, KcStays
  <2>3. KcSelf(a)
    BY <2>1, <2>2 DEF KcSelf, KcHolder, KcAnswers
  <2> QED
    BY <2>1, <2>2, <2>3 DEF KcStepOf
<1>4. CASE KcEmit(a)
  <2>1. kcPc[a] = "project" /\ kcPc' = [kcPc EXCEPT ![a] = "leave"] /\ KcStays
        /\ UNCHANGED <<kcRows, kcEpoch, kcMine, kcCommitted>>
        /\ KcSend(a, KcFrame("ok", a))
    BY <1>4 DEF KcEmit, KcRuns, KcGoto, kcHistory
  <2>2. kcFrames[a] = <<>>
    BY <1>1, <2>1 DEF KcPhase
  <2>3. KcFrame("ok", a) \in KcFrameSet /\ KcFrame("ok", a).kind # "replay"
    BY DEF KcFrame, KcFrameSet
  <2>4. kcFrames' = [kcFrames EXCEPT ![a] = <<KcFrame("ok", a)>>] /\ kcFrames'[a] = <<KcFrame("ok", a)>>
    BY <2>1, <2>2, <2>3, KcFailTypes DEF KcTyped
  <2>5. KcOnly(a) /\ KcRowsStep(a) /\ kcPc'[a] = "leave"
    BY <2>1, <2>4, KcQuiet DEF KcOnly, KcTyped, KcStays
  <2>6. KcAnswers(a)
    BY <2>2, <2>3, <2>4 DEF KcAnswers
  <2>7. KcSelf(a)
    BY <2>1, <2>5, <2>6 DEF KcSelf, KcHolder
  <2> QED
    BY <2>1, <2>5, <2>7 DEF KcStepOf
<1>5. CASE KcResolverFails(a)
  BY <1>2, <1>5 DEF KcResolverFails, KcBefore, KcLabels
<1>6. CASE KcProjectionFails(a)
  BY <1>2, <1>6 DEF KcProjectionFails, KcLabels, KcPutting
<1>7. CASE KcLeave(a)
  BY <1>2, <1>7 DEF KcLeave, KcLabels, KcPutting
<1>8. CASE KcStopped(a)
  <2>1. PICK l \in {"run", "project", "leave"} :
          KcRuns(a, l, IF kcCommitted[a] /\ kcStop[a] = "cancel" THEN "putcommitted" ELSE "release")
    BY <1>8 DEF KcStopped
  <2>2. UNCHANGED <<kcCommitted, kcFrames>>
    BY <1>8 DEF KcStopped
  <2>3. CASE kcCommitted[a] /\ kcStop[a] = "cancel"
    BY <1>2, <2>1, <2>2, <2>3 DEF KcLabels, KcPutting
  <2>4. CASE ~(kcCommitted[a] /\ kcStop[a] = "cancel")
    BY <1>2, <2>1, <2>2, <2>4 DEF KcLabels, KcBefore
  <2> QED
    BY <2>3, <2>4
<1> QED
  BY <1>3, <1>4, <1>5, <1>6, <1>7, <1>8

\* What a sweep deletes is a record, or what has run out.
LEMMA KcDeleted ==
  ASSUME KcTyped, NEW D \in SUBSET KcKeys, KcDelete(D), NEW a \in KcAttempts,
         \A k \in D : kcRows[k].st = "done" \/ KcOver(k)
  PROVE  KcRowsStep(a)
<1> SUFFICES ASSUME NEW k \in KcKeys PROVE KcKept(k) \/ KcDropped(k)
  BY DEF KcRowsStep
<1>1. CASE k \in D
  BY <1>1 DEF KcDelete, KcDropped
<1>2. CASE k \notin D
  BY <1>2 DEF KcDelete, KcKept
<1> QED
  BY <1>1, <1>2

LEMMA KcStoreStep ==
  ASSUME KcTyped, KcPhases, KcRowFacts, KcHandFacts, NEW a \in KcAttempts,
         KcPut(a) \/ KcRelease(a) \/ KcExpire(a) \/ KcCount(a) \/ KcOldest(a) \/ KcDrop(a) \/ KcStoreFails(a)
  PROVE  KcStepOf(a)
<1> DEFINE key == KcKeyOf[a]
<1>1. KcPhase(a) /\ KcHandFact(a) /\ key \in KcKeys
  BY KcConstants DEF KcPhases, KcConstants, KcHandFacts
<1>2. CASE KcPut(a)
  <2>1. kcPc[a] \in KcPutting /\ KcStays /\ UNCHANGED <<kcCommitted, kcEpoch, kcMine>>
    BY <1>2 DEF KcPut, kcHistory
  <2>2. CASE KcIsMine(a)
    <3>1. /\ kcRows' = [kcRows EXCEPT ![key] = [st |-> "done", by |-> a, until |-> 0, at |-> kcNow, kind |-> KcKindOf(a)]]
          /\ kcPc' = [kcPc EXCEPT ![a] = "expire"] /\ "expire" \in KcLabels
          /\ UNCHANGED kcFrames
      BY <1>2, <2>2 DEF KcPut, KcGoto, KcLabels, KcAfter
    <3>2. KcRecorded(a)
      BY <1>1, <2>1, <2>2, <3>1 DEF KcRecorded, KcIsMine, KcRowOf, KcTyped
    <3>3. \A k \in KcKeys : k # key => KcKept(k)
      BY <2>1, <3>1 DEF KcKept, KcTyped
    <3>4. KcRowsStep(a)
      BY <3>2, <3>3 DEF KcRowsStep
    <3> QED
      BY <2>1, <3>1, <3>4, KcMoved
  <2>3. CASE ~KcIsMine(a)
    <3>1. KcThrough(a) /\ kcRows' = kcRows
      BY <1>2, <2>3 DEF KcPut
    <3> QED
      BY <2>1, <3>1, KcQuiet, KcEndedThrough
  <2> QED
    BY <2>2, <2>3
<1>3. CASE KcRelease(a)
  <2>1. kcPc[a] = "release" /\ KcFail(a) /\ KcStays /\ UNCHANGED <<kcCommitted, kcEpoch, kcMine>>
    BY <1>3 DEF KcRelease, kcHistory
  <2>2. kcFrames[a] = <<>> /\ kcPc'[a] = "ended"
    BY <1>1, <2>1 DEF KcPhase, KcBefore, KcFail, KcEnd, KcGoto, KcTyped
  <2>3. KcRowsStep(a)
    <3>1. CASE KcIsMine(a) /\ KcRowOf(a).st = "held"
      <4>1. kcRows' = [kcRows EXCEPT ![key] = KcFree]
        BY <1>3, <3>1 DEF KcRelease
      <4>2. KcReleased(a)
        BY <1>1, <2>1, <2>2, <3>1, <4>1 DEF KcReleased, KcIsMine, KcRowOf, KcTyped
      <4>3. \A k \in KcKeys : k # key => KcKept(k)
        BY <2>1, <4>1 DEF KcKept, KcTyped
      <4> QED
        BY <4>2, <4>3 DEF KcRowsStep
    <3>2. CASE ~(KcIsMine(a) /\ KcRowOf(a).st = "held")
      <4>1. kcRows' = kcRows
        BY <1>3, <3>2 DEF KcRelease
      <4> QED
        BY <2>1, <4>1, KcQuiet
    <3> QED
      BY <3>1, <3>2
  <2> QED
    BY <2>1, <2>2, <2>3, KcEndedByError
<1>4. CASE KcExpire(a)
  <2> DEFINE D == {k \in KcKeys : KcLeaseOver(kcRows[k], kcHand[a].t) \/ KcExpired(kcRows[k], kcHand[a].t)}
  <2>1. KcDelete(D) /\ kcPc' = [kcPc EXCEPT ![a] = "count"] /\ UNCHANGED kcFrames /\ "count" \in KcLabels
    BY <1>4 DEF KcExpire, KcGoto, KcLabels, KcAfter
  <2>2. ASSUME NEW k \in D PROVE kcRows[k].st = "done" \/ KcOver(k)
    <3>1. CASE KcLeaseOver(kcRows[k], kcHand[a].t)
      <4>1. kcRows[k].until \in Nat /\ kcHand[a].t \in Nat /\ kcNow \in Nat /\ kcHand[a].t <= kcNow
        <5>1. kcRows[k] \in KcRow /\ kcHand[a] \in KcHands
          BY DEF KcTyped
        <5> QED
          BY <5>1, <1>1, KcTimes DEF KcRow, KcHands, KcTime, KcTyped, KcHandFact
      <4> QED
        BY <3>1, <4>1 DEF KcOver, KcLeaseOver
    <3>2. CASE KcExpired(kcRows[k], kcHand[a].t)
      BY <3>2 DEF KcExpired
    <3> QED
      BY <3>1, <3>2
  <2>3. D \in SUBSET KcKeys
    OBVIOUS
  <2> HIDE DEF D
  <2>4. KcRowsStep(a)
    BY <2>1, <2>2, <2>3, KcDeleted
  <2>5. KcStays /\ UNCHANGED <<kcMine, kcCommitted>>
    BY <2>1 DEF KcDelete
  <2> QED
    BY <2>1, <2>4, <2>5, KcMoved
<1>5. CASE KcCount(a)
  <2>1. KcStays /\ UNCHANGED <<kcRows, kcCommitted, kcEpoch, kcMine>>
    BY <1>5 DEF KcCount, kcHistory
  <2>2. KcRowsStep(a)
    BY <2>1, KcQuiet
  <2>3. CASE KcThrough(a)
    BY <2>1, <2>2, <2>3, KcEndedThrough
  <2>4. CASE ~KcThrough(a)
    <3>1. kcPc' = [kcPc EXCEPT ![a] = "oldest"] /\ UNCHANGED kcFrames /\ "oldest" \in KcLabels
      BY <1>5, <2>4 DEF KcCount, KcGoto, KcLabels, KcAfter
    <3> QED
      BY <2>1, <2>2, <3>1, KcMoved
  <2> QED
    BY <2>3, <2>4
<1>6. CASE KcOldest(a)
  <2>1. kcPc' = [kcPc EXCEPT ![a] = "drop"] /\ KcStays /\ UNCHANGED <<kcRows, kcFrames, kcCommitted, kcEpoch, kcMine>>
    BY <1>6 DEF KcOldest, kcHistory, KcGoto
  <2>2. "drop" \in KcLabels /\ KcRowsStep(a)
    BY <2>1, KcQuiet DEF KcLabels, KcAfter
  <2> QED
    BY <2>1, <2>2, KcMoved
<1>7. CASE KcDrop(a)
  <2> DEFINE D == {k \in kcHand[a].oldest : kcRows[k].st = "done"}
  <2>1. KcDelete(D) /\ KcThrough(a)
    BY <1>7 DEF KcDrop
  <2>2. D \in SUBSET KcKeys /\ \A k \in D : kcRows[k].st = "done" \/ KcOver(k)
    <3>1. kcHand[a] \in KcHands
      BY DEF KcTyped
    <3> QED
      BY <3>1 DEF KcHands
  <2> HIDE DEF D
  <2>3. KcRowsStep(a)
    BY <2>1, <2>2, KcDeleted
  <2>4. KcStays /\ UNCHANGED <<kcMine, kcCommitted>>
    BY <2>1 DEF KcDelete
  <2> QED
    BY <2>1, <2>3, <2>4, KcEndedThrough
<1>8. CASE KcStoreFails(a)
  <2>1. KcStays /\ UNCHANGED <<kcRows, kcCommitted, kcEpoch, kcMine>>
    BY <1>8 DEF KcStoreFails, kcHistory
  <2>2. KcRowsStep(a)
    BY <2>1, KcQuiet
  <2>3. CASE kcPc[a] \in {"insert", "read", "take", "release"} /\ KcFail(a)
    <3>1. kcFrames[a] = <<>>
      BY <1>1, <2>3 DEF KcPhase, KcBefore
    <3> QED
      BY <2>1, <2>2, <2>3, <3>1, KcEndedByError
  <2>4. CASE KcThrough(a)
    BY <2>1, <2>2, <2>4, KcEndedThrough
  <2> QED
    BY <1>8, <2>3, <2>4 DEF KcStoreFails
<1> QED
  BY <1>2, <1>3, <1>4, <1>5, <1>6, <1>7, <1>8

\* The renewal, and what goes wrong with it, with the caller or with the process.
LEMMA KcOtherStep ==
  ASSUME ~LateFailures, KcTyped, KcPhases, NEW a \in KcAttempts,
         KcRenew(a) \/ KcRenewThrows(a) \/ KcCancel(a) \/ KcCrash(a)
  PROVE  KcTyped' /\ KcPhases' /\ KcStepOf(a)
<1> DEFINE key == KcKeyOf[a]
<1>1. KcPhase(a) /\ key \in KcKeys
  BY KcConstants DEF KcPhases, KcConstants
<1>2. CASE KcRenew(a)
  <2>1. KcStays /\ UNCHANGED <<kcPc, kcHand, kcCommitted, kcFrames, kcEpoch, kcMine>>
    BY <1>2 DEF KcRenew, kcHistory
  <2>2. kcNow + KcEvery \in Nat /\ kcNow + KcLease \in KcTime \ {0} /\ 0 \in Nat
    BY KcTimes DEF KcTyped, KcTime
  <2>3. /\ kcRows' \in [KcKeys -> KcRow] /\ kcRenewAt' \in [KcAttempts -> Nat]
        /\ \A k \in KcKeys : KcKept(k)
    <3>1. CASE KcIsMine(a) /\ KcRowOf(a).st = "held"
      <4>1. /\ kcRows' = [kcRows EXCEPT ![key].until = kcNow + KcLease]
            /\ kcRenewAt' = [kcRenewAt EXCEPT ![a] = kcNow + KcEvery]
        BY <1>2, <3>1 DEF KcRenew
      <4>2. [kcRows[key] EXCEPT !.until = kcNow + KcLease] \in KcRow
        <5>1. kcRows[key] \in KcRow
          BY <1>1 DEF KcTyped
        <5> QED
          BY <2>2, <5>1 DEF KcRow
      <4>3. kcRows' \in [KcKeys -> KcRow] /\ kcRenewAt' \in [KcAttempts -> Nat]
        BY <2>2, <4>1, <4>2 DEF KcTyped
      <4>4. kcRows'[key] = [kcRows[key] EXCEPT !.until = kcNow + KcLease] /\ kcRows[key].st = "held"
        BY <1>1, <3>1, <4>1 DEF KcTyped, KcRowOf
      <4>5. KcKept(key)
        BY <2>1, <2>2, <4>4 DEF KcKept
      <4>6. \A k \in KcKeys : k # key => KcKept(k)
        BY <2>1, <4>1 DEF KcKept, KcTyped
      <4> QED
        BY <4>3, <4>5, <4>6
    <3>2. CASE ~(KcIsMine(a) /\ KcRowOf(a).st = "held")
      <4>1. kcRows' = kcRows /\ kcRenewAt' = [kcRenewAt EXCEPT ![a] = 0]
        BY <1>2, <3>2 DEF KcRenew
      <4> QED
        BY <2>1, <2>2, <4>1, KcUntouched DEF KcTyped
    <3> QED
      BY <3>1, <3>2
  <2>4. KcTyped'
    BY <2>1, <2>3 DEF KcTyped, KcStays
  <2>5. KcPhases'
    BY <2>1 DEF KcPhases, KcPhase, KcStays
  <2>6. KcRowsStep(a) /\ KcOnly(a) /\ KcSelf(a)
    BY <2>1, <2>3 DEF KcRowsStep, KcOnly, KcStays, KcSelf, KcHolder, KcAnswers
  <2> QED
    BY <2>1, <2>4, <2>5, <2>6 DEF KcStepOf
<1>3. ASSUME NEW s \in {"cancel", "renewal"}, kcStop' = [kcStop EXCEPT ![a] = s], kcRenewAt' \in [KcAttempts -> Nat],
             s = "renewal" => kcPc[a] = "run",
             UNCHANGED <<kcNow, kcRows, kcPc, kcHand, kcCommitted, kcFrames, kcEpoch, kcMine>>
      PROVE  KcTyped' /\ KcPhases' /\ KcStepOf(a)
  <2>1. KcTyped'
    BY <1>3 DEF KcTyped
  <2>2. KcOnly(a) /\ kcStop'[a] = s
    BY <1>3 DEF KcTyped, KcOnly
  <2>3. KcPhase(a)'
    BY <1>1, <1>3, <2>2 DEF KcPhase, KcBefore
  <2>4. KcPhases'
    BY <2>2, <2>3, KcPhasesOfOthers
  <2>5. KcRowsStep(a)
    BY <1>3, KcQuiet
  <2>6. KcSelf(a)
    BY <1>3 DEF KcSelf, KcHolder, KcAnswers
  <2> QED
    BY <1>3, <2>1, <2>2, <2>4, <2>5, <2>6 DEF KcStepOf
<1>4. CASE KcRenewThrows(a)
  <2>1. kcRenewAt' \in [KcAttempts -> Nat]
    BY <1>4 DEF KcRenewThrows, KcTyped
  <2> QED
    BY <1>3, <1>4, <2>1 DEF KcRenewThrows, kcHistory
<1>5. CASE KcCancel(a)
  <2>1. kcRenewAt' \in [KcAttempts -> Nat]
    BY <1>5 DEF KcCancel, KcTyped
  <2> QED
    BY <1>3, <1>5, <2>1 DEF KcCancel, kcHistory
<1>6. CASE KcCrash(a)
  <2>1. KcEnd(a) /\ KcStays /\ UNCHANGED <<kcRows, kcCommitted, kcFrames, kcEpoch, kcMine>>
    BY <1>6 DEF KcCrash, kcHistory
  <2>2. /\ kcPc' = [kcPc EXCEPT ![a] = "ended"] /\ kcPc' \in [KcAttempts -> KcLabels]
        /\ kcHand' \in [KcAttempts -> KcHands] /\ kcRenewAt' \in [KcAttempts -> Nat]
    BY <2>1, KcEndTypes
  <2>3. KcTyped'
    BY <2>1, <2>2 DEF KcTyped, KcStays
  <2>4. KcOnly(a) /\ kcPc'[a] = "ended"
    BY <2>1, <2>2 DEF KcTyped, KcStays, KcOnly
  <2>5. KcPhase(a)'
    BY <1>1, <2>1, <2>4 DEF KcPhase, KcBefore, KcPutting, KcStays
  <2>6. KcPhases'
    BY <2>4, <2>5, KcPhasesOfOthers
  <2>7. KcStepOf(a)
    BY <2>1, KcQuiet, KcEnded
  <2> QED
    BY <2>3, <2>6, <2>7
<1> QED
  BY <1>2, <1>4, <1>5, <1>6

KcOneStep(a) ==
  \/ KcArrive(a) \/ KcInsert(a) \/ KcRead(a) \/ KcTakeOver(a) \/ KcWake(a)
  \/ KcCommit(a) \/ KcEmit(a) \/ KcResolverFails(a) \/ KcProjectionFails(a) \/ KcLeave(a) \/ KcStopped(a)
  \/ KcPut(a) \/ KcRelease(a) \/ KcExpire(a) \/ KcCount(a) \/ KcOldest(a) \/ KcDrop(a)
  \/ KcRenew(a) \/ KcRenewThrows(a) \/ KcCancel(a) \/ KcStoreFails(a) \/ KcCrash(a)

LEMMA KcStepKeeps ==
  ASSUME ~LateFailures, KcTyped, KcPhases, KcRowFacts, KcHandFacts, IsFiniteSet(KcTaken), NEW a \in KcAttempts, KcOneStep(a)
  PROVE  KcTyped' /\ KcPhases' /\ KcStepOf(a)
<1>1. CASE KcArrive(a) \/ KcInsert(a) \/ KcRead(a) \/ KcTakeOver(a) \/ KcWake(a)
  BY <1>1, KcClaimKeeps, KcClaimStep
<1>2. CASE KcCommit(a) \/ KcEmit(a) \/ KcResolverFails(a) \/ KcProjectionFails(a) \/ KcLeave(a) \/ KcStopped(a)
  BY <1>2, KcRunKeeps, KcRunStep
<1>3. CASE KcPut(a) \/ KcRelease(a) \/ KcExpire(a) \/ KcCount(a) \/ KcOldest(a) \/ KcDrop(a) \/ KcStoreFails(a)
  BY <1>3, KcStoreKeeps, KcStoreStep
<1>4. CASE KcRenew(a) \/ KcRenewThrows(a) \/ KcCancel(a) \/ KcCrash(a)
  BY <1>4, KcOtherStep
<1> QED
  BY <1>1, <1>2, <1>3, <1>4 DEF KcOneStep

\* What an attempt goes by stays no later than now, and what it is about to take
\* over is what it saw run out.
LEMMA KcHandsKept ==
  ASSUME KcTyped, KcRowFacts, KcHandFacts, NEW a \in KcAttempts, KcOneStep(a), KcOnly(a), KcTyped'
  PROVE  KcHandFacts'
<1> DEFINE Fits(h) == h.t <= kcNow /\ (kcPc'[a] = "take" => KcStale(h.row, h.t))
<1>1. kcNow \in Nat /\ 0 <= kcNow /\ kcHand[a].t <= kcNow /\ KcEmpty.t = 0
  BY KcTimes DEF KcTyped, KcHandFacts, KcHandFact, KcEmpty
<1>2. kcNow' = kcNow
  <2>1. CASE KcArrive(a) \/ KcInsert(a) \/ KcRead(a) \/ KcTakeOver(a) \/ KcWake(a)
    BY <2>1 DEF KcArrive, KcInsert, KcOwn, KcRead, KcTakeOver, KcWake, KcStays
  <2>2. CASE KcCommit(a) \/ KcEmit(a) \/ KcResolverFails(a) \/ KcProjectionFails(a) \/ KcLeave(a) \/ KcStopped(a)
    BY <2>2 DEF KcCommit, KcEmit, KcResolverFails, KcProjectionFails, KcLeave, KcStopped, KcRuns, KcStays
  <2>3. CASE KcPut(a) \/ KcRelease(a) \/ KcExpire(a) \/ KcCount(a) \/ KcOldest(a) \/ KcDrop(a) \/ KcStoreFails(a)
    BY <2>3 DEF KcPut, KcRelease, KcExpire, KcCount, KcOldest, KcDrop, KcStoreFails, KcDelete, KcStays
  <2>4. CASE KcRenew(a) \/ KcRenewThrows(a) \/ KcCancel(a) \/ KcCrash(a)
    BY <2>4 DEF KcRenew, KcRenewThrows, KcCancel, KcCrash, KcStays
  <2> QED
    BY <2>1, <2>2, <2>3, <2>4 DEF KcOneStep
<1>3. ASSUME NEW h, kcHand' = [kcHand EXCEPT ![a] = h], Fits(h) PROVE KcHandFacts'
  <2>1. kcHand'[a] = h /\ \A b \in KcAttempts : b # a => kcHand'[b] = kcHand[b] /\ kcPc'[b] = kcPc[b]
    BY <1>3 DEF KcTyped, KcOnly
  <2> SUFFICES ASSUME NEW b \in KcAttempts PROVE KcHandFact(b)'
    BY DEF KcHandFacts
  <2>2. CASE b = a
    BY <1>2, <1>3, <2>1, <2>2 DEF KcHandFact
  <2>3. CASE b # a
    BY <1>2, <2>1, <2>3 DEF KcHandFacts, KcHandFact
  <2> QED
    BY <2>2, <2>3
<1>4. ASSUME kcHand' = kcHand, kcPc'[a] # "take" \/ kcPc'[a] = kcPc[a] PROVE KcHandFacts'
  BY <1>2, <1>4 DEF KcHandFacts, KcHandFact, KcOnly
<1>5. ASSUME KcEnd(a) PROVE KcHandFacts'
  <2>1. kcPc'[a] = "ended" /\ kcHand' = [kcHand EXCEPT ![a] = KcEmpty]
    BY <1>5 DEF KcEnd, KcGoto, KcTyped
  <2> QED
    BY <1>1, <1>3, <2>1
<1>6. ASSUME NEW n, KcAsk(a, n) PROVE KcHandFacts'
  <2> DEFINE h == [KcEmpty EXCEPT !.t = kcNow, !.tries = n]
  <2>1. kcPc'[a] = "insert" /\ kcHand' = [kcHand EXCEPT ![a] = h]
    BY <1>6 DEF KcAsk, KcGoto, KcTyped
  <2>2. h.t = kcNow
    BY DEF KcEmpty
  <2>3. Fits(h)
    BY <1>1, <2>1, <2>2
  <2> HIDE DEF h
  <2> QED
    BY <1>3, <2>1, <2>3
<1>7. ASSUME KcAgain(a) PROVE KcHandFacts'
  BY <1>5, <1>6, <1>7 DEF KcAgain, KcFail
<1>8. ASSUME KcOwn(a) PROVE KcHandFacts'
  <2>1. kcPc'[a] = "run" /\ kcHand' = [kcHand EXCEPT ![a] = KcEmpty]
    BY <1>8 DEF KcOwn, KcGoto, KcTyped
  <2> QED
    BY <1>1, <1>3, <2>1
<1>9. ASSUME NEW from, NEW to, KcRuns(a, from, to), to # "take" PROVE KcHandFacts'
  <2>1. kcPc'[a] = to /\ kcHand' = kcHand
    BY <1>9 DEF KcRuns, KcGoto, KcTyped
  <2> QED
    BY <1>4, <1>9, <2>1
<1>10. CASE KcArrive(a) \/ KcWake(a)
  BY <1>5, <1>6, <1>10 DEF KcArrive, KcWake, KcFail
<1>11. CASE KcInsert(a)
  <2>1. CASE KcOwn(a)
    BY <1>8, <2>1
  <2>2. CASE ~KcOwn(a)
    <3>1. kcPc'[a] = "read" /\ kcHand' = kcHand
      BY <1>11, <2>2 DEF KcInsert, KcGoto, KcTyped
    <3> QED
      BY <1>4, <3>1
  <2> QED
    BY <2>1, <2>2
<1>12. CASE KcRead(a)
  <2> DEFINE r == KcRowOf(a)
             t == kcHand[a].t
  <2>1. CASE KcAgain(a)
    BY <1>7, <2>1
  <2>2. CASE KcEnd(a)
    BY <1>5, <2>2
  <2>3. CASE KcGoto(a, "wait") /\ kcHand' = [kcHand EXCEPT ![a] = KcEmpty]
    <3>1. kcPc'[a] = "wait"
      BY <2>3 DEF KcGoto, KcTyped
    <3> QED
      BY <1>1, <1>3, <2>3, <3>1
  <2>4. CASE (KcLeaseOver(r, t) \/ KcExpired(r, t)) /\ kcHand' = [kcHand EXCEPT ![a].row = r]
    <3> DEFINE h == [kcHand[a] EXCEPT !.row = r]
    <3>1. h.t = t /\ h.row = r
      BY DEF KcTyped, KcHands
    <3>2. KcStale(r, t)
      <4>1. KcRowFact(KcKeyOf[a])
        BY KcConstants DEF KcConstants, KcRowFacts
      <4> QED
        BY <2>4, <4>1 DEF KcStale, KcRowFact, KcRowOf, KcLeaseOver, KcExpired
    <3>3. kcHand' = [kcHand EXCEPT ![a] = h]
      BY <2>4 DEF KcTyped
    <3>4. Fits(h)
      BY <1>1, <3>1, <3>2
    <3> HIDE DEF h
    <3> QED
      BY <1>3, <3>3, <3>4
  <2> QED
    BY <1>12, <2>1, <2>2, <2>3, <2>4 DEF KcRead
<1>13. CASE KcTakeOver(a)
  BY <1>7, <1>8, <1>13 DEF KcTakeOver
<1>14. CASE KcCommit(a) \/ KcEmit(a) \/ KcResolverFails(a) \/ KcProjectionFails(a) \/ KcLeave(a)
  BY <1>9, <1>14 DEF KcCommit, KcEmit, KcResolverFails, KcProjectionFails, KcLeave
<1>15. CASE KcStopped(a)
  BY <1>9, <1>15 DEF KcStopped
<1>16. CASE KcPut(a)
  <2>1. CASE KcIsMine(a)
    <3> DEFINE h == [kcHand[a] EXCEPT !.t = kcNow]
    <3>1. kcPc'[a] = "expire"
      BY <1>16, <2>1 DEF KcPut, KcGoto, KcTyped
    <3>2. kcHand' = [kcHand EXCEPT ![a] = h]
      BY <1>16, <2>1 DEF KcPut, KcTyped
    <3>3. h.t = kcNow
      <4>1. kcHand[a] \in KcHands
        BY DEF KcTyped
      <4> QED
        BY <4>1 DEF KcHands
    <3>4. Fits(h)
      BY <1>1, <3>1, <3>3
    <3> HIDE DEF h
    <3> QED
      BY <1>3, <3>2, <3>4
  <2>2. CASE ~KcIsMine(a)
    BY <1>5, <1>16, <2>2 DEF KcPut, KcThrough
  <2> QED
    BY <2>1, <2>2
<1>17. CASE KcRelease(a) \/ KcDrop(a) \/ KcStoreFails(a) \/ KcCrash(a)
  BY <1>5, <1>17 DEF KcRelease, KcDrop, KcStoreFails, KcCrash, KcFail, KcThrough
<1>18. CASE KcExpire(a)
  <2>1. kcPc'[a] = "count" /\ kcHand' = kcHand
    BY <1>18 DEF KcExpire, KcGoto, KcTyped
  <2> QED
    BY <1>4, <2>1
<1>19. CASE KcCount(a)
  <2>1. CASE KcThrough(a)
    BY <1>5, <2>1 DEF KcThrough
  <2>2. CASE ~KcThrough(a)
    <3>1. PICK n : kcPc'[a] = "oldest" /\ kcHand' = [kcHand EXCEPT ![a] = [KcEmpty EXCEPT !.over = n]]
      BY <1>19, <2>2 DEF KcCount, KcGoto, KcTyped
    <3>2. [KcEmpty EXCEPT !.over = n].t = 0
      BY DEF KcEmpty
    <3> QED
      BY <1>1, <1>3, <3>1, <3>2
  <2> QED
    BY <2>1, <2>2
<1>20. CASE KcOldest(a)
  <2>1. PICK D : kcPc'[a] = "drop" /\ kcHand' = [kcHand EXCEPT ![a] = [KcEmpty EXCEPT !.oldest = D]]
    BY <1>20 DEF KcOldest, KcGoto, KcTyped
  <2>2. [KcEmpty EXCEPT !.oldest = D].t = 0
    BY DEF KcEmpty
  <2> QED
    BY <1>1, <1>3, <2>1, <2>2
<1>21. CASE KcRenew(a) \/ KcRenewThrows(a) \/ KcCancel(a)
  BY <1>4, <1>21 DEF KcRenew, KcRenewThrows, KcCancel
<1> QED
  BY <1>10, <1>11, <1>12, <1>13, <1>14, <1>15, <1>16, <1>17, <1>18, <1>19, <1>20, <1>21 DEF KcOneStep

-----------------------------------------------------------------------------
(* The inductive invariant                                                   *)

\* Who runs or has run a key took it in an epoch that is over, or has its row.
KcHolds(a) ==
  LET k == KcKeyOf[a] IN
  KcHolder(a) => /\ kcMine[a] <= kcEpoch[k]
                 /\ kcMine[a] = kcEpoch[k] => kcRows[k].st # "free" /\ kcRows[k].by = a
KcApart(a, b) == (KcHolder(a) /\ KcHolder(b)) => kcMine[a] # kcMine[b]
KcRecord(k) ==
  LET b == kcRows[k].by IN
  kcRows[k].st = "done" => kcCommitted[b] /\ (kcRows[k].kind = "ok" => kcFrames[b] = <<KcFrame("ok", b)>>)
KcReplayed(a) ==
  \A f \in KcFrameSet :
    (kcFrames[a] = <<f>> /\ f.kind = "replay") =>
      f.of \in KcAttempts /\ ~kcCommitted[a] /\ kcCommitted[f.of] /\ KcHashOf[f.of] = KcHashOf[a]

KcHeld == \A a \in KcAttempts : KcHolds(a)
KcAllApart == \A a, b \in KcAttempts : (a # b /\ KcKeyOf[a] = KcKeyOf[b]) => KcApart(a, b)
KcRecords == \A k \in KcKeys : KcRecord(k)
KcAllReplayed == \A a \in KcAttempts : KcReplayed(a)

KcBases == KcTyped /\ KcPhases /\ KcRowFacts /\ KcHandFacts /\ IsFiniteSet(KcTaken)
KcIInv == KcBases /\ KcHeld /\ KcAllApart /\ KcRecords /\ KcAllReplayed

LEMMA KcRowFactsKept ==
  ASSUME KcTyped, KcRowFacts, NEW a \in KcAttempts, KcRowsStep(a)
  PROVE  KcRowFacts'
<1> SUFFICES ASSUME NEW k \in KcKeys PROVE KcRowFact(k)'
  BY DEF KcRowFacts
<1>1. KcRowFact(k) /\ KcFree.st = "free"
  BY DEF KcRowFacts, KcFree
<1>2. CASE KcKept(k)
  <2>1. CASE kcRows'[k] = kcRows[k]
    BY <1>1, <2>1 DEF KcRowFact
  <2>2. CASE kcRows[k].st = "held" /\ \E u \in KcTime \ {0} : kcRows'[k] = [kcRows[k] EXCEPT !.until = u]
    <3>1. PICK u \in KcTime \ {0} : kcRows'[k] = [kcRows[k] EXCEPT !.until = u]
      BY <2>2
    <3>2. kcRows[k] \in KcRow /\ u > 0
      BY KcTimes DEF KcTyped, KcTime
    <3>3. kcRows'[k].st = "held" /\ kcRows'[k].by = kcRows[k].by /\ kcRows'[k].until = u
      BY <2>2, <3>1, <3>2 DEF KcRow
    <3> QED
      BY <1>1, <2>2, <3>2, <3>3 DEF KcRowFact
  <2> QED
    BY <1>2, <2>1, <2>2 DEF KcKept
<1>3. CASE KcDropped(k)
  BY <1>1, <1>3 DEF KcDropped, KcRowFact
<1>4. CASE k = KcKeyOf[a] /\ KcOwned(a)
  BY <1>4 DEF KcOwned, KcRowFact
<1>5. CASE k = KcKeyOf[a] /\ KcRecorded(a)
  BY <1>5 DEF KcRecorded, KcRowFact
<1>6. CASE k = KcKeyOf[a] /\ KcReleased(a)
  BY <1>1, <1>6 DEF KcReleased, KcRowFact
<1> QED
  BY <1>2, <1>3, <1>4, <1>5, <1>6 DEF KcRowsStep

LEMMA KcFewTaken ==
  ASSUME KcTyped, IsFiniteSet(KcTaken), NEW a \in KcAttempts, KcRowsStep(a)
  PROVE  IsFiniteSet(KcTaken')
<1>1. \A k \in KcKeys : k # KcKeyOf[a] /\ kcRows[k].st = "free" => kcRows'[k].st = "free"
  <2> SUFFICES ASSUME NEW k \in KcKeys, k # KcKeyOf[a], kcRows[k].st = "free" PROVE kcRows'[k].st = "free"
    OBVIOUS
  <2> QED
    BY DEF KcRowsStep, KcKept, KcDropped, KcFree
<1>2. KcTaken' \subseteq KcTaken \union {KcKeyOf[a]}
  BY <1>1 DEF KcTaken
<1>3. IsFiniteSet(KcTaken \union {KcKeyOf[a]})
  BY FS_AddElement
<1> QED
  BY <1>2, <1>3, FS_Subset

LEMMA KcHeldKept ==
  ASSUME KcTyped, KcPhases, KcHeld, NEW a \in KcAttempts, KcStepOf(a)
  PROVE  KcHeld'
<1> SUFFICES ASSUME NEW b \in KcAttempts, KcHolder(b)'
    PROVE /\ kcMine'[b] <= kcEpoch'[KcKeyOf[b]]
          /\ kcMine'[b] = kcEpoch'[KcKeyOf[b]] => kcRows'[KcKeyOf[b]].st # "free" /\ kcRows'[KcKeyOf[b]].by = b
  BY DEF KcHeld, KcHolds
<1> DEFINE k == KcKeyOf[b]
<1>1. k \in KcKeys /\ kcMine[b] \in Nat /\ kcEpoch[k] \in Nat /\ kcRows[k] \in KcRow
  BY KcConstants DEF KcConstants, KcTyped
<1>2. CASE b = a /\ KcOwned(a)
  <2>1. kcEpoch'[k] \in Nat
    BY <1>1, <1>2 DEF KcOwned
  <2> QED
    BY <1>2, <2>1 DEF KcOwned
<1>3. CASE ~(b = a /\ KcOwned(a))
  <2>1. kcMine'[b] = kcMine[b] /\ KcHolder(b)
    BY <1>3 DEF KcStepOf, KcSelf, KcOnly, KcHolder
  <2>2. kcMine[b] <= kcEpoch[k] /\ (kcMine[b] = kcEpoch[k] => kcRows[k].st # "free" /\ kcRows[k].by = b)
    BY <2>1 DEF KcHeld, KcHolds
  <2>3. CASE KcKept(k)
    BY <1>1, <2>1, <2>2, <2>3 DEF KcKept, KcRow
  <2>4. CASE KcDropped(k)
    BY <1>1, <2>1, <2>2, <2>4 DEF KcDropped
  <2>5. CASE k = KcKeyOf[a] /\ KcOwned(a)
    <3>1. b # a
      BY <1>3, <2>5
    <3>2. CASE KcOver(k)
      BY <1>1, <2>1, <2>2, <2>5, <3>2 DEF KcOwned
    <3>3. CASE ~KcOver(k)
      <4>1. kcRows[k].st = "free" /\ kcEpoch'[k] = kcEpoch[k]
        BY <2>5, <3>3 DEF KcOwned
      <4> QED
        BY <1>1, <2>1, <2>2, <4>1
    <3> QED
      BY <3>2, <3>3
  <2>6. CASE k = KcKeyOf[a] /\ KcRecorded(a)
    BY <1>1, <2>1, <2>2, <2>6 DEF KcRecorded
  <2>7. CASE k = KcKeyOf[a] /\ KcReleased(a)
    <3>1. b # a
      <4> SUFFICES ASSUME b = a PROVE FALSE
        OBVIOUS
      <4>1. ~kcCommitted[a] /\ kcPc[a] = "release" /\ kcPc'[a] = "ended"
        BY <2>7 DEF KcReleased, KcPhases, KcPhase, KcBefore
      <4>2. kcCommitted'[a] = kcCommitted[a]
        BY <4>1 DEF KcStepOf, KcSelf
      <4> QED
        BY <4>1, <4>2 DEF KcHolder
    <3> QED
      BY <1>1, <2>1, <2>2, <2>7, <3>1 DEF KcReleased
  <2> QED
    BY <1>1, <2>3, <2>4, <2>5, <2>6, <2>7 DEF KcStepOf, KcRowsStep
<1> QED
  BY <1>2, <1>3

LEMMA KcApartKept ==
  ASSUME KcTyped, KcHeld, KcAllApart, NEW a \in KcAttempts, KcStepOf(a)
  PROVE  KcAllApart'
<1>1. ASSUME NEW c \in KcAttempts, c # a, KcKeyOf[c] = KcKeyOf[a], KcOwned(a), KcHolder(c)' PROVE kcMine'[c] # kcMine'[a]
  <2> DEFINE k == KcKeyOf[a]
  <2>1. k \in KcKeys /\ kcMine[c] \in Nat /\ kcEpoch[k] \in Nat
    BY KcConstants DEF KcConstants, KcTyped
  <2>2. kcMine'[c] = kcMine[c] /\ KcHolder(c)
    BY <1>1 DEF KcStepOf, KcOnly, KcHolder
  <2>3. kcMine[c] <= kcEpoch[k] /\ (kcMine[c] = kcEpoch[k] => kcRows[k].st # "free" /\ kcRows[k].by = c)
    BY <1>1, <2>2 DEF KcHeld, KcHolds
  <2>4. kcMine'[a] = kcEpoch'[k] /\ kcEpoch'[k] = IF KcOver(k) THEN kcEpoch[k] + 1 ELSE kcEpoch[k]
    BY <1>1 DEF KcOwned
  <2>5. CASE KcOver(k)
    BY <2>1, <2>2, <2>3, <2>4, <2>5
  <2>6. CASE ~KcOver(k)
    <3>1. kcRows[k].st = "free"
      BY <1>1, <2>6 DEF KcOwned
    <3> QED
      BY <2>1, <2>2, <2>3, <2>4, <2>6, <3>1
  <2> QED
    BY <2>5, <2>6
<1> SUFFICES ASSUME NEW b \in KcAttempts, NEW c \in KcAttempts, b # c, KcKeyOf[b] = KcKeyOf[c], KcHolder(b)', KcHolder(c)'
    PROVE kcMine'[b] # kcMine'[c]
  BY DEF KcAllApart, KcApart
<1>2. CASE b = a /\ KcOwned(a)
  BY <1>1, <1>2
<1>3. CASE c = a /\ KcOwned(a)
  BY <1>1, <1>3
<1>4. CASE ~(b = a /\ KcOwned(a)) /\ ~(c = a /\ KcOwned(a))
  <2>1. kcMine'[b] = kcMine[b] /\ KcHolder(b)
    BY <1>4 DEF KcStepOf, KcSelf, KcOnly, KcHolder
  <2>2. kcMine'[c] = kcMine[c] /\ KcHolder(c)
    BY <1>4 DEF KcStepOf, KcSelf, KcOnly, KcHolder
  <2> QED
    BY <2>1, <2>2 DEF KcAllApart, KcApart
<1> QED
  BY <1>2, <1>3, <1>4

\* What took effect stays in effect, and what was sent stays what it is.
LEMMA KcLasts ==
  ASSUME NEW a \in KcAttempts, KcStepOf(a), NEW b \in KcAttempts
  PROVE  /\ kcCommitted[b] => kcCommitted'[b]
         /\ kcFrames[b] # <<>> => kcFrames'[b] = kcFrames[b]
<1>1. CASE b = a
  BY <1>1 DEF KcStepOf, KcSelf, KcAnswers
<1>2. CASE b # a
  BY <1>2 DEF KcStepOf, KcOnly
<1> QED
  BY <1>1, <1>2

LEMMA KcRecordsKept ==
  ASSUME KcTyped, KcPhases, KcRowFacts, KcRecords, NEW a \in KcAttempts, KcStepOf(a)
  PROVE  KcRecords'
<1> SUFFICES ASSUME NEW k \in KcKeys, kcRows'[k].st = "done"
    PROVE LET b == kcRows'[k].by IN kcCommitted'[b] /\ (kcRows'[k].kind = "ok" => kcFrames'[b] = <<KcFrame("ok", b)>>)
  BY DEF KcRecords, KcRecord, KcFrame
<1>1. \A b : <<KcFrame("ok", b)>> # <<>>
  OBVIOUS
<1>2. CASE KcKept(k)
  <2>1. kcRows'[k] = kcRows[k]
    <3>1. kcRows[k] \in KcRow
      BY DEF KcTyped
    <3> QED
      BY <1>2, <3>1 DEF KcKept, KcRow
  <2> DEFINE b == kcRows[k].by
  <2>2. b \in KcAttempts /\ kcCommitted[b] /\ (kcRows[k].kind = "ok" => kcFrames[b] = <<KcFrame("ok", b)>>)
    BY <2>1 DEF KcRecords, KcRecord, KcRowFacts, KcRowFact
  <2> QED
    BY <1>1, <2>1, <2>2, KcLasts
<1>3. CASE k = KcKeyOf[a] /\ KcRecorded(a)
  <2>1. kcPc[a] \in KcPutting /\ kcRows'[k].by = a /\ kcRows'[k].kind = KcKindOf(a)
    BY <1>3 DEF KcRecorded
  <2>2. kcCommitted[a] /\ (KcKindOf(a) = "ok" => kcFrames[a] = <<KcFrame("ok", a)>>)
    <3>1. KcPhase(a)
      BY DEF KcPhases
    <3> QED
      BY <2>1, <3>1 DEF KcPhase, KcPutting, KcKindOf
  <2> QED
    BY <1>1, <2>1, <2>2, KcLasts
<1>4. ~KcDropped(k) /\ ~(k = KcKeyOf[a] /\ (KcOwned(a) \/ KcReleased(a)))
  BY DEF KcDropped, KcOwned, KcReleased, KcFree
<1> QED
  BY <1>2, <1>3, <1>4 DEF KcStepOf, KcRowsStep

LEMMA KcReplayedKept ==
  ASSUME KcTyped, KcPhases, KcRowFacts, KcRecords, KcAllReplayed, NEW a \in KcAttempts, KcStepOf(a)
  PROVE  KcAllReplayed'
<1> SUFFICES ASSUME NEW b \in KcAttempts, NEW f \in KcFrameSet, kcFrames'[b] = <<f>>, f.kind = "replay"
    PROVE f.of \in KcAttempts /\ ~kcCommitted'[b] /\ kcCommitted'[f.of] /\ KcHashOf[f.of] = KcHashOf[b]
  BY DEF KcAllReplayed, KcReplayed
<1>1. <<f>> # <<>> /\ \A g : <<g>> = <<f>> => g = f
  OBVIOUS
<1>2. CASE kcFrames[b] = <<f>>
  <2>1. f.of \in KcAttempts /\ ~kcCommitted[b] /\ kcCommitted[f.of] /\ KcHashOf[f.of] = KcHashOf[b]
    BY <1>2 DEF KcAllReplayed, KcReplayed
  <2>2. kcCommitted'[b] = kcCommitted[b]
    <3>1. kcPc[b] # "run"
      BY <1>1, <1>2 DEF KcPhases, KcPhase, KcBefore
    <3>2. CASE b = a
      BY <3>1, <3>2 DEF KcStepOf, KcSelf
    <3>3. CASE b # a
      BY <3>3 DEF KcStepOf, KcOnly
    <3> QED
      BY <3>2, <3>3
  <2> QED
    BY <2>1, <2>2, KcLasts
<1>3. CASE kcFrames[b] # <<f>>
  <2>1. b = a /\ kcFrames'[a] # kcFrames[a]
    BY <1>3 DEF KcStepOf, KcOnly
  <2>2. KcReplays(a, f)
    BY <1>1, <2>1 DEF KcStepOf, KcSelf, KcAnswers
  <2>3. kcCommitted'[a] = kcCommitted[a]
    BY <2>1 DEF KcStepOf, KcSelf
  <2>4. f.of \in KcAttempts /\ kcCommitted[f.of]
    <3>1. KcKeyOf[a] \in KcKeys
      BY KcConstants DEF KcConstants
    <3> QED
      BY <2>2, <3>1 DEF KcReplays, KcRowOf, KcRowFacts, KcRowFact, KcRecords, KcRecord
  <2> QED
    BY <2>1, <2>2, <2>3, <2>4, KcLasts DEF KcReplays
<1> QED
  BY <1>2, <1>3

LEMMA KcStartFits == KcInit => KcIInv /\ KcStore!Init
<1> SUFFICES ASSUME KcInit PROVE KcIInv /\ KcStore!Init
  OBVIOUS
<1>1. KcTyped /\ KcPhases
  BY KcStart
<1>2. KcFree.st = "free" /\ KcFree.by = KcNoOne /\ KcEmpty.t = 0
  BY DEF KcFree, KcEmpty
<1>3. KcRowFacts /\ KcRecords
  BY <1>2 DEF KcInit, KcRowFacts, KcRowFact, KcRecords, KcRecord
<1>4. KcHandFacts
  BY <1>2 DEF KcInit, KcHandFacts, KcHandFact
<1>5. IsFiniteSet(KcTaken)
  <2>1. KcTaken = {}
    BY <1>2 DEF KcInit, KcTaken
  <2> QED
    BY <2>1, FS_EmptySet
<1>6. KcHeld /\ KcAllApart
  BY DEF KcInit, KcHeld, KcHolds, KcHolder, KcAllApart, KcApart
<1>7. KcAllReplayed
  <2>1. \A f : <<f>> # <<>>
    OBVIOUS
  <2> QED
    BY <2>1 DEF KcInit, KcAllReplayed, KcReplayed
<1>8. KcStore!Init
  BY <1>2 DEF KcInit, KcStore!Init, KcStore!Free
<1> QED
  BY <1>1, <1>3, <1>4, <1>5, <1>6, <1>7, <1>8 DEF KcIInv, KcBases

\* Time passing, or nothing happening, leaves all of it as it is.
LEMMA KcTimeKeeps ==
  ASSUME KcIInv, KcTick \/ UNCHANGED kcVars PROVE KcIInv' /\ UNCHANGED kcRows
<1>1. UNCHANGED <<kcRows, kcPc, kcHand, kcRenewAt, kcStop, kcCommitted, kcFrames, kcEpoch, kcMine>>
  BY DEF KcTick, kcVars, kcHistory
<1>2. kcNow \in 0..KcMaxNow /\ kcNow' \in 0..KcMaxNow /\ kcNow <= kcNow'
  BY KcTimes DEF KcTick, kcVars, KcIInv, KcBases, KcTyped
<1>3. KcTyped'
  BY <1>1, <1>2 DEF KcIInv, KcBases, KcTyped
<1>4. KcPhases' /\ KcRowFacts' /\ IsFiniteSet(KcTaken)'
  BY <1>1 DEF KcIInv, KcBases, KcPhases, KcPhase, KcRowFacts, KcRowFact, KcTaken
<1>5. KcHandFacts'
  <2> SUFFICES ASSUME NEW a \in KcAttempts PROVE KcHandFact(a)'
    BY DEF KcHandFacts
  <2>1. KcHandFact(a) /\ kcHand[a].t \in 0..KcMaxNow
    BY DEF KcIInv, KcBases, KcHandFacts, KcTyped, KcHands
  <2> QED
    BY <1>1, <1>2, <2>1, KcTimes DEF KcHandFact
<1>6. KcHeld' /\ KcAllApart' /\ KcRecords' /\ KcAllReplayed'
  BY <1>1 DEF KcIInv, KcHeld, KcHolds, KcHolder, KcAllApart, KcApart, KcRecords, KcRecord, KcAllReplayed, KcReplayed
<1> QED
  BY <1>1, <1>3, <1>4, <1>5, <1>6 DEF KcIInv, KcBases

LEMMA KcNextKeeps == ~LateFailures /\ KcIInv /\ [KcNext]_kcVars => KcIInv'
<1> SUFFICES ASSUME ~LateFailures, KcIInv, [KcNext]_kcVars PROVE KcIInv'
  OBVIOUS
<1>1. CASE KcTick \/ UNCHANGED kcVars
  BY <1>1, KcTimeKeeps
<1>2. ASSUME NEW a \in KcAttempts, KcOneStep(a) PROVE KcIInv'
  <2>1. /\ KcTyped /\ KcPhases /\ KcRowFacts /\ KcHandFacts /\ IsFiniteSet(KcTaken)
        /\ KcHeld /\ KcAllApart /\ KcRecords /\ KcAllReplayed
    BY DEF KcIInv, KcBases
  <2>2. KcTyped' /\ KcPhases' /\ KcStepOf(a)
    BY <1>2, <2>1, KcStepKeeps
  <2>3. KcRowsStep(a) /\ KcOnly(a)
    BY <2>2 DEF KcStepOf
  <2>4. KcRowFacts' /\ IsFiniteSet(KcTaken)'
    BY <2>1, <2>3, KcRowFactsKept, KcFewTaken
  <2>5. KcHandFacts'
    BY <1>2, <2>1, <2>2, <2>3, KcHandsKept
  <2>6. KcHeld' /\ KcAllApart' /\ KcRecords' /\ KcAllReplayed'
    BY <2>1, <2>2, KcHeldKept, KcApartKept, KcRecordsKept, KcReplayedKept
  <2> QED
    BY <2>2, <2>4, <2>5, <2>6 DEF KcIInv, KcBases
<1> QED
  BY <1>1, <1>2 DEF KcNext, KcOneStep

LEMMA KcAnswersFollow == KcIInv => KcAnswersHold
<1> SUFFICES ASSUME KcIInv PROVE KcAnswersHold
  OBVIOUS
<1>1. /\ KcTyped /\ KcRowFacts /\ KcAllApart /\ KcRecords /\ KcAllReplayed
  BY DEF KcIInv, KcBases
<1>2. KcTypeOK
  BY <1>1 DEF KcTyped, KcTypeOK, KcHands
<1>3. KcRunsOnce
  BY <1>1 DEF KcRunsOnce, KcAllApart, KcApart, KcHolder
<1>4. KcOneTerminalFrame
  <2> SUFFICES ASSUME NEW a \in KcAttempts PROVE Len(kcFrames[a]) <= 1
    BY DEF KcOneTerminalFrame
  <2>1. kcFrames[a] = <<>> \/ \E f \in KcFrameSet : kcFrames[a] = <<f>>
    BY <1>1 DEF KcTyped
  <2>2. CASE kcFrames[a] = <<>>
    BY <2>2
  <2>3. CASE \E f \in KcFrameSet : kcFrames[a] = <<f>>
    BY <2>3
  <2> QED
    BY <2>1, <2>2, <2>3
<1>5. KcRecordsAreTrue
  <2>1. ASSUME NEW k \in KcKeys, kcRows[k].st = "done"
        PROVE  LET b == kcRows[k].by IN
               /\ KcKeyOf[b] = k /\ kcCommitted[b]
               /\ kcRows[k].kind = "ok" => KcFrame("ok", b) \in {kcFrames[b][i] : i \in DOMAIN kcFrames[b]}
    <3> DEFINE b == kcRows[k].by
    <3>1. KcKeyOf[b] = k /\ kcCommitted[b] /\ (kcRows[k].kind = "ok" => kcFrames[b] = <<KcFrame("ok", b)>>)
      BY <1>1, <2>1 DEF KcRowFacts, KcRowFact, KcRecords, KcRecord
    <3>2. \A f : f \in {<<f>>[i] : i \in DOMAIN <<f>>}
      <4> TAKE f
      <4>1. 1 \in DOMAIN <<f>> /\ <<f>>[1] = f
        OBVIOUS
      <4> QED
        BY <4>1
    <3> QED
      BY <3>1, <3>2
  <2>2. ASSUME NEW a \in KcAttempts, NEW i \in DOMAIN kcFrames[a], kcFrames[a][i].kind = "replay"
        PROVE  ~kcCommitted[a] /\ kcCommitted[kcFrames[a][i].of] /\ KcHashOf[kcFrames[a][i].of] = KcHashOf[a]
    <3>1. DOMAIN <<>> = {} /\ \A f : DOMAIN <<f>> = {1} /\ <<f>>[1] = f
      OBVIOUS
    <3>2. PICK f \in KcFrameSet : kcFrames[a] = <<f>>
      BY <1>1, <2>2, <3>1 DEF KcTyped
    <3>3. kcFrames[a][i] = f
      BY <2>2, <3>1, <3>2
    <3> QED
      BY <1>1, <2>2, <3>2, <3>3 DEF KcAllReplayed, KcReplayed
  <2> QED
    BY <2>1, <2>2 DEF KcRecordsAreTrue
<1> QED
  BY <1>2, <1>3, <1>4, <1>5 DEF KcAnswersHold

\* Where a renewal that fails stops a resolver before it commits, a key means one
\* command, however many servers, attempts and keys there are and whatever fails:
\* claims that interleave with sweeps and renewals statement by statement let it
\* take effect once in an epoch of its key, its op ends with one frame, and a
\* record says what became of it and is replayed to nobody else.
THEOREM KtAnswersHold == ~LateFailures => (KcSpec => []KcAnswersHold)
<1> SUFFICES ASSUME ~LateFailures PROVE KcSpec => []KcAnswersHold
  OBVIOUS
<1>1. KcIInv /\ [KcNext]_kcVars => KcIInv'
  BY KcNextKeeps
<1> QED
  BY <1>1, KcStartFits, KcAnswersFollow, PTL DEF KcSpec

\* What became of a key in a step is a step of the store that KeyStore describes.
LEMMA KcKeySteps ==
  ASSUME KcIInv, NEW a \in KcAttempts, KcRowsStep(a), NEW k \in KcKeys
  PROVE  KcStore!KeyStep(k)
<1> DEFINE slot == [j \in KcKeys |-> [st |-> kcRows[j].st, by |-> kcRows[j].by]]
           slotN == [j \in KcKeys |-> [st |-> kcRows'[j].st, by |-> kcRows'[j].by]]
<1>1. KcRowFact(k) /\ kcRows[k] \in KcRow
  BY DEF KcIInv, KcBases, KcRowFacts, KcTyped
<1>2. KcFree.st = "free" /\ KcFree.by = KcNoOne
  BY DEF KcFree
<1>3. CASE KcKept(k)
  <2>1. kcRows'[k].st = kcRows[k].st /\ kcRows'[k].by = kcRows[k].by
    BY <1>1, <1>3 DEF KcKept, KcRow
  <2> QED
    BY <2>1 DEF KcStore!KeyStep
<1>4. CASE KcDropped(k)
  BY <1>2, <1>4 DEF KcDropped, KcStore!KeyStep, KcStore!GiveUp, KcStore!Free
<1>5. CASE k = KcKeyOf[a] /\ KcOwned(a)
  <2>1. /\ kcRows[k].st = "free" => kcRows[k].by = KcNoOne
        /\ kcRows[k].st = "free" \/ KcOver(k)
        /\ kcRows'[k].st = "held" /\ kcRows'[k].by = a
    BY <1>1, <1>2, <1>5 DEF KcOwned, KcRowFact
  <2>2. KcStore!Claim(k, a)
    BY <2>1 DEF KcStore!Claim, KcStore!Free
  <2> QED
    BY <2>2 DEF KcStore!KeyStep
<1>6. CASE k = KcKeyOf[a] /\ KcRecorded(a)
  <2>1. kcRows[k].st \in {"held", "done"} /\ kcRows[k].by = a /\ kcRows'[k].st = "done" /\ kcRows'[k].by = a
    BY <1>1, <1>6 DEF KcRecorded, KcRow
  <2>2. CASE kcRows[k].st = "held"
    BY <2>1, <2>2 DEF KcStore!KeyStep, KcStore!Record
  <2>3. CASE kcRows[k].st = "done"
    BY <2>1, <2>3 DEF KcStore!KeyStep
  <2> QED
    BY <2>1, <2>2, <2>3
<1>7. CASE k = KcKeyOf[a] /\ KcReleased(a)
  BY <1>2, <1>7 DEF KcReleased, KcStore!KeyStep, KcStore!GiveUp, KcStore!Free
<1> QED
  BY <1>3, <1>4, <1>5, <1>6, <1>7 DEF KcRowsStep

\* And so five plain statements keep the promises of KeyStore: nobody takes a key
\* whose holder renewed it since it was read, and no sweep gives up a key that was
\* claimed since it looked.
THEOREM KtStoreImplements == ~LateFailures => (KcSpec => KcKeepsKeys)
<1> SUFFICES ASSUME ~LateFailures PROVE KcSpec => KcKeepsKeys
  OBVIOUS
<1>1. KcIInv /\ [KcNext]_kcVars => KcIInv'
  BY KcNextKeeps
<1> DEFINE slot == [k \in KcKeys |-> [st |-> kcRows[k].st, by |-> kcRows[k].by]]
<1>2. KcIInv /\ [KcNext]_kcVars => KcStore!Next \/ UNCHANGED slot
  <2> SUFFICES ASSUME KcIInv, [KcNext]_kcVars PROVE KcStore!Next \/ UNCHANGED slot
    OBVIOUS
  <2>1. CASE KcTick \/ UNCHANGED kcVars
    BY <2>1, KcTimeKeeps
  <2>2. ASSUME NEW a \in KcAttempts, KcOneStep(a) PROVE KcStore!Next
    <3>1. KcTyped' /\ KcStepOf(a)
      BY <2>2, KcStepKeeps DEF KcIInv, KcBases
    <3>2. \A k \in KcKeys : KcStore!KeyStep(k)
      BY <3>1, KcKeySteps DEF KcStepOf
    <3> QED
      BY <3>1, <3>2 DEF KcStore!Next, KcTyped, KcRow
  <2> QED
    BY <2>1, <2>2 DEF KcNext, KcOneStep
<1> QED
  BY <1>1, <1>2, KcStartFits, PTL DEF KcSpec, KcKeepsKeys, KcStore!Spec

=============================================================================
