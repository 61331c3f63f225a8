------------------------------ MODULE KtCommand ------------------------------
(* Keyed commands on Kotlin servers that share a JdbcIdempotencyStore:         *)
(* command, holding, execute and record in Batch.kt, runCommand in Executor.kt *)
(* and the statements of JdbcIdempotencyStore.kt.  There is no upsert: a claim *)
(* inserts, reads what is there, decides with the time taken before the insert *)
(* and takes over with a conditional update; each statement is a step.         *)
(* Attempts interleave between statements and may stop between any two.        *)
EXTENDS Integers, FiniteSets, Sequences

CONSTANTS
  KcAttempts, KcKeys, KcKeyOf, KcHashOf,
  KcLease, KcTtl, KcMaxSize,
  KcTries,         \* ATTEMPTS, 8 in the code
  KcMaxNow,        \* a bound on time
  LateFailures,    \* TRUE: a renewal may throw (the database does not answer) also when
                   \* the command has committed, or commits without noticing
  KcNoOne

ASSUME KcConstants ==
  /\ KcKeyOf \in [KcAttempts -> KcKeys]
  /\ KcLease \in Nat \ {0} /\ KcTtl \in Nat \ {0} /\ KcMaxSize \in Nat
  /\ KcTries \in Nat \ {0} /\ KcMaxNow \in Nat /\ LateFailures \in BOOLEAN
  /\ KcNoOne \notin KcAttempts

VARIABLES
  kcNow,
  kcRows,       \* the table; st = "free" when a key has no row
  kcPc,         \* where the attempt is
  kcHand,       \* its locals: t, the row it read, its tries, and of a sweep the excess and the oldest keys
  kcRenewAt,    \* when the renewal coroutine wakes; 0 when there is none, or it was told the claim is gone
  kcStop,       \* "cancel": deadline or caller gone; "renewal": a renewal threw, which ends the scope
  kcCommitted,  \* the resolver returned
  kcFrames,     \* the terminal frames of the op
  kcEpoch,      \* history: how often the key was given up to age, bound or lease
  kcMine        \* history: the epoch in which the attempt took its key

kcVars == <<kcNow, kcRows, kcPc, kcHand, kcRenewAt, kcStop, kcCommitted, kcFrames, kcEpoch, kcMine>>
kcHistory == <<kcEpoch, kcMine>>

KcTime == 0..(KcMaxNow + KcLease)
KcRow == [st : {"free", "held", "done"}, by : KcAttempts \union {KcNoOne}, until : KcTime, at : KcTime,
          kind : {"none", "ok", "failed", "committed"}]
KcFree == [st |-> "free", by |-> KcNoOne, until |-> 0, at |-> 0, kind |-> "none"]
KcFrame(k, b) == [kind |-> k, of |-> b]
KcEmpty == [t |-> 0, row |-> KcFree, tries |-> 0, over |-> 0, oldest |-> {}]

KcInit ==
  /\ kcNow = 0
  /\ kcRows = [k \in KcKeys |-> KcFree]
  /\ kcPc = [a \in KcAttempts |-> "idle"]
  /\ kcHand = [a \in KcAttempts |-> KcEmpty]
  /\ kcRenewAt = [a \in KcAttempts |-> 0]
  /\ kcStop = [a \in KcAttempts |-> "no"]
  /\ kcCommitted = [a \in KcAttempts |-> FALSE]
  /\ kcFrames = [a \in KcAttempts |-> <<>>]
  /\ kcEpoch = [k \in KcKeys |-> 0]
  /\ kcMine = [a \in KcAttempts |-> 0]

KcGoto(a, l) == kcPc' = [kcPc EXCEPT ![a] = l]
KcRowOf(a) == kcRows[KcKeyOf[a]]
KcIsMine(a) == KcRowOf(a).st # "free" /\ KcRowOf(a).by = a
KcSend(a, f) == kcFrames' = [kcFrames EXCEPT ![a] = Append(@, f)]
\* The locals of an attempt that is through are dropped.
KcEnd(a) ==
  /\ KcGoto(a, "ended")
  /\ kcHand' = [kcHand EXCEPT ![a] = KcEmpty]
  /\ kcRenewAt' = [kcRenewAt EXCEPT ![a] = 0]
\* fail() sends whatever was sent before.
KcFail(a) == KcEnd(a) /\ KcSend(a, KcFrame("failed", KcNoOne))
KcStays == UNCHANGED <<kcNow, kcStop>>

-----------------------------------------------------------------------------
(* claim                                                                     *)

\* The next round of claim's repeat, with a time and a token of its own.
KcAsk(a, n) == KcGoto(a, "insert") /\ kcHand' = [kcHand EXCEPT ![a] = [KcEmpty EXCEPT !.t = kcNow, !.tries = n]]
KcAgain(a) ==
  LET n == kcHand[a].tries + 1
  IN  IF n = KcTries THEN KcFail(a) ELSE KcAsk(a, n) /\ UNCHANGED <<kcRenewAt, kcFrames>>

\* Without a proper key, a viewer or permission it ends before the claim.
KcArrive(a) ==
  /\ kcPc[a] = "idle"
  /\ KcFail(a) \/ (KcAsk(a, 0) /\ UNCHANGED <<kcRenewAt, kcFrames>>)
  /\ KcStays /\ UNCHANGED <<kcRows, kcCommitted, kcHistory>>

KcEvery == IF KcLease \div 3 > 1 THEN KcLease \div 3 ELSE 1

KcLeaseOver(r, t) == r.st = "held" /\ r.until <= t
KcExpired(r, t) == r.st = "done" /\ t - r.at >= KcTtl
KcOver(k) == KcLeaseOver(kcRows[k], kcNow) \/ KcExpired(kcRows[k], kcNow)

\* The statement made the row this attempt's, and execute and holding begin.
KcOwn(a) ==
  LET k == KcKeyOf[a]
      t == kcHand[a].t
  IN  /\ kcRows' = [kcRows EXCEPT ![k] = [st |-> "held", by |-> a, until |-> t + KcLease, at |-> t, kind |-> "none"]]
      /\ kcEpoch' = IF KcOver(k) THEN [kcEpoch EXCEPT ![k] = @ + 1] ELSE kcEpoch
      /\ kcMine' = [kcMine EXCEPT ![a] = kcEpoch'[k]]
      /\ KcGoto(a, "run")
      /\ kcHand' = [kcHand EXCEPT ![a] = KcEmpty]
      /\ kcRenewAt' = [kcRenewAt EXCEPT ![a] = kcNow + KcEvery]
      /\ KcStays /\ UNCHANGED <<kcCommitted, kcFrames>>

KcInsert(a) ==
  /\ kcPc[a] = "insert"
  /\ \/ KcRowOf(a).st = "free" /\ KcOwn(a)
     \/ /\ KcRowOf(a).st # "free"
        /\ KcGoto(a, "read")
        /\ KcStays /\ UNCHANGED <<kcRows, kcHand, kcRenewAt, kcCommitted, kcFrames, kcHistory>>

KcReplay(a) == KcFrame(IF KcHashOf[KcRowOf(a).by] = KcHashOf[a] THEN "replay" ELSE "mismatch", KcRowOf(a).by)

KcRead(a) ==
  LET r == KcRowOf(a)
      t == kcHand[a].t
  IN  /\ kcPc[a] = "read"
      /\ \/ r.st = "free" /\ KcAgain(a)
         \/ r.st = "done" /\ ~KcExpired(r, t) /\ KcEnd(a) /\ KcSend(a, KcReplay(a))
         \/ /\ r.st = "held" /\ ~KcLeaseOver(r, t)
            /\ KcGoto(a, "wait")
            /\ kcHand' = [kcHand EXCEPT ![a] = KcEmpty]
            /\ UNCHANGED <<kcRenewAt, kcFrames>>
         \/ /\ KcLeaseOver(r, t) \/ KcExpired(r, t)
            /\ KcGoto(a, "take")
            /\ kcHand' = [kcHand EXCEPT ![a].row = r]
            /\ UNCHANGED <<kcRenewAt, kcFrames>>
      /\ KcStays /\ UNCHANGED <<kcRows, kcCommitted, kcHistory>>

KcSame(r, s) == r.at = s.at /\ r.by = s.by /\ r.until = s.until

KcTakeOver(a) ==
  /\ kcPc[a] = "take"
  /\ \/ KcRowOf(a).st # "free" /\ KcSame(KcRowOf(a), kcHand[a].row) /\ KcOwn(a)
     \/ /\ ~(KcRowOf(a).st # "free" /\ KcSame(KcRowOf(a), kcHand[a].row))
        /\ KcAgain(a)
        /\ KcStays /\ UNCHANGED <<kcRows, kcCommitted, kcHistory>>

\* The backoff is over; a cancelled wait ends with the frame of the batch.
KcWake(a) ==
  /\ kcPc[a] = "wait"
  /\ \/ kcStop[a] = "no" /\ KcAsk(a, 0) /\ UNCHANGED <<kcRenewAt, kcFrames>>
     \/ kcStop[a] = "cancel" /\ KcFail(a)
  /\ KcStays /\ UNCHANGED <<kcRows, kcCommitted, kcHistory>>

-----------------------------------------------------------------------------
(* execute and runCommand, under holding                                     *)

KcRuns(a, from, to) ==
  /\ kcPc[a] = from /\ KcGoto(a, to)
  /\ KcStays /\ UNCHANGED <<kcRows, kcHand, kcRenewAt, kcHistory>>

KcCommit(a) ==
  /\ kcStop[a] # "renewal" \/ LateFailures
  /\ KcRuns(a, "run", "project")
  /\ kcCommitted' = [kcCommitted EXCEPT ![a] = TRUE]
  /\ UNCHANGED kcFrames

\* The answer is emitted; the scope still waits for the renewal coroutine.
KcEmit(a) ==
  /\ KcRuns(a, "project", "leave")
  /\ KcSend(a, KcFrame("ok", a)) /\ UNCHANGED kcCommitted

KcResolverFails(a) == KcRuns(a, "run", "release") /\ UNCHANGED <<kcFrames, kcCommitted>>
KcProjectionFails(a) == KcRuns(a, "project", "putfailed") /\ UNCHANGED <<kcFrames, kcCommitted>>
KcLeave(a) == kcStop[a] = "no" /\ KcRuns(a, "leave", "putok") /\ UNCHANGED <<kcFrames, kcCommitted>>

\* The scope ends at a suspension of its body, or while it waits for the
\* renewal coroutine.  A cancellation keeps the key of what committed; the
\* exception of a renewal is none, and `finally` finds nothing settled.
KcStopped(a) ==
  /\ kcStop[a] # "no"
  /\ \E l \in {"run", "project", "leave"} :
       KcRuns(a, l, IF kcCommitted[a] /\ kcStop[a] = "cancel" THEN "putcommitted" ELSE "release")
  /\ UNCHANGED <<kcFrames, kcCommitted>>

KcPutting == {"putok", "putfailed", "putcommitted"}
KcKindOf(a) == CASE kcPc[a] = "putok" -> "ok" [] kcPc[a] = "putfailed" -> "failed" [] OTHER -> "committed"

\* Mutant: the failure is sent whatever was sent before.
KcThroughAlways(a) == KcEnd(a) /\ KcSend(a, KcFrame("failed", KcNoOne))
\* What follows the record: a failure's frame, or the batch's for an op that
\* was stopped and has sent none.
KcThrough(a) ==
  /\ KcEnd(a)
  /\ IF kcFrames[a] = <<>> THEN KcSend(a, KcFrame("failed", KcNoOne)) ELSE UNCHANGED kcFrames

KcPut(a) ==
  /\ kcPc[a] \in KcPutting
  /\ \/ /\ KcIsMine(a)
        /\ kcRows' = [kcRows EXCEPT ![KcKeyOf[a]] =
                        [st |-> "done", by |-> a, until |-> 0, at |-> kcNow, kind |-> KcKindOf(a)]]
        /\ KcGoto(a, "expire")
        /\ kcHand' = [kcHand EXCEPT ![a].t = kcNow]
        /\ UNCHANGED <<kcRenewAt, kcFrames>>
     \/ ~KcIsMine(a) /\ KcThrough(a) /\ UNCHANGED kcRows
  /\ KcStays /\ UNCHANGED <<kcCommitted, kcHistory>>

KcRelease(a) ==
  /\ kcPc[a] = "release"
  /\ kcRows' = IF KcIsMine(a) /\ KcRowOf(a).st = "held" THEN [kcRows EXCEPT ![KcKeyOf[a]] = KcFree] ELSE kcRows
  /\ KcFail(a)
  /\ KcStays /\ UNCHANGED <<kcCommitted, kcHistory>>

-----------------------------------------------------------------------------
(* sweep: four statements                                                    *)

KcDelete(D) ==
  /\ kcRows' = [k \in KcKeys |-> IF k \in D THEN KcFree ELSE kcRows[k]]
  /\ kcEpoch' = [k \in KcKeys |-> IF k \in D THEN kcEpoch[k] + 1 ELSE kcEpoch[k]]
  /\ UNCHANGED <<kcMine, kcCommitted>> /\ KcStays

KcExpire(a) ==
  /\ kcPc[a] = "expire"
  /\ KcDelete({k \in KcKeys : KcLeaseOver(kcRows[k], kcHand[a].t) \/ KcExpired(kcRows[k], kcHand[a].t)})
  /\ KcGoto(a, "count") /\ UNCHANGED <<kcHand, kcRenewAt, kcFrames>>

KcCount(a) ==
  LET over == Cardinality({k \in KcKeys : kcRows[k].st # "free"}) - KcMaxSize
  IN  /\ kcPc[a] = "count"
      /\ \/ over <= 0 /\ KcThrough(a)
         \/ /\ over > 0 /\ KcGoto(a, "oldest")
            /\ kcHand' = [kcHand EXCEPT ![a] = [KcEmpty EXCEPT !.over = over]]
            /\ UNCHANGED <<kcRenewAt, kcFrames>>
      /\ KcStays /\ UNCHANGED <<kcRows, kcCommitted, kcHistory>>

KcOldest(a) ==
  LET records == {k \in KcKeys : kcRows[k].st = "done"} IN
  /\ kcPc[a] = "oldest"
  /\ \E D \in SUBSET records :
       /\ Cardinality(D) = IF kcHand[a].over < Cardinality(records) THEN kcHand[a].over ELSE Cardinality(records)
       /\ \A d \in D, e \in records \ D : kcRows[d].at <= kcRows[e].at
       /\ kcHand' = [kcHand EXCEPT ![a] = [KcEmpty EXCEPT !.oldest = D]]
  /\ KcGoto(a, "drop")
  /\ KcStays /\ UNCHANGED <<kcRows, kcRenewAt, kcFrames, kcCommitted, kcHistory>>

\* Mutant: what was selected is deleted whatever became of it.
KcDropAny(a) ==
  /\ kcPc[a] = "drop"
  /\ KcDelete({k \in kcHand[a].oldest : kcRows[k].st # "free"})
  /\ KcThrough(a)
\* A key selected may have been claimed since: only a record is deleted.
KcDrop(a) ==
  /\ kcPc[a] = "drop"
  /\ KcDelete({k \in kcHand[a].oldest : kcRows[k].st = "done"})
  /\ KcThrough(a)

-----------------------------------------------------------------------------
(* The renewal coroutine, the clock, and what goes wrong                     *)

KcRenewing(a) == kcPc[a] \in {"run", "project"} /\ kcRenewAt[a] > 0

KcRenew(a) ==
  /\ KcRenewing(a) /\ kcRenewAt[a] <= kcNow
  /\ \/ /\ KcIsMine(a) /\ KcRowOf(a).st = "held"
        /\ kcRows' = [kcRows EXCEPT ![KcKeyOf[a]].until = kcNow + KcLease]
        /\ kcRenewAt' = [kcRenewAt EXCEPT ![a] = kcNow + KcEvery]
     \/ /\ ~(KcIsMine(a) /\ KcRowOf(a).st = "held")
        /\ kcRenewAt' = [kcRenewAt EXCEPT ![a] = 0]
        /\ UNCHANGED kcRows
  /\ KcStays /\ UNCHANGED <<kcPc, kcHand, kcCommitted, kcFrames, kcHistory>>

\* The update throws, also one that was under way when the body ended.
KcRenewThrows(a) ==
  /\ kcPc[a] \in IF LateFailures THEN {"run", "project", "leave"} ELSE {"run"}
  /\ kcRenewAt[a] \in 1..kcNow
  /\ kcStop' = [kcStop EXCEPT ![a] = "renewal"]
  /\ kcRenewAt' = [kcRenewAt EXCEPT ![a] = 0]
  /\ UNCHANGED <<kcNow, kcRows, kcPc, kcHand, kcCommitted, kcFrames, kcHistory>>

KcCancel(a) ==
  /\ kcPc[a] \in {"wait", "run", "project", "leave"} /\ kcStop[a] = "no"
  /\ kcStop' = [kcStop EXCEPT ![a] = "cancel"]
  /\ UNCHANGED <<kcNow, kcRows, kcPc, kcHand, kcRenewAt, kcCommitted, kcFrames, kcHistory>>

\* A statement fails: the claim's and the release's fail the op, those of a
\* record and its sweep are logged.
KcStoreFails(a) ==
  /\ \/ kcPc[a] \in {"insert", "read", "take", "release"} /\ KcFail(a)
     \/ kcPc[a] \in KcPutting \union {"expire", "count", "oldest", "drop"} /\ KcThrough(a)
  /\ KcStays /\ UNCHANGED <<kcRows, kcCommitted, kcHistory>>

KcCrash(a) ==
  /\ kcPc[a] \notin {"idle", "ended"}
  /\ KcEnd(a)
  /\ KcStays /\ UNCHANGED <<kcRows, kcCommitted, kcFrames, kcHistory>>

KcTick ==
  /\ kcNow < KcMaxNow
  /\ kcNow' = kcNow + 1
  /\ UNCHANGED <<kcRows, kcPc, kcHand, kcRenewAt, kcStop, kcCommitted, kcFrames, kcHistory>>

KcNext ==
  \/ KcTick
  \/ \E a \in KcAttempts :
       \/ KcArrive(a) \/ KcInsert(a) \/ KcRead(a) \/ KcTakeOver(a) \/ KcWake(a)
       \/ KcCommit(a) \/ KcEmit(a) \/ KcResolverFails(a) \/ KcProjectionFails(a) \/ KcLeave(a) \/ KcStopped(a)
       \/ KcPut(a) \/ KcRelease(a) \/ KcExpire(a) \/ KcCount(a) \/ KcOldest(a) \/ KcDrop(a)
       \/ KcRenew(a) \/ KcRenewThrows(a) \/ KcCancel(a) \/ KcStoreFails(a) \/ KcCrash(a)

KcSpec == KcInit /\ [][KcNext]_kcVars

-----------------------------------------------------------------------------
(* Properties                                                                *)

\* The table and the locals stay in their domains.
KcTypeOK ==
  /\ kcNow \in 0..KcMaxNow /\ kcRows \in [KcKeys -> KcRow]
  /\ kcHand \in [KcAttempts -> [t : 0..KcMaxNow, row : KcRow, tries : 0..(KcTries - 1), over : Nat, oldest : SUBSET KcKeys]]
  /\ kcStop \in [KcAttempts -> {"no", "cancel", "renewal"}]
  /\ kcCommitted \in [KcAttempts -> BOOLEAN]

\* "A command with a key runs once" (JdbcIdempotencyStore): two attempts with
\* one key take effect only if the key was given up between their claims, to
\* age, bound or a lease that ran out.
KcRunsOnce ==
  \A a, b \in KcAttempts :
    (a # b /\ KcKeyOf[a] = KcKeyOf[b] /\ kcCommitted[a] /\ kcCommitted[b]) => kcMine[a] # kcMine[b]

\* However an op ends, by its answer, an error, a record's replay or its caller
\* going away, it sends one terminal frame (spec 04 section 3).
KcOneTerminalFrame == \A a \in KcAttempts : Len(kcFrames[a]) <= 1

\* A record stands for an effect of its key, and replays its `ok` only when that
\* is what was answered; a retry is never given the answer of another command.
KcRecordsAreTrue ==
  /\ \A k \in KcKeys : kcRows[k].st = "done" =>
       LET b == kcRows[k].by IN
       /\ KcKeyOf[b] = k /\ kcCommitted[b]
       /\ kcRows[k].kind = "ok" => KcFrame("ok", b) \in {kcFrames[b][i] : i \in DOMAIN kcFrames[b]}
  /\ \A a \in KcAttempts : \A i \in DOMAIN kcFrames[a] :
       kcFrames[a][i].kind = "replay" =>
         ~kcCommitted[a] /\ kcCommitted[kcFrames[a][i].of] /\ KcHashOf[kcFrames[a][i].of] = KcHashOf[a]

KcStore == INSTANCE KeyStore WITH
  Keys <- KcKeys, Attempts <- KcAttempts, NoOne <- KcNoOne,
  slot <- [k \in KcKeys |-> [st |-> kcRows[k].st, by |-> kcRows[k].by]],
  over <- {k \in KcKeys : KcOver(k)},
  leaving <- {a \in KcAttempts : kcPc[a] = "release"}

\* Five plain statements keep the promises the other stores keep with an upsert
\* or without interleaving: nobody takes a key whose holder renewed it between
\* the read and the update, and no sweep gives up a key claimed since it looked.
KcKeepsKeys == KcStore!Spec

\* A key means one command: it takes effect once, its op ends once, and its
\* record says what became of it.
KcAnswersHold == KcTypeOK /\ KcRunsOnce /\ KcOneTerminalFrame /\ KcRecordsAreTrue
=============================================================================
