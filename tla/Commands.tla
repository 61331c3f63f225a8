------------------------------ MODULE Commands ------------------------------
(***************************************************************************)
(* Keyed commands on a fleet of Rayfold servers that share one             *)
(* PgIdempotencyStore: the command branch of runOp and claimKey in         *)
(* packages/server/src/batch.ts, runCommand in executor.ts, and the        *)
(* statements of packages/postgres/src/idempotency.ts.                     *)
(*                                                                         *)
(* An attempt is one run of a command op with an idempotency key; a retry  *)
(* is another attempt with the same key.  Every statement sent to the      *)
(* store is a step of its own, so attempts interleave between statements,  *)
(* and a server may stop between any two of them.                          *)
(*                                                                         *)
(* Clocks are kept as differences: `left` is held_until - now and `age` is *)
(* now - at, so no bound on the time is needed.  A token is the attempt    *)
(* that drew it: an attempt is told "owned" at most once.                  *)
(***************************************************************************)
EXTENDS Integers, FiniteSets

CONSTANTS
  Attempts,    \* command ops, each run once by one server
  Keys,        \* (viewer scope, key) pairs
  Servers,
  KeyOf,       \* the key an attempt carries
  HashOf,      \* argsHash: operation and coerced arguments
  ServerOf,
  Lease,       \* leaseMs, in ticks
  Ttl,         \* ttlMs, in ticks
  MaxRecords,  \* the bound of the store
  TrimEvery,   \* the bound is enforced on every TrimEvery-th put (100 in the code)
  Timely,      \* TRUE: a renewal timer fires before the clock moves past it
  MaxMissed,   \* renewals in a row that the store may fail to answer
  NoOne

\* Mutant: the interval is the lease itself.
RenewEveryLease == Lease

\* The renewal interval: a third of the lease.
RenewEvery == IF Lease \div 3 > 1 THEN Lease \div 3 ELSE 1

ASSUME ConstantsAssumption ==
  /\ KeyOf \in [Attempts -> Keys]
  /\ ServerOf \in [Attempts -> Servers]
  /\ Lease \in Nat \ {0} /\ Ttl \in Nat \ {0}
  /\ MaxRecords \in Nat /\ TrimEvery \in Nat \ {0} /\ MaxMissed \in Nat
  /\ Timely \in BOOLEAN
  /\ NoOne \notin Attempts

VARIABLES
  rows,       \* the table: one row per key, st = "free" when there is none
  puts,       \* per server: the store's put counter, modulo TrimEvery
  pc,         \* where the attempt is
  aborted,    \* the op's signal: cancelled, or its deadline passed
  committed,  \* the resolver returned: the command took effect
  timer,      \* the renewal interval, set with the claim and cleared at the end
  answer,     \* the terminal frame of the op
  epoch,      \* history: how often the key was given up to age, bound or lease
  mine        \* history: the epoch in which the attempt took its key

vars == <<rows, puts, pc, aborted, committed, timer, answer, epoch, mine>>

\* What a record says: the ok frame, the error of the projection, or, for an op
\* that was ended after its effect, that the command committed.
RecordKinds == {"ok", "failed", "committed"}

Row == [st : {"free", "held", "done"}, by : Attempts \cup {NoOne}, left : 0..Lease,
        age : 0..Ttl, kind : RecordKinds \cup {"none"}]

Free == [st |-> "free", by |-> NoOne, left |-> 0, age |-> 0, kind |-> "none"]

\* `by` of a finished row is history: the row itself keeps no token, only the
\* hash and the frame, which are those of the attempt that recorded it.
HeldBy(a) == [st |-> "held", by |-> a, left |-> Lease, age |-> 0, kind |-> "none"]
DoneBy(a, k) == [st |-> "done", by |-> a, left |-> 0, age |-> 0, kind |-> k]

\* The row with its distances to held_until and from at replaced.
Timed(r, l, n) == [st |-> r.st, by |-> r.by, left |-> l, age |-> n, kind |-> r.kind]

\* The steps during which the renewal interval runs: from the claim to `finally`.
Renewing == {"run", "project", "put", "putfail", "release", "expire", "trim"}
Working  == {"claim", "look", "wait"} \cup Renewing
Finished == {"ended", "crashed"}

\* holding: no renewal was answered "the claim is gone"; due: ticks until the
\* interval fires; missed: renewals in a row the store did not answer.
Timer == [holding : BOOLEAN, due : 0..RenewEvery, missed : 0..MaxMissed]
NoTimer == [holding |-> TRUE, due |-> 0, missed |-> 0]
SetTimer == [holding |-> TRUE, due |-> RenewEvery, missed |-> 0]

Answers == [kind : {"none", "ok", "failed", "replay", "mismatch"}, of : Attempts \cup {NoOne}]
Answer(k, b) == [kind |-> k, of |-> b]

Init ==
  /\ rows = [k \in Keys |-> Free]
  /\ puts = [s \in Servers |-> 0]
  /\ pc = [a \in Attempts |-> "idle"]
  /\ aborted = [a \in Attempts |-> FALSE]
  /\ committed = [a \in Attempts |-> FALSE]
  /\ timer = [a \in Attempts |-> NoTimer]
  /\ answer = [a \in Attempts |-> Answer("none", NoOne)]
  /\ epoch = [k \in Keys |-> 0]
  /\ mine = [a \in Attempts |-> 0]

Goto(a, l) == pc' = [pc EXCEPT ![a] = l]
RowOf(a) == rows[KeyOf[a]]
SetRow(a, r) == rows' = [rows EXCEPT ![KeyOf[a]] = r]

\* fail() pushes the error frame, which the sink drops when the op already has
\* its terminal frame; `finally` has cleared the interval.
End(a) ==
  /\ Goto(a, "ended")
  /\ timer' = [timer EXCEPT ![a] = NoTimer]
  /\ answer' = IF answer[a].kind = "none"
                 THEN [answer EXCEPT ![a] = Answer("failed", NoOne)] ELSE answer

history == <<epoch, mine>>

-----------------------------------------------------------------------------
(* Taking the key: claimKey and PgIdempotencyStore.claim.                   *)

Arrive(a) ==
  /\ pc[a] = "idle"
  /\ Goto(a, "claim")
  /\ UNCHANGED <<rows, puts, aborted, committed, timer, answer, history>>

\* Mutant: a claim that ran out is never taken over.
LeaseNeverRunsOut(r) == FALSE

LeaseRanOut(r)   == r.st = "held" /\ r.left = 0
RecordExpired(r) == r.st = "done" /\ r.age = Ttl
CanTake(r)       == r.st = "free" \/ LeaseRanOut(r) \/ RecordExpired(r)

\* The upsert took the row: what was there before it is given up.
Take(a) ==
  /\ CanTake(RowOf(a))
  /\ SetRow(a, HeldBy(a))
  /\ epoch' = IF RowOf(a).st = "free" THEN epoch ELSE [epoch EXCEPT ![KeyOf[a]] = @ + 1]
  /\ mine' = [mine EXCEPT ![a] = epoch'[KeyOf[a]]]

ClaimOwned(a) ==
  /\ pc[a] = "claim"
  /\ Take(a)
  /\ Goto(a, "run")
  /\ timer' = [timer EXCEPT ![a] = SetTimer]
  /\ UNCHANGED <<puts, aborted, committed, answer>>

\* The upsert left the row alone: a second statement reads it.
ClaimRefused(a) ==
  /\ pc[a] = "claim"
  /\ ~CanTake(RowOf(a))
  /\ Goto(a, "look")
  /\ UNCHANGED <<rows, puts, aborted, committed, timer, answer, history>>

\* The row was swept between the two statements: ask again.
LookGone(a) ==
  /\ pc[a] = "look"
  /\ RowOf(a).st = "free"
  /\ Goto(a, "claim")
  /\ UNCHANGED <<rows, puts, aborted, committed, timer, answer, history>>

\* Finished: replay the record, or refuse a key used for something else.
Replayed(a) == IF HashOf[RowOf(a).by] = HashOf[a]
                 THEN Answer("replay", RowOf(a).by) ELSE Answer("mismatch", RowOf(a).by)

LookDone(a) ==
  /\ pc[a] = "look"
  /\ RowOf(a).st = "done"
  /\ Goto(a, "ended")
  /\ answer' = [answer EXCEPT ![a] = Replayed(a)]
  /\ UNCHANGED <<rows, puts, aborted, committed, timer, history>>

LookHeld(a) ==
  /\ pc[a] = "look"
  /\ RowOf(a).st = "held"
  /\ IF aborted[a] THEN End(a) ELSE Goto(a, "wait") /\ UNCHANGED <<timer, answer>>
  /\ UNCHANGED <<rows, puts, aborted, committed, history>>

\* The backoff is over, or the signal ended the wait.
Wake(a) ==
  /\ pc[a] = "wait"
  /\ IF aborted[a] THEN End(a) ELSE Goto(a, "claim") /\ UNCHANGED <<timer, answer>>
  /\ UNCHANGED <<rows, puts, aborted, committed, history>>

-----------------------------------------------------------------------------
(* Running the command under the key: runOp and Executor.runCommand.        *)

Commit(a) ==
  /\ pc[a] = "run"
  /\ committed' = [committed EXCEPT ![a] = TRUE]
  /\ Goto(a, "project")
  /\ UNCHANGED <<rows, puts, aborted, timer, answer, history>>

\* Mutant: every failure is recorded, also one that changed nothing.
ResolverFailsRecorded(a) ==
  /\ pc[a] = "run"
  /\ Goto(a, "putfail")
  /\ UNCHANGED <<rows, puts, aborted, committed, timer, answer, history>>

\* The policy or the resolver threw before anything changed.
ResolverFails(a) ==
  /\ pc[a] = "run"
  /\ Goto(a, "release")
  /\ UNCHANGED <<rows, puts, aborted, committed, timer, answer, history>>

\* The answer is projected and emitted; the record comes after it.
Emit(a) ==
  /\ pc[a] = "project"
  /\ answer' = [answer EXCEPT ![a] = Answer("ok", a)]
  /\ Goto(a, "put")
  /\ UNCHANGED <<rows, puts, aborted, committed, timer, history>>

\* Mutant: the key is released although the command took effect.
ProjectionFailsReleased(a) ==
  /\ pc[a] = "project"
  /\ Goto(a, "release")
  /\ UNCHANGED <<rows, puts, aborted, committed, timer, answer, history>>

ProjectionFails(a) ==
  /\ pc[a] = "project"
  /\ Goto(a, "putfail")
  /\ UNCHANGED <<rows, puts, aborted, committed, timer, answer, history>>

RecordOf(a) == IF pc[a] = "put" THEN "ok" ELSE IF aborted[a] THEN "committed" ELSE "failed"

\* Mutant: the UPDATE does not look at the token.
PutUnchecked(a) ==
  /\ pc[a] \in {"put", "putfail"}
  /\ SetRow(a, DoneBy(a, RecordOf(a)))
  /\ Goto(a, "expire")
  /\ UNCHANGED <<puts, aborted, committed, timer, answer, history>>

\* put: only the holder of the claim records under it; then the sweep.
Put(a) ==
  /\ pc[a] \in {"put", "putfail"}
  /\ IF RowOf(a).st = "held" /\ RowOf(a).by = a
       THEN SetRow(a, DoneBy(a, RecordOf(a))) ELSE UNCHANGED rows
  /\ Goto(a, "expire")
  /\ UNCHANGED <<puts, aborted, committed, timer, answer, history>>

Release(a) ==
  /\ pc[a] = "release"
  /\ IF RowOf(a).st = "held" /\ RowOf(a).by = a THEN SetRow(a, Free) ELSE UNCHANGED rows
  /\ End(a)
  /\ UNCHANGED <<puts, aborted, committed, history>>

\* Rows deleted by a sweep: each key given up is a new epoch.
Drop(D) ==
  /\ rows' = [k \in Keys |-> IF k \in D THEN Free ELSE rows[k]]
  /\ epoch' = [k \in Keys |-> IF k \in D THEN epoch[k] + 1 ELSE epoch[k]]
  /\ UNCHANGED mine

\* sweep, first statement; every TrimEvery-th one goes on to the second.
Expire(a) ==
  LET s == ServerOf[a] IN
  /\ pc[a] = "expire"
  /\ Drop({k \in Keys : RecordExpired(rows[k])})
  /\ puts' = [puts EXCEPT ![s] = (@ + 1) % TrimEvery]
  /\ IF puts'[s] = 0 THEN Goto(a, "trim") /\ UNCHANGED <<timer, answer>> ELSE End(a)
  /\ UNCHANGED <<aborted, committed>>

\* Mutant: every row counts as evictable, those of running commands too.
EvictableAll == {k \in Keys : rows[k].st # "free"}

Evictable == {k \in Keys : rows[k].st = "done" \/ LeaseRanOut(rows[k])}
InFlight  == {k \in Keys : rows[k].st = "held" /\ rows[k].left > 0}

\* The rows ranked beyond the room left by the keys in flight, oldest first.
Trimmable(D) ==
  LET room == IF MaxRecords > Cardinality(InFlight) THEN MaxRecords - Cardinality(InFlight) ELSE 0
  IN  /\ D \subseteq Evictable
      /\ \A d \in D, e \in Evictable \ D : rows[d].age >= rows[e].age
      /\ Cardinality(Evictable \ D) =
           IF Cardinality(Evictable) > room THEN room ELSE Cardinality(Evictable)

Trim(a) ==
  /\ pc[a] = "trim"
  /\ \E D \in SUBSET Keys : Trimmable(D) /\ Drop(D)
  /\ End(a)
  /\ UNCHANGED <<puts, aborted, committed>>

-----------------------------------------------------------------------------
(* The renewal interval, the clock, and what goes wrong.                    *)

TimerRuns(a) == pc[a] \in Renewing /\ timer[a].holding
TimerFires(a) == TimerRuns(a) /\ timer[a].due = 0

\* One UPDATE by token: it extends the lease, or finds the claim gone.
Renew(a) ==
  /\ TimerFires(a)
  /\ IF RowOf(a).st = "held" /\ RowOf(a).by = a
       THEN /\ SetRow(a, Timed(RowOf(a), Lease, RowOf(a).age))
            /\ timer' = [timer EXCEPT ![a] = SetTimer]
       ELSE /\ timer' = [timer EXCEPT ![a] = [holding |-> FALSE, due |-> RenewEvery, missed |-> 0]]
            /\ UNCHANGED rows
  /\ UNCHANGED <<puts, pc, aborted, committed, answer, history>>

\* The store failed: asked again at the next tick of the interval.
RenewMissed(a) ==
  /\ TimerFires(a)
  /\ timer[a].missed < MaxMissed
  /\ timer' = [timer EXCEPT ![a] =
                [holding |-> TRUE, due |-> RenewEvery, missed |-> timer[a].missed + 1]]
  /\ UNCHANGED <<rows, puts, pc, aborted, committed, answer, history>>

Dec(n) == IF n > 0 THEN n - 1 ELSE 0

Tick ==
  /\ Timely => \A a \in Attempts : ~TimerFires(a)
  /\ rows' = [k \in Keys |-> IF rows[k].st = "free" THEN rows[k]
                ELSE Timed(rows[k], Dec(rows[k].left), IF rows[k].age < Ttl THEN rows[k].age + 1 ELSE Ttl)]
  /\ timer' = [a \in Attempts |->
                 [holding |-> timer[a].holding, due |-> Dec(timer[a].due), missed |-> timer[a].missed]]
  /\ UNCHANGED <<puts, pc, aborted, committed, answer, history>>

\* Cancelled, or past its deadline.  Once the outcome of the command is known
\* nothing reads the signal again.
Abort(a) ==
  /\ pc[a] \in {"claim", "look", "wait", "run", "project"} /\ ~aborted[a]
  /\ aborted' = [aborted EXCEPT ![a] = TRUE]
  /\ UNCHANGED <<rows, puts, pc, committed, timer, answer, history>>

\* A statement fails: nothing of it happened, or only its answer was lost (for
\* a put or a release that is the step itself followed by this one).
StoreFails(a) ==
  /\ pc[a] \in {"claim", "look", "put", "putfail", "release", "expire", "trim"}
  /\ End(a)
  /\ UNCHANGED <<rows, puts, aborted, committed, history>>

ClaimAnswerLost(a) ==
  /\ pc[a] = "claim"
  /\ Take(a)
  /\ End(a)
  /\ UNCHANGED <<puts, aborted, committed>>

\* A server stops; attempts that arrive later find it restarted.
Crash(s) ==
  /\ \E a \in Attempts : ServerOf[a] = s /\ pc[a] \in Working
  /\ pc' = [a \in Attempts |-> IF ServerOf[a] = s /\ pc[a] \in Working THEN "crashed" ELSE pc[a]]
  /\ puts' = [puts EXCEPT ![s] = 0]
  /\ timer' = [a \in Attempts |-> IF pc'[a] = "crashed" THEN NoTimer ELSE timer[a]]
  /\ UNCHANGED <<rows, aborted, committed, answer, history>>

-----------------------------------------------------------------------------

Step(a) ==
  \/ ClaimOwned(a) \/ ClaimRefused(a) \/ LookGone(a) \/ LookDone(a) \/ LookHeld(a) \/ Wake(a)
  \/ Commit(a) \/ ResolverFails(a) \/ Emit(a) \/ ProjectionFails(a)
  \/ Put(a) \/ Release(a) \/ Expire(a) \/ Trim(a)

Next ==
  \/ Tick
  \/ \E a \in Attempts : \/ Arrive(a) \/ Step(a) \/ Renew(a) \/ RenewMissed(a)
                         \/ Abort(a) \/ StoreFails(a) \/ ClaimAnswerLost(a)
  \/ \E s \in Servers : Crash(s)

Spec == Init /\ [][Next]_vars

\* Promises settle and timers fire, a resolver returns, and time passes.  No
\* retry, cancellation, failure or crash has to happen.
FairSpec ==
  /\ Spec
  /\ WF_vars(Tick)
  /\ \A a \in Attempts : WF_vars(Step(a)) /\ WF_vars(Renew(a))
-----------------------------------------------------------------------------
(* What the servers and the store promise between them.                     *)

\* Every variable stays in its domain: runOp's locals, the rows of the table.
TypeOK ==
  /\ rows \in [Keys -> Row]
  /\ puts \in [Servers -> 0..(TrimEvery - 1)]
  /\ pc \in [Attempts -> {"idle"} \cup Working \cup Finished]
  /\ aborted \in [Attempts -> BOOLEAN]
  /\ committed \in [Attempts -> BOOLEAN]
  /\ timer \in [Attempts -> Timer]
  /\ answer \in [Attempts -> Answers]
  /\ epoch \in [Keys -> Nat]
  /\ mine \in [Attempts -> Nat]

\* One execution per key (spec 03 section 4): two attempts with one key take
\* effect only if, between their claims, the key was given up because its lease
\* ran out, its record reached its time to live, or the bound evicted it.
AtMostOncePerEpoch ==
  \A a, b \in Attempts :
    (a # b /\ KeyOf[a] = KeyOf[b] /\ committed[a] /\ committed[b]) => mine[a] # mine[b]

\* A record stands for an effect that happened, and says of it what the first
\* caller was told: an ok record only after an ok frame, never an ok frame to
\* the first caller and an error to its retries (batch.ts, put and its catch).
RecordMatchesFirstAnswer ==
  \A k \in Keys : rows[k].st = "done" =>
    LET b == rows[k].by IN
    /\ KeyOf[b] = k /\ committed[b]
    /\ (rows[k].kind = "ok") <=> (answer[b] = Answer("ok", b))
    /\ rows[k].kind = "failed" => answer[b].kind \in {"none", "failed"}

\* A retry is answered with an effect of the same operation and arguments under
\* the same key, and one for something else is never given it (replayed()).
ReplayIsOfTheSameCommand ==
  \A a \in Attempts :
    LET b == answer[a].of IN
    /\ answer[a].kind = "replay" =>
         ~committed[a] /\ committed[b] /\ KeyOf[b] = KeyOf[a] /\ HashOf[b] = HashOf[a]
    /\ answer[a].kind = "mismatch" =>
         ~committed[a] /\ KeyOf[b] = KeyOf[a] /\ HashOf[b] # HashOf[a]

\* While its server is up and the store misses fewer renewals than the lease
\* covers, nobody takes a key over from the command that runs under it, and no
\* sweep evicts it: from the claim to the record or the release it is held.
OwnerHoldsKey ==
  \A a \in Attempts :
    pc[a] \in {"run", "project", "put", "putfail", "release"} =>
      RowOf(a).st = "held" /\ RowOf(a).by = a

Shared == INSTANCE KeyStore WITH
  slot <- [k \in Keys |-> [st |-> rows[k].st, by |-> rows[k].by]],
  over <- {k \in Keys : LeaseRanOut(rows[k]) \/ RecordExpired(rows[k])},
  leaving <- {a \in Attempts : pc[a] = "release"}

\* The shared store keeps the promises of KeyStore: a server stranded without
\* its lease neither puts the next owner out of the key nor replaces what it has
\* recorded since, and a sweep gives up only what is at rest.
SharedKeepsKeys == Shared!Spec

\* A key whose lease is running leaves its holder only by the holder's own put
\* or release: no sweep, trim or claim of anyone else (spec 12 section 3.6).
LiveLeaseIsNotTaken ==
  [][\A k \in Keys :
       (rows[k].st = "held" /\ rows[k].left > 0 /\ rows'[k].by # rows[k].by) =>
         pc[rows[k].by] = "release" /\ pc'[rows[k].by] = "ended"]_vars

\* Every attempt that was sent comes to an end: a retry is not kept waiting by
\* a server that died, nor by one that lost its lease.  It is sent once.
EveryAttemptEnds == []<>(\A a \in Attempts : pc[a] \in {"idle"} \union Finished)

\* What the table says is true: the rows are well formed, a record is what the
\* first caller was told, and a retry is answered with its own command.
RecordsAreTrue == TypeOK /\ RecordMatchesFirstAnswer /\ ReplayIsOfTheSameCommand
=============================================================================
