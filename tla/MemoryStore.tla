---------------------------- MODULE MemoryStore -----------------------------
(* The idempotency store of a single server, MemoryIdempotencyStore of        *)
(* server/src/context.ts and of Batch.kt, asked by its command ops. Methods   *)
(* run to their end; what interleaves is their calls. The Kotlin store makes  *)
(* room before it inserts, for a claim too; the other sweeps after a record.  *)
EXTENDS Integers, FiniteSets, FiniteSetsExt

CONSTANTS
  Callers,       \* command ops, each run once
  CallerKey,     \* the key each one carries
  LeaseTime, RecordTime,   \* leaseMs, ttlMs
  MaxEntries,
  MaxClock,      \* a bound on time
  Nobody

ASSUME MemoryAssumption == {LeaseTime, RecordTime, MaxClock} \subseteq Nat /\ MaxEntries \in Nat \ {0}

VARIABLES
  runtime,    \* whose store it is: "ts" or "kt"
  clock,
  entries,    \* the map, one for a key: [key, place (in its order), by, record, until (of a claim), at (of a record)]
  doing       \* by caller: claim, wait, run, put, release, ended

memVars == <<runtime, clock, entries, doing>>

MemInit ==
  /\ runtime \in {"ts", "kt"} /\ clock = 0 /\ entries = {}
  /\ doing = [a \in Callers |-> "claim"]

Expired(e) == e.record /\ clock - e.at >= RecordTime
Runs(e) == ~e.record /\ e.until > clock

Become(a, s) == doing' = [doing EXCEPT ![a] = s]

Without(m, k) == {e \in m : e.key # k}
AtTheEnd(m, e) == m \union {[e EXCEPT !.place = IF m = {} THEN 1 ELSE Max({d.place : d \in m}) + 1]}
\* The size of m once all that stands before e and does not run is out.
Left(m, e) == Cardinality(m \ {d \in m : d.place < e.place /\ ~Runs(d)})

\* Kotlin: off the head what is over, up to the first record that is not; then,
\* while it is full, the oldest that are not in flight; then the new one.
KtSwept(m) == {e \in m : Runs(e) \/ \E r \in m : r.place <= e.place /\ r.record /\ ~Expired(r)}
KtRoom(m) == {e \in m : Runs(e) \/ Left(m, e) < MaxEntries}
KtInserted(e) == AtTheEnd(KtRoom(KtSwept(Without(entries, e.key))), e)

\* Map.set keeps the place of a key that is there.
TsInserted(e) ==
  IF \E d \in entries : d.key = e.key /\ ~Expired(d)
  THEN {IF d.key = e.key THEN [e EXCEPT !.place = d.place] ELSE d : d \in entries}
  ELSE AtTheEnd(Without(entries, e.key), e)
Inserted(e) == IF runtime = "kt" THEN KtInserted(e) ELSE TsInserted(e)

NewEntry(a, record) ==
  [key |-> CallerKey[a], place |-> 0, by |-> a, record |-> record,
   until |-> IF record THEN 0 ELSE clock + LeaseTime, at |-> IF record THEN clock ELSE 0]

ClaimKey(a) ==
  LET there == {e \in entries : e.key = CallerKey[a] /\ ~Expired(e)}
  IN  /\ doing[a] = "claim"
      /\ \/ \E e \in there : e.record /\ Become(a, "ended") /\ UNCHANGED entries
         \/ \E e \in there : Runs(e) /\ Become(a, "wait") /\ UNCHANGED entries
         \/ /\ \A e \in there : ~e.record /\ ~Runs(e)
            /\ entries' = Inserted(NewEntry(a, FALSE)) /\ Become(a, "run")
      /\ UNCHANGED <<runtime, clock>>

\* The holder settled, or the backoff passed.
AskAgain(a) == doing[a] = "wait" /\ Become(a, "claim") /\ UNCHANGED <<runtime, clock, entries>>

Resolver(a) == doing[a] = "run" /\ (Become(a, "put") \/ Become(a, "release")) /\ UNCHANGED <<runtime, clock, entries>>

HeldBy(e, a) == e.key = CallerKey[a] /\ e.by = a /\ ~e.record
Mine(a) == \E e \in entries : HeldBy(e, a)

RenewLease(a) ==
  /\ doing[a] = "run" /\ Mine(a)
  /\ entries' = {IF HeldBy(e, a) THEN [e EXCEPT !.until = clock + LeaseTime] ELSE e : e \in entries}
  /\ UNCHANGED <<runtime, clock, doing>>

\* Mutant: the sweep ends at the first claim in flight.
SweptToClaim(m) ==
  {e \in m : Runs(e) \/ \E r \in m : r.place <= e.place /\ (Runs(r) \/ (r.record /\ ~Expired(r) /\ Left(m, r) <= MaxEntries))}
\* Oldest first: claims in flight stay, what ran out or is too many goes, up to
\* the first record that may stay.
Swept(m) == {e \in m : Runs(e) \/ \E r \in m : r.place <= e.place /\ r.record /\ ~Expired(r) /\ Left(m, r) <= MaxEntries}

Recorded(a) ==
  LET e == NewEntry(a, TRUE)
  IN  IF runtime = "kt" THEN KtInserted(e) ELSE Swept(AtTheEnd(Without(entries, e.key), e))

\* Mutant: whoever comes late records all the same.
PutByAnyone(a) ==
  /\ doing[a] = "put"
  /\ entries' = Recorded(a)
  /\ Become(a, "ended") /\ UNCHANGED <<runtime, clock>>
\* Only the holder records, at the end of the map.
PutRecord(a) ==
  /\ doing[a] = "put"
  /\ entries' = IF Mine(a) THEN Recorded(a) ELSE entries
  /\ Become(a, "ended") /\ UNCHANGED <<runtime, clock>>

ReleaseKey(a) ==
  /\ doing[a] = "release"
  /\ entries' = IF Mine(a) THEN Without(entries, CallerKey[a]) ELSE entries
  /\ Become(a, "ended") /\ UNCHANGED <<runtime, clock>>

TimePasses == clock < MaxClock /\ clock' = clock + 1 /\ UNCHANGED <<runtime, entries, doing>>

MemNext ==
  \/ \E a \in Callers : \/ ClaimKey(a) \/ AskAgain(a) \/ Resolver(a)
                        \/ RenewLease(a) \/ PutRecord(a) \/ ReleaseKey(a)
  \/ TimePasses

MemSpec == MemInit /\ [][MemNext]_memVars

-----------------------------------------------------------------------------
(* Properties                                                                *)

CallerKeys == {CallerKey[a] : a \in Callers}
Slot(k) ==
  IF \E e \in entries : e.key = k
  THEN LET e == CHOOSE d \in entries : d.key = k IN [st |-> IF e.record THEN "done" ELSE "held", by |-> e.by]
  ELSE [st |-> "free", by |-> Nobody]
Shared == INSTANCE KeyStore WITH
  Keys <- CallerKeys, Attempts <- Callers, NoOne <- Nobody,
  slot <- [k \in CallerKeys |-> Slot(k)],
  over <- {e.key : e \in {d \in entries : IF d.record THEN Expired(d) ELSE ~Runs(d)}},
  leaving <- {a \in Callers : doing[a] \in {"release", "put"}}

\* The store in memory keeps the promises of the shared one: nobody is put out
\* of a key while its lease runs, by a sweep either, and nobody who lost it
\* records under it, however claims, answers and sweeps follow one another.
MemoryKeepsKeys == Shared!Spec

\* "Memory stays bounded however many commands arrive": there are never more
\* records than the bound, whatever stands between them, and they are kept in
\* the order of their age, which is what lets a sweep end early.
RecordsAreBounded ==
  LET records == {e \in entries : e.record}
  IN  /\ Cardinality(records) <= MaxEntries
      /\ \A d, e \in records : d.place < e.place => d.at <= e.at
=============================================================================
