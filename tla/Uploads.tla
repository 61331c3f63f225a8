------------------------------ MODULE Uploads -------------------------------
(* Uploads waiting for the command that names them: the store in memory of    *)
(* one server (MemoryUploadStore, server/src/uploads.ts), whose methods run   *)
(* to their end, and the one servers share (PgUploadStore,                    *)
(* postgres/src/uploads.ts), whose statements interleave.                     *)
EXTENDS Integers, Sequences, FiniteSets, SequencesExt, FiniteSetsExt

CONSTANTS
  Files,       \* uploads, each sent once
  SizeOf,
  MaxBytes,    \* the most bytes held
  KeptFor,     \* ttlMs
  LastTime     \* a bound on time

VARIABLES
  hour,        \* the time
  held, total, \* in memory: the map [id, at] in its order, and its count of bytes
  table,       \* shared: rows [id, at]
  put,         \* by file: the step of its put: new, insert, expire, sum, list, delete, done
  stamp,       \* by file: the time of its put
  sum,         \* by file: what its sweep believes the store holds
  list,        \* by file: what its sweep has still to look at
  lone         \* history, by file: nothing else was put or deleted during its sweep

uploadVars == <<hour, held, total, table, put, stamp, sum, list, lone>>

UploadsInit ==
  /\ hour = 0 /\ held = <<>> /\ total = 0 /\ table = {}
  /\ put = [f \in Files |-> "new"] /\ stamp = [f \in Files |-> 0]
  /\ sum = [f \in Files |-> 0] /\ list = [f \in Files |-> {}] /\ lone = [f \in Files |-> FALSE]

Age(row) == hour - row.at
Bytes(rows) == MapThenSumSet(LAMBDA r : SizeOf[r.id], rows)

-----------------------------------------------------------------------------
(* In memory                                                                 *)

BytesOf(m) == Bytes(ToSet(m))

\* The expired go, then the oldest until the count is inside the bound.
SweptMap(m, n) ==
  LET young == SelectSeq(m, LAMBDA r : Age(r) < KeptFor)
      left == n - (BytesOf(m) - BytesOf(young))
      cut == CHOOSE i \in 0..Len(young) :
               /\ i = Len(young) \/ left - BytesOf(SubSeq(young, 1, i)) <= MaxBytes
               /\ \A j \in 0..i - 1 : left - BytesOf(SubSeq(young, 1, j)) > MaxBytes
  IN  [map |-> SubSeq(young, cut + 1, Len(young)), count |-> left - BytesOf(SubSeq(young, 1, cut))]

HoldUpload(f) ==
  /\ put[f] = "new" /\ put' = [put EXCEPT ![f] = "done"]
  /\ LET s == SweptMap(Append(held, [id |-> f, at |-> hour]), total + SizeOf[f])
     IN  held' = s.map /\ total' = s.count
  /\ UNCHANGED <<hour, table, stamp, sum, list, lone>>

\* A command takes it, or is told it is gone: one that expired is deleted then.
DropHeld(f) ==
  /\ put[f] = "done" /\ \E r \in ToSet(held) : r.id = f
  /\ held' = SelectSeq(held, LAMBDA r : r.id # f) /\ total' = total - SizeOf[f]
  /\ UNCHANGED <<hour, table, put, stamp, sum, list, lone>>

-----------------------------------------------------------------------------
(* Shared                                                                    *)

\* The body was read and the clock was asked.
StartPut(f) ==
  /\ put[f] = "new"
  /\ put' = [put EXCEPT ![f] = "insert"] /\ stamp' = [stamp EXCEPT ![f] = hour]
  /\ UNCHANGED <<hour, held, total, table, sum, list, lone>>

Disturbs(f) == lone' = [g \in Files |-> lone[g] /\ (g = f \/ put[g] = "done")]
Turn(f, s) == put' = [put EXCEPT ![f] = s]

InsertUpload(f) ==
  /\ put[f] = "insert" /\ Turn(f, "expire")
  /\ table' = table \union {[id |-> f, at |-> stamp[f]]}
  /\ lone' = [g \in Files |-> IF g = f THEN TRUE ELSE lone[g] /\ put[g] = "done"]
  /\ UNCHANGED <<hour, held, total, stamp, sum, list>>
\* WHERE at < t - ttl.
ExpireUploads(f) ==
  /\ put[f] = "expire" /\ Turn(f, "sum")
  /\ table' = {r \in table : r.at + KeptFor >= stamp[f]}
  /\ IF table' = table THEN UNCHANGED lone ELSE Disturbs(f)
  /\ UNCHANGED <<hour, held, total, stamp, sum, list>>
\* Mutant: the store is weighed without what was just put.
SumOthers(f) ==
  /\ put[f] = "sum"
  /\ LET n == Bytes({r \in table : r.id # f}) IN
       IF n <= MaxBytes THEN Turn(f, "done") /\ UNCHANGED sum
       ELSE Turn(f, "list") /\ sum' = [sum EXCEPT ![f] = n]
  /\ UNCHANGED <<hour, held, total, table, stamp, list, lone>>
SumUploads(f) ==
  /\ put[f] = "sum"
  /\ IF Bytes(table) <= MaxBytes THEN Turn(f, "done") /\ UNCHANGED sum
     ELSE Turn(f, "list") /\ sum' = [sum EXCEPT ![f] = Bytes(table)]
  /\ UNCHANGED <<hour, held, total, table, stamp, list, lone>>
\* ORDER BY at.
ListUploads(f) ==
  /\ put[f] = "list" /\ Turn(f, "delete")
  /\ list' = [list EXCEPT ![f] = table]
  /\ UNCHANGED <<hour, held, total, table, stamp, sum, lone>>

Oldest(rows) == {r \in rows : \A q \in rows : r.at <= q.at}

\* Mutant: the list is taken from its end.
Youngest(rows) == {r \in rows : \A q \in rows : r.at >= q.at}
SweepYoungest(f) ==
  /\ put[f] = "delete" /\ list[f] # {} /\ sum[f] > MaxBytes
  /\ \E r \in Youngest(list[f]) :
       /\ table' = table \ {r} /\ sum' = [sum EXCEPT ![f] = @ - SizeOf[r.id]]
       /\ list' = [list EXCEPT ![f] = @ \ {r}]
  /\ Disturbs(f) /\ UNCHANGED <<hour, held, total, put, stamp>>
SweepOne(f) ==
  /\ put[f] = "delete" /\ list[f] # {} /\ sum[f] > MaxBytes
  /\ \E r \in Oldest(list[f]) :
       /\ table' = table \ {r} /\ sum' = [sum EXCEPT ![f] = @ - SizeOf[r.id]]
       /\ list' = [list EXCEPT ![f] = @ \ {r}]
  /\ Disturbs(f) /\ UNCHANGED <<hour, held, total, put, stamp>>
EndSweep(f) ==
  /\ put[f] = "delete" /\ (list[f] = {} \/ sum[f] <= MaxBytes)
  /\ Turn(f, "done") /\ sum' = [sum EXCEPT ![f] = 0] /\ list' = [list EXCEPT ![f] = {}]
  /\ UNCHANGED <<hour, held, total, table, stamp, lone>>

\* A command took it, or found it expired.
DropShared(f) ==
  /\ \E r \in table : r.id = f /\ table' = table \ {r}
  /\ put[f] = "done" /\ Disturbs(f)
  /\ UNCHANGED <<hour, held, total, put, stamp, sum, list>>

HourPasses == hour < LastTime /\ hour' = hour + 1 /\ UNCHANGED <<held, total, table, put, stamp, sum, list, lone>>

HeldNext == \E f \in Files : HoldUpload(f) \/ DropHeld(f)
SharedNext ==
  \E f \in Files : \/ StartPut(f) \/ InsertUpload(f) \/ ExpireUploads(f) \/ SumUploads(f)
                   \/ ListUploads(f) \/ SweepOne(f) \/ EndSweep(f) \/ DropShared(f)

-----------------------------------------------------------------------------
(* Properties                                                                *)

\* The count of bytes is that of the uploads held, which are in the order of
\* their arrival, whatever expired, was taken, or was swept.
CountIsOfTheHeld ==
  /\ total = BytesOf(held) /\ total <= MaxBytes
  /\ \A i, j \in DOMAIN held : i < j => held[i].at <= held[j].at

\* "Most bytes held at once": however the sweeps of several puts interleave,
\* each acting on a total the others made stale, the store is inside its bound
\* once they are over.
BoundedAtRest == (\A f \in Files : put[f] \in {"new", "insert", "done"}) =>
  Bytes(table) <= MaxBytes

\* "Past it the oldest go first", and no more of them than it takes: a sweep
\* nothing else ran beside would leave too much had it stopped one row earlier.
SweepsNoMore ==
  [][\A f \in Files : put[f] = "delete" /\ lone[f] /\ table' # table /\ lone'[f] =>
       Bytes(table) > MaxBytes /\ \E r \in table : table' = table \ {r} /\ \A q \in table : r.at <= q.at]_uploadVars

\* Both stores keep to their bound: the one in memory at any moment, the shared
\* one as soon as its sweeps are over.
UploadsBounded == CountIsOfTheHeld /\ BoundedAtRest

\* Uploads stay within their bound, and a sweep takes no more than that needs.
UploadsKept == []UploadsBounded /\ SweepsNoMore
=============================================================================
