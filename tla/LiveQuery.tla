----------------------------- MODULE LiveQuery ------------------------------
(***************************************************************************)
(* One live query on one server: runLive in packages/server/src/batch.ts   *)
(* against the ChangeBus of live.ts and the batch's loader memo of         *)
(* executor.ts.                                                            *)
(*                                                                         *)
(* The query shows a root row and the item its `shown` field points to, a  *)
(* loaded field.  Commands, here or on servers whose changes arrive        *)
(* through a relay, commit first and are heard of later, in any order.     *)
(* A run reads the root, then the item, then projects: three steps, with   *)
(* commits and changes in between.                                         *)
(***************************************************************************)
EXTENDS Integers, FiniteSets

CONSTANTS
  Items,        \* what the root may point to
  Root,         \* the root row
  ItemsReach,   \* TRUE: the items' type is within the four levels of typeSet
  EarlierOp,    \* TRUE: an op of the batch may load the same field before it subscribes
  MaxWrites,    \* bound on the commits of a behaviour
  NoRead        \* nothing read yet

Rows == {Root} \cup Items

ASSUME ItemsAssumption ==
  /\ Root \notin Items /\ NoRead \notin Items
  /\ ItemsReach \in BOOLEAN /\ EarlierOp \in BOOLEAN
  /\ MaxWrites \in Nat

VARIABLES
  shown,     \* database: the item the root points to
  value,     \* database: the value of each item
  writes,    \* how many commits there were
  pending,   \* changes committed and not yet delivered to this server's bus: key -> how many
  loaded,      \* the batch's memo: the item as an earlier op loaded it, or NoRead
  livePc,        \* where runLive is
  first,     \* collect() has not been called yet
  read,      \* the run in progress: the item read, with its value
  current,   \* the result last sent
  readSet,   \* the keys of the result last sent
  held,      \* keys of the changes held during the first run
  dirty

db   == <<shown, value, writes>>
liveVars == <<db, pending, loaded, livePc, first, read, current, readSet, held, dirty>>

Result == [item : Items, value : 0..MaxWrites]
View == [item |-> shown, value |-> value[shown]]

Holding == livePc \in {"root", "item", "project"} /\ first
Subscribed == livePc \in {"root", "item", "project", "loop", "asleep"}

LiveInit ==
  /\ shown \in Items
  /\ value = [i \in Items |-> 0]
  /\ writes = 0
  /\ pending = [k \in Rows |-> 0]
  /\ loaded = NoRead
  /\ livePc = "waiting"
  /\ first = TRUE
  /\ read = NoRead
  /\ current = NoRead
  /\ readSet = {}
  /\ held = {}
  /\ dirty = FALSE

live == <<loaded, livePc, first, read, current, readSet, held, dirty>>

-----------------------------------------------------------------------------
(* Commands: they commit, and their patch is published afterwards.          *)

Publish(k) == pending' = [pending EXCEPT ![k] = @ + 1]

Update(i) ==
  /\ writes < MaxWrites
  /\ value' = [value EXCEPT ![i] = @ + 1]
  /\ writes' = writes + 1
  /\ Publish(i)
  /\ UNCHANGED <<shown, live>>

\* The root comes to show another item.  The patch names the root or, as a newly
\* created item does, only the item: enough when its type is in typeSet.
Show(i) ==
  /\ writes < MaxWrites /\ i # shown
  /\ shown' = i
  /\ writes' = writes + 1
  /\ \E k \in IF ItemsReach THEN {Root, i} ELSE {Root} : Publish(k)
  /\ UNCHANGED <<value, live>>

\* Another op of the batch loads the field the live query will load, before its
\* first run comes to it; or, if it comes after a command or a reference, even
\* before it has subscribed.
OtherLoads ==
  /\ loaded = NoRead
  /\ \/ livePc = "root" /\ first
     \/ livePc = "waiting" /\ EarlierOp
  /\ loaded' = View
  /\ UNCHANGED <<db, pending, livePc, first, read, current, readSet, held, dirty>>

-----------------------------------------------------------------------------
(* runLive.                                                                 *)

\* A change whose key is of a reachable type, or in the read set.
Hits(k, keys) == k \in keys \/ k = Root \/ ItemsReach

Subscribe ==
  /\ livePc = "waiting"
  /\ livePc' = "root"
  /\ held' = {}
  /\ UNCHANGED <<db, pending, loaded, first, read, current, readSet, dirty>>

\* The root resolver returns the item's key; with the field already loaded in
\* the batch, the first run takes what the memo has.
ReadRoot ==
  /\ livePc = "root"
  /\ IF first /\ loaded # NoRead
       THEN read' = loaded /\ livePc' = "project"
       ELSE read' = [item |-> shown, value |-> 0] /\ livePc' = "item"
  /\ UNCHANGED <<db, pending, loaded, first, current, readSet, held, dirty>>

ReadItem ==
  /\ livePc = "item"
  /\ read' = [item |-> read.item, value |-> value[read.item]]
  /\ livePc' = "project"
  /\ UNCHANGED <<db, pending, loaded, first, current, readSet, held, dirty>>

ReadSetOf(r) == {Root, r.item}

\* Mutant: what arrived during the first run is forgotten.
FirstResultForgets ==
  /\ livePc = "project" /\ first
  /\ current' = read
  /\ readSet' = ReadSetOf(read)
  /\ dirty' = FALSE
  /\ first' = FALSE
  /\ held' = {}
  /\ read' = NoRead
  /\ livePc' = "loop"
  /\ UNCHANGED <<db, pending, loaded>>

\* The first result: what arrived during the run is judged by its read set.
FirstResult ==
  /\ livePc = "project" /\ first
  /\ current' = read
  /\ readSet' = ReadSetOf(read)
  /\ dirty' = \E k \in held : Hits(k, ReadSetOf(read))
  /\ first' = FALSE
  /\ held' = {}
  /\ read' = NoRead
  /\ livePc' = "loop"
  /\ UNCHANGED <<db, pending, loaded>>

NextResult ==
  /\ livePc = "project" /\ ~first
  /\ current' = read
  /\ readSet' = ReadSetOf(read)
  /\ read' = NoRead
  /\ livePc' = "loop"
  /\ UNCHANGED <<db, pending, loaded, first, held, dirty>>

\* The head of the loop: run again, or wait to be woken.
Loop ==
  /\ livePc = "loop"
  /\ IF dirty THEN livePc' = "root" ELSE livePc' = "asleep"
  /\ dirty' = FALSE
  /\ UNCHANGED <<db, pending, loaded, first, read, current, readSet, held>>

\* The bus calls the listener: hold the change, or mark the query and wake it.
Heard(k) ==
  IF Holding
    THEN held' = held \cup {k} /\ UNCHANGED <<dirty, livePc>>
    ELSE IF Hits(k, readSet)
           THEN dirty' = TRUE /\ livePc' = (IF livePc = "asleep" THEN "loop" ELSE livePc) /\ UNCHANGED held
           ELSE UNCHANGED <<held, dirty, livePc>>

Deliver(k) ==
  /\ pending[k] > 0
  /\ pending' = [pending EXCEPT ![k] = @ - 1]
  /\ IF Subscribed THEN Heard(k) ELSE UNCHANGED <<held, dirty, livePc>>
  /\ UNCHANGED <<db, loaded, first, read, current, readSet>>

\* The op is cancelled or drained, or a run fails: the listener is removed and
\* the client is sent a terminal frame, so it reopens or gives up knowingly.
Ends ==
  /\ Subscribed
  /\ livePc' = "ended"
  /\ UNCHANGED <<db, pending, loaded, first, read, current, readSet, held, dirty>>

-----------------------------------------------------------------------------

\* What runLive does by itself, and the calls it waits for.
RunStep == Subscribe \/ FirstResult \/ NextResult \/ Loop
RunCalls == ReadRoot \/ ReadItem

LiveNext ==
  \/ RunStep \/ RunCalls \/ OtherLoads \/ Ends
  \/ \E i \in Items : Update(i) \/ Show(i)
  \/ \E k \in Rows : Deliver(k)

LiveSpec == LiveInit /\ [][LiveNext]_liveVars

\* The loop goes on and the bus delivers what was published; nothing has to be
\* committed and the op does not have to end.
FairLive == LiveSpec /\ WF_liveVars(RunStep) /\ \A k \in Rows : WF_liveVars(Deliver(k))

\* The query's resolver and its loader return.
RunReturns == WF_liveVars(RunCalls)

-----------------------------------------------------------------------------

\* The rows, the result and the two sets of keys stay in their domains.
LiveTypeOK ==
  /\ shown \in Items /\ value \in [Items -> 0..MaxWrites] /\ writes \in 0..MaxWrites
  /\ pending \in [Rows -> 0..MaxWrites]
  /\ loaded \in Result \cup {NoRead} /\ read \in Result \cup {NoRead} /\ current \in Result \cup {NoRead}
  /\ livePc \in {"waiting", "root", "item", "project", "loop", "asleep", "ended"}
  /\ first \in BOOLEAN /\ dirty \in BOOLEAN
  /\ readSet \subseteq Rows /\ held \subseteq Rows

\* A query that sleeps with every change delivered shows what is in the
\* database: the window before the first result and the runs after it lose no
\* change that mattered (the comment above `held` in runLive, spec 08 section 3).
AsleepIsCurrent ==
  (livePc = "asleep" /\ ~dirty /\ \A k \in Rows : pending[k] = 0) => current = View

\* If its resolver and loaders return, the screen follows the database: once
\* commits stop, it is right and stays so.
ScreenCatchesUp == RunReturns => <>[](livePc = "ended" \/ current = View)

\* A live query's keys and results are in their domains, and while it sleeps
\* with nothing to hear it shows what is there.
LiveKept == LiveTypeOK /\ AsleepIsCurrent
=============================================================================
