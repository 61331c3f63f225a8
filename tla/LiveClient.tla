----------------------------- MODULE LiveClient -----------------------------
(* A client with a live query over a list, a watch of the same query, and    *)
(* commands with predictions (client/src/client.ts), against a server that   *)
(* other clients write to as well. Frames of one response come in order, the *)
(* responses of different requests in any order, and the live one may stop.  *)
EXTENDS ClientCache

CONSTANTS
  Calls,        \* commands: [kind: edit, delete or link, key, inner, field, to]
  FirstRows,    \* the list at first
  Inserted,     \* rows other clients insert
  Workloads     \* of one life: [open, out of live and watch; calls; changes, by others; drops]

Fields == {"f", "g"}

-----------------------------------------------------------------------------
(* How the server describes what became of a live query's result             *)
(* (server/src/live.ts diffResults): the fields of entities that changed,    *)
(* and for a list of entities the positions removed and the rows inserted.   *)

KeysOf(list) == {list[i].key : i \in DOMAIN list}
RowWith(list, k) == CHOOSE r \in {list[i] : i \in DOMAIN list} : r.key = k

\* listDiff: one walk over both lists. A row of the old list that comes again
\* later in the new one is not removed there, it waits for what comes before it.
ListDiff(a, b) ==
  LET Later(k, j) == \E n \in j..Len(b) : b[n].key = k
      walk[at \in (1..Len(a) + 1) \X (1..Len(b) + 1)] ==
        LET i == at[1]
            j == at[2]
        IN  CASE i > Len(a) /\ j > Len(b) -> [del |-> {}, ins |-> <<>>]
              [] i <= Len(a) /\ j <= Len(b) /\ a[i].key = b[j].key -> walk[<<i + 1, j + 1>>]
              [] i <= Len(a) /\ (j > Len(b) \/ ~Later(a[i].key, j)) ->
                   LET rest == walk[<<i + 1, j>>] IN [rest EXCEPT !.del = @ \union {i}]
              [] OTHER ->
                   LET rest == walk[<<i, j + 1>>] IN [rest EXCEPT !.ins = <<[at |-> j, row |-> b[j]]>> \o @]
  IN  walk[<<1, 1>>]

\* The rows whose fields travel inside an insertion.
Carried(op) == {op.ins[n].row.key : n \in DOMAIN op.ins}

Changed(old, k, fields) ==
  {f \in DOMAIN fields : k \notin KeysOf(old) \/ RowWith(old, k).fields[f] # fields[f]}

Moves(op) == op.del # {} \/ op.ins # <<>>

Patch(old, new) ==
  LET op == ListDiff(old, new)
      In(k) == RowWith(new, k).fields
      sets == {k \in KeysOf(new) \ Carried(op) : Changed(old, k, In(k)) # {}}
  IN  [sets |-> [k \in sets |-> [f \in Changed(old, k, In(k)) |-> In(k)[f]]],
       list |-> op]

-----------------------------------------------------------------------------

VARIABLES
  serverRows, val, \* the server's list and the fields of every row
  changes, drops,
  uses,          \* the workload, chosen at the start
  live,          \* off, opening, open, waiting (for its timer), ended
  lastSent,      \* the result last sent on the live response, None when there is no response
  underway,      \* its frames under way
  described,     \* history: the list of the last frame the client absorbed, None before one
  watch,         \* off, asked, answering (with watchAnswer), absorbed, ready
  watchAnswer,   \* the watch's result under way
  cmd,           \* by call: unmade, new, sent, run, refused, absorbed, settled
  said,          \* by call: what its answer says of its row
  told,          \* history: the rows a command of this client was told are deleted
  liveScreen, watchScreen   \* what the two callbacks were last given

serverVars == <<serverRows, val, changes>>
liveVars   == <<uses, live, lastSent, underway, described, drops>>
watchVars  == <<watch, watchAnswer>>
cmdVars    == <<cmd, said, told>>
control == <<serverVars, liveVars, watchVars, cmdVars>>
screens == <<cache, liveScreen, watchScreen>>
clientVars == <<control, screens>>

\* An id is not given out again.
ASSUME DeletedStayDeleted == \A c \in Calls : c.kind = "delete" => c.key \notin Inserted

\* What is absent is told from a key, a value, an entity or a list.
ASSUME CallsAssumption ==
  \A c \in Calls :
    /\ c.kind \in {"edit", "delete", "link"} /\ c.key \in CacheKeys /\ c.inner \in CacheKeys
    /\ c.field \in Fields /\ c.to \in {0, 1}
ASSUME RowsAssumption == FirstRows \in Seq(CacheKeys) /\ Inserted \subseteq CacheKeys
ASSUME WorkloadsAssumption == \A u \in Workloads : u.changes \in Nat /\ u.drops \in Nat
ASSUME NoneAssumption ==
  /\ CacheKeys \intersect {0, 1, None, Gap} = {} /\ None \notin Seq(CacheKeys \union {Gap})
  /\ \A S \in SUBSET (Fields \union {"next"}) : None \notin [S -> {0, 1, None} \union CacheKeys]

Zero == [f \in Fields |-> 0]
ClientInit ==
  /\ cache = Empty
  /\ serverRows = FirstRows /\ val = [k \in CacheKeys |-> Zero] /\ changes = 0
  /\ uses \in Workloads
  /\ live = "off" /\ lastSent = None /\ underway = <<>> /\ described = None /\ drops = 0 /\ liveScreen = None
  /\ watch = "off" /\ watchAnswer = None /\ watchScreen = None
  /\ cmd = [c \in Calls |-> IF c \in uses.calls THEN "new" ELSE "unmade"] /\ said = [c \in Calls |-> None] /\ told = {}

ClientTypeOK ==
  /\ DOMAIN cache = DOMAIN Empty
  /\ DOMAIN cache.shadow = UNION {DOMAIN cache.layers[j].ops : j \in DOMAIN cache.layers}
  /\ cache.list # None => cache.list \in Seq(cache.keys \union {Gap})
  /\ serverRows \in Seq(CacheKeys) /\ val \in [CacheKeys -> [Fields -> {0, 1}]]
  /\ changes \in 0..uses.changes /\ drops \in 0..uses.drops
  /\ live \in {"off", "opening", "open", "waiting", "ended"}
  /\ watch \in {"off", "asked", "answering", "absorbed", "ready"}
  /\ cmd \in [Calls -> {"unmade", "new", "sent", "run", "refused", "absorbed", "settled"}]
  /\ told \subseteq CacheKeys

Result == [i \in DOMAIN serverRows |-> [key |-> serverRows[i], fields |-> val[serverRows[i]]]]

-----------------------------------------------------------------------------
(* The cache announces what an operation touched                             *)

\* watch's listener: its result was replaced, or an entity it holds was touched.
Hits(c) == c.list # None /\ (c.replaced \/ c.touched \intersect c.keys # {})

\* The operation is evaluated once.
Announce(op) ==
  \E c \in {op} :
    /\ cache' = [c EXCEPT !.touched = {}, !.replaced = FALSE]
    /\ watchScreen' = IF watch = "ready" /\ Hits(c) THEN Shown(c) ELSE watchScreen

-----------------------------------------------------------------------------
(* The server                                                                *)

Change ==
  /\ changes < uses.changes /\ changes' = changes + 1
  /\ \/ \E k \in ToSet(serverRows), f \in Fields : val' = [val EXCEPT ![k][f] = 1 - @] /\ UNCHANGED serverRows
     \/ \E i \in DOMAIN serverRows : serverRows' = RemoveAt(serverRows, i) /\ UNCHANGED val
     \/ \E k \in Inserted \ ToSet(serverRows), i \in 1..Len(serverRows) + 1 :
          serverRows' = InsertAt(serverRows, i, k) /\ UNCHANGED val
     \/ \E i \in 1..Len(serverRows), j \in 1..Len(serverRows) :
          i # j /\ serverRows' = InsertAt(RemoveAt(serverRows, i), j, serverRows[i]) /\ UNCHANGED val
  /\ UNCHANGED <<liveVars, watchVars, cmdVars>>

\* The live query is run: the first result whole, or a part of its fields first.
Whole(r) == <<[kind |-> "data", rows |-> r, of |-> r]>>
InParts(r) ==
  <<[kind |-> "data", rows |-> [i \in DOMAIN r |-> [r[i] EXCEPT !.fields = PickOf(@, {"f"})]], of |-> r]>> \o
  [i \in DOMAIN r |-> [kind |-> "at", at |-> i, fields |-> PickOf(r[i].fields, {"g"}), of |-> r]]

LiveOpens ==
  /\ live = "opening" /\ lastSent = None
  /\ lastSent' = Result
  /\ underway' \in {Whole(Result), InParts(Result)}
  /\ UNCHANGED <<serverVars, uses, live, described, drops, watchVars, cmdVars>>

\* It is run again: what changed since the last result, described or sent whole.
LiveReruns ==
  /\ lastSent # None /\ Result # lastSent
  /\ LET p == Patch(lastSent, Result)
         frame == [kind |-> "patch", sets |-> p.sets, list |-> p.list, of |-> Result]
     IN  \/ underway' = Append(underway, frame)
         \/ Moves(p.list) /\ underway' = underway \o Whole(Result)
  /\ lastSent' = Result
  /\ UNCHANGED <<serverVars, uses, live, described, drops, watchVars, cmdVars>>

-----------------------------------------------------------------------------
(* live()                                                                    *)

OpenLive ==
  /\ "live" \in uses.open /\ live = "off"
  /\ live' = "opening"
  /\ UNCHANGED <<serverVars, uses, lastSent, underway, described, drops, watchVars, cmdVars>>

\* A patch's `set`s come before its `list`.
Absorb(c, f) ==
  CASE f.kind = "data"  -> PutResult(c, f.rows)
    [] f.kind = "at"    -> MergeAt(c, f.at, f.fields)
    [] f.kind = "patch" -> IF Moves(f.list) THEN ApplyList(Store(c, f.sets), f.list) ELSE Store(c, f.sets)

TakeFrame ==
  /\ underway # <<>> /\ live \in {"opening", "open"}
  /\ underway' = Tail(underway) /\ live' = "open"
  /\ described' = Head(underway).of
  /\ UNCHANGED <<serverVars, uses, lastSent, drops, watchVars, cmdVars>>
\* onFrame comes after the cache has absorbed the frame.
Receive ==
  /\ TakeFrame
  /\ Announce(Absorb(cache, Head(underway)))
  /\ liveScreen' = Shown(cache')

\* The connection drops or the server goes away: what was under way is lost.
Lost ==
  /\ drops < uses.drops /\ drops' = drops + 1
  /\ lastSent' = None /\ underway' = <<>>
  /\ UNCHANGED <<serverVars, uses, described, watchVars, cmdVars>>
DropConnection == live \in {"opening", "open"} /\ live' = "waiting" /\ Lost
\* Unsubscribed, or an error that would recur.
EndLive == live \in {"opening", "open", "waiting"} /\ live' = "ended" /\ Lost

\* Mutant: a wait that a lost connection began is never over.
ReopenNever ==
  /\ live = "waiting" /\ drops = 0
  /\ live' = "opening"
  /\ UNCHANGED <<serverVars, uses, lastSent, underway, described, drops, watchVars, cmdVars>>
\* The timer of a wait.
Reopen ==
  /\ live = "waiting"
  /\ live' = "opening"
  /\ UNCHANGED <<serverVars, uses, lastSent, underway, described, drops, watchVars, cmdVars>>

-----------------------------------------------------------------------------
(* watch()                                                                   *)

Ask ==
  /\ "watch" \in uses.open /\ watch = "off"
  /\ watch' = "asked"
  /\ UNCHANGED <<serverVars, liveVars, watchAnswer, cmdVars>>
Read ==
  /\ watch = "asked"
  /\ watch' = "answering" /\ watchAnswer' = Result
  /\ UNCHANGED <<serverVars, liveVars, cmdVars>>
TakeAnswer ==
  /\ watch = "answering"
  /\ watch' = "absorbed" /\ watchAnswer' = None
  /\ UNCHANGED <<serverVars, liveVars, cmdVars>>
Answered == TakeAnswer /\ Announce(PutResult(cache, watchAnswer)) /\ UNCHANGED liveScreen

\* query()'s promise, a turn later.
Promise ==
  /\ watch = "absorbed"
  /\ watch' = "ready"
  /\ UNCHANGED <<serverVars, liveVars, watchAnswer, cmdVars>>
\* The cache is shown, not the response.
Ready == Promise /\ watchScreen' = Shown(cache) /\ UNCHANGED <<cache, liveScreen>>

-----------------------------------------------------------------------------
(* command()                                                                 *)

\* An edit changes a field of its entity and answers with it; a link changes one
\* of `inner`, and its patch sets `next` of its entity to `inner`, embedded.
Edited(c) == IF c.kind = "link" THEN c.inner ELSE c.key
Guess(c) == [k \in {Edited(c)} |-> [f \in {c.field} |-> c.to]]

\* A command is made of what is on the screen.
Call(c) ==
  /\ cmd[c] = "new" /\ cache.list # None
  /\ cmd' = [cmd EXCEPT ![c] = "sent"]
  /\ UNCHANGED <<serverVars, liveVars, watchVars, said, told, liveScreen>>
  /\ IF c.kind = "delete" THEN UNCHANGED <<cache, watchScreen>> ELSE Announce(AddLayer(cache, c, Guess(c)))

Run(c) ==
  /\ cmd[c] = "sent"
  /\ IF Edited(c) \in ToSet(serverRows)
     THEN /\ cmd' = [cmd EXCEPT ![c] = "run"]
          /\ IF c.kind = "delete"
             THEN /\ \E i \in DOMAIN serverRows : serverRows[i] = c.key /\ serverRows' = RemoveAt(serverRows, i)
                  /\ UNCHANGED val
             ELSE val' = [val EXCEPT ![Edited(c)][c.field] = c.to] /\ UNCHANGED serverRows
          /\ said' = [said EXCEPT ![c] = val'[Edited(c)]]
     ELSE cmd' = [cmd EXCEPT ![c] = "refused"] /\ UNCHANGED <<serverRows, val, said>>
  /\ UNCHANGED <<changes, liveVars, watchVars, told>>

Refuse(c) ==
  /\ cmd[c] = "sent"
  /\ cmd' = [cmd EXCEPT ![c] = "refused"]
  /\ UNCHANGED <<serverVars, liveVars, watchVars, said, told>>

\* The answer's entities and the resolver's patch, one transaction.
AnswerStored(c) ==
  CASE c.kind = "edit"   -> Store(cache, [k \in {c.key} |-> said[c]])
    [] c.kind = "link"   -> Merge(cache, c.key, [f \in {"next"} |-> c.inner], [k \in {c.inner} |-> said[c]])
    [] c.kind = "delete" -> Delete(cache, c.key)
TakeOk(c) ==
  /\ cmd[c] = "run"
  /\ cmd' = [cmd EXCEPT ![c] = "absorbed"]
  /\ told' = IF c.kind = "delete" THEN told \union {c.key} ELSE told
  /\ UNCHANGED <<serverVars, liveVars, watchVars, said>>
AbsorbAnswer(c) == TakeOk(c) /\ Announce(AnswerStored(c)) /\ UNCHANGED liveScreen

Finish(c) ==
  /\ cmd[c] \in {"absorbed", "refused"}
  /\ cmd' = [cmd EXCEPT ![c] = "settled"]
  /\ UNCHANGED <<serverVars, liveVars, watchVars, said, told>>
\* settled(), or the rollback.
Settled(c) == Finish(c) /\ Announce(RemoveLayer(cache, c)) /\ UNCHANGED liveScreen

-----------------------------------------------------------------------------
ServerStep == Change \/ LiveOpens \/ LiveReruns \/ Read \/ \E c \in Calls : Run(c) \/ Refuse(c)
WireStep   == OpenLive \/ DropConnection \/ EndLive \/ Reopen \/ Ask
ClientNext ==
  \/ (ServerStep \/ WireStep) /\ UNCHANGED screens
  \/ Receive \/ Answered \/ Ready
  \/ \E c \in Calls : Call(c) \/ AbsorbAnswer(c) \/ Settled(c)
ClientSpec == ClientInit /\ [][ClientNext]_clientVars

\* The server runs a live query again after a change, timers fire, requests that
\* were sent are answered, and frames that came are read. These steps are named
\* by their control alone, what they make of the cache is not a condition.
ClientWork ==
  \/ LiveOpens \/ LiveReruns \/ Reopen \/ TakeFrame
  \/ Read \/ TakeAnswer \/ Promise
  \/ \E c \in Calls : Run(c) \/ TakeOk(c) \/ Finish(c)
ClientFairSpec == ClientSpec /\ WF_control(ClientWork)

-----------------------------------------------------------------------------
(* Properties                                                                *)

Reader == INSTANCE LayeredView WITH
  Keys <- CacheKeys, Fields <- Fields \union {"next"},
  said <- [k \in CacheKeys |-> BaseOf(cache, k)],
  guesses <- cache.layers,
  shown <- cache.entities

\* An entity nested in itself is stored without what its patch held (cache.ts 94).
LinksToOthers == \A c \in Calls : c.kind = "link" => c.inner # c.key

\* A watch and a live query of one request share its stored result, and the
\* watch's answer, of another moment, would replace the list the frames speak of.
OneReader == \A u \in Workloads : ~({"live", "watch"} \subseteq u.open)

\* The cache implements LayeredView: what a reader sees is what the server last
\* said, under the predictions of unsettled commands, in whatever order answers,
\* frames, predictions and rollbacks come.
ShowsLayers == Reader!Spec

Touched == {c.key : c \in Calls} \union {Edited(c) : c \in Calls}

\* Within one response the client sees what the server described: the list of
\* the last frame position by position, a gap only for a row this client was
\* told is deleted, and the fields of every row that only the response speaks of.
SeesWhatWasDescribed ==
  described # None =>
    /\ Len(cache.list) = Len(described)
    /\ \A i \in DOMAIN described :
         \/ cache.list[i] = described[i].key
         \/ cache.list[i] = Gap /\ described[i].key \in told
    /\ live = "open" /\ (\A n \in DOMAIN underway : underway[n].kind # "at") =>
         \A i \in DOMAIN described :
           described[i].key \notin Touched => BaseOf(cache, described[i].key) = described[i].fields

\* Every reference to a deleted entity goes, from the result and from entities.
NothingDangles ==
  /\ cache.list # None =>
       \A i \in DOMAIN cache.list : cache.list[i] = Gap \/ cache.entities[cache.list[i]] # None
  /\ \A k \in CacheKeys : BaseOf(cache, k) # None /\ "next" \in DOMAIN BaseOf(cache, k) =>
       BaseOf(cache, k)["next"] \in {None} \union {n \in CacheKeys : BaseOf(cache, n) # None}

\* A watch shows the cache as it is, predictions and rollbacks included.
WatchShowsTheCache == watch = "ready" => watchScreen = Shown(cache)

\* "Nested entities in `value` are themselves stored" (spec 13): what an answer
\* says of the entity inside its patch is what the cache holds of it next, also
\* of an entity nested in itself.
NestedAreStored ==
  [][\A c \in Calls : c.kind = "link" /\ cmd[c] = "run" /\ cmd'[c] = "absorbed" =>
       LET held == BaseOf(cache', c.inner)
       IN  held # None /\ \A f \in DOMAIN said[c] : f \in DOMAIN held /\ held[f] = said[c][f]]_clientVars

\* A subscription outlives its connection: once changes and drops are over, the
\* screen of a live query shows the server's rows, in order.
ScreenCatchesUp ==
  <>[](\/ live \in {"off", "ended"}
       \/ liveScreen # None /\ [i \in DOMAIN liveScreen |-> liveScreen[i].key] = serverRows)

\* What the client holds and shows is of one piece: positions are the server's,
\* no reference dangles, and a watch shows what is there.
ScreensHold == ClientTypeOK /\ SeesWhatWasDescribed /\ NothingDangles /\ WatchShowsTheCache
=============================================================================
