------------------------------ MODULE Executor ------------------------------
(***************************************************************************)
(* What runs inside an op (server/src/executor.ts): the loads that the ops *)
(* of one batch share, one memo of those in flight or done by field,       *)
(* arguments and entity, which a command that changed something throws     *)
(* away; and the run of a stream op (runStream), whose items are pulled    *)
(* from the resolver's iterator, projected and sent, until it is done, the *)
(* op is cancelled, or the item limit is passed.                           *)
(***************************************************************************)
EXTENDS Naturals, Sequences, FiniteSets, SequencesExt

CONSTANTS
  Ops,        \* [name, kind: query, command or dryrun; after: names of the ops it waits for;
              \*  levels: the keys of each loader call it needs, in turn; partial]
  Keys,       \* (field, arguments, entity)
  Plain,      \* of those, the ones of objects that are no entities
  MaxErrors   \* of loaders and resolvers, other than by a cancel

\* An op is known by its name and loads something.
OpsAssumption ==
  /\ \A o \in Ops :
       /\ o \in [name : {q.name : q \in Ops}, kind : {"query", "command", "dryrun"},
                after : SUBSET {q.name : q \in Ops}, levels : Seq(Seq(Keys)), partial : BOOLEAN]
       /\ o.levels # <<>>
  /\ \A o, q \in Ops : o.name = q.name => o = q
  /\ MaxErrors \in Nat
ASSUME OpsAssumption

VARIABLES
  stage,      \* by op: waiting, resolver, committed, level, calling, read, await, ok, failed
  at,         \* by op: the level it is at
  loads,      \* the promises: [key, by, memo, state: flying, ok, broken or cancelled; version]
  waits,      \* by op: the promises of the level it is at
  memo,       \* which memo the batch has
  state,      \* what commands have changed, counted
  left,       \* the state that the last command to return left
  began,      \* by op: the state it must see at least
  cut,        \* the ops that are aborted
  errors

loadVars == <<stage, at, loads, waits, memo, state, left, began, cut, errors>>

Named(n) == CHOOSE o \in Ops : o.name = n
Ended(o) == stage[o] \in {"ok", "failed"}

LoadsInit ==
  /\ stage = [o \in Ops |-> "waiting"] /\ at = [o \in Ops |-> 1]
  /\ loads = <<>> /\ waits = [o \in Ops |-> {}]
  /\ memo = 0 /\ state = 0 /\ left = 0 /\ began = [o \in Ops |-> 0]
  /\ cut = {} /\ errors = 0

\* A dry run's answer is what would happen: it loads for itself.
MemoOf(o) == IF o.kind = "dryrun" THEN <<"own", o.name>> ELSE <<"batch", memo>>

\* Mutant: a load that failed is remembered.
KeptEvenFailed(p) == TRUE
Kept(p) == loads[p].state \in {"flying", "ok"}
Remembered(m, k) == {p \in DOMAIN loads : loads[p].memo = m /\ loads[p].key = k /\ k \notin Plain /\ Kept(p)}

-----------------------------------------------------------------------------
(* An op's turn, and a command's resolver                                    *)

Begin(o) ==
  /\ stage[o] = "waiting" /\ \A n \in o.after : Ended(Named(n))
  /\ stage' = [stage EXCEPT ![o] = IF \E n \in o.after : stage[Named(n)] = "failed" THEN "failed"
                             ELSE IF o.kind = "query" THEN "level" ELSE "resolver"]
  /\ began' = [began EXCEPT ![o] = left]
  /\ UNCHANGED <<at, loads, waits, memo, state, left, cut, errors>>

Commit(o) ==
  /\ stage[o] = "resolver"
  /\ stage' = [stage EXCEPT ![o] = "committed"]
  /\ state' = IF o.kind = "command" THEN state + 1 ELSE state
  /\ UNCHANGED <<at, loads, waits, memo, left, began, cut, errors>>

ResolverThrows(o) ==
  /\ stage[o] = "resolver" /\ errors < MaxErrors
  /\ errors' = errors + 1 /\ stage' = [stage EXCEPT ![o] = "failed"]
  /\ UNCHANGED <<at, loads, waits, memo, state, left, began, cut>>

\* Mutant: what was loaded before the command is kept.
ReturnedKeeping(o) ==
  /\ stage[o] = "committed"
  /\ stage' = [stage EXCEPT ![o] = "level"]
  /\ memo' = memo
  /\ left' = IF o.kind = "command" THEN state ELSE left
  /\ began' = [began EXCEPT ![o] = state]
  /\ UNCHANGED <<at, loads, waits, state, cut, errors>>
\* Its own result, and every op after it, load again.
Returned(o) ==
  /\ stage[o] = "committed"
  /\ stage' = [stage EXCEPT ![o] = "level"]
  /\ memo' = IF o.kind = "command" THEN memo + 1 ELSE memo
  /\ left' = IF o.kind = "command" THEN state ELSE left
  /\ began' = [began EXCEPT ![o] = state]
  /\ UNCHANGED <<at, loads, waits, state, cut, errors>>

-----------------------------------------------------------------------------
(* loadField                                                                 *)

\* A level is over: the next one, or the answer.
Onward(o) ==
  /\ at' = [at EXCEPT ![o] = @ + 1]
  /\ stage' = [stage EXCEPT ![o] = IF at[o] < Len(o.levels) THEN "level" ELSE "ok"]
  /\ waits' = [waits EXCEPT ![o] = {}]

\* ... with a failure, which a partial field only records.
Threw(o) ==
  IF o.partial THEN Onward(o)
  ELSE stage' = [stage EXCEPT ![o] = "failed"] /\ UNCHANGED <<at, waits>>

\* What is there or on its way is waited for, the rest is one loader call.
Load(o) ==
  LET targets == ToSet(o.levels[at[o]])
      Held(k) == Remembered(MemoOf(o), k)
      need == SetToSeq({k \in targets : Held(k) = {}})
      New(n) == [key |-> need[n], by |-> o, memo |-> MemoOf(o), state |-> "flying", version |-> 0]
  IN  /\ stage[o] = "level"
      /\ loads' = loads \o [n \in DOMAIN need |-> New(n)]
      /\ waits' = [waits EXCEPT ![o] = (UNION {Held(k) : k \in targets}) \union {Len(loads) + n : n \in DOMAIN need}]
      /\ stage' = [stage EXCEPT ![o] = IF need = <<>> THEN "await" ELSE "calling"]
      /\ UNCHANGED <<at, memo, state, left, began, cut, errors>>

Mine(o) == {p \in DOMAIN loads : loads[p].by = o /\ loads[p].state = "flying"}
SettleLoads(o, to) == loads' = [p \in DOMAIN loads |-> IF p \in Mine(o) THEN [loads[p] EXCEPT !.state = to] ELSE loads[p]]

\* The loader looks at the data,
LoaderReads(o) ==
  /\ stage[o] = "calling"
  /\ stage' = [stage EXCEPT ![o] = "read"]
  /\ loads' = [p \in DOMAIN loads |-> IF p \in Mine(o) THEN [loads[p] EXCEPT !.version = state] ELSE loads[p]]
  /\ UNCHANGED <<at, waits, memo, state, left, began, cut, errors>>
\* and returns,
LoaderReturns(o) ==
  /\ stage[o] = "read"
  /\ stage' = [stage EXCEPT ![o] = "await"]
  /\ SettleLoads(o, "ok")
  /\ UNCHANGED <<at, waits, memo, state, left, began, cut, errors>>

\* or throws: nobody is given this load any more, and those who joined it are told.
LoaderThrows(o) ==
  /\ stage[o] \in {"calling", "read"} /\ o \notin cut
  /\ errors < MaxErrors /\ errors' = errors + 1
  /\ SettleLoads(o, "broken") /\ Threw(o)
  /\ UNCHANGED <<memo, state, left, began, cut>>
\* A loader is given the signal of the op that called it.
LoaderStops(o) ==
  /\ stage[o] \in {"calling", "read"} /\ o \in cut
  /\ SettleLoads(o, "cancelled") /\ Threw(o)
  /\ UNCHANGED <<memo, state, left, began, cut, errors>>

Awaited(o) ==
  /\ stage[o] = "await" /\ \A p \in waits[o] : loads[p].state = "ok"
  /\ Onward(o)
  /\ UNCHANGED <<loads, memo, state, left, began, cut, errors>>
JoinedThrew(o) ==
  /\ stage[o] = "await"
  /\ \E p \in waits[o] : loads[p].state \in {"broken", "cancelled"}
  /\ Threw(o)
  /\ UNCHANGED <<loads, memo, state, left, began, cut, errors>>

Cancel(o) ==
  /\ ~Ended(o) /\ o \notin cut
  /\ cut' = cut \union {o}
  /\ UNCHANGED <<stage, at, loads, waits, memo, state, left, began, errors>>

-----------------------------------------------------------------------------
\* What the executor does by itself, and what it waits for.
OpStep(o) == Begin(o) \/ Returned(o) \/ Load(o) \/ Awaited(o) \/ JoinedThrew(o)
OpCalls(o) == Commit(o) \/ LoaderReads(o) \/ LoaderReturns(o)
LoadsNext ==
  \E o \in Ops : OpStep(o) \/ OpCalls(o) \/ ResolverThrows(o) \/ LoaderThrows(o) \/ LoaderStops(o) \/ Cancel(o)

LoadsSpec == LoadsInit /\ [][LoadsNext]_loadVars

\* A resolver or a loader that is called comes back.  Nothing ends the wait for
\* one that does not, a cancel neither.
CallsReturn == \A o \in Ops : WF_loadVars(OpCalls(o))

-----------------------------------------------------------------------------
(* Properties                                                                *)

LoadsTypeOK ==
  /\ \A o \in Ops : at[o] \in 1..Len(o.levels) + 1 /\ waits[o] \subseteq DOMAIN loads
  /\ \A p \in DOMAIN loads : loads[p].state = "flying" => stage[loads[p].by] \in {"calling", "read"}
  /\ errors \in 0..MaxErrors /\ cut \subseteq Ops

\* An entity one op already loaded, or is loading right now, is not loaded again
\* by another op of the batch (spec 03 section 2), unless that load failed.
LoadedOnce ==
  \A p, q \in DOMAIN loads :
    loads[p].key = loads[q].key /\ loads[p].memo = loads[q].memo /\ loads[p].key \notin Plain
      /\ loads[p].state \in {"flying", "ok"} /\ loads[q].state \in {"flying", "ok"} => p = q

\* "A command's result, and every op that runs after the command, read the state
\* it left, never a value loaded earlier in the batch."
ReadsWhatWasLeft == \A o \in Ops : \A p \in waits[o] : loads[p].state = "ok" => loads[p].version >= began[o]

\* "A load that failed is not remembered": who comes after it loads again.
NobodyJoinsAFailure ==
  [][\A o \in Ops : stage[o] = "level" /\ stage'[o] # "level" => \A p \in waits'[o] : loads'[p].state \notin {"broken", "cancelled"}]_loadVars

\* If loaders return, whoever shares a load hears how it ended, and no two ops
\* wait for each other.
EveryOpEnds == CallsReturn => []<>(\A o \in Ops : Ended(o))

\* The loads a batch shares: none is made twice, and none is read that a command
\* made stale.
LoadsShared == LoadsTypeOK /\ LoadedOnce /\ ReadsWhatWasLeft

-----------------------------------------------------------------------------
(* The run of a stream                                                       *)

CONSTANTS
  MaxItems,    \* the server's limit for one stream
  Yields       \* the most the resolver's iterator yields

StreamAssumption == MaxItems \in Nat /\ Yields \in Nat
ASSUME StreamAssumption

VARIABLES
  run,        \* top, pulling, projecting, finally, closing, ended
  gen,        \* the iterator: idle, busy, yielded, done, threw
  asked,      \* return() was called on it
  pulled,     \* items taken
  streamed,   \* item frames sent
  stopped,    \* the op is aborted
  ending      \* how: none, fin, error

streamVars == <<run, gen, asked, pulled, streamed, stopped, ending>>

StreamInit ==
  /\ run = "top"
  /\ gen = "idle" /\ asked = FALSE /\ pulled = 0 /\ streamed = 0 /\ stopped = FALSE /\ ending = "none"

\* The loop's head: next() is called unless the op is aborted.
Pull ==
  /\ run = "top" /\ ~stopped
  /\ run' = "pulling" /\ gen' = "busy"
  /\ UNCHANGED <<asked, pulled, streamed, stopped, ending>>
LeaveLoop ==
  /\ run = "top" /\ stopped
  /\ run' = "finally" /\ ending' = "error"
  /\ UNCHANGED <<gen, asked, pulled, streamed, stopped>>

\* The resolver, which may stay busy for good.
Generate ==
  /\ gen = "busy" /\ ~asked
  /\ gen' \in {"done", "threw"} \union IF pulled < Yields THEN {"yielded"} ELSE {}
  /\ UNCHANGED <<run, asked, pulled, streamed, stopped, ending>>

\* Mutant: items are counted when they are sent.
TakeUncounted ==
  /\ run = "pulling" /\ gen = "yielded"
  /\ pulled' = pulled + 1
  /\ gen' = "idle" /\ run' = "projecting"
  /\ UNCHANGED <<asked, streamed, stopped, ending>>
Take ==
  /\ run = "pulling" /\ gen = "yielded"
  /\ pulled' = pulled + 1 /\ gen' = "idle"
  /\ IF pulled < MaxItems THEN run' = "projecting" /\ UNCHANGED ending ELSE run' = "finally" /\ ending' = "error"
  /\ UNCHANGED <<asked, streamed, stopped>>
TakeLast ==
  /\ run = "pulling" /\ gen \in {"done", "threw"}
  /\ run' = "finally"
  /\ ending' = IF gen = "threw" THEN "error" ELSE "fin"
  /\ UNCHANGED <<gen, asked, pulled, streamed, stopped>>

\* raceAbort: an abort ends the wait for an item.
PullAborted ==
  /\ run = "pulling" /\ stopped
  /\ run' = "finally" /\ ending' = "error"
  /\ UNCHANGED <<gen, asked, pulled, streamed, stopped>>

Project ==
  /\ run = "projecting"
  /\ \/ streamed' = streamed + 1 /\ run' = "top" /\ UNCHANGED ending
     \/ run' = "finally" /\ ending' = "error" /\ UNCHANGED streamed
  /\ UNCHANGED <<gen, asked, pulled, stopped>>

\* Mutant: the resolver is always waited for.
AskAndWait ==
  /\ run = "finally"
  /\ asked' = TRUE
  /\ run' = "closing"
  /\ UNCHANGED <<gen, pulled, streamed, stopped, ending>>
\* Asked to finish; once aborted, not waited for.
Ask ==
  /\ run = "finally"
  /\ asked' = TRUE
  /\ run' = IF stopped THEN "ended" ELSE "closing"
  /\ UNCHANGED <<gen, pulled, streamed, stopped, ending>>
\* return() waits behind a next() that is under way, and may take for good: the
\* wait for it is not raced with an abort.  An abort while it waited makes of a
\* stream that ended well one that was cancelled.
Closed ==
  /\ run = "closing" /\ gen # "busy"
  /\ run' = "ended"
  /\ ending' = IF stopped THEN "error" ELSE ending
  /\ UNCHANGED <<gen, asked, pulled, streamed, stopped>>

StopStream ==
  /\ run # "ended" /\ ~stopped
  /\ stopped' = TRUE
  /\ UNCHANGED <<run, gen, asked, pulled, streamed, ending>>

\* What runStream does by itself: it neither hurries the resolver's iterator nor
\* the loaders of an item.
StreamStep == Pull \/ LeaveLoop \/ Take \/ TakeLast \/ PullAborted \/ Ask
StreamNext == StreamStep \/ Project \/ Closed \/ Generate \/ StopStream
StreamSpec == StreamInit /\ [][StreamNext]_streamVars

\* The loaders of an item return, and so does the iterator's return().
ItemsProject == WF_streamVars(Project)
IteratorReturns == WF_streamVars(Closed)

-----------------------------------------------------------------------------
(* Properties                                                                *)

\* A stream sends no more items than its limit, and its iterator is not left
\* suspended when the op has ended: it is done, or was asked to finish.
ItemsBounded == streamed <= MaxItems /\ (run = "ended" => asked)

\* If the loaders of its item return, a stream that is cancelled before its
\* resolver was asked to finish ends though the resolver never yields or returns;
\* one that is waiting for return() by then, if return() comes back.
StoppedStreamEnds ==
  ItemsProject =>
    /\ []<>(stopped => run \in {"closing", "ended"})
    /\ IteratorReturns => []<>(stopped => run = "ended")
=============================================================================
