----------------------------- MODULE RunsProofs ------------------------------
(* What runs inside an op, for every size: the loads that the ops of a batch  *)
(* share, the items of a stream (Executor), and the loop of a live query      *)
(* (LiveQuery).                                                               *)
EXTENDS Executor, LiveQuery, FiniteSetTheorems, TLAPS

-----------------------------------------------------------------------------
(* A stream                                                                  *)

\* What the limit needs: items are counted when they are taken, and one over the
\* limit is never projected; no path ends without the iterator asked to finish.
StreamInv ==
  /\ run \in {"top", "pulling", "projecting", "finally", "closing", "ended"}
  /\ pulled \in Nat /\ streamed \in Nat
  /\ run = "projecting" => pulled = streamed + 1 /\ pulled <= MaxItems
  /\ run \in {"top", "pulling"} => streamed = pulled
  /\ streamed <= MaxItems
  /\ run \in {"closing", "ended"} => asked

\* A stream sends no more than its limit and never leaves its iterator suspended,
\* for any limit and any resolver (executor.ts runStream).
THEOREM StreamIsBounded == StreamSpec => []ItemsBounded
<1>1. StreamInit => StreamInv
  BY StreamAssumption DEF StreamInit, StreamInv, StreamAssumption
<1>2. StreamInv /\ [StreamNext]_streamVars => StreamInv'
  <2> SUFFICES ASSUME StreamInv, [StreamNext]_streamVars
               PROVE  StreamInv'
    OBVIOUS
  <2> USE StreamAssumption DEF StreamInv, StreamAssumption
  <2>1. CASE Pull
    BY <2>1 DEF Pull
  <2>2. CASE LeaveLoop
    BY <2>2 DEF LeaveLoop
  <2>3. CASE Generate
    BY <2>3 DEF Generate
  <2>4. CASE Take
    <3>1. CASE pulled < MaxItems
      BY <2>4, <3>1 DEF Take
    <3>2. CASE ~(pulled < MaxItems)
      BY <2>4, <3>2 DEF Take
    <3> QED
      BY <3>1, <3>2
  <2>5. CASE TakeLast
    BY <2>5 DEF TakeLast
  <2>6. CASE PullAborted
    BY <2>6 DEF PullAborted
  <2>7. CASE Project
    BY <2>7 DEF Project
  <2>8. CASE Ask
    BY <2>8 DEF Ask
  <2>9. CASE Closed
    BY <2>9 DEF Closed
  <2>10. CASE StopStream
    BY <2>10 DEF StopStream
  <2>11. CASE UNCHANGED streamVars
    BY <2>11 DEF streamVars
  <2> QED
    BY <2>1, <2>2, <2>3, <2>4, <2>5, <2>6, <2>7, <2>8, <2>9, <2>10, <2>11 DEF StreamNext, StreamStep
<1>3. StreamInv => ItemsBounded
  BY DEF StreamInv, ItemsBounded
<1> QED
  BY <1>1, <1>2, <1>3, PTL DEF StreamSpec

-----------------------------------------------------------------------------
(* The loads of a batch: the invariant                                       *)

Names == {q.name : q \in Ops}
Memos == {<<"own", n>> : n \in Names} \union {<<"batch", n>> : n \in Nat}
Promises == [key : Keys, by : Ops, memo : Memos,
             state : {"flying", "ok", "broken", "cancelled"}, version : Nat]
NotYetLoading == {"waiting", "resolver", "committed"}
Loading == {"level", "calling", "read", "await"}

LoadsTyped ==
  /\ stage \in [Ops -> NotYetLoading \union Loading \union {"ok", "failed"}]
  /\ at \in [Ops -> Nat]
  /\ loads \in Seq(Promises)
  /\ waits \in [Ops -> SUBSET Nat]
  /\ memo \in Nat /\ state \in Nat /\ left \in Nat /\ began \in [Ops -> Nat]
  /\ errors \in 0..MaxErrors /\ cut \subseteq Ops

\* A promise whose loader has looked at the data, and was not given up.
HasRead(p) == loads[p].state = "ok" \/ (loads[p].state = "flying" /\ stage[loads[p].by] = "read")

\* An op in its levels is at one of them, and waits for promises that exist.
LevelsHold ==
  \A o \in Ops :
    /\ at[o] \in 1..Len(o.levels) + 1
    /\ stage[o] \in NotYetLoading \union Loading => at[o] <= Len(o.levels)
    /\ waits[o] \subseteq DOMAIN loads
    /\ stage[o] \in NotYetLoading => waits[o] = {} /\ \A p \in DOMAIN loads : loads[p].by # o

\* A promise on its way belongs to an op that is in its loader, in a memo that is there.
FlightsHold ==
  \A p \in DOMAIN loads :
    /\ loads[p].state = "flying" => stage[loads[p].by] \in {"calling", "read"}
    /\ \A n \in Nat : loads[p].memo = <<"batch", n>> => n <= memo
    /\ \A n \in Names : loads[p].memo = <<"own", n>> => loads[p].by.name = n

\* What an op must see was left when it began, unless it runs by itself.
BeganHold ==
  /\ left <= state
  /\ \A o \in Ops :
       /\ began[o] <= state /\ (o.kind # "dryrun" => began[o] <= left)
       /\ o.kind = "query" => stage[o] \notin {"resolver", "committed"}

\* What has been read is as new as everyone who may join it needs.
ReadsHold ==
  \A p \in DOMAIN loads :
    HasRead(p) =>
      /\ loads[p].memo = <<"batch", memo>> => loads[p].version >= left
      /\ \A n \in Names : loads[p].memo = <<"own", n>> => loads[p].version >= began[loads[p].by]
      /\ \A o \in Ops : p \in waits[o] => loads[p].version >= began[o]

LoadsInv == LoadsTyped /\ LevelsHold /\ FlightsHold /\ LoadedOnce /\ BeganHold /\ ReadsHold

-----------------------------------------------------------------------------
(* Sequences of what is needed                                               *)

LEMMA ElementsAreFinite ==
  ASSUME NEW S, NEW s \in Seq(S)
  PROVE  IsFiniteSet(ToSet(s)) /\ ToSet(s) \subseteq S
<1>1. Len(s) \in Nat /\ DOMAIN s = 1..Len(s) /\ \A i \in DOMAIN s : s[i] \in S
  OBVIOUS
<1>2. ToSet(s) \subseteq S
  BY <1>1 DEF ToSet
<1>3. s \in Surjection(1..Len(s), ToSet(s))
  BY <1>1 DEF Surjection, ToSet
<1>4. IsFiniteSet(1..Len(s))
  BY <1>1, FS_Interval
<1> QED
  BY <1>2, <1>3, <1>4, FS_Surjection

LEMMA SetIsListedOnce ==
  ASSUME NEW S, IsFiniteSet(S)
  PROVE  /\ SetToSeq(S) \in Seq(S)
         /\ \A i, j \in DOMAIN SetToSeq(S) : SetToSeq(S)[i] = SetToSeq(S)[j] => i = j
<1>1. Cardinality(S) \in Nat /\ ExistsBijection(1..Cardinality(S), S)
  BY FS_CardinalityType
<1>2. \E f \in [1..Cardinality(S) -> S] : IsInjective(f)
  BY <1>1 DEF ExistsBijection, Bijection, Injection
<1>3. SetToSeq(S) \in [1..Cardinality(S) -> S] /\ IsInjective(SetToSeq(S))
  BY <1>2 DEF SetToSeq
<1>4. SetToSeq(S) \in Seq(S)
  BY <1>1, <1>3
<1> QED
  BY <1>3, <1>4 DEF IsInjective

LEMMA JoinedSequences ==
  ASSUME NEW S, NEW s \in Seq(S), NEW t \in Seq(S)
  PROVE  /\ s \o t \in Seq(S) /\ Len(s \o t) = Len(s) + Len(t)
         /\ \A p \in 1..Len(s) : (s \o t)[p] = s[p]
         /\ \A p \in 1..Len(s \o t) : p > Len(s) => p - Len(s) \in 1..Len(t) /\ (s \o t)[p] = t[p - Len(s)]
OBVIOUS

\* A level of an op is a sequence of keys.
LEMMA LevelIsOfKeys ==
  ASSUME LoadsTyped, LevelsHold, NEW o \in Ops, stage[o] \in Loading
  PROVE  o.levels[at[o]] \in Seq(Keys)
<1>1. o.levels \in Seq(Seq(Keys))
  BY OpsAssumption DEF OpsAssumption
<1>2. at[o] \in 1..Len(o.levels)
  <2>1. at[o] \in 1..Len(o.levels) + 1 /\ at[o] <= Len(o.levels)
    BY DEF LevelsHold
  <2>2. Len(o.levels) \in Nat /\ at[o] \in Nat
    BY <1>1 DEF LoadsTyped
  <2> QED
    BY <2>1, <2>2
<1> QED
  BY <1>1, <1>2

LEMMA MemoIsTyped ==
  ASSUME LoadsTyped, NEW o \in Ops
  PROVE  MemoOf(o) \in Memos
BY DEF MemoOf, Memos, Names, LoadsTyped

\* What a load adds: promises of its own, on their way, each of a key that nobody
\* has, and what it waits for is those and what is kept.
LoadAdds(o) ==
  /\ loads' \in Seq(Promises) /\ Len(loads) <= Len(loads')
  /\ \A p \in 1..Len(loads) : loads'[p] = loads[p]
  /\ \A p \in 1..Len(loads') : p > Len(loads) =>
       /\ loads'[p].by = o /\ loads'[p].memo = MemoOf(o) /\ loads'[p].state = "flying"
       /\ Remembered(MemoOf(o), loads'[p].key) = {}
       /\ stage'[o] = "calling"
  /\ \A p, q \in 1..Len(loads') :
       p > Len(loads) /\ q > Len(loads) /\ loads'[p].key = loads'[q].key => p = q
  /\ \A p \in waits'[o] :
       /\ p \in 1..Len(loads')
       /\ p <= Len(loads) => Kept(p) /\ loads[p].memo = MemoOf(o)

LEMMA WhatLoadAdds ==
  ASSUME LoadsTyped, LevelsHold, NEW o \in Ops, Load(o)
  PROVE  LoadAdds(o)
<1> DEFINE targets == ToSet(o.levels[at[o]])
           Held(k) == Remembered(MemoOf(o), k)
           missing == {k \in targets : Held(k) = {}}
           need == SetToSeq(missing)
           New(n) == [key |-> need[n], by |-> o, memo |-> MemoOf(o), state |-> "flying", version |-> 0]
           news == [n \in DOMAIN need |-> New(n)]
           joined == UNION {Held(k) : k \in targets}
           added == {Len(loads) + n : n \in DOMAIN need}
<1>1. /\ stage[o] = "level"
      /\ loads' = loads \o news
      /\ waits' = [waits EXCEPT ![o] = joined \union added]
      /\ stage' = [stage EXCEPT ![o] = IF need = <<>> THEN "await" ELSE "calling"]
  BY DEF Load
<1>2. IsFiniteSet(missing) /\ missing \subseteq Keys
  <2>1. o.levels[at[o]] \in Seq(Keys)
    BY <1>1, LevelIsOfKeys DEF Loading
  <2>2. IsFiniteSet(targets) /\ targets \subseteq Keys
    BY <2>1, ElementsAreFinite
  <2>3. missing \in SUBSET targets
    OBVIOUS
  <2> QED
    BY <2>2, <2>3, FS_Subset
<1>3. need \in Seq(missing) /\ \A i, j \in DOMAIN need : need[i] = need[j] => i = j
  BY <1>2, SetIsListedOnce
<1> HIDE DEF need
<1>4. /\ Len(need) \in Nat /\ DOMAIN need = 1..Len(need)
      /\ \A n \in DOMAIN need : need[n] \in Keys /\ need[n] \in targets /\ Held(need[n]) = {}
  BY <1>2, <1>3
<1>5. news \in Seq(Promises) /\ Len(news) = Len(need)
  <2>1. MemoOf(o) \in Memos
    BY MemoIsTyped
  <2>2. \A n \in 1..Len(need) : New(n) \in Promises
    BY <1>4, <2>1 DEF Promises
  <2> QED
    BY <1>4, <2>2
<1>6. loads \in Seq(Promises) /\ Len(loads) \in Nat
  BY DEF LoadsTyped
<1>7. /\ loads' \in Seq(Promises) /\ Len(loads') = Len(loads) + Len(need)
      /\ \A p \in 1..Len(loads) : loads'[p] = loads[p]
      /\ \A p \in 1..Len(loads') :
           p > Len(loads) => p - Len(loads) \in 1..Len(need) /\ loads'[p] = news[p - Len(loads)]
  <2> HIDE DEF news
  <2>1. loads \o news \in Seq(Promises) /\ Len(loads \o news) = Len(loads) + Len(news)
    BY <1>5, <1>6, JoinedSequences
  <2>2. \A p \in 1..Len(loads) : (loads \o news)[p] = loads[p]
    BY <1>5, <1>6, JoinedSequences
  <2>3. \A p \in 1..Len(loads \o news) :
          p > Len(loads) => p - Len(loads) \in 1..Len(news) /\ (loads \o news)[p] = news[p - Len(loads)]
    BY <1>5, <1>6, JoinedSequences
  <2> QED
    BY <1>1, <1>5, <2>1, <2>2, <2>3
<1>8. \A p \in 1..Len(loads') : p > Len(loads) => p - Len(loads) \in DOMAIN need /\ loads'[p] = New(p - Len(loads))
  BY <1>4, <1>5, <1>6, <1>7
<1>9. \A p \in 1..Len(loads') : p > Len(loads) =>
         /\ loads'[p].by = o /\ loads'[p].memo = MemoOf(o) /\ loads'[p].state = "flying"
         /\ loads'[p].key = need[p - Len(loads)]
         /\ p - Len(loads) \in DOMAIN need
  <2> SUFFICES ASSUME NEW p \in 1..Len(loads'), p > Len(loads)
               PROVE  /\ loads'[p].by = o /\ loads'[p].memo = MemoOf(o) /\ loads'[p].state = "flying"
                      /\ loads'[p].key = need[p - Len(loads)]
                      /\ p - Len(loads) \in DOMAIN need
    OBVIOUS
  <2>1. p - Len(loads) \in DOMAIN need /\ loads'[p] = New(p - Len(loads))
    BY <1>8
  <2> QED
    BY <2>1
<1>10. \A p \in 1..Len(loads') : p > Len(loads) => stage'[o] = "calling"
  <2>1. SUFFICES ASSUME NEW p \in 1..Len(loads'), p > Len(loads)
                 PROVE  stage'[o] = "calling"
    OBVIOUS
  <2>2. DOMAIN need # {}
    BY <1>9, <2>1
  <2>3. need # <<>>
    BY <2>2
  <2> QED
    BY <1>1, <2>3 DEF LoadsTyped
<1>11. \A p, q \in 1..Len(loads') :
         p > Len(loads) /\ q > Len(loads) /\ loads'[p].key = loads'[q].key => p = q
  BY <1>3, <1>6, <1>7, <1>9
<1>12. waits'[o] = joined \union added
  <2> HIDE DEF joined, added
  <2> QED
    BY <1>1 DEF LoadsTyped
<1>13. \A p \in waits'[o] :
         /\ p \in 1..Len(loads')
         /\ p <= Len(loads) => Kept(p) /\ loads[p].memo = MemoOf(o)
  <2> SUFFICES ASSUME NEW p \in waits'[o]
               PROVE  /\ p \in 1..Len(loads')
                      /\ p <= Len(loads) => Kept(p) /\ loads[p].memo = MemoOf(o)
    OBVIOUS
  <2>1. CASE \E k \in targets : p \in Held(k)
    <3>1. p \in DOMAIN loads /\ loads[p].memo = MemoOf(o) /\ Kept(p)
      BY <2>1 DEF Remembered
    <3> QED
      BY <3>1, <1>4, <1>6, <1>7
  <2>2. CASE \E n \in DOMAIN need : p = Len(loads) + n
    BY <2>2, <1>4, <1>6, <1>7
  <2> QED
    BY <2>1, <2>2, <1>12
<1>14. \A p \in 1..Len(loads') : p > Len(loads) => Remembered(MemoOf(o), loads'[p].key) = {}
  BY <1>4, <1>9
<1> QED
  BY <1>4, <1>6, <1>7, <1>9, <1>10, <1>11, <1>13, <1>14 DEF LoadAdds

-----------------------------------------------------------------------------
(* Each step keeps the invariant                                             *)

\* Promises stay what they are, but those of one op that were on their way.
Settled(o, to) ==
  /\ loads' \in Seq(Promises) /\ Len(loads') = Len(loads)
  /\ \A p \in 1..Len(loads) :
       IF loads[p].by = o /\ loads[p].state = "flying"
       THEN loads'[p] = [loads[p] EXCEPT !.state = to]
       ELSE loads'[p] = loads[p]

LEMMA SettleSettles ==
  ASSUME LoadsTyped, NEW o \in Ops, NEW to \in {"ok", "broken", "cancelled"}, SettleLoads(o, to)
  PROVE  Settled(o, to)
<1>1. loads \in Seq(Promises) /\ Len(loads) \in Nat /\ DOMAIN loads = 1..Len(loads)
  BY DEF LoadsTyped
<1>2. loads' = [p \in 1..Len(loads) |-> IF p \in Mine(o) THEN [loads[p] EXCEPT !.state = to] ELSE loads[p]]
  BY <1>1 DEF SettleLoads
<1>3. \A p \in 1..Len(loads) : loads[p] \in Promises
  BY <1>1
<1>4. \A p \in 1..Len(loads) : [loads[p] EXCEPT !.state = to] \in Promises
  BY <1>3 DEF Promises
<1>5. loads' \in Seq(Promises) /\ Len(loads') = Len(loads)
  BY <1>1, <1>2, <1>3, <1>4
<1> QED
  BY <1>1, <1>2, <1>5 DEF Settled, Mine

\* An op has left its level, for the next one, its answer or its failure.
MovedOn(o) ==
  /\ stage' \in [Ops -> NotYetLoading \union Loading \union {"ok", "failed"}]
  /\ at' \in [Ops -> Nat] /\ waits' \in [Ops -> SUBSET Nat]
  /\ stage'[o] \in {"level", "ok", "failed"}
  /\ at'[o] \in 1..Len(o.levels) + 1 /\ (stage'[o] = "level" => at'[o] <= Len(o.levels))
  /\ waits'[o] \subseteq waits[o]
  /\ \A q \in Ops : q # o => stage'[q] = stage[q] /\ at'[q] = at[q] /\ waits'[q] = waits[q]

LEMMA OnwardMovesOn ==
  ASSUME LoadsTyped, LevelsHold, NEW o \in Ops, stage[o] \in Loading, Onward(o)
  PROVE  MovedOn(o)
<1>1. o.levels \in Seq(Seq(Keys)) /\ Len(o.levels) \in Nat
  BY OpsAssumption DEF OpsAssumption
<1>2. at[o] \in Nat /\ 1 <= at[o] /\ at[o] <= Len(o.levels)
  <2>1. at[o] \in 1..Len(o.levels) + 1 /\ at[o] <= Len(o.levels)
    BY DEF LevelsHold
  <2> QED
    BY <1>1, <2>1
<1>3. at' = [at EXCEPT ![o] = at[o] + 1] /\ waits' = [waits EXCEPT ![o] = {}]
  BY DEF Onward
<1>4. CASE at[o] < Len(o.levels)
  <2>1. stage' = [stage EXCEPT ![o] = "level"]
    BY <1>4 DEF Onward
  <2> QED
    BY <1>1, <1>2, <1>3, <1>4, <2>1 DEF LoadsTyped, MovedOn, Loading
<1>5. CASE ~(at[o] < Len(o.levels))
  <2>1. stage' = [stage EXCEPT ![o] = "ok"]
    BY <1>5 DEF Onward
  <2> QED
    BY <1>1, <1>2, <1>3, <1>5, <2>1 DEF LoadsTyped, MovedOn, Loading
<1> QED
  BY <1>4, <1>5

LEMMA ThrewMovesOn ==
  ASSUME LoadsTyped, LevelsHold, NEW o \in Ops, stage[o] \in Loading, Threw(o)
  PROVE  MovedOn(o)
<1>1. CASE o.partial
  BY <1>1, OnwardMovesOn DEF Threw
<1>2. CASE ~o.partial
  <2>1. stage' = [stage EXCEPT ![o] = "failed"] /\ at' = at /\ waits' = waits
    BY <1>2 DEF Threw
  <2>2. at[o] \in 1..Len(o.levels) + 1
    BY DEF LevelsHold
  <2> QED
    BY <2>1, <2>2 DEF LoadsTyped, MovedOn, Loading
<1> QED
  BY <1>1, <1>2

LEMMA PromisesAreTyped ==
  ASSUME LoadsTyped
  PROVE  /\ DOMAIN loads = 1..Len(loads) /\ Len(loads) \in Nat
         /\ \A p \in DOMAIN loads : loads[p] \in Promises /\ loads[p].by \in Ops /\ loads[p].version \in Nat
<1>1. loads \in Seq(Promises)
  BY DEF LoadsTyped
<1>2. DOMAIN loads = 1..Len(loads) /\ Len(loads) \in Nat /\ \A p \in DOMAIN loads : loads[p] \in Promises
  BY <1>1
<1> QED
  BY <1>2 DEF Promises

\* Levels, flights and reads speak of ops that are in their levels: an op that is
\* not there yet, and one step of which leaves the promises alone, keeps them.
LEMMA WhoHasNotLoaded ==
  ASSUME LoadsInv, NEW o \in Ops, stage[o] \in NotYetLoading
  PROVE  /\ waits[o] = {} /\ \A p \in DOMAIN loads : loads[p].by # o
         /\ at[o] \in 1..Len(o.levels)
<1>1. /\ at[o] \in 1..Len(o.levels) + 1 /\ at[o] <= Len(o.levels)
      /\ waits[o] = {} /\ \A p \in DOMAIN loads : loads[p].by # o
  BY DEF LoadsInv, LevelsHold
<1>2. Len(o.levels) \in Nat
  BY OpsAssumption DEF OpsAssumption
<1> QED
  BY <1>1, <1>2

LEMMA BeginKeeps ==
  ASSUME LoadsInv, NEW o \in Ops, Begin(o)
  PROVE  LoadsInv'
<1>1. waits[o] = {} /\ \A p \in DOMAIN loads : loads[p].by # o
  BY WhoHasNotLoaded DEF Begin, NotYetLoading
<1>2. /\ stage[o] = "waiting" /\ began' = [began EXCEPT ![o] = left]
      /\ at' = at /\ loads' = loads /\ waits' = waits /\ memo' = memo /\ state' = state /\ left' = left
      /\ cut' = cut /\ errors' = errors
  BY DEF Begin
<1>3. \E to \in {"failed", "level", "resolver"} :
        stage' = [stage EXCEPT ![o] = to] /\ (to = "resolver" => o.kind # "query")
  BY DEF Begin
<1>4. PICK to \in {"failed", "level", "resolver"} :
        stage' = [stage EXCEPT ![o] = to] /\ (to = "resolver" => o.kind # "query")
  BY <1>3
<1>5. LoadsTyped'
  BY <1>2, <1>4 DEF LoadsInv, LoadsTyped, NotYetLoading, Loading
<1>6. \A q \in Ops : stage'[q] # stage[q] => q = o
  BY <1>4 DEF LoadsInv, LoadsTyped
<1>7. \A p \in DOMAIN loads : loads[p].by \in Ops /\ stage'[loads[p].by] = stage[loads[p].by]
  <2>1. \A p \in DOMAIN loads : loads[p].by \in Ops
    BY PromisesAreTyped DEF LoadsInv
  <2> QED
    BY <1>1, <1>6, <2>1
<1>8. LevelsHold'
  BY <1>1, <1>2, <1>4, <1>6 DEF LoadsInv, LoadsTyped, LevelsHold, NotYetLoading, Loading
<1>9. FlightsHold'
  BY <1>2, <1>7 DEF LoadsInv, FlightsHold
<1>10. LoadedOnce'
  BY <1>2 DEF LoadsInv, LoadedOnce
<1>11. BeganHold'
  <2>1. \A q \in Ops : q # o => began'[q] = began[q] /\ stage'[q] = stage[q]
    BY <1>2, <1>4 DEF LoadsInv, LoadsTyped
  <2>2. began'[o] = left /\ stage'[o] = to
    BY <1>2, <1>4 DEF LoadsInv, LoadsTyped
  <2>3. left <= state /\ left \in Nat /\ state \in Nat
    BY DEF LoadsInv, LoadsTyped, BeganHold
  <2> QED
    BY <1>2, <1>4, <2>1, <2>2, <2>3 DEF LoadsInv, BeganHold
<1>12. \A q \in Ops : began'[q] # began[q] => waits[q] = {} /\ \A p \in DOMAIN loads : loads[p].by # q
  BY <1>1, <1>2 DEF LoadsInv, LoadsTyped
<1>13. ReadsHold'
  BY <1>2, <1>7, <1>12 DEF LoadsInv, ReadsHold, HasRead
<1> QED
  BY <1>5, <1>8, <1>9, <1>10, <1>11, <1>13 DEF LoadsInv

LEMMA ResolverKeeps ==
  ASSUME LoadsInv, NEW o \in Ops, Commit(o) \/ ResolverThrows(o)
  PROVE  LoadsInv'
<1>1. waits[o] = {} /\ \A p \in DOMAIN loads : loads[p].by # o
  BY WhoHasNotLoaded DEF Commit, ResolverThrows, NotYetLoading
<1>2. /\ stage[o] = "resolver" /\ state' \in {state, state + 1}
      /\ at' = at /\ loads' = loads /\ waits' = waits /\ memo' = memo /\ left' = left /\ began' = began
      /\ cut' = cut /\ errors' \in 0..MaxErrors
      /\ \E to \in {"failed", "committed"} : stage' = [stage EXCEPT ![o] = to]
  <2>1. errors \in 0..MaxErrors /\ MaxErrors \in Nat
    BY OpsAssumption DEF LoadsInv, LoadsTyped, OpsAssumption
  <2>2. CASE Commit(o)
    BY <2>1, <2>2 DEF Commit
  <2>3. CASE ResolverThrows(o)
    BY <2>1, <2>3 DEF ResolverThrows
  <2> QED
    BY <2>2, <2>3
<1>3. PICK to \in {"failed", "committed"} : stage' = [stage EXCEPT ![o] = to]
  BY <1>2
<1>4. LoadsTyped'
  BY <1>2, <1>3 DEF LoadsInv, LoadsTyped, NotYetLoading, Loading
<1>5. \A q \in Ops : stage'[q] # stage[q] => q = o
  BY <1>3 DEF LoadsInv, LoadsTyped
<1>6. \A p \in DOMAIN loads : loads[p].by \in Ops /\ stage'[loads[p].by] = stage[loads[p].by]
  <2>1. \A p \in DOMAIN loads : loads[p].by \in Ops
    BY PromisesAreTyped DEF LoadsInv
  <2> QED
    BY <1>1, <1>5, <2>1
<1>7. LevelsHold'
  BY <1>1, <1>2, <1>3, <1>5 DEF LoadsInv, LoadsTyped, LevelsHold, NotYetLoading, Loading
<1>8. FlightsHold'
  BY <1>2, <1>6 DEF LoadsInv, FlightsHold
<1>9. LoadedOnce'
  BY <1>2 DEF LoadsInv, LoadedOnce
<1>10. BeganHold'
  BY <1>2 DEF LoadsInv, LoadsTyped, BeganHold
<1>11. ReadsHold'
  BY <1>2, <1>6 DEF LoadsInv, ReadsHold, HasRead
<1> QED
  BY <1>4, <1>7, <1>8, <1>9, <1>10, <1>11 DEF LoadsInv

\* A command that returns starts a memo nobody has loaded for, and what it left is
\* what everybody after it must see.
LEMMA ReturnedKeeps ==
  ASSUME LoadsInv, NEW o \in Ops, Returned(o)
  PROVE  LoadsInv'
<1>1. waits[o] = {} /\ \A p \in DOMAIN loads : loads[p].by # o
  BY WhoHasNotLoaded DEF Returned, NotYetLoading
<1>2. /\ stage[o] = "committed" /\ stage' = [stage EXCEPT ![o] = "level"] /\ began' = [began EXCEPT ![o] = state]
      /\ at' = at /\ loads' = loads /\ waits' = waits /\ state' = state
      /\ cut' = cut /\ errors' = errors
  BY DEF Returned
<1>3. \/ o.kind = "command" /\ memo' = memo + 1 /\ left' = state
      \/ o.kind # "command" /\ memo' = memo /\ left' = left
  BY DEF Returned
<1>4. LoadsTyped'
  BY <1>2, <1>3 DEF LoadsInv, LoadsTyped, NotYetLoading, Loading
<1>5. \A q \in Ops : stage'[q] # stage[q] => q = o
  BY <1>2 DEF LoadsInv, LoadsTyped
<1>6. \A p \in DOMAIN loads : loads[p].by \in Ops /\ stage'[loads[p].by] = stage[loads[p].by]
  <2>1. \A p \in DOMAIN loads : loads[p].by \in Ops
    BY PromisesAreTyped DEF LoadsInv
  <2> QED
    BY <1>1, <1>5, <2>1
<1>7. LevelsHold'
  BY <1>1, <1>2, <1>5 DEF LoadsInv, LoadsTyped, LevelsHold, NotYetLoading, Loading
<1>8. FlightsHold'
  <2>1. memo \in Nat
    BY DEF LoadsInv, LoadsTyped
  <2> QED
    BY <1>2, <1>3, <1>6, <2>1 DEF LoadsInv, FlightsHold
<1>9. LoadedOnce'
  BY <1>2 DEF LoadsInv, LoadedOnce
<1>10. BeganHold'
  <2>1. o.kind \in {"query", "command", "dryrun"}
    BY OpsAssumption DEF OpsAssumption
  <2>2. o.kind # "query"
    BY <1>2 DEF LoadsInv, BeganHold
  <2>3. \A q \in Ops : q # o => began'[q] = began[q] /\ stage'[q] = stage[q]
    BY <1>2 DEF LoadsInv, LoadsTyped
  <2>4. began'[o] = state /\ stage'[o] = "level"
    BY <1>2 DEF LoadsInv, LoadsTyped
  <2>5. left <= state /\ left \in Nat /\ state \in Nat /\ left <= left' /\ left' <= state
    BY <1>3 DEF LoadsInv, LoadsTyped, BeganHold
  <2>6. o.kind # "dryrun" => left' = state
    BY <2>1, <2>2, <1>3
  <2>7. \A q \in Ops : /\ began[q] \in Nat /\ began[q] <= state /\ (q.kind # "dryrun" => began[q] <= left)
                       /\ q.kind = "query" => stage[q] \notin {"resolver", "committed"}
    BY DEF LoadsInv, LoadsTyped, BeganHold
  <2>8. left' \in Nat /\ state' = state
    BY <1>2, <1>3, <2>5
  <2>9. \A q \in Ops : /\ began'[q] <= state /\ (q.kind # "dryrun" => began'[q] <= left')
                       /\ q.kind = "query" => stage'[q] \notin {"resolver", "committed"}
    BY <2>1, <2>3, <2>4, <2>5, <2>6, <2>7, <2>8
  <2> QED
    BY <2>5, <2>8, <2>9 DEF BeganHold
<1>11. \A q \in Ops : began'[q] # began[q] => waits[q] = {} /\ \A p \in DOMAIN loads : loads[p].by # q
  BY <1>1, <1>2 DEF LoadsInv, LoadsTyped
<1>12. memo' = memo + 1 => \A p \in DOMAIN loads : loads[p].memo # <<"batch", memo'>>
  <2> SUFFICES ASSUME memo' = memo + 1, NEW p \in DOMAIN loads, loads[p].memo = <<"batch", memo'>>
               PROVE  FALSE
    OBVIOUS
  <2>1. memo \in Nat /\ memo' \in Nat
    BY DEF LoadsInv, LoadsTyped
  <2>2. memo' <= memo
    BY <2>1 DEF LoadsInv, FlightsHold
  <2> QED
    BY <2>1, <2>2
<1>13. ReadsHold'
  BY <1>2, <1>3, <1>6, <1>11, <1>12 DEF LoadsInv, ReadsHold, HasRead
<1> QED
  BY <1>4, <1>7, <1>8, <1>9, <1>10, <1>13 DEF LoadsInv

\* What an op adds is on its way and of keys nobody has; what it joins was read
\* after all it must see: that of the batch's memo since the last command
\* returned, that of its own since it began.
LEMMA LoadKeeps ==
  ASSUME LoadsInv, NEW o \in Ops, Load(o)
  PROVE  LoadsInv'
<1> USE DEF LoadsInv
<1>1. LoadAdds(o)
  BY WhatLoadAdds
<1>2. /\ stage[o] = "level" /\ stage' = [stage EXCEPT ![o] = stage'[o]] /\ stage'[o] \in {"await", "calling"}
      /\ waits' = [waits EXCEPT ![o] = waits'[o]]
      /\ at' = at /\ memo' = memo /\ state' = state /\ left' = left /\ began' = began
      /\ cut' = cut /\ errors' = errors
  BY DEF Load, LoadsTyped
<1>3. /\ loads' \in Seq(Promises) /\ DOMAIN loads' = 1..Len(loads') /\ Len(loads') \in Nat
      /\ DOMAIN loads = 1..Len(loads) /\ Len(loads) \in Nat /\ Len(loads) <= Len(loads')
      /\ \A p \in DOMAIN loads : loads[p] \in Promises /\ loads[p].by \in Ops /\ loads[p].version \in Nat
  BY <1>1, PromisesAreTyped DEF LoadAdds
<1>4. \A p \in DOMAIN loads : loads'[p] = loads[p] /\ p \in DOMAIN loads'
  BY <1>1, <1>3 DEF LoadAdds
<1>5. \A p \in DOMAIN loads' : p \notin DOMAIN loads =>
        /\ p > Len(loads)
        /\ loads'[p].by = o /\ loads'[p].memo = MemoOf(o) /\ loads'[p].state = "flying"
        /\ Remembered(MemoOf(o), loads'[p].key) = {}
        /\ stage'[o] = "calling"
  BY <1>1, <1>3 DEF LoadAdds
<1>6. waits'[o] \subseteq DOMAIN loads'
  BY <1>1, <1>3 DEF LoadAdds
<1>7. \A q \in Ops : q # o => stage'[q] = stage[q] /\ waits'[q] = waits[q]
  BY <1>2 DEF LoadsTyped
<1>8. LoadsTyped'
  <2>1. waits'[o] \in SUBSET Nat
    BY <1>3, <1>6
  <2> QED
    BY <1>2, <1>3, <2>1 DEF LoadsTyped, Loading
<1>9. LevelsHold'
  <2>1. stage'[o] \notin NotYetLoading /\ stage[o] \in Loading
    BY <1>2 DEF NotYetLoading, Loading
  <2>2. \A q \in Ops : q # o /\ stage'[q] \in NotYetLoading => \A p \in DOMAIN loads' : loads'[p].by # q
    BY <1>4, <1>5, <1>7 DEF LevelsHold
  <2> QED
    BY <1>2, <1>4, <1>6, <1>7, <2>1, <2>2 DEF LevelsHold
<1>10. FlightsHold'
  <2> SUFFICES ASSUME NEW p \in DOMAIN loads'
               PROVE  /\ loads'[p].state = "flying" => stage'[loads'[p].by] \in {"calling", "read"}
                      /\ \A n \in Nat : loads'[p].memo = <<"batch", n>> => n <= memo
                      /\ \A n \in Names : loads'[p].memo = <<"own", n>> => loads'[p].by.name = n
    BY <1>2 DEF FlightsHold
  <2>1. CASE p \in DOMAIN loads
    <3>1. loads[p].state = "flying" => loads[p].by # o
      BY <2>1, <1>2 DEF FlightsHold
    <3> QED
      BY <2>1, <3>1, <1>3, <1>4, <1>7 DEF FlightsHold
  <2>2. CASE p \notin DOMAIN loads
    <3>1. memo \in Nat
      BY DEF LoadsTyped
    <3> QED
      BY <2>2, <3>1, <1>5 DEF MemoOf
  <2> QED
    BY <2>1, <2>2
<1>11. LoadedOnce'
  <2> SUFFICES ASSUME NEW p \in DOMAIN loads', NEW q \in DOMAIN loads',
                      loads'[p].key = loads'[q].key, loads'[p].memo = loads'[q].memo, loads'[p].key \notin Plain,
                      loads'[p].state \in {"flying", "ok"}, loads'[q].state \in {"flying", "ok"}
               PROVE  p = q
    BY DEF LoadedOnce
  <2>1. ASSUME NEW x \in DOMAIN loads, NEW y \in DOMAIN loads', y \notin DOMAIN loads,
               loads'[x].key = loads'[y].key, loads'[x].memo = loads'[y].memo, loads'[y].key \notin Plain,
               loads'[x].state \in {"flying", "ok"}
        PROVE  FALSE
    <3>1. x \in Remembered(MemoOf(o), loads'[y].key)
      BY <2>1, <1>4, <1>5 DEF Remembered, Kept
    <3> QED
      BY <2>1, <3>1, <1>5
  <2>2. CASE p \in DOMAIN loads /\ q \in DOMAIN loads
    BY <2>2, <1>4 DEF LoadedOnce
  <2>3. CASE p \notin DOMAIN loads /\ q \notin DOMAIN loads
    BY <2>3, <1>1, <1>3 DEF LoadAdds
  <2> QED
    BY <2>1, <2>2, <2>3
<1>12. BeganHold'
  BY <1>2, <1>7 DEF BeganHold
<1>13. \A p \in DOMAIN loads' : HasRead(p)' => p \in DOMAIN loads /\ HasRead(p)
  BY <1>2, <1>3, <1>4, <1>5, <1>7 DEF HasRead
<1>14. ASSUME NEW p \in DOMAIN loads, HasRead(p), p \in waits'[o]
       PROVE  loads[p].version >= began[o]
  <2>1. loads[p].memo = MemoOf(o)
    BY <1>1, <1>3, <1>14 DEF LoadAdds
  <2>2. CASE o.kind = "dryrun"
    <3>1. o.name \in Names /\ loads[p].memo = <<"own", o.name>>
      BY <2>1, <2>2 DEF MemoOf, Names
    <3>2. loads[p].by.name = o.name /\ loads[p].version >= began[loads[p].by]
      BY <1>14, <3>1 DEF FlightsHold, ReadsHold
    <3>3. loads[p].by = o
      BY <1>3, <3>2, OpsAssumption DEF OpsAssumption
    <3> QED
      BY <3>2, <3>3
  <2>3. CASE o.kind # "dryrun"
    <3>1. loads[p].version >= left
      BY <1>14, <2>1, <2>3 DEF MemoOf, ReadsHold
    <3>2. began[o] <= left /\ began[o] \in Nat /\ left \in Nat /\ loads[p].version \in Nat
      BY <1>3, <2>3 DEF BeganHold, LoadsTyped
    <3> QED
      BY <3>1, <3>2
  <2> QED
    BY <2>2, <2>3
<1>15. ReadsHold'
  <2> SUFFICES ASSUME NEW p \in DOMAIN loads', HasRead(p)'
               PROVE  /\ loads'[p].memo = <<"batch", memo>> => loads'[p].version >= left
                      /\ \A n \in Names : loads'[p].memo = <<"own", n>> => loads'[p].version >= began[loads'[p].by]
                      /\ \A q \in Ops : p \in waits'[q] => loads'[p].version >= began[q]
    BY <1>2 DEF ReadsHold
  <2>1. p \in DOMAIN loads /\ HasRead(p) /\ loads'[p] = loads[p]
    BY <1>4, <1>13
  <2>2. \A q \in Ops : p \in waits'[q] => loads[p].version >= began[q]
    BY <2>1, <1>7, <1>14 DEF ReadsHold
  <2> QED
    BY <2>1, <2>2 DEF ReadsHold
<1> QED
  BY <1>8, <1>9, <1>10, <1>11, <1>12, <1>15

\* The loader reads what there is: newer than anything anyone must see.
LEMMA LoaderReadsKeeps ==
  ASSUME LoadsInv, NEW o \in Ops, LoaderReads(o)
  PROVE  LoadsInv'
<1> USE DEF LoadsInv
<1>1. /\ stage[o] = "calling" /\ stage' = [stage EXCEPT ![o] = "read"]
      /\ loads' = [p \in DOMAIN loads |-> IF p \in Mine(o) THEN [loads[p] EXCEPT !.version = state] ELSE loads[p]]
      /\ at' = at /\ waits' = waits /\ memo' = memo /\ state' = state /\ left' = left /\ began' = began
      /\ cut' = cut /\ errors' = errors
  BY DEF LoaderReads
<1>2. /\ loads \in Seq(Promises) /\ DOMAIN loads = 1..Len(loads) /\ Len(loads) \in Nat
      /\ \A p \in DOMAIN loads : loads[p] \in Promises /\ loads[p].by \in Ops /\ loads[p].version \in Nat
  BY PromisesAreTyped DEF LoadsTyped
<1>3. state \in Nat /\ left \in Nat /\ left <= state /\ \A q \in Ops : began[q] \in Nat /\ began[q] <= state
  BY DEF LoadsTyped, BeganHold
<1>4. /\ DOMAIN loads' = DOMAIN loads
      /\ \A p \in DOMAIN loads :
           /\ loads'[p].by = loads[p].by /\ loads'[p].key = loads[p].key /\ loads'[p].memo = loads[p].memo
           /\ loads'[p].state = loads[p].state
           /\ loads'[p] \in Promises
           /\ p \notin Mine(o) => loads'[p] = loads[p]
           /\ p \in Mine(o) => loads'[p].version = state
  <2>1. \A p \in DOMAIN loads : [loads[p] EXCEPT !.version = state] \in Promises
    BY <1>2, <1>3 DEF Promises
  <2>2. \A p \in DOMAIN loads : loads[p] \in Promises =>
          /\ [loads[p] EXCEPT !.version = state].by = loads[p].by /\ [loads[p] EXCEPT !.version = state].key = loads[p].key
          /\ [loads[p] EXCEPT !.version = state].memo = loads[p].memo
          /\ [loads[p] EXCEPT !.version = state].state = loads[p].state
          /\ [loads[p] EXCEPT !.version = state].version = state
    BY DEF Promises
  <2> QED
    BY <1>1, <1>2, <2>1, <2>2
<1>5. loads' \in Seq(Promises) /\ Len(loads') = Len(loads)
  BY <1>1, <1>2, <1>4
<1>6. \A q \in Ops : q # o => stage'[q] = stage[q]
  BY <1>1 DEF LoadsTyped
<1>7. stage'[o] = "read"
  BY <1>1 DEF LoadsTyped
<1>8. LoadsTyped'
  BY <1>1, <1>5 DEF LoadsTyped, Loading
<1>9. LevelsHold'
  BY <1>1, <1>4, <1>6, <1>7 DEF LevelsHold, NotYetLoading, Loading
<1>10. FlightsHold'
  BY <1>1, <1>2, <1>4, <1>6, <1>7 DEF FlightsHold
<1>11. LoadedOnce'
  BY <1>4 DEF LoadedOnce
<1>12. BeganHold'
  BY <1>1, <1>6, <1>7 DEF BeganHold
<1>13. ReadsHold'
  <2> SUFFICES ASSUME NEW p \in DOMAIN loads, HasRead(p)'
               PROVE  /\ loads'[p].memo = <<"batch", memo>> => loads'[p].version >= left
                      /\ \A n \in Names : loads'[p].memo = <<"own", n>> => loads'[p].version >= began[loads'[p].by]
                      /\ \A q \in Ops : p \in waits[q] => loads'[p].version >= began[q]
    BY <1>1, <1>4 DEF ReadsHold
  <2>1. CASE p \in Mine(o)
    BY <2>1, <1>2, <1>3, <1>4
  <2>2. CASE p \notin Mine(o)
    <3>1. loads'[p] = loads[p] /\ HasRead(p)
      BY <2>2, <1>2, <1>4, <1>6 DEF HasRead, Mine
    <3> QED
      BY <3>1 DEF ReadsHold
  <2> QED
    BY <2>1, <2>2
<1> QED
  BY <1>8, <1>9, <1>10, <1>11, <1>12, <1>13

\* A loader ends: its promises are settled, and its op waits for the others or moves on.
LEMMA LoaderEndsKeeps ==
  ASSUME LoadsInv, NEW o \in Ops, NEW to \in {"ok", "broken", "cancelled"}, Settled(o, to),
         stage[o] \in {"calling", "read"}, to = "ok" => stage[o] = "read",
         \/ stage' = [stage EXCEPT ![o] = "await"] /\ at' = at /\ waits' = waits
         \/ MovedOn(o),
         memo' = memo, state' = state, left' = left, began' = began,
         cut' = cut, errors' \in 0..MaxErrors
  PROVE  LoadsInv'
<1> USE DEF LoadsInv
<1>1. /\ DOMAIN loads = 1..Len(loads) /\ Len(loads) \in Nat
      /\ \A p \in DOMAIN loads : loads[p] \in Promises /\ loads[p].by \in Ops /\ loads[p].version \in Nat
  BY PromisesAreTyped
<1>2. /\ loads' \in Seq(Promises) /\ DOMAIN loads' = DOMAIN loads
      /\ \A p \in DOMAIN loads :
           /\ loads'[p].by = loads[p].by /\ loads'[p].key = loads[p].key /\ loads'[p].memo = loads[p].memo
           /\ loads'[p].version = loads[p].version
           /\ loads[p].by = o /\ loads[p].state = "flying" => loads'[p].state = to
           /\ loads[p].by # o \/ loads[p].state # "flying" => loads'[p].state = loads[p].state
  <2>1. loads' \in Seq(Promises) /\ Len(loads') = Len(loads)
    BY DEF Settled
  <2>2. DOMAIN loads' = 1..Len(loads')
    BY <2>1
  <2>3. ASSUME NEW p \in DOMAIN loads
        PROVE  /\ loads'[p].by = loads[p].by /\ loads'[p].key = loads[p].key /\ loads'[p].memo = loads[p].memo
               /\ loads'[p].version = loads[p].version
               /\ loads[p].by = o /\ loads[p].state = "flying" => loads'[p].state = to
               /\ loads[p].by # o \/ loads[p].state # "flying" => loads'[p].state = loads[p].state
    <3>1. CASE loads[p].by = o /\ loads[p].state = "flying"
      <4>1. loads'[p] = [loads[p] EXCEPT !.state = to]
        BY <1>1, <3>1 DEF Settled
      <4> QED
        BY <1>1, <3>1, <4>1 DEF Promises
    <3>2. CASE ~(loads[p].by = o /\ loads[p].state = "flying")
      BY <1>1, <3>2 DEF Settled
    <3> QED
      BY <3>1, <3>2
  <2> QED
    BY <1>1, <2>1, <2>2, <2>3
<1>3. /\ stage' \in [Ops -> NotYetLoading \union Loading \union {"ok", "failed"}]
      /\ at' \in [Ops -> Nat] /\ waits' \in [Ops -> SUBSET Nat]
      /\ stage'[o] \in {"await", "level", "ok", "failed"}
      /\ at'[o] \in 1..Len(o.levels) + 1
      /\ stage'[o] \in Loading => at'[o] <= Len(o.levels)
      /\ waits'[o] \subseteq waits[o]
      /\ \A q \in Ops : q # o => stage'[q] = stage[q] /\ at'[q] = at[q] /\ waits'[q] = waits[q]
  <2>1. CASE stage' = [stage EXCEPT ![o] = "await"] /\ at' = at /\ waits' = waits
    BY <2>1 DEF LoadsTyped, LevelsHold, Loading
  <2>2. CASE MovedOn(o)
    BY <2>2 DEF MovedOn, Loading
  <2> QED
    BY <2>1, <2>2
<1>4. LoadsTyped'
  BY <1>2, <1>3 DEF LoadsTyped
<1>5. LevelsHold'
  <2> SUFFICES ASSUME NEW q \in Ops
               PROVE  /\ at'[q] \in 1..Len(q.levels) + 1
                      /\ stage'[q] \in NotYetLoading \union Loading => at'[q] <= Len(q.levels)
                      /\ waits'[q] \subseteq DOMAIN loads
                      /\ stage'[q] \in NotYetLoading => waits'[q] = {} /\ \A p \in DOMAIN loads : loads'[p].by # q
    BY <1>2 DEF LevelsHold
  <2>1. CASE q = o
    <3>1. stage'[o] \notin NotYetLoading /\ (stage'[o] \in NotYetLoading \union Loading => stage'[o] \in Loading)
      BY <1>3 DEF NotYetLoading, Loading
    <3>2. waits'[o] \subseteq DOMAIN loads
      BY <1>3 DEF LevelsHold
    <3> QED
      BY <2>1, <3>1, <3>2, <1>3
  <2>2. CASE q # o
    <3>1. stage'[q] = stage[q] /\ at'[q] = at[q] /\ waits'[q] = waits[q]
      BY <2>2, <1>3
    <3>2. \A p \in DOMAIN loads : loads'[p].by = loads[p].by
      BY <1>2
    <3> QED
      BY <3>1, <3>2 DEF LevelsHold
  <2> QED
    BY <2>1, <2>2
<1>6. FlightsHold'
  <2> SUFFICES ASSUME NEW p \in DOMAIN loads
               PROVE  /\ loads'[p].state = "flying" => stage'[loads[p].by] \in {"calling", "read"}
                      /\ \A n \in Nat : loads[p].memo = <<"batch", n>> => n <= memo
                      /\ \A n \in Names : loads[p].memo = <<"own", n>> => loads[p].by.name = n
    BY <1>2 DEF FlightsHold
  <2>1. loads'[p].state = "flying" => loads[p].state = "flying" /\ loads[p].by # o
    BY <1>1, <1>2
  <2> QED
    BY <2>1, <1>1, <1>3 DEF FlightsHold
<1>7. LoadedOnce'
  BY <1>2 DEF LoadedOnce
<1>8. BeganHold'
  BY <1>3 DEF BeganHold
<1>9. \A p \in DOMAIN loads : HasRead(p)' => HasRead(p)
  BY <1>1, <1>2, <1>3 DEF HasRead
<1>10. ReadsHold'
  <2> SUFFICES ASSUME NEW p \in DOMAIN loads, HasRead(p)
               PROVE  /\ loads[p].memo = <<"batch", memo>> => loads[p].version >= left
                      /\ \A n \in Names : loads[p].memo = <<"own", n>> => loads[p].version >= began[loads[p].by]
                      /\ \A q \in Ops : p \in waits'[q] => loads[p].version >= began[q]
    BY <1>2, <1>9 DEF ReadsHold
  <2>1. \A q \in Ops : p \in waits'[q] => p \in waits[q]
    BY <1>3
  <2> QED
    BY <2>1 DEF ReadsHold
<1> QED
  BY <1>4, <1>5, <1>6, <1>7, <1>8, <1>10

\* An op whose promises are there, or one of whose promises failed, moves on.
LEMMA WaitEndsKeeps ==
  ASSUME LoadsInv, NEW o \in Ops, stage[o] = "await", MovedOn(o),
         UNCHANGED <<loads, memo, state, left, began, cut, errors>>
  PROVE  LoadsInv'
<1> USE DEF LoadsInv
<1>1. \A p \in DOMAIN loads : loads[p].by \in Ops
  BY PromisesAreTyped
<1>2. /\ stage'[o] \in {"level", "ok", "failed"} /\ waits'[o] \subseteq waits[o]
      /\ at'[o] \in 1..Len(o.levels) + 1
      /\ stage'[o] \in Loading => at'[o] <= Len(o.levels)
      /\ \A q \in Ops : q # o => stage'[q] = stage[q] /\ at'[q] = at[q] /\ waits'[q] = waits[q]
  BY DEF MovedOn, Loading
<1>3. LoadsTyped'
  BY DEF LoadsTyped, MovedOn
<1>4. LevelsHold'
  BY <1>2 DEF LevelsHold, NotYetLoading, Loading
<1>5. FlightsHold'
  BY <1>1, <1>2 DEF FlightsHold
<1>6. LoadedOnce'
  BY DEF LoadedOnce
<1>7. BeganHold'
  BY <1>2 DEF BeganHold
<1>8. \A p \in DOMAIN loads : HasRead(p)' => HasRead(p)
  BY <1>1, <1>2 DEF HasRead
<1>9. ReadsHold'
  BY <1>2, <1>8 DEF ReadsHold
<1> QED
  BY <1>3, <1>4, <1>5, <1>6, <1>7, <1>9

LEMMA LoadsStart == LoadsInit => LoadsInv
<1> SUFFICES ASSUME LoadsInit PROVE LoadsInv
  OBVIOUS
<1>1. /\ stage = [o \in Ops |-> "waiting"] /\ at = [o \in Ops |-> 1] /\ loads = <<>> /\ waits = [o \in Ops |-> {}]
      /\ memo = 0 /\ state = 0 /\ left = 0 /\ began = [o \in Ops |-> 0] /\ cut = {} /\ errors = 0
  BY DEF LoadsInit
<1>2. \A o \in Ops : Len(o.levels) \in Nat /\ 1 <= Len(o.levels)
  <2> SUFFICES ASSUME NEW o \in Ops PROVE Len(o.levels) \in Nat /\ 1 <= Len(o.levels)
    OBVIOUS
  <2>1. o.levels \in Seq(Seq(Keys)) /\ o.levels # <<>>
    BY OpsAssumption DEF OpsAssumption
  <2> QED
    BY <2>1
<1>3. DOMAIN loads = {} /\ loads \in Seq(Promises)
  BY <1>1
<1>4. LoadsTyped
  BY <1>1, <1>3, OpsAssumption DEF LoadsTyped, NotYetLoading, Loading, OpsAssumption
<1>5. LevelsHold
  BY <1>1, <1>2, <1>3 DEF LevelsHold
<1>6. FlightsHold /\ LoadedOnce /\ ReadsHold
  BY <1>3 DEF FlightsHold, LoadedOnce, ReadsHold
<1>7. BeganHold
  BY <1>1 DEF BeganHold
<1> QED
  BY <1>4, <1>5, <1>6, <1>7 DEF LoadsInv

LEMMA LoadsStay == LoadsInv /\ [LoadsNext]_loadVars => LoadsInv'
<1> SUFFICES ASSUME LoadsInv, [LoadsNext]_loadVars PROVE LoadsInv'
  OBVIOUS
<1>1. ASSUME NEW o \in Ops, Begin(o) \/ Commit(o) \/ ResolverThrows(o) \/ Returned(o) PROVE LoadsInv'
  BY <1>1, BeginKeeps, ResolverKeeps, ReturnedKeeps
<1>2. ASSUME NEW o \in Ops, Load(o) \/ LoaderReads(o) PROVE LoadsInv'
  BY <1>2, LoadKeeps, LoaderReadsKeeps
<1>3. LoadsTyped /\ LevelsHold /\ errors \in 0..MaxErrors /\ MaxErrors \in Nat
  BY OpsAssumption DEF LoadsInv, LoadsTyped, OpsAssumption
<1>4. ASSUME NEW o \in Ops, LoaderReturns(o) PROVE LoadsInv'
  <2>1. /\ stage[o] = "read" /\ stage' = [stage EXCEPT ![o] = "await"] /\ at' = at /\ waits' = waits
        /\ memo' = memo /\ state' = state /\ left' = left /\ began' = began /\ cut' = cut
        /\ errors' \in 0..MaxErrors
    BY <1>3, <1>4 DEF LoaderReturns
  <2>2. Settled(o, "ok")
    BY <1>3, <1>4, SettleSettles DEF LoaderReturns
  <2> QED
    BY <2>1, <2>2, LoaderEndsKeeps
<1>5. ASSUME NEW o \in Ops, NEW to \in {"broken", "cancelled"}, stage[o] \in {"calling", "read"},
             SettleLoads(o, to), Threw(o), errors' \in 0..MaxErrors,
             memo' = memo, state' = state, left' = left, began' = began, cut' = cut
      PROVE  LoadsInv'
  <2>1. Settled(o, to)
    BY <1>3, <1>5, SettleSettles
  <2>2. MovedOn(o)
    BY <1>3, <1>5, ThrewMovesOn DEF Loading
  <2> QED
    BY <1>5, <2>1, <2>2, LoaderEndsKeeps
<1>6. ASSUME NEW o \in Ops, LoaderThrows(o) PROVE LoadsInv'
  <2>1. errors' \in 0..MaxErrors
    BY <1>3, <1>6 DEF LoaderThrows
  <2> QED
    BY <1>5, <1>6, <2>1 DEF LoaderThrows
<1>7. ASSUME NEW o \in Ops, LoaderStops(o) PROVE LoadsInv'
  BY <1>3, <1>5, <1>7 DEF LoaderStops
<1>8. ASSUME NEW o \in Ops, Awaited(o) \/ JoinedThrew(o) PROVE LoadsInv'
  <2>1. stage[o] = "await" /\ UNCHANGED <<loads, memo, state, left, began, cut, errors>>
    BY <1>8 DEF Awaited, JoinedThrew
  <2>2. MovedOn(o)
    BY <1>3, <1>8, <2>1, OnwardMovesOn, ThrewMovesOn DEF Awaited, JoinedThrew, Loading
  <2> QED
    BY <2>1, <2>2, WaitEndsKeeps
<1>9. ASSUME NEW o \in Ops, Cancel(o) PROVE LoadsInv'
  BY <1>9 DEF Cancel, LoadsInv, LoadsTyped, LevelsHold, FlightsHold, LoadedOnce, BeganHold, ReadsHold, HasRead
<1>10. CASE UNCHANGED loadVars
  BY <1>10 DEF loadVars, LoadsInv, LoadsTyped, LevelsHold, FlightsHold, LoadedOnce, BeganHold, ReadsHold, HasRead
<1> QED
  BY <1>1, <1>2, <1>4, <1>6, <1>7, <1>8, <1>9, <1>10 DEF LoadsNext, OpStep, OpCalls

LEMMA LoadsHold == LoadsSpec => []LoadsInv
BY LoadsStart, LoadsStay, PTL DEF LoadsSpec

\* Ops of a batch, however many and whatever they load, never load an entity
\* twice, and a command's result, and every op that begins after it returned,
\* read the state it left (executor.ts loadField and runCommand).
THEOREM LoadsAreShared == LoadsSpec => []LoadsShared
<1>1. LoadsInv => LoadsShared
  <2> SUFFICES ASSUME LoadsInv PROVE LoadsShared
    OBVIOUS
  <2>1. LoadsTypeOK
    BY DEF LoadsInv, LoadsTyped, LevelsHold, FlightsHold, LoadsTypeOK
  <2>2. ReadsWhatWasLeft
    BY DEF LoadsInv, LevelsHold, ReadsHold, HasRead, ReadsWhatWasLeft
  <2> QED
    BY <2>1, <2>2 DEF LoadsInv, LoadsShared
<1> QED
  BY <1>1, LoadsHold, PTL

\* Whoever asks for an entity after its load failed loads it again, for any ops
\* and any failures (executor.ts loadField: memo.delete).
THEOREM FailuresAreForgotten == LoadsSpec => NobodyJoinsAFailure
<1> DEFINE Joins ==
      \A o \in Ops : stage[o] = "level" /\ stage'[o] # "level" =>
        \A p \in waits'[o] : loads'[p].state \notin {"broken", "cancelled"}
<1>1. LoadsInv /\ [LoadsNext]_loadVars => [Joins]_loadVars
  <2> SUFFICES ASSUME LoadsInv, LoadsNext, NEW o \in Ops, stage[o] = "level", stage'[o] # "level"
               PROVE  \A p \in waits'[o] : loads'[p].state \notin {"broken", "cancelled"}
    OBVIOUS
  <2>1. LoadsTyped /\ LevelsHold
    BY DEF LoadsInv
  <2>2. Load(o)
    <3>1. PICK q \in Ops : OpStep(q) \/ OpCalls(q) \/ ResolverThrows(q) \/ LoaderThrows(q) \/ LoaderStops(q) \/ Cancel(q)
      BY DEF LoadsNext
    <3>2. q # o => stage'[o] = stage[o]
      BY <2>1, <3>1 DEF OpStep, OpCalls, Begin, Commit, Returned, Load, LoaderReads, LoaderReturns, Awaited, JoinedThrew,
         ResolverThrows, LoaderThrows, LoaderStops, Cancel, Onward, Threw, LoadsTyped
    <3>3. q = o
      BY <3>2
    <3> QED
      BY <3>1, <3>3 DEF OpStep, OpCalls, Begin, Commit, Returned, LoaderReads, LoaderReturns, Awaited, JoinedThrew,
         ResolverThrows, LoaderThrows, LoaderStops, Cancel
  <2>3. LoadAdds(o)
    BY <2>1, <2>2, WhatLoadAdds
  <2>4. Len(loads) \in Nat /\ Len(loads') \in Nat
    BY <2>1, <2>3, PromisesAreTyped DEF LoadAdds
  <2> SUFFICES ASSUME NEW p \in waits'[o] PROVE loads'[p].state \notin {"broken", "cancelled"}
    OBVIOUS
  <2>5. p \in 1..Len(loads') /\ (p <= Len(loads) => Kept(p)) /\ 1 <= p
    BY <2>3, <2>4 DEF LoadAdds
  <2>6. CASE p <= Len(loads)
    <3>1. loads'[p] = loads[p]
      BY <2>3, <2>4, <2>5, <2>6 DEF LoadAdds
    <3> QED
      BY <2>5, <2>6, <3>1 DEF Kept
  <2>7. CASE p > Len(loads)
    BY <2>3, <2>5, <2>7 DEF LoadAdds
  <2> QED
    BY <2>4, <2>5, <2>6, <2>7
<1>2. LoadsSpec => [][Joins]_loadVars
  BY <1>1, LoadsHold, PTL DEF LoadsSpec
<1> QED
  BY <1>2 DEF NobodyJoinsAFailure

-----------------------------------------------------------------------------
(* A live query, for every set of items and every number of commits          *)


\* The types of everything shown are within the bound of typeSet, and no op of
\* the batch loads what the query loads before it subscribes.
Covered == ItemsReach /\ ~EarlierOp

\* Every commit has been heard of, and nothing heard of is waiting to be acted on.
Quiet == (\A k \in Rows : pending[k] = 0) /\ ~dirty /\ held = {}

\* Without word of a commit, what the run has read so far, or what was last
\* sent, is what the database holds.
QuietInv ==
  /\ loaded # NoRead => livePc # "waiting"
  /\ Quiet /\ livePc = "root" /\ first /\ loaded # NoRead => loaded = View
  /\ pending \in [Rows -> Nat]
  /\ dirty \in BOOLEAN
  /\ livePc # "ended" /\ ~Holding => held = {}
  /\ Quiet /\ livePc = "item" => read.item = shown
  /\ Quiet /\ livePc = "project" => read = View
  /\ Quiet /\ livePc \in {"loop", "asleep"} => current = View
  /\ livePc \in {"loop", "asleep"} => ~first
  /\ first => ~dirty

LEMMA InitQuiet == LiveInit => QuietInv
<1> SUFFICES ASSUME LiveInit PROVE QuietInv
  OBVIOUS
<1>1. pending \in [Rows -> Nat]
  BY DEF LiveInit
<1>2. loaded = NoRead /\ held = {} /\ dirty \in BOOLEAN
  BY DEF LiveInit
<1>3. livePc = "waiting" /\ ~dirty
  BY DEF LiveInit
<1> QED BY <1>1, <1>2, <1>3 DEF QuietInv

LEMMA NextQuiet == Covered => (QuietInv /\ [LiveNext]_liveVars => QuietInv')
<1> SUFFICES ASSUME Covered, QuietInv, [LiveNext]_liveVars PROVE QuietInv'
  OBVIOUS
<1> USE DEF QuietInv, Quiet, Holding, db, live
<1>1. ASSUME NEW i \in Items, Update(i) \/ Show(i) PROVE QuietInv'
  <2>1. PICK k \in Rows : Publish(k)
    BY <1>1 DEF Update, Show, Rows
  <2>2. pending' \in [Rows -> Nat] /\ pending'[k] # 0
    BY <2>1 DEF Publish
  <2> QED BY <1>1, <2>2 DEF Update, Show
<1>2. CASE OtherLoads
  BY <1>2 DEF OtherLoads, Covered, View
<1>3. CASE Subscribe
  BY <1>3 DEF Subscribe
<1>4. CASE ReadRoot
  BY <1>4 DEF ReadRoot, View
<1>5. CASE ReadItem
  BY <1>5 DEF ReadItem, View
<1>6. CASE FirstResult
  <2>1. ~dirty' => held = {}
    BY <1>6 DEF FirstResult, Hits, Covered
  <2>2. dirty' \in BOOLEAN /\ held' = {} /\ livePc' = "loop" /\ first' = FALSE /\ livePc = "project" /\ first
    BY <1>6 DEF FirstResult
  <2>3. UNCHANGED <<shown, value, loaded, pending>> /\ current' = read
    BY <1>6 DEF FirstResult
  <2>4. ((\A k \in Rows : pending'[k] = 0) /\ ~dirty') => (~dirty => current' = View)
    BY <2>1, <2>2, <2>3
  <2>5. ~dirty
    BY <2>2
  <2>6. Quiet' => current' = View'
    BY <2>3, <2>4, <2>5 DEF View
  <2> QED BY <2>2, <2>3, <2>6
<1>7. CASE NextResult
  BY <1>7 DEF NextResult, View
<1>8. CASE Loop
  BY <1>8 DEF Loop, View
<1>9. ASSUME NEW k \in Rows, Deliver(k) PROVE QuietInv'
  <2>1. pending' \in [Rows -> Nat]
    BY <1>9 DEF Deliver
  <2>2. CASE Holding
    BY <1>9, <2>1, <2>2 DEF Deliver, Heard, Subscribed
  <2>3. CASE ~Holding /\ Subscribed
    <3>1. dirty' = TRUE /\ held' = held
      BY <1>9, <2>3 DEF Deliver, Heard, Hits, Covered
    <3> QED BY <1>9, <2>1, <2>3, <3>1 DEF Deliver, Heard, Subscribed
  <2>4. CASE ~Subscribed
    BY <1>9, <2>1, <2>4 DEF Deliver, Subscribed
  <2> QED BY <2>2, <2>3, <2>4
<1>10. CASE Ends
  BY <1>10 DEF Ends
<1>11. CASE UNCHANGED liveVars
  BY <1>11 DEF liveVars, View
<1> QED
  BY <1>1, <1>2, <1>3, <1>4, <1>5, <1>6, <1>7, <1>8, <1>9, <1>10, <1>11 DEF LiveNext, RunStep, RunCalls

\* A live query whose types are all within the bound, in a batch of its own,
\* never sleeps on a result that is not the database's: a change committed in
\* any window, the first run's included, is acted on.
THEOREM SleepsOnlyWhenCurrent == Covered => (LiveSpec => []AsleepIsCurrent)
<1>1. QuietInv => AsleepIsCurrent
  BY DEF QuietInv, Quiet, Holding, AsleepIsCurrent
<1> SUFFICES ASSUME Covered PROVE LiveSpec => []AsleepIsCurrent
  OBVIOUS
<1>2. QuietInv /\ [LiveNext]_liveVars => QuietInv'
  BY NextQuiet
<1> QED BY InitQuiet, <1>1, <1>2, PTL DEF LiveSpec

-----------------------------------------------------------------------------
(* Type correctness.                                                        *)

\* Nothing counts more than there were commits, and a run that has read
\* something holds a result.
TypeInv ==
  /\ LiveTypeOK
  /\ \A i \in Items : value[i] <= writes
  /\ \A k \in Rows : pending[k] <= writes
  /\ livePc \in {"item", "project"} => read \in Result

LEMMA InitTypes == LiveInit => TypeInv
<1> SUFFICES ASSUME LiveInit PROVE TypeInv
  OBVIOUS
<1> USE ItemsAssumption DEF LiveInit
<1>1. /\ value \in [Items -> 0..MaxWrites] /\ pending \in [Rows -> 0..MaxWrites]
      /\ writes = 0 /\ writes \in 0..MaxWrites
  OBVIOUS
<1>2. (\A i \in Items : value[i] <= writes) /\ (\A k \in Rows : pending[k] <= writes)
  OBVIOUS
<1>3. loaded = NoRead /\ read = NoRead /\ current = NoRead /\ shown \in Items
  OBVIOUS
<1>4. livePc = "waiting" /\ first \in BOOLEAN /\ dirty \in BOOLEAN /\ readSet = {} /\ held = {}
  OBVIOUS
<1> QED BY <1>1, <1>2, <1>3, <1>4 DEF TypeInv, LiveTypeOK

\* A commit's row is one change further behind.
LEMMA PublishType ==
  ASSUME TypeInv, NEW k \in Rows, Publish(k), writes < MaxWrites
  PROVE  pending' \in [Rows -> 0..MaxWrites] /\ \A j \in Rows : pending'[j] <= writes + 1
  BY ItemsAssumption DEF TypeInv, LiveTypeOK, Publish

LEMMA NextTypes == TypeInv /\ [LiveNext]_liveVars => TypeInv'
<1> SUFFICES ASSUME TypeInv, [LiveNext]_liveVars PROVE TypeInv'
  OBVIOUS
<1> USE ItemsAssumption DEF TypeInv, LiveTypeOK, db, live, Result
<1>1. ASSUME NEW i \in Items, Update(i) PROVE TypeInv'
  <2>1. pending' \in [Rows -> 0..MaxWrites] /\ \A j \in Rows : pending'[j] <= writes + 1
    <3>1. Publish(i) /\ writes < MaxWrites /\ i \in Rows
      BY <1>1 DEF Update, Rows
    <3> QED BY <3>1, PublishType
  <2>2. writes' = writes + 1 /\ writes' \in 0..MaxWrites
    BY <1>1 DEF Update
  <2>3. value' \in [Items -> 0..MaxWrites] /\ \A j \in Items : value'[j] <= writes'
    BY <1>1, <2>2 DEF Update
  <2> QED BY <1>1, <2>1, <2>2, <2>3 DEF Update
<1>2. ASSUME NEW i \in Items, Show(i) PROVE TypeInv'
  <2>1. pending' \in [Rows -> 0..MaxWrites] /\ \A j \in Rows : pending'[j] <= writes + 1
    <3>1. PICK k \in Rows : Publish(k)
      BY <1>2 DEF Show, Rows
    <3> QED BY <1>2, <3>1, PublishType DEF Show
  <2>2. writes' = writes + 1 /\ writes' \in 0..MaxWrites
    BY <1>2 DEF Show
  <2> QED BY <1>2, <2>1, <2>2 DEF Show
<1>3. CASE OtherLoads
  BY <1>3 DEF OtherLoads, View
<1>4. CASE Subscribe
  BY <1>4 DEF Subscribe
<1>5. CASE ReadRoot
  BY <1>5 DEF ReadRoot
<1>6. CASE ReadItem
  BY <1>6 DEF ReadItem
<1>7. CASE FirstResult \/ NextResult
  <2>1. readSet' \subseteq Rows /\ held' \subseteq Rows
    BY <1>7 DEF FirstResult, NextResult, ReadSetOf, Rows
  <2>2. dirty' \in BOOLEAN
    BY <1>7 DEF FirstResult, NextResult
  <2>3. UNCHANGED <<db, pending, loaded>> /\ livePc' = "loop" /\ read' = NoRead /\ current' = read
    BY <1>7 DEF FirstResult, NextResult
  <2>4. first' \in BOOLEAN
    BY <1>7 DEF FirstResult, NextResult
  <2> QED BY <2>1, <2>2, <2>3, <2>4
<1>8. CASE Loop
  BY <1>8 DEF Loop
<1>9. ASSUME NEW k \in Rows, Deliver(k) PROVE TypeInv'
  <2>1. pending' \in [Rows -> 0..MaxWrites] /\ \A j \in Rows : pending'[j] <= writes
    BY <1>9 DEF Deliver
  <2>2. /\ held' \subseteq Rows /\ dirty' \in BOOLEAN
        /\ livePc' = livePc \/ livePc' = "loop"
    BY <1>9 DEF Deliver, Heard
  <2> QED BY <1>9, <2>1, <2>2 DEF Deliver
<1>10. CASE Ends
  BY <1>10 DEF Ends
<1>11. CASE UNCHANGED liveVars
  BY <1>11 DEF liveVars
<1> QED
  BY <1>1, <1>2, <1>3, <1>4, <1>5, <1>6, <1>7, <1>8, <1>9, <1>10, <1>11 DEF LiveNext, RunStep, RunCalls

\* What a live query holds stays in its domains, and while it sleeps it shows
\* what is there, for any items and any number of commits.
THEOREM LiveQueryKeepsUp == Covered => (LiveSpec => []LiveKept)
<1> SUFFICES ASSUME Covered PROVE LiveSpec => []LiveKept
  OBVIOUS
<1>1. LiveSpec => []TypeInv
  BY InitTypes, NextTypes, PTL DEF LiveSpec
<1>2. LiveSpec => []AsleepIsCurrent
  BY SleepsOnlyWhenCurrent
<1>3. TypeInv /\ AsleepIsCurrent => LiveKept
  BY DEF TypeInv, LiveKept
<1> QED BY <1>1, <1>2, <1>3, PTL

=============================================================================
