---------------------------- MODULE StoresProofs ----------------------------
(***************************************************************************)
(* What holds of the relay between servers for every number of servers,    *)
(* messages and sizes, and for every time a row is kept; and of the        *)
(* idempotency store in memory for all callers, keys, bounds and times.    *)
(***************************************************************************)
EXTENDS PgRelay, MemoryStore, FiniteSetTheorems, TLAPS

-----------------------------------------------------------------------------
(* The chain of a relay: what it was handed and has not passed on yet stands *)
(* in the order of the channel, behind everything it passed on.              *)

ChainInOrder ==
  \A r \in Relay :
    /\ \A i, j \in DOMAIN chain[r] : i < j => chain[r][i].place < chain[r][j].place
    /\ \A d \in DOMAIN delivered[r], i \in DOMAIN chain[r] : delivered[r][d] < chain[r][i].place
    /\ \A d \in DOMAIN delivered[r] : delivered[r][d] <= taken[r]

RelayInv == TypeOK /\ ChainInOrder /\ HeardAsNotified

\* A sequence over a set is one over any larger set.
LEMMA WiderSeq ==
  ASSUME NEW S, NEW T, S \subseteq T, NEW q \in Seq(S)
  PROVE  q \in Seq(T)
  BY Z3

LEMMA LinkHas ==
  ASSUME NEW P, NEW q \in Seq([place : P, state : {"own", "query", "read", "gone"}]), NEW i \in DOMAIN q
  PROVE  q[i].place \in P /\ q[i].state \in {"own", "query", "read", "gone"}
<1> DEFINE L == [place : P, state : {"own", "query", "read", "gone"}]
<1>1. q[i] \in L
  <2>1. q \in Seq(L)
    OBVIOUS
  <2> HIDE DEF L
  <2> QED
    BY <2>1
<1> QED
  BY <1>1

LEMMA RelayStarts == Init => RelayInv
<1> SUFFICES ASSUME Init PROVE RelayInv
  OBVIOUS
<1>1. /\ now \in 0..MaxTime /\ sent \in [Relay -> Nat] /\ \A r \in Relay : sent[r] <= MaxSent[r]
      /\ writing \subseteq [step : Step, m : Message] /\ rows \subseteq Message
  <2>1. now \in 0..MaxTime
    BY RelayAssumption DEF Init
  <2>2. sent = [r \in Relay |-> 0] /\ \A r \in Relay : 0 <= MaxSent[r]
    BY RelayAssumption DEF Init
  <2> QED
    BY <2>1, <2>2 DEF Init
<1>2. channel \in Seq(Message) /\ taken \in [Relay -> 0..Len(channel)]
  BY DEF Init
<1>3. \A r \in Relay : DOMAIN chain[r] = {} /\ DOMAIN delivered[r] = {}
  <2>1. \A r \in Relay : chain[r] = <<>> /\ delivered[r] = <<>>
    BY DEF Init
  <2>2. DOMAIN <<>> = {}
    OBVIOUS
  <2> QED
    BY <2>1, <2>2
<1>4. /\ chain \in [Relay -> Seq([place : Place, state : {"own", "query", "read", "gone"}])]
      /\ delivered \in [Relay -> Seq(Place)] /\ reported \in [Relay -> SUBSET Place]
  <2>1. \A S : [r \in Relay |-> <<>>] \in [Relay -> Seq(S)]
    OBVIOUS
  <2> QED
    BY <2>1 DEF Init
<1> QED
  BY <1>1, <1>2, <1>3, <1>4 DEF RelayInv, TypeOK, ChainInOrder, HeardAsNotified, Increasing

\* Publishing, writing and time leave the receiving side as it is: the channel
\* only grows.
LEMMA ChannelGrows ==
  ASSUME RelayInv, NEW s, channel' = channel \/ (s \in Message /\ channel' = Append(channel, s)),
         UNCHANGED receiver,
         now' \in 0..MaxTime, sent' \in [Relay -> Nat], \A r \in Relay : sent'[r] <= MaxSent[r],
         writing' \subseteq [step : Step, m : Message], rows' \subseteq Message
  PROVE  RelayInv'
<1>0. channel \in Seq(Message)
  BY DEF RelayInv, TypeOK
<1>1. channel' \in Seq(Message) /\ Len(channel) \in Nat /\ Len(channel') \in Nat /\ Len(channel) <= Len(channel')
  <2>1. CASE channel' = channel
    BY <1>0, <2>1
  <2>2. CASE s \in Message /\ channel' = Append(channel, s)
    BY <1>0, <2>2
  <2> QED
    BY <2>1, <2>2
<1>2. \A i \in 1..Len(channel) : channel'[i] = channel[i]
  BY <1>0
<1>3. \A i \in Place : i \in Place'
  BY <1>1 DEF Place
<1>4. taken' \in [Relay -> 0..Len(channel')]
  BY <1>1 DEF RelayInv, TypeOK, receiver
<1>5. \A r \in Relay : \A i \in DOMAIN chain'[r] :
        /\ chain'[r][i].place <= taken'[r]
        /\ chain'[r][i].state = "own" <=> channel'[chain'[r][i].place].from = r
  <2> SUFFICES ASSUME NEW r \in Relay, NEW i \in DOMAIN chain[r]
               PROVE  /\ chain[r][i].place <= taken[r]
                      /\ chain[r][i].state = "own" <=> channel'[chain[r][i].place].from = r
    BY DEF receiver
  <2>1. chain[r][i].place \in Place
    <3>1. chain[r] \in Seq([place : Place, state : {"own", "query", "read", "gone"}])
      BY DEF RelayInv, TypeOK
    <3> QED
      BY <3>1, LinkHas
  <2> QED
    <3>1. channel'[chain[r][i].place] = channel[chain[r][i].place]
      BY <2>1, <1>2 DEF Place
    <3> QED
      BY <3>1 DEF RelayInv, TypeOK
<1>6. chain' \in [Relay -> Seq([place : Place', state : {"own", "query", "read", "gone"}])]
  <2> DEFINE Links(P) == [place : P, state : {"own", "query", "read", "gone"}]
  <2>1. Links(Place) \subseteq Links(Place')
    BY <1>3
  <2>2. \A r \in Relay : chain[r] \in Seq(Links(Place'))
    <3> SUFFICES ASSUME NEW r \in Relay PROVE chain[r] \in Seq(Links(Place'))
      OBVIOUS
    <3>1. chain[r] \in Seq(Links(Place))
      BY DEF RelayInv, TypeOK
    <3> HIDE DEF Links
    <3> QED
      BY <2>1, <3>1, WiderSeq
  <2> QED
    BY <2>2 DEF RelayInv, TypeOK, receiver
<1>7. delivered' \in [Relay -> Seq(Place')] /\ reported' \in [Relay -> SUBSET Place']
  BY <1>3, WiderSeq DEF RelayInv, TypeOK, receiver
<1>8. TypeOK'
  BY <1>1, <1>4, <1>5, <1>6, <1>7 DEF TypeOK
<1>9. ChainInOrder' /\ HeardAsNotified'
  BY DEF RelayInv, ChainInOrder, HeardAsNotified, receiver, Increasing
<1> QED
  BY <1>8, <1>9 DEF RelayInv

-----------------------------------------------------------------------------
(* One step of a relay after the other                                       *)

LEMMA SentFits ==
  ASSUME RelayInv, NEW r \in Relay, sent[r] < MaxSent[r], sent' = [sent EXCEPT ![r] = sent[r] + 1]
  PROVE  sent' \in [Relay -> Nat] /\ \A q \in Relay : sent'[q] <= MaxSent[q]
<1>1. sent \in [Relay -> Nat] /\ \A q \in Relay : sent[q] <= MaxSent[q]
  BY DEF RelayInv, TypeOK
<1>2. \A q \in Relay : MaxSent[q] \in Nat
  BY RelayAssumption
<1> QED
  BY <1>1, <1>2

LEMMA WritesKeepInOrder ==
  ASSUME RelayInv,
         \/ \E r \in Relay : PublishInline(r) \/ PublishLarge(r)
         \/ Write \/ Tick
  PROVE  RelayInv'
<1>1. ASSUME NEW r \in Relay, PublishInline(r) PROVE RelayInv'
  <2> DEFINE m == [from |-> r, n |-> sent[r] + 1, at |-> now, large |-> FALSE]
  <2>1. m \in Message
    BY DEF RelayInv, TypeOK, Message
  <2>2. channel' = Append(channel, m) /\ UNCHANGED receiver /\ UNCHANGED <<now, writing, rows>>
    BY <1>1 DEF PublishInline
  <2>3. sent' \in [Relay -> Nat] /\ \A q \in Relay : sent'[q] <= MaxSent[q]
    BY <1>1, SentFits DEF PublishInline
  <2>4. now' \in 0..MaxTime /\ writing' \subseteq [step : Step, m : Message] /\ rows' \subseteq Message
    BY <2>2 DEF RelayInv, TypeOK
  <2> HIDE DEF m
  <2> QED
    BY <2>1, <2>2, <2>3, <2>4, ChannelGrows
<1>2. ASSUME NEW r \in Relay, PublishLarge(r) PROVE RelayInv'
  <2> DEFINE m == [from |-> r, n |-> sent[r] + 1, at |-> now, large |-> TRUE]
  <2>1. m \in Message
    BY DEF RelayInv, TypeOK, Message
  <2>2. writing' = writing \cup {[step |-> "insert", m |-> m]}
    BY <1>2 DEF PublishLarge
  <2>3. writing' \subseteq [step : Step, m : Message]
    <3>1. writing \subseteq [step : Step, m : Message]
      BY DEF RelayInv, TypeOK
    <3> HIDE DEF m
    <3>2. [step |-> "insert", m |-> m] \in [step : Step, m : Message]
      BY <2>1 DEF Step
    <3> QED
      BY <3>1, <3>2, <2>2
  <2>4. sent' \in [Relay -> Nat] /\ \A q \in Relay : sent'[q] <= MaxSent[q]
    BY <1>2, SentFits DEF PublishLarge
  <2>5. UNCHANGED receiver /\ UNCHANGED <<now, rows, channel>>
    BY <1>2 DEF PublishLarge
  <2>6. now' \in 0..MaxTime /\ rows' \subseteq Message
    BY <2>5 DEF RelayInv, TypeOK
  <2> QED
    BY <2>3, <2>4, <2>5, <2>6, ChannelGrows
<1>3. ASSUME NEW w \in writing, InsertRow(w) \/ SweepRows(w) \/ NotifyRef(w) PROVE RelayInv'
  <2>1. w \in [step : Step, m : Message]
    BY DEF RelayInv, TypeOK
  <2>2. w.m \in Message
    BY <2>1
  <2>3. UNCHANGED <<now, sent>> /\ UNCHANGED receiver
    BY <1>3 DEF InsertRow, SweepRows, NotifyRef
  <2>4. channel' = channel \/ channel' = Append(channel, w.m)
    BY <1>3 DEF InsertRow, SweepRows, NotifyRef
  <2>5. writing' \subseteq [step : Step, m : Message]
    BY <1>3, <2>2 DEF InsertRow, SweepRows, NotifyRef, RelayInv, TypeOK, Step
  <2>6. rows' \subseteq Message
    BY <1>3, <2>2 DEF InsertRow, SweepRows, NotifyRef, RelayInv, TypeOK
  <2>7. now' \in 0..MaxTime /\ sent' \in [Relay -> Nat] /\ \A r \in Relay : sent'[r] <= MaxSent[r]
    BY <2>3 DEF RelayInv, TypeOK
  <2> QED
    BY <2>2, <2>3, <2>4, <2>5, <2>6, <2>7, ChannelGrows
<1>4. ASSUME Tick PROVE RelayInv'
  <2>1. channel' = channel /\ UNCHANGED receiver /\ UNCHANGED <<sent, writing, rows>>
    BY <1>4 DEF Tick
  <2>2. now' \in 0..MaxTime
    BY <1>4, RelayAssumption DEF Tick, RelayInv, TypeOK
  <2>3. sent' \in [Relay -> Nat] /\ \A r \in Relay : sent'[r] <= MaxSent[r]
    BY <2>1 DEF RelayInv, TypeOK
  <2>4. writing' \subseteq [step : Step, m : Message] /\ rows' \subseteq Message
    BY <2>1 DEF RelayInv, TypeOK
  <2> QED
    BY <2>1, <2>2, <2>3, <2>4, ChannelGrows
<1> QED
  BY <1>1, <1>2, <1>3, <1>4 DEF Write

\* One relay's chain and what it passed on change, the others' stay.
LEMMA OneRelay ==
  ASSUME RelayInv, NEW r \in Relay, UNCHANGED <<now, sent, writing, rows, channel>>,
         NEW t \in taken[r]..Len(channel), taken' = [taken EXCEPT ![r] = t],
         NEW c \in Seq([place : Place, state : {"own", "query", "read", "gone"}]), chain' = [chain EXCEPT ![r] = c],
         NEW d \in Seq(Place), delivered' = [delivered EXCEPT ![r] = d],
         NEW e \in SUBSET Place, reported' = [reported EXCEPT ![r] = e],
         \A i \in DOMAIN c : c[i].place <= t /\ (c[i].state = "own" <=> channel[c[i].place].from = r),
         \A i, j \in DOMAIN c : i < j => c[i].place < c[j].place,
         \A k \in DOMAIN d, i \in DOMAIN c : d[k] < c[i].place,
         \A k \in DOMAIN d : d[k] <= t,
         Increasing(d)
  PROVE  RelayInv'
<1>1. /\ taken \in [Relay -> 0..Len(channel)] /\ delivered \in [Relay -> Seq(Place)] /\ reported \in [Relay -> SUBSET Place]
      /\ channel \in Seq(Message) /\ Len(channel) \in Nat
  BY DEF RelayInv, TypeOK
<1>2. chain \in [Relay -> Seq([place : Place, state : {"own", "query", "read", "gone"}])]
  BY DEF RelayInv, TypeOK
<1>3. Place' = Place
  BY DEF Place
<1>4. /\ chain'[r] = c /\ taken'[r] = t /\ delivered'[r] = d
      /\ \A q \in Relay : q # r => chain'[q] = chain[q] /\ taken'[q] = taken[q] /\ delivered'[q] = delivered[q]
  BY <1>1, <1>2
<1>5. taken' \in [Relay -> 0..Len(channel)]
  BY <1>1
<1>6. chain' \in [Relay -> Seq([place : Place, state : {"own", "query", "read", "gone"}])]
  BY <1>2
<1>7. delivered' \in [Relay -> Seq(Place)] /\ reported' \in [Relay -> SUBSET Place]
  BY <1>1
<1>8. \A q \in Relay : \A i \in DOMAIN chain'[q] :
        /\ chain'[q][i].place <= taken'[q]
        /\ chain'[q][i].state = "own" <=> channel'[chain'[q][i].place].from = q
  <2> SUFFICES ASSUME NEW q \in Relay, NEW i \in DOMAIN chain'[q]
               PROVE  /\ chain'[q][i].place <= taken'[q]
                      /\ chain'[q][i].state = "own" <=> channel[chain'[q][i].place].from = q
    OBVIOUS
  <2>1. CASE q = r
    BY <1>4, <2>1
  <2>2. CASE q # r
    BY <1>4, <2>2 DEF RelayInv, TypeOK
  <2> QED
    BY <2>1, <2>2
<1>9. TypeOK'
  BY <1>3, <1>5, <1>6, <1>7, <1>8 DEF RelayInv, TypeOK
<1>10. ChainInOrder'
  <2> SUFFICES ASSUME NEW q \in Relay
               PROVE  /\ \A i, j \in DOMAIN chain'[q] : i < j => chain'[q][i].place < chain'[q][j].place
                      /\ \A k \in DOMAIN delivered'[q], i \in DOMAIN chain'[q] : delivered'[q][k] < chain'[q][i].place
                      /\ \A k \in DOMAIN delivered'[q] : delivered'[q][k] <= taken'[q]
    BY DEF ChainInOrder
  <2>1. CASE q = r
    BY <1>4, <2>1
  <2>2. CASE q # r
    BY <1>4, <2>2 DEF RelayInv, ChainInOrder
  <2> QED
    BY <2>1, <2>2
<1>11. HeardAsNotified'
  BY <1>4 DEF RelayInv, HeardAsNotified, Increasing
<1> QED
  BY <1>9, <1>10, <1>11 DEF RelayInv

\* What is known of one relay.
LEMMA OfRelay ==
  ASSUME RelayInv, NEW r \in Relay
  PROVE  /\ chain[r] \in Seq([place : Place, state : {"own", "query", "read", "gone"}])
         /\ delivered[r] \in Seq(Place) /\ reported[r] \in SUBSET Place
         /\ taken[r] \in 0..Len(channel) /\ Len(channel) \in Nat
         /\ chain \in [Relay -> Seq([place : Place, state : {"own", "query", "read", "gone"}])]
         /\ chain = [chain EXCEPT ![r] = chain[r]]
         /\ taken = [taken EXCEPT ![r] = taken[r]] /\ taken[r] \in taken[r]..Len(channel)
         /\ delivered = [delivered EXCEPT ![r] = delivered[r]]
         /\ reported = [reported EXCEPT ![r] = reported[r]]
         /\ \A i \in DOMAIN chain[r] :
              /\ chain[r][i].place \in Place /\ chain[r][i].place <= taken[r]
              /\ chain[r][i].state = "own" <=> channel[chain[r][i].place].from = r
         /\ \A i, j \in DOMAIN chain[r] : i < j => chain[r][i].place < chain[r][j].place
         /\ \A k \in DOMAIN delivered[r], i \in DOMAIN chain[r] : delivered[r][k] < chain[r][i].place
         /\ \A k \in DOMAIN delivered[r] : delivered[r][k] <= taken[r]
         /\ Increasing(delivered[r])
<1>1. /\ chain \in [Relay -> Seq([place : Place, state : {"own", "query", "read", "gone"}])]
      /\ delivered \in [Relay -> Seq(Place)] /\ reported \in [Relay -> SUBSET Place]
      /\ taken \in [Relay -> 0..Len(channel)] /\ channel \in Seq(Message) /\ Len(channel) \in Nat
  <2>1. /\ chain \in [Relay -> Seq([place : Place, state : {"own", "query", "read", "gone"}])]
        /\ delivered \in [Relay -> Seq(Place)] /\ reported \in [Relay -> SUBSET Place]
        /\ taken \in [Relay -> 0..Len(channel)] /\ channel \in Seq(Message)
    BY DEF RelayInv, TypeOK
  <2>2. channel \in Seq(Message)
    BY DEF RelayInv, TypeOK
  <2>3. Len(channel) \in Nat
    BY <2>2
  <2> QED
    BY <2>1, <2>3
<1>2. /\ chain[r] \in Seq([place : Place, state : {"own", "query", "read", "gone"}])
      /\ delivered[r] \in Seq(Place) /\ reported[r] \in SUBSET Place
      /\ taken[r] \in 0..Len(channel)
  BY <1>1
<1>3. /\ chain = [chain EXCEPT ![r] = chain[r]] /\ taken = [taken EXCEPT ![r] = taken[r]]
      /\ delivered = [delivered EXCEPT ![r] = delivered[r]] /\ reported = [reported EXCEPT ![r] = reported[r]]
  BY <1>1
<1>4. \A i \in DOMAIN chain[r] : chain[r][i].place \in Place
  BY <1>2, LinkHas
<1>5. \A i \in DOMAIN chain[r] :
        /\ chain[r][i].place <= taken[r]
        /\ chain[r][i].state = "own" <=> channel[chain[r][i].place].from = r
  BY DEF RelayInv, TypeOK
<1>6. /\ \A i, j \in DOMAIN chain[r] : i < j => chain[r][i].place < chain[r][j].place
      /\ \A k \in DOMAIN delivered[r], i \in DOMAIN chain[r] : delivered[r][k] < chain[r][i].place
      /\ \A k \in DOMAIN delivered[r] : delivered[r][k] <= taken[r]
      /\ Increasing(delivered[r])
  BY DEF RelayInv, ChainInOrder, HeardAsNotified
<1>7. taken[r] \in taken[r]..Len(channel)
  BY <1>1, <1>2
<1> QED
  BY <1>1, <1>2, <1>3, <1>4, <1>5, <1>6, <1>7

\* A sequence with one element replaced, and one without its first.
LEMMA Replaced ==
  ASSUME NEW S, NEW q \in Seq(S), NEW i \in DOMAIN q, NEW v \in S
  PROVE  [q EXCEPT ![i] = v] \in Seq(S) /\ DOMAIN [q EXCEPT ![i] = v] = DOMAIN q
BY Z3

LEMMA WithoutFirst ==
  ASSUME NEW S, NEW q \in Seq(S), 1 \in DOMAIN q
  PROVE  LET c == SubSeq(q, 1, 1 - 1) \o SubSeq(q, 1 + 1, Len(q))
         IN c \in Seq(S) /\ \A k \in DOMAIN c : k + 1 \in DOMAIN q /\ c[k] = q[k + 1]
<1> DEFINE c == SubSeq(q, 1, 1 - 1) \o SubSeq(q, 1 + 1, Len(q))
<1>1. Len(q) \in Nat /\ Len(q) >= 1 /\ DOMAIN q = 1..Len(q)
  OBVIOUS
<1>2. SubSeq(q, 1, 1 - 1) \in Seq(S) /\ Len(SubSeq(q, 1, 1 - 1)) = 0
  BY <1>1
<1>3. SubSeq(q, 1 + 1, Len(q)) \in Seq(S) /\ Len(SubSeq(q, 1 + 1, Len(q))) = Len(q) - 1
  BY <1>1
<1>4. \A k \in 1..(Len(q) - 1) : SubSeq(q, 1 + 1, Len(q))[k] = q[k + 1]
  BY <1>1
<1>5. c \in Seq(S) /\ Len(c) = Len(q) - 1 /\ \A k \in 1..(Len(q) - 1) : c[k] = SubSeq(q, 1 + 1, Len(q))[k]
  BY <1>1, <1>2, <1>3
<1>6. DOMAIN c = 1..(Len(q) - 1)
  BY <1>5
<1> QED
  BY <1>1, <1>4, <1>5, <1>6

LEMMA TakeKeepsInOrder ==
  ASSUME RelayInv, NEW r \in Relay, Take(r)
  PROVE  RelayInv'
<1> DEFINE L == [place : Place, state : {"own", "query", "read", "gone"}]
           new == [place |-> taken[r] + 1, state |-> FirstRead(r, channel[taken[r] + 1])]
           c == Append(chain[r], new)
<1>1. /\ chain[r] \in Seq(L) /\ delivered[r] \in Seq(Place) /\ reported[r] \in SUBSET Place
      /\ taken[r] \in 0..Len(channel) /\ Len(channel) \in Nat
      /\ delivered = [delivered EXCEPT ![r] = delivered[r]]
      /\ reported = [reported EXCEPT ![r] = reported[r]]
  BY OfRelay
<1>2. /\ \A i \in DOMAIN chain[r] :
           /\ chain[r][i].place \in Place /\ chain[r][i].place <= taken[r]
           /\ chain[r][i].state = "own" <=> channel[chain[r][i].place].from = r
      /\ \A i, j \in DOMAIN chain[r] : i < j => chain[r][i].place < chain[r][j].place
      /\ \A k \in DOMAIN delivered[r], i \in DOMAIN chain[r] : delivered[r][k] < chain[r][i].place
      /\ \A k \in DOMAIN delivered[r] : delivered[r][k] <= taken[r]
      /\ Increasing(delivered[r])
  BY OfRelay
<1>3. taken[r] < Len(channel)
  BY DEF Take
<1>4. taken[r] + 1 \in taken[r]..Len(channel) /\ taken[r] + 1 \in Place
  BY <1>1, <1>3 DEF Place
<1>5. channel[taken[r] + 1] \in Message
  BY <1>4 DEF RelayInv, TypeOK, Place
<1>6. /\ FirstRead(r, channel[taken[r] + 1]) \in {"own", "query", "read", "gone"}
      /\ FirstRead(r, channel[taken[r] + 1]) = "own" <=> channel[taken[r] + 1].from = r
  BY <1>5 DEF FirstRead, Message
<1>7. new \in L /\ new.place = taken[r] + 1 /\ (new.state = "own" <=> channel[taken[r] + 1].from = r)
  BY <1>4, <1>6
<1>8. chain' = [chain EXCEPT ![r] = c] /\ taken' = [taken EXCEPT ![r] = taken[r] + 1]
      /\ UNCHANGED <<now, sent, writing, rows, channel, delivered, reported>>
  BY DEF Take
<1> HIDE DEF L, new
<1>9. c \in Seq(L) /\ DOMAIN c = 1..(Len(chain[r]) + 1) /\ c[Len(chain[r]) + 1] = new
      /\ Len(chain[r]) \in Nat /\ DOMAIN chain[r] = 1..Len(chain[r])
      /\ \A i \in DOMAIN chain[r] : c[i] = chain[r][i]
  BY <1>1, <1>7
<1>10. \A i \in DOMAIN c : i \in DOMAIN chain[r] \/ i = Len(chain[r]) + 1
  BY <1>9
<1> HIDE DEF c
<1>11. \A i \in DOMAIN c : c[i].place <= taken[r] + 1 /\ (c[i].state = "own" <=> channel[c[i].place].from = r)
  <2> SUFFICES ASSUME NEW i \in DOMAIN c
               PROVE  c[i].place <= taken[r] + 1 /\ (c[i].state = "own" <=> channel[c[i].place].from = r)
    OBVIOUS
  <2>1. CASE i \in DOMAIN chain[r]
    <3>1. c[i] = chain[r][i] /\ chain[r][i].place <= taken[r] /\ chain[r][i].place \in Int
      BY <2>1, <1>2, <1>9 DEF Place
    <3>2. c[i].state = "own" <=> channel[c[i].place].from = r
      BY <3>1, <2>1, <1>2
    <3> QED
      BY <3>1, <3>2, <1>1
  <2>2. CASE i = Len(chain[r]) + 1
    BY <2>2, <1>7, <1>9, <1>1
  <2> QED
    BY <2>1, <2>2, <1>10
<1>12. \A i, j \in DOMAIN c : i < j => c[i].place < c[j].place
  <2> SUFFICES ASSUME NEW i \in DOMAIN c, NEW j \in DOMAIN c, i < j PROVE c[i].place < c[j].place
    OBVIOUS
  <2>1. i \in DOMAIN chain[r]
    BY <1>9, <1>10
  <2>2. c[i].place = chain[r][i].place /\ chain[r][i].place <= taken[r] /\ chain[r][i].place \in Int
    BY <2>1, <1>2, <1>9 DEF Place
  <2>3. CASE j \in DOMAIN chain[r]
    BY <2>1, <2>3, <1>2, <1>9
  <2>4. CASE j = Len(chain[r]) + 1
    BY <2>2, <2>4, <1>1, <1>7, <1>9
  <2> QED
    BY <2>3, <2>4, <1>10
<1>13. \A k \in DOMAIN delivered[r], i \in DOMAIN c : delivered[r][k] < c[i].place
  <2> SUFFICES ASSUME NEW k \in DOMAIN delivered[r], NEW i \in DOMAIN c PROVE delivered[r][k] < c[i].place
    OBVIOUS
  <2>1. CASE i \in DOMAIN chain[r]
    BY <2>1, <1>2, <1>9
  <2>2. CASE i = Len(chain[r]) + 1
    <3>1. delivered[r][k] <= taken[r] /\ delivered[r][k] \in Int
      BY <1>1, <1>2 DEF Place
    <3> QED
      BY <3>1, <2>2, <1>1, <1>7, <1>9
  <2> QED
    BY <2>1, <2>2, <1>10
<1>14. \A k \in DOMAIN delivered[r] : delivered[r][k] <= taken[r] + 1
  BY <1>1, <1>2 DEF Place
<1>15. /\ delivered' = [delivered EXCEPT ![r] = delivered[r]] /\ reported' = [reported EXCEPT ![r] = reported[r]]
       /\ chain' = [chain EXCEPT ![r] = c] /\ taken' = [taken EXCEPT ![r] = taken[r] + 1]
       /\ UNCHANGED <<now, sent, writing, rows, channel>> /\ Increasing(delivered[r])
  BY <1>1, <1>2, <1>8
<1>16. c \in Seq([place : Place, state : {"own", "query", "read", "gone"}])
  BY <1>9 DEF L
<1>17. delivered[r] \in Seq(Place) /\ reported[r] \in SUBSET Place /\ taken[r] + 1 \in taken[r]..Len(channel)
  BY <1>1, <1>4
<1> QED
  BY <1>11, <1>12, <1>13, <1>14, <1>15, <1>16, <1>17, OneRelay

LEMMA ReadRowKeepsInOrder ==
  ASSUME RelayInv, NEW r \in Relay, NEW i \in DOMAIN chain[r], ReadRow(r, i)
  PROVE  RelayInv'
<1> DEFINE L == [place : Place, state : {"own", "query", "read", "gone"}]
           found == IF channel[chain[r][i].place] \in rows THEN "read" ELSE "gone"
           new == [chain[r][i] EXCEPT !.state = found]
           c == [chain[r] EXCEPT ![i] = new]
<1>1. /\ chain[r] \in Seq(L) /\ delivered[r] \in Seq(Place) /\ reported[r] \in SUBSET Place
      /\ taken[r] \in taken[r]..Len(channel)
      /\ taken = [taken EXCEPT ![r] = taken[r]]
      /\ delivered = [delivered EXCEPT ![r] = delivered[r]]
      /\ reported = [reported EXCEPT ![r] = reported[r]]
  BY OfRelay
<1>2. /\ \A k \in DOMAIN chain[r] :
           /\ chain[r][k].place \in Place /\ chain[r][k].place <= taken[r]
           /\ chain[r][k].state = "own" <=> channel[chain[r][k].place].from = r
      /\ \A k, j \in DOMAIN chain[r] : k < j => chain[r][k].place < chain[r][j].place
      /\ \A k \in DOMAIN delivered[r], j \in DOMAIN chain[r] : delivered[r][k] < chain[r][j].place
      /\ \A k \in DOMAIN delivered[r] : delivered[r][k] <= taken[r]
      /\ Increasing(delivered[r])
  BY OfRelay
<1>3. chain[r][i] \in L
  <2>1. chain[r] \in Seq(L)
    BY <1>1
  <2> HIDE DEF L
  <2> QED
    BY <2>1
<1>4. found \in {"read", "gone"} /\ found # "own"
  OBVIOUS
<1>5. chain[r][i].state = "query"
  BY DEF ReadRow
<1> HIDE DEF found
<1>6. new \in L /\ new.place = chain[r][i].place /\ new.state = found
  BY <1>3, <1>4
<1>7. chain' = [chain EXCEPT ![r] = c] /\ UNCHANGED <<now, sent, writing, rows, channel, taken, delivered, reported>>
  BY DEF ReadRow, found
<1> HIDE DEF new
<1>8. c \in Seq(L) /\ DOMAIN c = DOMAIN chain[r]
  <2> HIDE DEF L
  <2> QED
    BY <1>1, <1>6, Replaced
<1>9. \A k \in DOMAIN c : c[k].place = chain[r][k].place /\ (k # i => c[k] = chain[r][k]) /\ (k = i => c[k] = new)
  BY <1>6, <1>8
<1> HIDE DEF c
<1>10. \A k \in DOMAIN c : c[k].place <= taken[r] /\ (c[k].state = "own" <=> channel[c[k].place].from = r)
  <2> SUFFICES ASSUME NEW k \in DOMAIN c
               PROVE  c[k].place <= taken[r] /\ (c[k].state = "own" <=> channel[c[k].place].from = r)
    OBVIOUS
  <2>1. CASE k = i
    BY <2>1, <1>2, <1>4, <1>5, <1>6, <1>8, <1>9
  <2>2. CASE k # i
    BY <2>2, <1>2, <1>8, <1>9
  <2> QED
    BY <2>1, <2>2
<1>11. /\ \A k, j \in DOMAIN c : k < j => c[k].place < c[j].place
       /\ \A k \in DOMAIN delivered[r], j \in DOMAIN c : delivered[r][k] < c[j].place
  BY <1>2, <1>8, <1>9
<1> QED
  BY <1>1, <1>2, <1>7, <1>8, <1>10, <1>11, OneRelay

LEMMA PassOnKeepsInOrder ==
  ASSUME RelayInv, NEW r \in Relay, PassOn(r)
  PROVE  RelayInv'
<1> DEFINE L == [place : Place, state : {"own", "query", "read", "gone"}]
           c == SubSeq(chain[r], 1, 1 - 1) \o SubSeq(chain[r], 1 + 1, Len(chain[r]))
           p == chain[r][1].place
           d == IF chain[r][1].state = "read" THEN Append(delivered[r], p) ELSE delivered[r]
           e == IF chain[r][1].state = "gone" THEN reported[r] \cup {p} ELSE reported[r]
<1>1. /\ chain[r] \in Seq(L) /\ delivered[r] \in Seq(Place) /\ reported[r] \in SUBSET Place
      /\ taken[r] \in taken[r]..Len(channel) /\ taken[r] \in 0..Len(channel)
      /\ taken = [taken EXCEPT ![r] = taken[r]]
      /\ delivered = [delivered EXCEPT ![r] = delivered[r]]
      /\ reported = [reported EXCEPT ![r] = reported[r]]
  BY OfRelay
<1>2. /\ \A k \in DOMAIN chain[r] :
           /\ chain[r][k].place \in Place /\ chain[r][k].place <= taken[r]
           /\ chain[r][k].state = "own" <=> channel[chain[r][k].place].from = r
      /\ \A k, j \in DOMAIN chain[r] : k < j => chain[r][k].place < chain[r][j].place
      /\ \A k \in DOMAIN delivered[r], j \in DOMAIN chain[r] : delivered[r][k] < chain[r][j].place
      /\ \A k \in DOMAIN delivered[r] : delivered[r][k] <= taken[r]
      /\ Increasing(delivered[r])
  BY OfRelay
<1>3. 1 \in DOMAIN chain[r] /\ chain[r][1].state # "query"
      /\ chain' = [chain EXCEPT ![r] = c]
      /\ delivered' = (IF chain[r][1].state = "read" THEN [delivered EXCEPT ![r] = Append(delivered[r], p)] ELSE delivered)
      /\ reported' = (IF chain[r][1].state = "gone" THEN [reported EXCEPT ![r] = reported[r] \cup {p}] ELSE reported)
      /\ UNCHANGED <<now, sent, writing, rows, channel, taken>>
  BY DEF PassOn, InTurn
<1>4. p \in Place /\ p <= taken[r]
  BY <1>2, <1>3
<1>5. delivered' = [delivered EXCEPT ![r] = d] /\ reported' = [reported EXCEPT ![r] = e]
  BY <1>1, <1>3
<1>6. c \in Seq(L) /\ \A k \in DOMAIN c : k + 1 \in DOMAIN chain[r] /\ c[k] = chain[r][k + 1]
  <2> HIDE DEF L
  <2> QED
    BY <1>1, <1>3, WithoutFirst
<1>7. DOMAIN c \subseteq Nat \ {0} /\ DOMAIN chain[r] \subseteq Nat \ {0}
  <2>1. \A S : \A q \in Seq(S) : DOMAIN q \subseteq Nat \ {0}
    OBVIOUS
  <2> HIDE DEF L
  <2> QED
    BY <2>1, <1>1, <1>6
<1> HIDE DEF c
<1>8. \A k \in DOMAIN c : c[k].place <= taken[r] /\ (c[k].state = "own" <=> channel[c[k].place].from = r) /\ p < c[k].place
  BY <1>2, <1>3, <1>6, <1>7
<1>9. \A k, j \in DOMAIN c : k < j => c[k].place < c[j].place
  <2> SUFFICES ASSUME NEW k \in DOMAIN c, NEW j \in DOMAIN c, k < j PROVE c[k].place < c[j].place
    OBVIOUS
  <2>1. k + 1 \in DOMAIN chain[r] /\ j + 1 \in DOMAIN chain[r] /\ k + 1 < j + 1
    BY <1>6, <1>7
  <2>2. c[k] = chain[r][k + 1] /\ c[j] = chain[r][j + 1]
    BY <1>6
  <2> QED
    BY <1>2, <2>1, <2>2
<1>10. d \in Seq(Place) /\ e \in SUBSET Place
  BY <1>1, <1>4
<1>11. \A k \in DOMAIN d : d[k] = p \/ (k \in DOMAIN delivered[r] /\ d[k] = delivered[r][k])
  <2>1. CASE chain[r][1].state = "read"
    <3>1. d = Append(delivered[r], p)
      BY <2>1
    <3>2. delivered[r] \in Seq(Place) /\ p \in Place
      BY <1>1, <1>4
    <3> HIDE DEF d, p
    <3>3. DOMAIN d = 1..(Len(delivered[r]) + 1) /\ Len(delivered[r]) \in Nat /\ DOMAIN delivered[r] = 1..Len(delivered[r])
      BY <3>1, <3>2
    <3>4. d[Len(delivered[r]) + 1] = p /\ \A k \in 1..Len(delivered[r]) : d[k] = delivered[r][k]
      BY <3>1, <3>2
    <3>5. \A k \in DOMAIN d : k = Len(delivered[r]) + 1 \/ k \in 1..Len(delivered[r])
      BY <3>3
    <3> SUFFICES ASSUME NEW k \in DOMAIN d
                 PROVE  d[k] = p \/ (k \in DOMAIN delivered[r] /\ d[k] = delivered[r][k])
      OBVIOUS
    <3>6. CASE k = Len(delivered[r]) + 1
      BY <3>4, <3>6
    <3>7. CASE k \in 1..Len(delivered[r])
      <4>1. d[k] = delivered[r][k]
        BY <3>4, <3>7
      <4>2. k \in DOMAIN delivered[r]
        BY <3>3, <3>7
      <4> QED
        BY <4>1, <4>2
    <3> QED
      BY <3>5, <3>6, <3>7
  <2>2. CASE chain[r][1].state # "read"
    BY <2>2
  <2> QED
    BY <2>1, <2>2
<1>12. /\ \A k \in DOMAIN d, i \in DOMAIN c : d[k] < c[i].place
       /\ \A k \in DOMAIN d : d[k] <= taken[r]
  BY <1>2, <1>4, <1>6, <1>8, <1>11
<1>13. Increasing(d)
  <2>1. CASE chain[r][1].state = "read"
    <3> SUFFICES ASSUME NEW i \in DOMAIN d, NEW j \in DOMAIN d, i < j PROVE d[i] < d[j]
      BY DEF Increasing
    <3>1. d = Append(delivered[r], p)
      BY <2>1
    <3>2. i \in DOMAIN delivered[r] /\ d[i] = delivered[r][i]
      BY <3>1, <1>1
    <3>3. CASE j \in DOMAIN delivered[r]
      BY <3>1, <3>2, <3>3, <1>1, <1>2 DEF Increasing
    <3>4. CASE j \notin DOMAIN delivered[r]
      <4>1. d[j] = p
        BY <3>4, <1>11
      <4> QED
        BY <4>1, <3>2, <1>2, <1>3
    <3> QED
      BY <3>3, <3>4
  <2>2. CASE chain[r][1].state # "read"
    BY <2>2, <1>2
  <2> QED
    BY <2>1, <2>2
<1> HIDE DEF d, e
<1>14. \A i \in DOMAIN c : c[i].place <= taken[r] /\ (c[i].state = "own" <=> channel[c[i].place].from = r)
  BY <1>8
<1>15. /\ delivered' = [delivered EXCEPT ![r] = d] /\ reported' = [reported EXCEPT ![r] = e]
       /\ chain' = [chain EXCEPT ![r] = c] /\ taken' = [taken EXCEPT ![r] = taken[r]]
       /\ UNCHANGED <<now, sent, writing, rows, channel>>
  BY <1>1, <1>3, <1>5
<1>16. c \in Seq([place : Place, state : {"own", "query", "read", "gone"}]) /\ taken[r] \in taken[r]..Len(channel)
  BY <1>1, <1>6
<1> QED
  BY <1>9, <1>10, <1>12, <1>13, <1>14, <1>15, <1>16, OneRelay

LEMMA RelayInvHolds == Spec => []RelayInv
<1>1. RelayInv /\ [Next]_vars => RelayInv'
  <2> SUFFICES ASSUME RelayInv, [Next]_vars PROVE RelayInv'
    OBVIOUS
  <2>1. ASSUME NEW r \in Relay, Receive(r) PROVE RelayInv'
    BY <2>1, TakeKeepsInOrder, ReadRowKeepsInOrder, PassOnKeepsInOrder DEF Receive
  <2>2. CASE UNCHANGED vars
    BY <2>2 DEF vars, RelayInv, TypeOK, ChainInOrder, HeardAsNotified, Increasing, Place
  <2> QED
    BY <2>1, <2>2, WritesKeepInOrder DEF Next
<1> QED
  BY <1>1, RelayStarts, PTL DEF Spec

\* Whatever number of servers publish whatever messages, inline or through the
\* table, each relay passes on what it was handed in the order of the
\* notifications, each once, although the queries for rows are answered in any
\* order (relay.ts: the chain in subscribe).
THEOREM RelayHearsInOrder == Spec => []HeardInOrder
BY RelayInvHolds, PTL DEF RelayInv, HeardInOrder

-----------------------------------------------------------------------------
(* What becomes of a row: it is inserted before its notification is sent, and *)
(* only a sweep by a row stamped later takes it.                             *)

OldOrKept(m) == m \in rows \/ now - m.at > Ttl

RowsAreThere ==
  /\ \A w \in writing : w.m.at <= now /\ (w.step # "insert" => OldOrKept(w.m))
  /\ \A k \in Place : channel[k].large => OldOrKept(channel[k])
  /\ \A r \in Relay : \A i \in DOMAIN chain[r] :
       chain[r][i].state = "query" => channel[chain[r][i].place].large

\* What a relay's rows and clock may do without a kept row being lost.
LEMMA StaysOldOrKept ==
  ASSUME RelayInv, now' \in 0..MaxTime, now <= now',
         \A row \in rows : row \in rows' \/ now - row.at > Ttl
  PROVE  \A m \in Message : OldOrKept(m) => OldOrKept(m)'
<1> SUFFICES ASSUME NEW m \in Message, OldOrKept(m) PROVE m \in rows' \/ now' - m.at > Ttl
  BY DEF OldOrKept
<1>1. m.at \in Int /\ now \in Int /\ now' \in Int /\ Ttl \in Int
  BY RelayAssumption DEF RelayInv, TypeOK, Message
<1>2. CASE now - m.at > Ttl
  BY <1>1, <1>2
<1>3. CASE m \in rows
  BY <1>1, <1>2, <1>3
<1> QED
  BY <1>2, <1>3 DEF OldOrKept

\* Steps that leave the receiving side alone: the channel may get a message
\* whose row is there, or one that needs none.
LEMMA WritesKeepRows ==
  ASSUME RelayInv, RelayInv', RowsAreThere, UNCHANGED receiver, now <= now',
         \A row \in rows : row \in rows' \/ now - row.at > Ttl,
         NEW s,
         channel' = channel \/ (s \in Message /\ (s.large => OldOrKept(s)') /\ channel' = Append(channel, s)),
         \A w \in writing' :
           \/ w \in writing
           \/ w.m.at <= now' /\ (w.step # "insert" => OldOrKept(w.m)')
  PROVE  RowsAreThere'
<1>1. /\ channel \in Seq(Message) /\ writing \subseteq [step : Step, m : Message] /\ now \in Int
  BY DEF RelayInv, TypeOK
<1>2. now' \in 0..MaxTime
  BY DEF RelayInv, TypeOK
<1>3. \A m \in Message : OldOrKept(m) => OldOrKept(m)'
  BY <1>2, StaysOldOrKept
<1>4. \A w \in writing' : w.m.at <= now' /\ (w.step # "insert" => OldOrKept(w.m)')
  <2> SUFFICES ASSUME NEW w \in writing' PROVE w.m.at <= now' /\ (w.step # "insert" => OldOrKept(w.m)')
    OBVIOUS
  <2>1. CASE w \in writing
    <3>1. w \in [step : Step, m : Message]
      BY <1>1, <2>1
    <3>2. w.m \in Message
      BY <3>1
    <3>3. w.m.at \in Int
      BY <3>2 DEF Message
    <3>4. w.m.at <= now /\ (w.step # "insert" => OldOrKept(w.m))
      BY <2>1 DEF RowsAreThere
    <3>5. w.m.at <= now'
      BY <3>3, <3>4, <1>1, <1>2
    <3> QED
      BY <3>2, <3>4, <3>5, <1>3
  <2> QED
    BY <2>1
<1>5. \A k \in Place' : channel'[k].large => OldOrKept(channel[k])'
  <2> SUFFICES ASSUME NEW k \in Place', channel'[k].large
               PROVE  channel'[k] \in rows' \/ now' - channel'[k].at > Ttl
    BY DEF OldOrKept
  <2>1. CASE k \in Place /\ channel'[k] = channel[k]
    <3>1. channel[k] \in Message
      BY <1>1, <2>1 DEF Place
    <3>2. OldOrKept(channel[k])
      BY <2>1 DEF RowsAreThere
    <3> DEFINE m == channel[k]
    <3>3. m \in rows' \/ now' - m.at > Ttl
      BY <1>3, <3>1, <3>2 DEF OldOrKept
    <3> QED
      BY <2>1, <3>3
  <2>2. CASE channel'[k] = s /\ (s.large => OldOrKept(s)')
    BY <2>2 DEF OldOrKept
  <2>3. (k \in Place /\ channel'[k] = channel[k]) \/ (channel'[k] = s /\ (s.large => OldOrKept(s)'))
    BY <1>1 DEF Place
  <2> QED
    BY <2>1, <2>2, <2>3
<1>6. \A r \in Relay : \A i \in DOMAIN chain'[r] :
        chain'[r][i].state = "query" => channel'[chain'[r][i].place].large
  <2> SUFFICES ASSUME NEW r \in Relay, NEW i \in DOMAIN chain[r], chain[r][i].state = "query"
               PROVE  channel'[chain[r][i].place].large
    BY DEF receiver
  <2>1. chain[r][i].place \in Place
    BY OfRelay
  <2>2. channel'[chain[r][i].place] = channel[chain[r][i].place]
    BY <1>1, <2>1 DEF Place
  <2> QED
    BY <2>2 DEF RowsAreThere
<1> QED
  BY <1>4, <1>5, <1>6 DEF RowsAreThere

\* Steps of the receiving side, which only take a message that needs its row.
LEMMA ReceivingKeepsRows ==
  ASSUME RelayInv, RowsAreThere, UNCHANGED <<now, sent, writing, rows, channel>>, NEW r \in Relay,
         \A q \in Relay : q # r => chain'[q] = chain[q],
         \A i \in DOMAIN chain'[r] : chain'[r][i].state = "query" => channel[chain'[r][i].place].large
  PROVE  RowsAreThere'
BY DEF RowsAreThere, OldOrKept, Place

LEMMA RowsStayThere == ASSUME RelayInv, RelayInv', RowsAreThere, Next PROVE RowsAreThere'
<1>0. now \in 0..MaxTime /\ now \in Int /\ Ttl \in Nat /\ rows \subseteq Message /\ channel \in Seq(Message)
  BY RelayAssumption DEF RelayInv, TypeOK
<1>1. ASSUME NEW r \in Relay, PublishInline(r) PROVE RowsAreThere'
  <2> DEFINE m == [from |-> r, n |-> sent[r] + 1, at |-> now, large |-> FALSE]
  <2>1. m \in Message /\ ~m.large
    BY DEF RelayInv, TypeOK, Message
  <2>2. channel' = Append(channel, m) /\ UNCHANGED <<now, writing, rows, receiver>>
    BY <1>1 DEF PublishInline
  <2>3. now <= now' /\ UNCHANGED receiver /\ \A row \in rows : row \in rows'
    BY <1>0, <2>2
  <2> HIDE DEF m
  <2> QED
    BY <2>1, <2>2, <2>3, WritesKeepRows
<1>2. ASSUME NEW r \in Relay, PublishLarge(r) PROVE RowsAreThere'
  <2> DEFINE m == [from |-> r, n |-> sent[r] + 1, at |-> now, large |-> TRUE]
  <2>2. UNCHANGED <<now, rows, channel, receiver>> /\ writing' = writing \cup {[step |-> "insert", m |-> m]}
    BY <1>2 DEF PublishLarge
  <2>3. m.at = now
    OBVIOUS
  <2> HIDE DEF m
  <2>4. \A w \in writing' : w \in writing \/ (w.m.at <= now' /\ (w.step # "insert" => OldOrKept(w.m)'))
    BY <1>0, <2>2, <2>3
  <2>5. now <= now' /\ UNCHANGED receiver /\ \A row \in rows : row \in rows'
    BY <1>0, <2>2
  <2> QED
    BY <2>2, <2>4, <2>5, WritesKeepRows
<1>3. ASSUME NEW w \in writing, InsertRow(w) \/ SweepRows(w) \/ NotifyRef(w) PROVE RowsAreThere'
  <2>1. w \in [step : Step, m : Message]
    BY DEF RelayInv, TypeOK
  <2>2. w.m \in Message /\ w.m.at \in Int
    BY <2>1 DEF Message
  <2>3. UNCHANGED <<now, receiver>> /\ now <= now' /\ w.m.at <= now /\ (w.step # "insert" => OldOrKept(w.m))
    BY <1>0, <1>3 DEF InsertRow, SweepRows, NotifyRef, RowsAreThere
  <2>4. \A row \in rows : row \in rows' \/ now - row.at > Ttl
    <3> SUFFICES ASSUME NEW row \in rows, row \notin rows' PROVE now - row.at > Ttl
      OBVIOUS
    <3>1. SweepRows(w) /\ row.at < w.m.at - Ttl
      BY <1>3 DEF InsertRow, SweepRows, NotifyRef, Old
    <3>2. row \in Message
      BY <1>0
    <3>3. row.at \in Int
      BY <3>2 DEF Message
    <3> QED
      BY <3>1, <3>3, <2>2, <2>3, <1>0
  <2>5. now' \in 0..MaxTime
    BY <1>0, <2>3
  <2>6. OldOrKept(w.m) => OldOrKept(w.m)'
    BY <2>2, <2>3, <2>4, <2>5, StaysOldOrKept
  <2>7. OldOrKept(w.m)'
    <3>1. CASE InsertRow(w)
      BY <3>1 DEF InsertRow, OldOrKept
    <3>2. CASE SweepRows(w) \/ NotifyRef(w)
      BY <3>2, <2>3, <2>6 DEF SweepRows, NotifyRef
    <3> QED
      BY <1>3, <3>1, <3>2
  <2>8. channel' = channel \/ channel' = Append(channel, w.m)
    BY <1>3 DEF InsertRow, SweepRows, NotifyRef
  <2>9. \A v \in writing' : v \in writing \/ v.m = w.m
    BY <1>3 DEF InsertRow, SweepRows, NotifyRef
  <2>10. \A v \in writing' : v \in writing \/ (v.m.at <= now' /\ (v.step # "insert" => OldOrKept(v.m)'))
    BY <2>3, <2>7, <2>9
  <2>11. UNCHANGED receiver
    BY <2>3
  <2> QED
    BY <2>2, <2>3, <2>4, <2>7, <2>8, <2>10, <2>11, WritesKeepRows
<1>4. ASSUME Tick PROVE RowsAreThere'
  <2>1. UNCHANGED <<sent, writing, rows, channel, receiver>> /\ now <= now' /\ now' \in 0..MaxTime
    BY <1>0, <1>4 DEF Tick, RelayInv, TypeOK
  <2>2. UNCHANGED receiver /\ channel' = channel /\ writing' = writing /\ \A row \in rows : row \in rows'
    BY <2>1
  <2> QED
    BY <2>1, <2>2, WritesKeepRows
<1>5. ASSUME NEW r \in Relay, Receive(r) PROVE RowsAreThere'
  <2>1. UNCHANGED <<now, sent, writing, rows, channel>> /\ \A q \in Relay : q # r => chain'[q] = chain[q]
    BY <1>5, OfRelay DEF Receive, Take, PassOn, ReadRow
  <2>2. /\ \A i \in DOMAIN chain[r] : chain[r][i].state = "query" => channel[chain[r][i].place].large
        /\ chain[r] \in Seq([place : Place, state : {"own", "query", "read", "gone"}])
        /\ chain = [chain EXCEPT ![r] = chain[r]] /\ r \in DOMAIN chain
    BY OfRelay DEF RowsAreThere, RelayInv, TypeOK
  <2>3. \A i \in DOMAIN chain'[r] : chain'[r][i].state = "query" => channel[chain'[r][i].place].large
    <3>1. CASE Take(r)
      <4> DEFINE link == [place |-> taken[r] + 1, state |-> FirstRead(r, channel[taken[r] + 1])]
      <4>1. chain'[r] = Append(chain[r], link)
        BY <2>2, <3>1 DEF Take
      <4>2. link.state = "query" => channel[link.place].large
        <5>1. channel[taken[r] + 1] \in Message
          <6>1. taken[r] + 1 \in Place
            BY <3>1, OfRelay DEF Take, Place
          <6> QED
            BY <6>1, <1>0 DEF Place
        <5> QED
          BY <5>1 DEF FirstRead, Message
      <4> HIDE DEF link
      <4>3. \A i \in DOMAIN chain'[r] : (i \in DOMAIN chain[r] /\ chain'[r][i] = chain[r][i]) \/ chain'[r][i] = link
        BY <4>1, <2>2
      <4> QED
        BY <4>2, <4>3, <2>2
    <3>2. ASSUME NEW j \in DOMAIN chain[r], ReadRow(r, j)
          PROVE  \A i \in DOMAIN chain'[r] : chain'[r][i].state = "query" => channel[chain'[r][i].place].large
      <4>1. PICK x \in {"read", "gone"} : chain' = [chain EXCEPT ![r][j].state = x]
        BY <3>2 DEF ReadRow
      <4>2. chain'[r] = [chain[r] EXCEPT ![j].state = x]
        BY <2>2, <4>1
      <4>3. \A i \in DOMAIN chain'[r] :
              /\ i \in DOMAIN chain[r]
              /\ i # j => chain'[r][i] = chain[r][i]
              /\ i = j => chain'[r][i] = [chain[r][i] EXCEPT !.state = x]
        BY <4>2
      <4>4. chain[r][j] \in [place : Place, state : {"own", "query", "read", "gone"}]
        <5> DEFINE L == [place : Place, state : {"own", "query", "read", "gone"}]
        <5>1. chain[r] \in Seq(L)
          BY <2>2
        <5> HIDE DEF L
        <5>2. chain[r][j] \in L
          BY <5>1
        <5> QED
          BY <5>2 DEF L
      <4>5. [chain[r][j] EXCEPT !.state = x].state = x
        BY <4>4
      <4> QED
        BY <4>3, <4>5, <2>2
    <3>3. CASE PassOn(r)
      <4> DEFINE c == SubSeq(chain[r], 1, 1 - 1) \o SubSeq(chain[r], 1 + 1, Len(chain[r]))
      <4>1. 1 \in DOMAIN chain[r] /\ chain'[r] = c
        BY <2>2, <3>3 DEF PassOn, InTurn
      <4>2. \A k \in DOMAIN c : k + 1 \in DOMAIN chain[r] /\ c[k] = chain[r][k + 1]
        BY <2>2, <4>1, WithoutFirst
      <4> HIDE DEF c
      <4> QED
        BY <4>1, <4>2, <2>2
    <3> QED
      BY <1>5, <3>1, <3>2, <3>3 DEF Receive
  <2> QED
    BY <2>1, <2>3, ReceivingKeepsRows
<1> QED
  BY <1>1, <1>2, <1>3, <1>4, <1>5 DEF Next, Write

\* A row is gone only for a relay that reads it later than it is kept, whatever
\* the servers sweep meanwhile and however their inserts, sweeps, notifications
\* and queries lie (relay.ts: the DELETE in publish, the SELECT in subscribe).
THEOREM GoneRowsAreOld == Spec => GoneOnlyWhenOld
<1> DEFINE Fresh ==
      \A r \in Relay : \A i \in DOMAIN chain[r] \cap DOMAIN chain'[r] :
        (chain[r][i].state = "query" /\ chain'[r][i] = [chain[r][i] EXCEPT !.state = "gone"])
          => now - channel[chain[r][i].place].at > Ttl
<1>1. Init => RowsAreThere
  <2> SUFFICES ASSUME Init PROVE RowsAreThere
    OBVIOUS
  <2>1. writing = {} /\ channel = <<>> /\ \A r \in Relay : chain[r] = <<>>
    BY DEF Init
  <2>2. Place = {} /\ DOMAIN <<>> = {}
    BY <2>1 DEF Place
  <2> QED
    BY <2>1, <2>2 DEF RowsAreThere
<1>2. RelayInv /\ RelayInv' /\ RowsAreThere /\ [Next]_vars => RowsAreThere'
  <2>1. UNCHANGED vars /\ RowsAreThere => RowsAreThere'
    BY DEF vars, RowsAreThere, OldOrKept, Place
  <2> QED
    BY <2>1, RowsStayThere
<1>3. RelayInv /\ RowsAreThere /\ [Next]_vars => [Fresh]_vars
  <2> SUFFICES ASSUME RelayInv, RowsAreThere, Next,
                      NEW r \in Relay, NEW i \in DOMAIN chain[r] \cap DOMAIN chain'[r],
                      chain[r][i].state = "query", chain'[r][i] = [chain[r][i] EXCEPT !.state = "gone"]
               PROVE  now - channel[chain[r][i].place].at > Ttl
    OBVIOUS
  <2>1. /\ chain[r] \in Seq([place : Place, state : {"own", "query", "read", "gone"}])
        /\ chain[r][i].place \in Place /\ chain = [chain EXCEPT ![r] = chain[r]] /\ r \in DOMAIN chain
        /\ \A k, j \in DOMAIN chain[r] : k < j => chain[r][k].place < chain[r][j].place
    BY OfRelay DEF RelayInv, TypeOK
  <2>2. chain[r][i] \in [place : Place, state : {"own", "query", "read", "gone"}]
    <3> DEFINE L == [place : Place, state : {"own", "query", "read", "gone"}]
    <3>1. chain[r] \in Seq(L)
      BY <2>1
    <3> HIDE DEF L
    <3>2. chain[r][i] \in L
      BY <3>1
    <3> QED
      BY <3>2 DEF L
  <2>3. chain'[r][i].state = "gone" /\ chain'[r][i].place = chain[r][i].place
    BY <2>2
  <2>4. PICK q \in Relay : Receive(q)
    <3>1. chain'[r] # chain[r]
      BY <2>3
    <3> QED
      BY <3>1 DEF Next, PublishInline, PublishLarge, Write, InsertRow, SweepRows, NotifyRef, Tick, receiver
  <2>5. q = r
    BY <2>1, <2>3, <2>4 DEF Receive, Take, PassOn, ReadRow
  <2>6. ~Take(r)
    <3> SUFFICES ASSUME Take(r) PROVE FALSE
      OBVIOUS
    <3> DEFINE link == [place |-> taken[r] + 1, state |-> FirstRead(r, channel[taken[r] + 1])]
    <3>1. chain'[r] = Append(chain[r], link)
      BY <2>1 DEF Take
    <3> HIDE DEF link
    <3>2. chain'[r][i] = chain[r][i]
      BY <2>1, <3>1
    <3> QED
      BY <2>3, <3>2
  <2>7. ~PassOn(r)
    <3> SUFFICES ASSUME PassOn(r) PROVE FALSE
      OBVIOUS
    <3> DEFINE c == SubSeq(chain[r], 1, 1 - 1) \o SubSeq(chain[r], 1 + 1, Len(chain[r]))
    <3>1. 1 \in DOMAIN chain[r] /\ chain'[r] = c
      BY <2>1 DEF PassOn, InTurn
    <3>2. \A k \in DOMAIN c : k + 1 \in DOMAIN chain[r] /\ c[k] = chain[r][k + 1]
      BY <2>1, <3>1, WithoutFirst
    <3> HIDE DEF c
    <3>3. i + 1 \in DOMAIN chain[r] /\ chain'[r][i] = chain[r][i + 1]
      BY <3>1, <3>2
    <3>4. i \in Nat
      <4>1. DOMAIN chain[r] = 1..Len(chain[r])
        BY <2>1
      <4> QED
        BY <4>1
    <3>5. chain[r][i].place < chain[r][i + 1].place /\ chain[r][i].place \in Nat
      BY <2>1, <3>3, <3>4 DEF Place
    <3>6. chain[r][i + 1].place = chain[r][i].place
      BY <2>3, <3>3
    <3> QED
      BY <3>5, <3>6
  <2>8. PICK j \in DOMAIN chain[r] : ReadRow(r, j)
    BY <2>4, <2>5, <2>6, <2>7 DEF Receive
  <2>9. PICK x : x = (IF channel[chain[r][j].place] \in rows THEN "read" ELSE "gone")
                 /\ chain' = [chain EXCEPT ![r][j].state = x]
    BY <2>8 DEF ReadRow
  <2>10. chain'[r] = [chain[r] EXCEPT ![j].state = x]
    BY <2>1, <2>9
  <2>11. j = i
    BY <2>3, <2>10
  <2>12. chain'[r][i] = [chain[r][i] EXCEPT !.state = x]
    BY <2>10, <2>11
  <2>13. x = "gone"
    BY <2>2, <2>3, <2>12
  <2>14. channel[chain[r][i].place] \notin rows
    BY <2>9, <2>11, <2>13
  <2>15. OldOrKept(channel[chain[r][i].place])
    BY <2>1 DEF RowsAreThere
  <2> QED
    BY <2>14, <2>15 DEF OldOrKept
<1>4. Spec => [][Fresh]_vars
  BY <1>1, <1>2, <1>3, RelayInvHolds, PTL DEF Spec
<1> QED
  BY <1>4 DEF GoneOnlyWhenOld

-----------------------------------------------------------------------------
(* The idempotency store in memory                                           *)

\* Some member of a nonempty set of numbers is the least.
LEMMA LeastIs ==
  ASSUME NEW S, S \subseteq Nat, S # {}
  PROVE  Min(S) \in S /\ \A x \in S : Min(S) <= x
<1>1. \E x \in S : \A y \in S : x <= y
  <2> SUFFICES ASSUME \A x \in S : \E y \in S : ~(x <= y) PROVE FALSE
    OBVIOUS
  <2>1. PICK n \in S : TRUE
    OBVIOUS
  <2> DEFINE A == {m \in 0..n : \A x \in S : m <= x}
             up == [m \in A |-> m + 1]
  <2>2. 0 \in A /\ \A m \in A : m + 1 \in A
    <3>1. 0 \in A
      BY <2>1
    <3>2. ASSUME NEW m \in A PROVE m + 1 \in A
      <4>1. m \notin S
        BY <3>2
      <4>2. \A x \in S : m + 1 <= x
        BY <4>1, <3>2
      <4> QED BY <4>2, <2>1
    <3> QED BY <3>1, <3>2
  <2>3. IsFiniteSet(A)
    BY FS_Interval, FS_Subset, 0 \in Int, n \in Int, A \subseteq 0..n
  <2>4. up \in Injection(A, A \ {0})
    <3>1. \A i \in A : i + 1 \in A \ {0}
      BY <2>2
    <3>2. \A i, j \in A : i + 1 = j + 1 => i = j
      OBVIOUS
    <3> HIDE DEF A
    <3> QED BY <3>1, <3>2 DEF Injection, IsInjective
  <2>5. IsFiniteSet(A \ {0}) /\ Cardinality(A \ {0}) = Cardinality(A) - 1
    BY <2>2, <2>3, FS_RemoveElement
  <2>6. Cardinality(A) <= Cardinality(A \ {0})
    BY <2>3, <2>4, <2>5, FS_Injection
  <2>7. Cardinality(A) \in Nat
    BY <2>3, FS_CardinalityType
  <2> HIDE DEF A
  <2> QED BY <2>5, <2>6, <2>7
<1> QED BY <1>1, Zenon DEF Min

\* Of a set of numbers with a bound some member is the most.
LEMMA MostIs ==
  ASSUME NEW S, S \subseteq Nat, S # {}, NEW n \in Nat, \A x \in S : x <= n
  PROVE  Max(S) \in S /\ \A x \in S : x <= Max(S)
<1> DEFINE T == {n - x : x \in S}
<1>1. T \subseteq Nat /\ T # {}
  <2>1. \A x \in S : n - x \in Nat
    OBVIOUS
  <2> QED BY <2>1
<1>2. PICK x \in S : n - x = Min(T) /\ \A y \in S : n - x <= n - y
  <2>1. Min(T) \in T /\ \A t \in T : Min(T) <= t
    <3> HIDE DEF T
    <3> QED BY <1>1, LeastIs
  <2>2. PICK x \in S : n - x = Min(T)
    BY <2>1
  <2>3. \A y \in S : n - y \in T
    OBVIOUS
  <2>4. \A y \in S : Min(T) <= n - y
    BY <2>1, <2>3
  <2> QED BY <2>2, <2>4
<1>3. \E x1 \in S : \A y \in S : x1 >= y
  BY <1>2
<1> QED BY <1>3, Zenon DEF Max

MapEntry == [key : CallerKeys, place : Nat, by : Callers, record : BOOLEAN, until : Nat, at : Nat]

InOrder(m) ==
  /\ m \subseteq MapEntry /\ IsFiniteSet(m)
  /\ \E n \in Nat : \A e \in m : e.place <= n
  /\ \A e \in m : e.at <= clock
  /\ \A d, e \in m : d.key = e.key => d = e
  /\ \A d, e \in m : d.record /\ e.record /\ d.place < e.place => d.at <= e.at
Few(m) == Cardinality({e \in m : e.record}) <= MaxEntries
Added(m, s, e) == \E x \in MapEntry : s = m \union {x} /\ x.key = e.key /\ x.by = e.by /\ (x.record <=> e.record)

\* The map is in order (one entry for a key, the records by age) and within its
\* bound: with Follows, below, what every operation keeps.
MapInv == InOrder(entries) /\ Few(entries) /\ clock \in Nat /\ runtime \in {"ts", "kt"}

LEMMA MapNumbers == {LeaseTime, RecordTime, MaxClock} \subseteq Nat /\ MaxEntries \in Nat /\ MaxEntries >= 1
BY MemoryAssumption

\* What goes in at the end stands behind all that is there.
LEMMA AtTheEndIs ==
  ASSUME NEW m \in SUBSET MapEntry, NEW n \in Nat, \A d \in m : d.place <= n, NEW e \in MapEntry
  PROVE  \E x \in MapEntry :
           /\ AtTheEnd(m, e) = m \union {x} /\ \A d \in m : d.place < x.place
           /\ x.place <= n + 1 /\ x.key = e.key /\ x.by = e.by /\ (x.record <=> e.record) /\ x.at = e.at
<1> DEFINE p == IF m = {} THEN 1 ELSE Max({d.place : d \in m}) + 1
           x == [e EXCEPT !.place = p]
<1>1. p \in Nat /\ p <= n + 1 /\ \A d \in m : d.place < p
  <2>1. CASE m = {}
    BY <2>1
  <2>2. CASE m # {}
    <3> DEFINE S == {d.place : d \in m}
    <3>1. S \subseteq Nat /\ S # {} /\ \A y \in S : y <= n
      BY <2>2 DEF MapEntry
    <3>2. Max(S) \in S /\ \A y \in S : y <= Max(S)
      <4> HIDE DEF S
      <4> QED BY <3>1, MostIs
    <3>3. \A d \in m : d.place \in S
      OBVIOUS
    <3>4. p = Max(S) + 1
      BY <2>2
    <3> HIDE DEF S, p
    <3>5. Max(S) \in Nat /\ Max(S) <= n
      BY <3>1, <3>2
    <3>6. \A d \in m : d.place \in Nat /\ d.place <= Max(S)
      BY <3>1, <3>2, <3>3
    <3> QED BY <3>4, <3>5, <3>6
  <2> QED BY <2>1, <2>2
<1>2. AtTheEnd(m, e) = m \union {x}
  BY Zenon DEF AtTheEnd
<1> HIDE DEF p
<1>3. x \in MapEntry /\ x.place = p /\ x.key = e.key /\ x.by = e.by /\ (x.record <=> e.record) /\ x.at = e.at
  BY <1>1 DEF MapEntry
<1> HIDE DEF x
<1> QED BY <1>1, <1>2, <1>3

\* What a sweep takes out is not in flight.
LEMMA SweepsTake ==
  ASSUME NEW m
  PROVE  /\ KtSwept(m) \subseteq m /\ \A e \in m \ KtSwept(m) : ~Runs(e)
         /\ KtRoom(m) \subseteq m /\ \A e \in m \ KtRoom(m) : ~Runs(e)
         /\ Swept(m) \subseteq m /\ \A e \in m \ Swept(m) : ~Runs(e)
BY DEF KtSwept, KtRoom, Swept

\* Some entry of a nonempty set stands first.
LEMMA FirstOf ==
  ASSUME NEW m \in SUBSET MapEntry, m # {}
  PROVE  \E e \in m : \A d \in m : e.place <= d.place
<1> DEFINE S == {d.place : d \in m}
<1>1. S \subseteq Nat /\ S # {}
  BY DEF MapEntry
<1>2. Min(S) \in S /\ \A y \in S : Min(S) <= y
  <2> HIDE DEF S
  <2> QED BY <1>1, LeastIs
<1> QED BY <1>2

\* A sweep of the first runtime leaves no more records than the bound; the
\* other's leaves room for one more.
LEMMA SweptFits ==
  ASSUME NEW m \in SUBSET MapEntry, IsFiniteSet(m)
  PROVE  Cardinality({e \in Swept(m) : e.record}) <= MaxEntries
<1> DEFINE stops == {r \in m : r.record /\ ~Expired(r) /\ Left(m, r) <= MaxEntries}
<1>1. CASE stops = {}
  <2>1. {e \in Swept(m) : e.record} = {}
    BY <1>1 DEF Swept, Runs
  <2> QED BY <2>1, FS_EmptySet, MapNumbers
<1>2. CASE stops # {}
  <2>1. PICK r \in stops : \A d \in stops : r.place <= d.place
    <3>1. stops \in SUBSET MapEntry
      OBVIOUS
    <3> HIDE DEF stops
    <3> QED BY <1>2, <3>1, FirstOf
  <2> DEFINE rest == m \ {d \in m : d.place < r.place /\ ~Runs(d)}
  <2>2. {e \in Swept(m) : e.record} \subseteq rest
    <3>1. ASSUME NEW e \in Swept(m) PROVE e \in m /\ (Runs(e) \/ ~(e.place < r.place))
      <4>1. CASE Runs(e)
        BY <3>1, <4>1 DEF Swept
      <4>2. CASE ~Runs(e)
        <5>1. PICK d \in stops : d.place <= e.place
          BY <3>1, <4>2 DEF Swept
        <5>2. e \in m /\ d.place \in Nat /\ e.place \in Nat /\ r.place \in Nat /\ r.place <= d.place
          BY <2>1, <3>1 DEF Swept, MapEntry
        <5> QED BY <5>1, <5>2
      <4> QED BY <4>1, <4>2
    <3> QED BY <3>1
  <2>3. Cardinality(rest) <= MaxEntries
    BY <2>1 DEF Left
  <2>4. IsFiniteSet(rest)
    BY FS_Subset, rest \subseteq m
  <2> HIDE DEF rest
  <2>5. Cardinality({e \in Swept(m) : e.record}) <= Cardinality(rest) /\ Cardinality({e \in Swept(m) : e.record}) \in Nat /\ Cardinality(rest) \in Nat
    BY <2>2, <2>4, FS_Subset, FS_CardinalityType
  <2> QED BY <2>3, <2>5, MapNumbers
<1> QED BY <1>1, <1>2

LEMMA RoomFits ==
  ASSUME NEW m \in SUBSET MapEntry, IsFiniteSet(m)
  PROVE  Cardinality({e \in KtRoom(m) : e.record}) < MaxEntries
<1> DEFINE some == {e \in KtRoom(m) : ~Runs(e)}
           records == {e \in KtRoom(m) : e.record}
<1>1. KtRoom(m) \subseteq m
  BY DEF KtRoom
<1>2. CASE some = {}
  <2>1. records = {}
    BY <1>2 DEF Runs
  <2> QED BY <2>1, FS_EmptySet, MapNumbers
<1>3. CASE some # {}
  <2>1. PICK r \in some : \A d \in some : r.place <= d.place
    <3>1. some \in SUBSET MapEntry
      BY <1>1
    <3> HIDE DEF some
    <3> QED BY <1>3, <3>1, FirstOf
  <2> DEFINE rest == m \ {d \in m : d.place < r.place /\ ~Runs(d)}
  <2>2. records \subseteq rest
    <3>1. ASSUME NEW e \in records PROVE e \in m /\ ~(e.place < r.place)
      <4>1. e \in some /\ e \in m /\ r \in m
        BY <1>1, <3>1 DEF Runs
      <4>2. e.place \in Nat /\ r.place \in Nat /\ r.place <= e.place
        BY <2>1, <4>1 DEF MapEntry
      <4> QED BY <4>1, <4>2
    <3> QED BY <3>1
  <2>3. Cardinality(rest) < MaxEntries
    BY <2>1 DEF Left, KtRoom
  <2>4. IsFiniteSet(rest)
    BY FS_Subset, rest \subseteq m
  <2> HIDE DEF rest, records
  <2>5. Cardinality(records) <= Cardinality(rest) /\ Cardinality(records) \in Nat /\ Cardinality(rest) \in Nat
    BY <2>2, <2>4, FS_Subset, FS_CardinalityType
  <2>6. Cardinality(records) < MaxEntries
    BY <2>3, <2>5, MapNumbers
  <2> QED BY <2>6 DEF records
<1> QED BY <1>2, <1>3

\* What goes in behind a map that is in order, with a key of its own, keeps it
\* in order: it stands last and is the youngest.
LEMMA MapGrows ==
  ASSUME NEW m, InOrder(m), clock \in Nat, NEW e \in MapEntry,
         \A d \in m : d.key # e.key, e.record => e.at = clock, e.at <= clock
  PROVE  InOrder(AtTheEnd(m, e)) /\ Added(m, AtTheEnd(m, e), e)
<1> DEFINE s == AtTheEnd(m, e)
<1>0. /\ m \in SUBSET MapEntry /\ IsFiniteSet(m)
      /\ \A d \in m : d.at <= clock
      /\ \A d, f \in m : d.key = f.key => d = f
      /\ \A d, f \in m : d.record /\ f.record /\ d.place < f.place => d.at <= f.at
  BY DEF InOrder
<1>1. PICK n \in Nat : \A d \in m : d.place <= n
  BY DEF InOrder
<1>2. PICK x \in MapEntry :
        /\ s = m \union {x} /\ \A d \in m : d.place < x.place
        /\ x.place <= n + 1 /\ x.key = e.key /\ x.by = e.by /\ (x.record <=> e.record) /\ x.at = e.at
  BY <1>0, <1>1, AtTheEndIs
<1> HIDE DEF s
<1>3. s \subseteq MapEntry /\ IsFiniteSet(s)
  BY <1>0, <1>2, FS_AddElement
<1>4. n + 1 \in Nat /\ \A d \in s : d.place <= n + 1
  <2>1. \A d \in m : d.place \in Nat
    BY <1>0 DEF MapEntry
  <2>2. n \in Nat /\ \A d \in m : d.place <= n + 1
    BY <1>1, <2>1
  <2> QED BY <1>2, <2>2
<1>5. \A d \in s : d.at <= clock
  BY <1>0, <1>2
<1>6. \A d, f \in s : d.key = f.key => d = f
  BY <1>0, <1>2
<1>7. \A d, f \in s : d.record /\ f.record /\ d.place < f.place => d.at <= f.at
  <2>1. ~(x.place < x.place) /\ \A d \in m : ~(x.place < d.place)
    BY <1>0, <1>2 DEF MapEntry
  <2>2. x.record => \A d \in m : d.at <= x.at
    BY <1>0, <1>2
  <2> QED BY <1>0, <1>2, <2>1, <2>2
<1>8. InOrder(s)
  BY <1>3, <1>4, <1>5, <1>6, <1>7 DEF InOrder
<1>9. Added(m, s, e)
  BY <1>2, Zenon DEF Added
<1> QED BY <1>8, <1>9 DEF s

\* What is left of a map that is in order is in order.
LEMMA MapShrinks ==
  ASSUME NEW s, InOrder(s), NEW m \in SUBSET s
  PROVE  InOrder(m) /\ (Few(s) => Few(m))
<1>1. m \subseteq MapEntry /\ IsFiniteSet(m)
  BY FS_Subset DEF InOrder
<1>2. Few(s) => Few(m)
  <2> DEFINE records == {e \in s : e.record}
             left == {e \in m : e.record}
  <2>1. IsFiniteSet(records) /\ left \subseteq records
    BY FS_Subset DEF InOrder
  <2> HIDE DEF records, left
  <2>2. Cardinality(left) <= Cardinality(records) /\ Cardinality(left) \in Nat /\ Cardinality(records) \in Nat
    BY <2>1, FS_Subset, FS_CardinalityType
  <2>3. Cardinality(records) <= MaxEntries => Cardinality(left) <= MaxEntries
    BY <2>2, MapNumbers
  <2> QED BY <2>3 DEF left, records, Few
<1> QED BY <1>1, <1>2 DEF InOrder

LEMMA NewEntryIs ==
  ASSUME NEW a \in Callers, NEW r \in BOOLEAN, clock \in Nat
  PROVE  /\ NewEntry(a, r) \in MapEntry /\ NewEntry(a, r).key = CallerKey[a] /\ NewEntry(a, r).by = a
         /\ (NewEntry(a, r).record <=> r) /\ (r => NewEntry(a, r).at = clock) /\ NewEntry(a, r).at <= clock
<1>1. CallerKey[a] \in CallerKeys /\ LeaseTime \in Nat /\ clock + LeaseTime \in Nat
  BY MapNumbers DEF CallerKeys
<1> QED BY <1>1 DEF NewEntry, MapEntry

\* How the map follows itself: a key is kept with its entry, recorded by who holds
\* it, or claimed when it is free or over; what goes is over, or given back.
Follows ==
  /\ \A e \in entries' :
       \/ \E d \in entries : d.key = e.key /\ d.by = e.by /\ (d.record => e.record)
                             /\ (e.record => d.record \/ doing[d.by] = "put")
       \/ ~e.record /\ \A d \in entries : d.key = e.key => ~Runs(d) /\ (d.record => Expired(d))
  /\ \A d \in entries :
       (\E e \in entries' : e.key = d.key) \/ ~Runs(d) \/ doing[d.by] \in {"put", "release"}

\* The map with a new entry behind what the sweeps left of it.
LEMMA Inserting ==
  ASSUME MapInv, NEW a \in Callers, NEW r \in BOOLEAN, NEW m \in SUBSET Without(entries, CallerKey[a])
  PROVE  LET s == AtTheEnd(m, NewEntry(a, r))
         IN  /\ InOrder(s) /\ Added(m, s, NewEntry(a, r))
             /\ ~r \/ Cardinality({e \in m : e.record}) < MaxEntries => Few(s)
<1> DEFINE e == NewEntry(a, r)
           s == AtTheEnd(m, e)
<1>1. InOrder(m) /\ Few(m)
  <2>1. m \in SUBSET entries
    BY DEF Without
  <2> QED BY <2>1, MapShrinks DEF MapInv
<1>2. e \in MapEntry /\ e.key = CallerKey[a] /\ (e.record <=> r) /\ (r => e.at = clock) /\ e.at <= clock /\ clock \in Nat
  BY NewEntryIs DEF MapInv
<1>3. \A d \in m : d.key # e.key
  BY <1>2 DEF Without
<1>4. InOrder(s) /\ Added(m, s, e)
  <2> HIDE DEF e
  <2>1. e.record => e.at = clock
    BY <1>2
  <2> QED BY <1>1, <1>2, <1>3, <2>1, MapGrows
<1> HIDE DEF e, s
<1>5. ~r \/ Cardinality({d \in m : d.record}) < MaxEntries => Few(s)
  <2> DEFINE old == {d \in m : d.record}
  <2>1. PICK x \in MapEntry : s = m \union {x} /\ (x.record <=> r)
    BY <1>2, <1>4 DEF Added
  <2>2. {d \in s : d.record} = IF r THEN old \union {x} ELSE old
    BY <2>1
  <2>3. Cardinality(old) <= MaxEntries /\ IsFiniteSet(old)
    BY <1>1, FS_Subset DEF InOrder, Few
  <2> HIDE DEF old
  <2>4. Cardinality(old) \in Nat /\ Cardinality(old \union {x}) = IF x \in old THEN Cardinality(old) ELSE Cardinality(old) + 1
    BY <2>3, FS_AddElement, FS_CardinalityType
  <2>5. Cardinality(old) < MaxEntries => Cardinality(old \union {x}) <= MaxEntries
    BY <2>3, <2>4, MapNumbers
  <2>6. ~r \/ Cardinality(old) < MaxEntries => Few(s)
    BY <2>2, <2>3, <2>5 DEF Few
  <2> QED BY <2>6 DEF old
<1> QED BY <1>4, <1>5 DEF s, e

\* What an insertion and the sweeps around it make of every key.
LEMMA InsertingFollows ==
  ASSUME MapInv, NEW a \in Callers, NEW r \in BOOLEAN, NEW m \in SUBSET Without(entries, CallerKey[a]),
         \A e \in Without(entries, CallerKey[a]) \ m : ~Runs(e),
         NEW s, s = AtTheEnd(m, NewEntry(a, r)), entries' \in SUBSET s,
         \A e \in s \ entries' : ~Runs(e), ~r => entries' = s,
         r => doing[a] = "put" /\ \E d \in entries : HeldBy(d, a),
         ~r => \A d \in entries : d.key = CallerKey[a] => ~Runs(d) /\ (d.record => Expired(d))
  PROVE  Follows
<1>1. PICK x : s = m \union {x} /\ x.key = CallerKey[a] /\ x.by = a /\ (x.record <=> r)
  <2>1. Added(m, s, NewEntry(a, r))
    BY Inserting
  <2>2. NewEntry(a, r).key = CallerKey[a] /\ NewEntry(a, r).by = a /\ (NewEntry(a, r).record <=> r)
    BY NewEntryIs DEF MapInv
  <2> QED BY <2>1, <2>2 DEF Added
<1>2. \A e \in m : e \in entries /\ e.key # CallerKey[a]
  BY DEF Without
<1>3. ASSUME NEW e \in entries'
      PROVE \/ \E d \in entries : d.key = e.key /\ d.by = e.by /\ (d.record => e.record)
                                  /\ (e.record => d.record \/ doing[d.by] = "put")
            \/ ~e.record /\ \A d \in entries : d.key = e.key => ~Runs(d) /\ (d.record => Expired(d))
  <2>1. CASE e \in m
    BY <1>2, <2>1
  <2>2. CASE e = x /\ r
    BY <1>1, <2>2 DEF HeldBy
  <2>3. CASE e = x /\ ~r
    BY <1>1, <2>3
  <2> QED BY <1>1, <2>1, <2>2, <2>3
<1>4. ASSUME NEW d \in entries
      PROVE (\E e \in entries' : e.key = d.key) \/ ~Runs(d) \/ doing[d.by] \in {"put", "release"}
  <2>1. CASE d.key # CallerKey[a]
    BY <1>1, <2>1 DEF Without
  <2>2. CASE d.key = CallerKey[a] /\ r
    <3>1. PICK h \in entries : HeldBy(h, a)
      BY <2>2
    <3>2. d = h
      BY <2>2, <3>1 DEF MapInv, InOrder, HeldBy
    <3> QED BY <2>2, <3>1, <3>2 DEF HeldBy
  <2>3. CASE d.key = CallerKey[a] /\ ~r
    BY <2>3
  <2> QED BY <2>1, <2>2, <2>3
<1> QED BY <1>3, <1>4 DEF Follows

Changed(new, s) ==
  /\ new \in [entries -> MapEntry] /\ s = {new[d] : d \in entries}
  /\ \A d \in entries : /\ new[d].key = d.key /\ new[d].place = d.place /\ new[d].at <= clock
                        /\ new[d].record => new[d] = d

\* An entry given another until, or a claim that takes the place of one that ran
\* out, leaves the map in order.
LEMMA MapChanges ==
  ASSUME MapInv, NEW new, NEW s, Changed(new, s)
  PROVE  InOrder(s) /\ Few(s)
<1>0. /\ new \in [entries -> MapEntry] /\ s = {new[d] : d \in entries}
      /\ \A d \in entries : /\ new[d].key = d.key /\ new[d].place = d.place /\ new[d].at <= clock
                            /\ new[d].record => new[d] = d
  BY DEF Changed
<1>1. s \subseteq MapEntry
  BY <1>0
<1>2. IsFiniteSet(s)
  <2>1. new \in Surjection(entries, s)
    BY <1>0 DEF Surjection
  <2> QED BY <2>1, FS_Surjection DEF MapInv, InOrder
<1>a. \A e \in s : \E d \in entries : e = new[d] /\ e.key = d.key /\ e.place = d.place /\ e.at <= clock /\ (e.record => e = d)
  <2> SUFFICES ASSUME NEW e \in s
               PROVE  \E d \in entries : e = new[d] /\ e.key = d.key /\ e.place = d.place /\ e.at <= clock /\ (e.record => e = d)
    OBVIOUS
  <2>1. PICK d \in entries : e = new[d]
    BY <1>0
  <2>2. /\ new[d].key = d.key /\ new[d].place = d.place /\ new[d].at <= clock
        /\ new[d].record => new[d] = d
    BY <1>0, Zenon
  <2> QED BY <2>1, <2>2, Zenon
<1>3. \E n \in Nat : \A e \in s : e.place <= n
  BY <1>a DEF MapInv, InOrder
<1>4. \A e \in s : e.at <= clock
  BY <1>a
<1>5. \A d, e \in s : d.key = e.key => d = e
  BY <1>a DEF MapInv, InOrder
<1> DEFINE left == {e \in s : e.record}
<1>6. left \in SUBSET entries
  BY <1>a
<1>7. \A d, e \in s : d.record /\ e.record /\ d.place < e.place => d.at <= e.at
  BY <1>6 DEF MapInv, InOrder
<1>8. Few(s)
  <2>1. Few(left)
    <3> HIDE DEF left
    <3> QED BY <1>6, MapShrinks DEF MapInv
  <2>2. {e \in left : e.record} = left
    OBVIOUS
  <2> QED BY <2>1, <2>2 DEF Few
<1> QED BY <1>1, <1>2, <1>3, <1>4, <1>5, <1>7, <1>8 DEF InOrder

LEMMA MapStart == MemInit => MapInv
<1> SUFFICES ASSUME MemInit PROVE MapInv
  OBVIOUS
<1>1. entries = {} /\ clock = 0 /\ runtime \in {"ts", "kt"}
  BY DEF MemInit
<1>2. {e \in entries : e.record} = {}
  BY <1>1
<1>3. Few(entries)
  BY <1>2, FS_EmptySet, MapNumbers DEF Few
<1>4. InOrder(entries)
  BY <1>1, FS_EmptySet DEF InOrder
<1> QED BY <1>1, <1>3, <1>4 DEF MapInv

\* The Kotlin store sweeps, makes room and inserts, a claim or the holder's record.
LEMMA KtInserting ==
  ASSUME MapInv, NEW a \in Callers, NEW r \in BOOLEAN, entries' = KtInserted(NewEntry(a, r)),
         r => doing[a] = "put" /\ \E d \in entries : HeldBy(d, a),
         ~r => \A d \in entries : d.key = CallerKey[a] => ~Runs(d) /\ (d.record => Expired(d))
  PROVE  InOrder(entries') /\ Few(entries') /\ Follows
<1> DEFINE w == Without(entries, CallerKey[a])
           m == KtRoom(KtSwept(w))
<1>1. entries' = AtTheEnd(m, NewEntry(a, r))
  <2>1. NewEntry(a, r).key = CallerKey[a]
    BY NewEntryIs DEF MapInv
  <2> QED BY <2>1 DEF KtInserted
<1>2. m \in SUBSET w /\ KtSwept(w) \subseteq w /\ \A e \in w \ m : ~Runs(e)
  <2>1. KtSwept(w) \subseteq w /\ \A e \in w \ KtSwept(w) : ~Runs(e)
    BY SweepsTake
  <2>2. m \subseteq KtSwept(w) /\ \A e \in KtSwept(w) \ m : ~Runs(e)
    BY SweepsTake
  <2> QED BY <2>1, <2>2
<1>3. Cardinality({e \in m : e.record}) < MaxEntries
  <2>1. KtSwept(w) \in SUBSET MapEntry /\ IsFiniteSet(KtSwept(w))
    <3>1. entries \subseteq MapEntry /\ IsFiniteSet(entries)
      BY DEF MapInv, InOrder
    <3>2. KtSwept(w) \subseteq entries
      BY <1>2 DEF Without
    <3> QED BY <3>1, <3>2, FS_Subset
  <2> QED BY <2>1, RoomFits
<1> HIDE DEF m
<1>4. InOrder(entries') /\ Few(entries')
  BY <1>1, <1>2, <1>3, Inserting
<1>5. Follows
  BY <1>1, <1>2, InsertingFollows
<1> QED BY <1>4, <1>5

\* The first runtime records at the end of the map and sweeps.
LEMMA TsRecording ==
  ASSUME MapInv, NEW a \in Callers, doing[a] = "put", \E d \in entries : HeldBy(d, a),
         entries' = Swept(AtTheEnd(Without(entries, CallerKey[a]), NewEntry(a, TRUE)))
  PROVE  InOrder(entries') /\ Few(entries') /\ Follows
<1> DEFINE s == AtTheEnd(Without(entries, CallerKey[a]), NewEntry(a, TRUE))
<1>1. InOrder(s)
  BY Inserting
<1>2. entries' \in SUBSET s /\ \A e \in s \ entries' : ~Runs(e)
  BY SweepsTake
<1>3. Follows
  <2> HIDE DEF s
  <2>1. s = AtTheEnd(Without(entries, CallerKey[a]), NewEntry(a, TRUE))
    BY DEF s
  <2> QED BY <1>2, <2>1, InsertingFollows
<1>4. Few(entries')
  BY <1>1, SweptFits DEF InOrder, Few
<1> QED BY <1>1, <1>2, <1>3, <1>4, MapShrinks

\* The first runtime claims: in the place of a claim that ran out, or at the end.
LEMMA TsClaiming ==
  ASSUME MapInv, NEW a \in Callers, entries' = TsInserted(NewEntry(a, FALSE)),
         \A d \in entries : d.key = CallerKey[a] => ~Runs(d) /\ (d.record => Expired(d))
  PROVE  InOrder(entries') /\ Few(entries') /\ Follows
<1> DEFINE n == NewEntry(a, FALSE)
<1>1. n \in MapEntry /\ n.key = CallerKey[a] /\ n.by = a /\ ~n.record /\ n.at <= clock
  BY NewEntryIs DEF MapInv
<1> HIDE DEF n
<1>2. CASE \E d \in entries : d.key = n.key /\ ~Expired(d)
  <2> DEFINE new == [d \in entries |-> IF d.key = n.key THEN [n EXCEPT !.place = d.place] ELSE d]
  <2>0. entries \subseteq MapEntry /\ \A d \in entries : d.at <= clock
    BY DEF MapInv, InOrder
  <2>1. entries' = {new[d] : d \in entries}
    BY <1>2 DEF TsInserted, n
  <2>2. \A d \in entries :
          /\ new[d] \in MapEntry /\ new[d].key = d.key /\ new[d].place = d.place /\ new[d].at <= clock
          /\ new[d].record => new[d] = d
          /\ \/ new[d] = d
             \/ ~new[d].record /\ d.key = CallerKey[a]
    <3> SUFFICES ASSUME NEW d \in entries
                 PROVE  /\ new[d] \in MapEntry /\ new[d].key = d.key /\ new[d].place = d.place /\ new[d].at <= clock
                        /\ new[d].record => new[d] = d
                        /\ \/ new[d] = d
                           \/ ~new[d].record /\ d.key = CallerKey[a]
      OBVIOUS
    <3>1. CASE d.key = n.key
      BY <1>1, <2>0, <3>1 DEF MapEntry
    <3>2. CASE d.key # n.key
      BY <2>0, <3>2
    <3> QED BY <3>1, <3>2
  <2>3. new \in [entries -> MapEntry]
    BY <2>2
  <2> HIDE DEF new
  <2>4. InOrder(entries') /\ Few(entries')
    <3>1. Changed(new, entries')
      BY <2>1, <2>2, <2>3 DEF Changed
    <3> QED BY <3>1, MapChanges
  <2>5. ASSUME NEW e \in entries'
        PROVE \/ \E d \in entries : d.key = e.key /\ d.by = e.by /\ (d.record => e.record)
                                    /\ (e.record => d.record \/ doing[d.by] = "put")
              \/ ~e.record /\ \A d \in entries : d.key = e.key => ~Runs(d) /\ (d.record => Expired(d))
    <3>1. PICK d \in entries : e = new[d]
      BY <2>1, <2>5
    <3>2. CASE e = d
      BY <3>2
    <3>3. CASE ~e.record /\ e.key = CallerKey[a]
      BY <3>3
    <3> QED BY <2>2, <3>1, <3>2, <3>3
  <2>6. \A d \in entries : \E e \in entries' : e.key = d.key
    BY <2>1, <2>2
  <2> QED BY <2>4, <2>5, <2>6 DEF Follows
<1>3. CASE ~\E d \in entries : d.key = n.key /\ ~Expired(d)
  <2>1. entries' = AtTheEnd(Without(entries, CallerKey[a]), NewEntry(a, FALSE))
    BY <1>1, <1>3 DEF TsInserted, n
  <2>2. InOrder(entries') /\ Few(entries')
    BY <2>1, Inserting
  <2>3. Follows
    BY <2>1, InsertingFollows
  <2> QED BY <2>2, <2>3
<1> QED BY <1>2, <1>3

LEMMA ClaimKeyStep ==
  ASSUME MapInv, NEW a \in Callers, ClaimKey(a)
  PROVE  MapInv' /\ (Follows \/ UNCHANGED entries)
<1>1. CASE UNCHANGED entries
  BY <1>1 DEF ClaimKey, MapInv, InOrder, Few
<1>2. CASE entries' = Inserted(NewEntry(a, FALSE)) /\ \A e \in {d \in entries : d.key = CallerKey[a] /\ ~Expired(d)} : ~e.record /\ ~Runs(e)
  <2>1. \A d \in entries : d.key = CallerKey[a] => ~Runs(d) /\ (d.record => Expired(d))
    BY <1>2 DEF Expired, Runs
  <2>2. CASE runtime = "kt"
    <3>1. entries' = KtInserted(NewEntry(a, FALSE))
      BY <1>2, <2>2 DEF Inserted
    <3> QED BY <2>1, <3>1, KtInserting DEF ClaimKey, MapInv, InOrder, Few
  <2>3. CASE runtime # "kt"
    <3>1. entries' = TsInserted(NewEntry(a, FALSE))
      BY <1>2, <2>3 DEF Inserted
    <3> QED BY <2>1, <3>1, TsClaiming DEF ClaimKey, MapInv, InOrder, Few
  <2> QED BY <2>2, <2>3
<1> QED BY <1>1, <1>2 DEF ClaimKey

LEMMA RenewLeaseStep ==
  ASSUME MapInv, NEW a \in Callers, RenewLease(a)
  PROVE  MapInv' /\ (Follows \/ UNCHANGED entries)
<1> DEFINE new == [e \in entries |-> IF HeldBy(e, a) THEN [e EXCEPT !.until = clock + LeaseTime] ELSE e]
<1>0. entries \subseteq MapEntry /\ (\A d \in entries : d.at <= clock) /\ clock + LeaseTime \in Nat
  BY MapNumbers DEF MapInv, InOrder
<1>1. entries' = {new[e] : e \in entries}
  BY DEF RenewLease
<1>2. \A d \in entries :
        /\ new[d] \in MapEntry /\ new[d].key = d.key /\ new[d].place = d.place /\ new[d].at = d.at
        /\ new[d].by = d.by /\ (new[d].record <=> d.record) /\ (d.record => new[d] = d)
  BY <1>0 DEF MapEntry, HeldBy
<1>3. Changed(new, entries')
  <2>1. new \in [entries -> MapEntry]
    BY <1>2
  <2> QED BY <1>0, <1>1, <1>2, <2>1 DEF Changed
<1> HIDE DEF new
<1>4. InOrder(entries') /\ Few(entries')
  BY <1>3, MapChanges
<1>5. Follows
  BY <1>1, <1>2 DEF Follows
<1> QED BY <1>4, <1>5 DEF RenewLease, MapInv, InOrder, Few

LEMMA PutRecordStep ==
  ASSUME MapInv, NEW a \in Callers, PutRecord(a)
  PROVE  MapInv' /\ (Follows \/ UNCHANGED entries)
<1>1. CASE ~Mine(a)
  BY <1>1 DEF PutRecord, MapInv, InOrder, Few
<1>2. CASE Mine(a)
  <2>1. doing[a] = "put" /\ (\E d \in entries : HeldBy(d, a)) /\ entries' = Recorded(a)
    BY <1>2 DEF PutRecord, Mine
  <2>2. InOrder(entries') /\ Few(entries') /\ Follows
    <3>1. CASE runtime = "kt"
      BY <2>1, <3>1, KtInserting DEF Recorded
    <3>2. CASE runtime # "kt"
      <4>1. NewEntry(a, TRUE).key = CallerKey[a]
        BY NewEntryIs DEF MapInv
      <4>2. entries' = Swept(AtTheEnd(Without(entries, CallerKey[a]), NewEntry(a, TRUE)))
        BY <2>1, <3>2, <4>1 DEF Recorded
      <4> QED BY <2>1, <4>2, TsRecording
    <3> QED BY <3>1, <3>2
  <2> QED BY <2>2 DEF PutRecord, MapInv, InOrder, Few
<1> QED BY <1>1, <1>2

LEMMA ReleaseKeyStep ==
  ASSUME MapInv, NEW a \in Callers, ReleaseKey(a)
  PROVE  MapInv' /\ (Follows \/ UNCHANGED entries)
<1>1. CASE ~Mine(a)
  BY <1>1 DEF ReleaseKey, MapInv, InOrder, Few
<1>2. CASE Mine(a)
  <2>1. entries' = Without(entries, CallerKey[a]) /\ entries' \in SUBSET entries
    BY <1>2 DEF ReleaseKey, Without
  <2>2. InOrder(entries') /\ Few(entries')
    BY <2>1, MapShrinks DEF MapInv
  <2>3. \A d \in entries : d.key # CallerKey[a] => d \in entries'
    BY <2>1 DEF Without
  <2>4. \A d \in entries : d.key = CallerKey[a] => doing[d.by] = "release"
    BY <1>2 DEF Mine, HeldBy, MapInv, InOrder, ReleaseKey
  <2>5. Follows
    BY <2>1, <2>3, <2>4 DEF Follows
  <2> QED BY <2>2, <2>5 DEF ReleaseKey, MapInv, InOrder, Few
<1> QED BY <1>1, <1>2

LEMMA MapSteps == MapInv /\ [MemNext]_memVars => MapInv' /\ (Follows \/ UNCHANGED entries)
<1> SUFFICES ASSUME MapInv, [MemNext]_memVars PROVE MapInv' /\ (Follows \/ UNCHANGED entries)
  OBVIOUS
<1>1. ASSUME UNCHANGED <<runtime, entries>>, clock' \in Nat, clock <= clock' PROVE MapInv' /\ UNCHANGED entries
  <2>1. \A e \in entries : e.at <= clock'
    BY <1>1 DEF MapInv, InOrder, MapEntry
  <2> QED BY <1>1, <2>1 DEF MapInv, InOrder, Few
<1>2. clock \in Nat /\ clock <= clock
  BY DEF MapInv
<1>3. CASE \E a \in Callers : AskAgain(a) \/ Resolver(a)
  BY <1>1, <1>2, <1>3 DEF AskAgain, Resolver
<1>4. CASE TimePasses
  BY <1>1, <1>2, <1>4 DEF TimePasses
<1>5. CASE UNCHANGED memVars
  BY <1>1, <1>2, <1>5 DEF memVars
<1> QED BY <1>3, <1>4, <1>5, ClaimKeyStep, RenewLeaseStep, PutRecordStep, ReleaseKeyStep DEF MemNext

\* A map that follows itself is a step of the store it stands for.
LEMMA SlotsFollow ==
  ASSUME MapInv, MapInv', Follows
  PROVE  Shared!Next
<1> DEFINE slot == [k \in CallerKeys |-> Slot(k)]
           over == {e.key : e \in {d \in entries : IF d.record THEN Expired(d) ELSE ~Runs(d)}}
           leaving == {a \in Callers : doing[a] \in {"release", "put"}}
<1>1. \A k \in CallerKeys :
        \/ (\A e \in entries : e.key # k) /\ Slot(k) = [st |-> "free", by |-> Nobody]
        \/ \E e \in entries : e.key = k /\ Slot(k) = [st |-> IF e.record THEN "done" ELSE "held", by |-> e.by]
  <2> SUFFICES ASSUME NEW k \in CallerKeys, NEW e \in entries, e.key = k
               PROVE  \E d \in entries : d.key = k /\ Slot(k) = [st |-> IF d.record THEN "done" ELSE "held", by |-> d.by]
    BY Zenon DEF Slot
  <2> DEFINE d == CHOOSE f \in entries : f.key = k
  <2>1. d \in entries /\ d.key = k
    OBVIOUS
  <2>2. Slot(k) = [st |-> IF d.record THEN "done" ELSE "held", by |-> d.by]
    BY Zenon DEF Slot
  <2> QED BY <2>1, <2>2
<1>2. \A k \in CallerKeys :
        \/ (\A e \in entries' : e.key # k) /\ Slot(k)' = [st |-> "free", by |-> Nobody]
        \/ \E e \in entries' : e.key = k /\ Slot(k)' = [st |-> IF e.record THEN "done" ELSE "held", by |-> e.by]
  <2> SUFFICES ASSUME NEW k \in CallerKeys, NEW e \in entries', e.key = k
               PROVE  \E d \in entries' : d.key = k /\ Slot(k)' = [st |-> IF d.record THEN "done" ELSE "held", by |-> d.by]
    BY Zenon DEF Slot
  <2> DEFINE d == CHOOSE f \in entries' : f.key = k
  <2>1. d \in entries' /\ d.key = k
    OBVIOUS
  <2>2. Slot(k)' = [st |-> IF d.record THEN "done" ELSE "held", by |-> d.by]
    BY Zenon DEF Slot
  <2> QED BY <2>1, <2>2
<1>3. \A d, e \in entries : d.key = e.key => d = e
  BY DEF MapInv, InOrder
<1>4. /\ \A e \in entries : e.by \in Callers /\ e.record \in BOOLEAN
      /\ \A e \in entries' : e.by \in Callers /\ e.record \in BOOLEAN
  BY DEF MapInv, InOrder, MapEntry
<1>5. \A d \in entries : IF d.record THEN Expired(d) => d.key \in over ELSE ~Runs(d) => d.key \in over
  OBVIOUS
<1>6. \A a \in Callers : doing[a] \in {"put", "release"} => a \in leaving
  OBVIOUS
<1>7. ASSUME NEW k \in CallerKeys
      PROVE  \/ Slot(k)' = Slot(k)
             \/ \E a \in Callers : (Slot(k) = [st |-> "free", by |-> Nobody] \/ k \in over) /\ Slot(k)' = [st |-> "held", by |-> a]
             \/ Slot(k).st = "held" /\ Slot(k)' = [Slot(k) EXCEPT !.st = "done"]
             \/ (Slot(k).st = "done" \/ k \in over \/ Slot(k).by \in leaving) /\ Slot(k)' = [st |-> "free", by |-> Nobody]
  <2> HIDE DEF over, leaving
  <2>1. CASE \A e \in entries' : e.key # k
    <3>1. Slot(k)' = [st |-> "free", by |-> Nobody]
      BY <1>2, <2>1
    <3>2. CASE \A d \in entries : d.key # k
      BY <1>1, <3>1, <3>2
    <3>3. CASE \E d \in entries : d.key = k
      <4>1. PICK d \in entries : d.key = k /\ Slot(k) = [st |-> IF d.record THEN "done" ELSE "held", by |-> d.by]
        BY <1>1, <3>3
      <4>2. ~Runs(d) \/ doing[d.by] \in {"put", "release"}
        BY <2>1, <4>1 DEF Follows
      <4>3. d.record \/ k \in over \/ d.by \in leaving
        BY <1>4, <1>5, <1>6, <4>1, <4>2
      <4>4. Slot(k).st = "done" \/ k \in over \/ Slot(k).by \in leaving
        BY <4>1, <4>3
      <4> QED BY <3>1, <4>4
    <3> QED BY <3>2, <3>3
  <2>2. CASE \E e \in entries' : e.key = k
    <3>1. PICK e \in entries' : e.key = k /\ Slot(k)' = [st |-> IF e.record THEN "done" ELSE "held", by |-> e.by]
      BY <1>2, <2>2
    <3>2. CASE \E d \in entries : d.key = e.key /\ d.by = e.by /\ (d.record => e.record)
      <4>1. PICK d \in entries : d.key = e.key /\ d.by = e.by /\ (d.record => e.record)
        BY <3>2
      <4>2. Slot(k) = [st |-> IF d.record THEN "done" ELSE "held", by |-> d.by]
        BY <1>1, <1>3, <3>1, <4>1
      <4>3. CASE d.record \/ ~e.record
        BY <3>1, <4>1, <4>2, <4>3
      <4>4. CASE ~d.record /\ e.record
        <5>1. Slot(k) = [st |-> "held", by |-> d.by] /\ Slot(k)' = [st |-> "done", by |-> d.by]
          BY <3>1, <4>1, <4>2, <4>4
        <5> QED BY <5>1
      <4> QED BY <4>3, <4>4
    <3>3. CASE ~e.record /\ \A d \in entries : d.key = e.key => ~Runs(d) /\ (d.record => Expired(d))
      <4>1. Slot(k)' = [st |-> "held", by |-> e.by] /\ e.by \in Callers
        BY <1>4, <3>1, <3>3
      <4>2. Slot(k) = [st |-> "free", by |-> Nobody] \/ k \in over
        BY <1>1, <1>5, <3>1, <3>3
      <4> QED BY <4>1, <4>2
    <3> QED BY <3>2, <3>3 DEF Follows
  <2> QED BY <2>1, <2>2
<1>8. ASSUME NEW k \in CallerKeys
      PROVE  Slot(k)' \in [st : {"free", "held", "done"}, by : Callers \union {Nobody}]
  BY <1>2, <1>4
<1>9. slot' \in [CallerKeys -> [st : {"free", "held", "done"}, by : Callers \union {Nobody}]]
  BY <1>8
<1>10. \A k \in CallerKeys : slot[k] = Slot(k) /\ slot'[k] = Slot(k)'
  OBVIOUS
<1> HIDE DEF slot, over, leaving
<1>11. \A k \in CallerKeys :
         \/ slot'[k] = slot[k]
         \/ \E a \in Callers : (slot[k] = [st |-> "free", by |-> Nobody] \/ k \in over) /\ slot'[k] = [st |-> "held", by |-> a]
         \/ slot[k].st = "held" /\ slot'[k] = [slot[k] EXCEPT !.st = "done"]
         \/ (slot[k].st = "done" \/ k \in over \/ slot[k].by \in leaving) /\ slot'[k] = [st |-> "free", by |-> Nobody]
  BY <1>7, <1>10
<1> QED BY <1>9, <1>11, Zenon DEF slot, over, leaving, Shared!Next, Shared!KeyStep, Shared!Claim, Shared!Record, Shared!GiveUp, Shared!Free

\* The store in memory keeps the promises of the shared one for any callers, keys,
\* bound and times: every call of it maps to a step of KeyStore, or to none.
THEOREM MemoryStoreImplements == MemSpec => MemoryKeepsKeys
<1> DEFINE slot == [k \in CallerKeys |-> Slot(k)]
<1>1. MemInit => Shared!Init
  BY Zenon DEF MemInit, Shared!Init, Slot, Shared!Free
<1>2. MapInv /\ [MemNext]_memVars => [Shared!Next]_slot
  <2> SUFFICES ASSUME MapInv, [MemNext]_memVars PROVE Shared!Next \/ slot' = slot
    OBVIOUS
  <2>1. CASE UNCHANGED entries
    BY <2>1 DEF Slot
  <2> QED BY <2>1, MapSteps, SlotsFollow
<1>3. MapInv /\ [MemNext]_memVars => MapInv'
  BY MapSteps
<1>4. MemInit => MapInv
  BY MapStart
<1> QED BY <1>1, <1>2, <1>3, <1>4, PTL DEF MemSpec, MemoryKeepsKeys, Shared!Spec

\* The map is bounded whatever arrives, for any bound, lease and time to live: the
\* records never outnumber the bound, and stand in the order of their age.
THEOREM MemoryIsBounded == MemSpec => []RecordsAreBounded
<1>1. MapInv => RecordsAreBounded
  BY DEF MapInv, InOrder, Few, RecordsAreBounded
<1>2. MapInv /\ [MemNext]_memVars => MapInv'
  BY MapSteps
<1> QED BY <1>1, <1>2, MapStart, PTL DEF MemSpec
=============================================================================
