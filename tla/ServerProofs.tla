----------------------------- MODULE ServerProofs -----------------------------
(* Proofs about ServerWire for any number of batches, connections, responses *)
(* and ids: the count drain() waits on, and answers that come through; and,  *)
(* at the end, about KtServer: its counts, its drain and its sessions.       *)
EXTENDS ServerWire, KtServer, FiniteSetTheorems, TLAPS

-----------------------------------------------------------------------------
(* The frames in a sink                                                      *)

Frames(s) == {s[j] : j \in 1..Len(s)}
Once(s) == \A j, k \in 1..Len(s) : s[j] = s[k] => j = k

LEMMA NoFrames == Frames(<<>>) = {} /\ Once(<<>>)
BY DEF Frames, Once

LEMMA FirstFrame ==
  ASSUME NEW S, NEW s \in Seq(S), s # <<>>
  PROVE  /\ Head(s) \in S /\ Tail(s) \in Seq(S)
         /\ Frames(s) = {Head(s)} \union Frames(Tail(s))
         /\ Once(s) => Once(Tail(s)) /\ Head(s) \notin Frames(Tail(s))
<1>1. Len(s) \in Nat /\ Len(s) >= 1 /\ Head(s) = s[1] /\ Head(s) \in S
  OBVIOUS
<1>2. Tail(s) \in Seq(S) /\ Len(Tail(s)) = Len(s) - 1 /\ \A j \in 1..(Len(s) - 1) : Tail(s)[j] = s[j + 1]
  OBVIOUS
<1>3. Frames(s) = {Head(s)} \union Frames(Tail(s))
  <2>1. \A j \in 1..Len(s) : j = 1 \/ (j - 1 \in 1..(Len(s) - 1) /\ Tail(s)[j - 1] = s[j])
    BY <1>1, <1>2
  <2>2. \A j \in 1..(Len(s) - 1) : j + 1 \in 1..Len(s)
    BY <1>1
  <2>3. 1 \in 1..Len(s)
    BY <1>1
  <2> QED
    BY <1>1, <1>2, <2>1, <2>2, <2>3 DEF Frames
<1>4. ASSUME Once(s) PROVE Once(Tail(s)) /\ Head(s) \notin Frames(Tail(s))
  <2>1. \A j \in 1..(Len(s) - 1) : j + 1 \in 1..Len(s) /\ 1 \in 1..Len(s) /\ j + 1 # 1
    BY <1>1
  <2>2. Once(Tail(s))
    <3> SUFFICES ASSUME NEW j \in 1..(Len(s) - 1), NEW k \in 1..(Len(s) - 1), Tail(s)[j] = Tail(s)[k] PROVE j = k
      BY <1>2 DEF Once
    <3>1. s[j + 1] = s[k + 1]
      BY <1>2
    <3>2. j + 1 = k + 1
      BY <1>4, <2>1, <3>1 DEF Once
    <3> QED
      BY <3>2
  <2>3. \A j \in 1..(Len(s) - 1) : s[j + 1] # s[1]
    BY <1>4, <2>1 DEF Once
  <2>4. Head(s) \notin Frames(Tail(s))
    BY <1>1, <1>2, <2>3 DEF Frames
  <2> QED
    BY <2>2, <2>4
<1> QED
  BY <1>1, <1>2, <1>3, <1>4

LEMMA MoreFrames ==
  ASSUME NEW S, NEW s \in Seq(S), NEW x \in S
  PROVE  /\ Append(s, x) \in Seq(S)
         /\ Frames(Append(s, x)) = Frames(s) \union {x}
         /\ Once(s) /\ x \notin Frames(s) => Once(Append(s, x))
<1> DEFINE t == Append(s, x)
<1>1. t \in Seq(S) /\ Len(s) \in Nat /\ Len(t) = Len(s) + 1 /\ t[Len(s) + 1] = x /\ \A j \in 1..Len(s) : t[j] = s[j]
  OBVIOUS
<1>2. \A j \in 1..(Len(s) + 1) : j \in 1..Len(s) \/ j = Len(s) + 1
  BY <1>1
<1>3. Len(s) + 1 \in 1..(Len(s) + 1) /\ \A j \in 1..Len(s) : j \in 1..(Len(s) + 1)
  BY <1>1
<1> HIDE DEF t
<1>4. Frames(t) = Frames(s) \union {x}
  BY <1>1, <1>2, <1>3 DEF Frames
<1>5. Once(s) /\ x \notin Frames(s) => Once(t)
  BY <1>1, <1>2, <1>3 DEF Frames, Once
<1> QED
  BY <1>1, <1>4, <1>5 DEF t

LEMMA FramesAreOf == ASSUME NEW S, NEW s \in Seq(S) PROVE Frames(s) \subseteq S
BY DEF Frames

-----------------------------------------------------------------------------
(* What a step does to a batch                                               *)

\* Whether what a batch says still reaches whoever asked.
Open(b) ==
  IF b \in HttpBatches THEN body[b] = "open" /\ ~overflow[b] ELSE ConnOf[b] \in Conns /\ sock[ConnOf[b]] = "open"
Said(b) == IF Head(sink[b]) = 0 THEN OpsOf[b] ELSE {Head(sink[b])}

Same(b) ==
  /\ run'[b] = run[b] /\ left'[b] = left[b] /\ sink'[b] = sink[b] /\ reader'[b] = reader[b]
  /\ answered'[b] = answered[b]
Turned(b) ==
  /\ run[b] = "new" /\ run'[b] = "turned" /\ answered'[b] \subseteq OpsOf[b]
  /\ left'[b] = left[b] /\ sink'[b] = sink[b] /\ reader'[b] = reader[b]
Started(b) ==
  /\ run[b] = "new" /\ run'[b] = "running" /\ left'[b] = OpsOf[b] /\ reader'[b] = "reading"
  /\ sink'[b] = sink[b] /\ answered'[b] = answered[b]
Pushes(b, f) == sink'[b] = IF reader[b] = "read" THEN sink[b] ELSE Append(sink[b], f)
Refused(b) ==
  /\ run[b] = "running" /\ left[b] = OpsOf[b] /\ run'[b] = "over" /\ left'[b] = {} /\ Pushes(b, 0)
  /\ reader'[b] = reader[b] /\ answered'[b] = answered[b]
Ended(b, i) ==
  /\ run[b] = "running" /\ i \in left[b] /\ left'[b] = left[b] \ {i} /\ Pushes(b, i)
  /\ run'[b] = IF left[b] = {i} THEN "over" ELSE "running"
  /\ reader'[b] = reader[b] /\ answered'[b] = answered[b]
Settled(b) ==
  /\ run[b] = "over" /\ run'[b] = "settled"
  /\ left'[b] = left[b] /\ sink'[b] = sink[b] /\ reader'[b] = reader[b] /\ answered'[b] = answered[b]
Taken(b) ==
  /\ reader[b] = "reading" /\ sink[b] # <<>> /\ sink'[b] = Tail(sink[b])
  /\ answered'[b] = answered[b] \/ answered'[b] = answered[b] \union Said(b)
  /\ Open(b) => answered'[b] = answered[b] \union Said(b)
  /\ run'[b] = run[b] /\ left'[b] = left[b] /\ reader'[b] = reader[b]
Done(b) ==
  /\ reader[b] = "reading" /\ reader'[b] = "read"
  /\ sink'[b] = sink[b] \/ sink'[b] = <<>>
  /\ FramesOver(b) \/ ~Open(b)
  /\ run'[b] = run[b] /\ left'[b] = left[b] /\ answered'[b] = answered[b]

CountedOff(b) == (Settled(b) /\ reader[b] = "read") \/ (Done(b) /\ run[b] = "settled")
FlightOf(b) ==
  \/ (Same(b) \/ Turned(b) \/ Refused(b) \/ (\E i \in Ids : Ended(b, i)) \/ Taken(b)) /\ active' = active
  \/ Started(b) /\ active' = active + 1
  \/ Settled(b) /\ active' = IF reader[b] = "read" THEN active - 1 ELSE active
  \/ Done(b) /\ active' = IF run[b] = "settled" THEN active - 1 ELSE active
FlightStep(b) == FlightOf(b) /\ \A o \in Batches : o # b => Same(o)
Quiet == active' = active /\ \A o \in Batches : Same(o)

-----------------------------------------------------------------------------
(* What holds of every batch on its way                                      *)

Stage(b) ==
  /\ run[b] \in {"new", "turned", "running", "over", "settled"} /\ reader[b] \in {"none", "reading", "read"}
  /\ left[b] \subseteq OpsOf[b] /\ answered[b] \subseteq OpsOf[b] /\ sink[b] \in Seq(OpsOf[b] \union {0})
  /\ reader[b] = "none" <=> run[b] \in {"new", "turned"}
  /\ run[b] = "new" => sink[b] = <<>> /\ answered[b] = {}
  /\ run[b] \in {"over", "settled"} => left[b] = {}
\* A reader is told of every op once: by its last frame, or by the batch's.
Fresh(b) ==
  reader[b] = "reading" =>
    /\ Once(sink[b])
    /\ answered[b] \intersect (Frames(sink[b]) \union left[b]) = {} /\ Frames(sink[b]) \intersect left[b] = {}
    /\ 0 \in Frames(sink[b]) => left[b] = {} /\ Frames(sink[b]) = {0}
\* As long as it is heard, nothing of a batch is lost on the way to its reader.
Covered(b) ==
  (reader[b] = "reading" /\ Open(b)) =>
    OpsOf[b] \subseteq answered[b] \union Frames(sink[b]) \union left[b] \/ 0 \in Frames(sink[b])
Flights == \A b \in Batches : Stage(b) /\ Fresh(b) /\ Covered(b)
Count == active \in Nat /\ active = Cardinality(InFlight)

LEMMA OpsNamed == \A b \in Batches : OpsOf[b] \subseteq Ids /\ OpsOf[b] # {} /\ 0 \notin OpsOf[b]
BY IdsArePositive, OpsAreIds

LEMMA StageKept ==
  ASSUME NEW b \in Batches, Stage(b), FlightOf(b)
  PROVE  Stage(b)'
<1> DEFINE S == OpsOf[b] \union {0}
<1>1. sink[b] \in Seq(S) /\ OpsOf[b]' = OpsOf[b]
  BY DEF Stage
<1>2. ASSUME NEW f \in S, Pushes(b, f) PROVE sink'[b] \in Seq(S)
  BY <1>1, <1>2, MoreFrames DEF Pushes
<1>3. CASE Same(b)
  BY <1>3 DEF Stage, Same
<1>4. CASE Turned(b)
  BY <1>4 DEF Stage, Turned
<1>5. CASE Started(b)
  BY <1>5 DEF Stage, Started
<1>6. CASE Refused(b)
  <2>1. sink'[b] \in Seq(S)
    BY <1>2, <1>6 DEF Refused
  <2> QED
    BY <1>6, <2>1 DEF Stage, Refused
<1>7. ASSUME NEW i \in Ids, Ended(b, i) PROVE Stage(b)'
  <2>1. sink'[b] \in Seq(S)
    BY <1>2, <1>7 DEF Ended, Stage
  <2> QED
    BY <1>7, <2>1 DEF Stage, Ended
<1>8. CASE Settled(b)
  BY <1>8 DEF Stage, Settled
<1>9. CASE Taken(b)
  <2>1. Tail(sink[b]) \in Seq(S) /\ Head(sink[b]) \in S
    BY <1>1, <1>9, FirstFrame DEF Taken
  <2>2. answered'[b] \subseteq OpsOf[b]
    BY <1>9, <2>1 DEF Taken, Said, Stage
  <2>3. run[b] # "new"
    BY <1>9 DEF Taken, Stage
  <2> QED
    BY <1>9, <2>1, <2>2, <2>3 DEF Stage, Taken
<1>10. CASE Done(b)
  <2>1. sink'[b] \in Seq(S)
    <3>1. <<>> \in Seq(S)
      OBVIOUS
    <3> QED
      BY <1>1, <1>10, <3>1 DEF Done
  <2>2. run[b] # "new"
    BY <1>10 DEF Done, Stage
  <2> QED
    BY <1>10, <2>1, <2>2 DEF Stage, Done
<1> QED
  BY <1>3, <1>4, <1>5, <1>6, <1>7, <1>8, <1>9, <1>10 DEF FlightOf

LEMMA FreshKept ==
  ASSUME NEW b \in Batches, Stage(b), Fresh(b), FlightOf(b)
  PROVE  Fresh(b)'
<1> DEFINE S == OpsOf[b] \union {0}
           s == sink[b]
<1> SUFFICES ASSUME reader'[b] = "reading"
    PROVE /\ Once(sink'[b])
          /\ answered'[b] \intersect (Frames(sink'[b]) \union left'[b]) = {} /\ Frames(sink'[b]) \intersect left'[b] = {}
          /\ 0 \in Frames(sink'[b]) => left'[b] = {} /\ Frames(sink'[b]) = {0}
  BY DEF Fresh, Once, Frames
<1>1. /\ s \in Seq(S) /\ left[b] \subseteq OpsOf[b] /\ answered[b] \subseteq OpsOf[b] /\ 0 \notin OpsOf[b] /\ OpsOf[b] # {}
      /\ Frames(s) \subseteq S
  BY OpsNamed, FramesAreOf DEF Stage
<1>2. CASE Same(b)
  BY <1>2 DEF Fresh, Same
<1>3. CASE Turned(b)
  BY <1>3 DEF Turned, Stage
<1>4. CASE Started(b)
  <2>1. s = <<>> /\ answered[b] = {} /\ sink'[b] = s /\ answered'[b] = {}
    BY <1>4 DEF Started, Stage
  <2> QED
    BY <2>1, NoFrames
<1>5. CASE reader[b] # "reading"
  BY <1>5, <1>2, <1>3, <1>4 DEF FlightOf, Refused, Ended, Settled, Taken, Done
<1>6. CASE Refused(b) /\ reader[b] = "reading"
  <2>1. Frames(s) \intersect OpsOf[b] = {} /\ 0 \notin Frames(s) /\ Once(s)
    BY <1>1, <1>6 DEF Fresh, Refused
  <2>2. sink'[b] = Append(s, 0)
    BY <1>6 DEF Refused, Pushes
  <2>3. Frames(sink'[b]) = {0} /\ Once(sink'[b])
    <3>1. Frames(s) = {}
      BY <1>1, <2>1
    <3>2. Frames(Append(s, 0)) = Frames(s) \union {0} /\ Once(Append(s, 0))
      BY <1>1, <2>1, MoreFrames
    <3> QED
      BY <2>2, <3>1, <3>2
  <2> QED
    BY <1>1, <1>6, <2>3 DEF Refused
<1>7. ASSUME NEW i \in Ids, Ended(b, i), reader[b] = "reading"
      PROVE /\ Once(sink'[b])
            /\ answered'[b] \intersect (Frames(sink'[b]) \union left'[b]) = {} /\ Frames(sink'[b]) \intersect left'[b] = {}
            /\ 0 \in Frames(sink'[b]) => left'[b] = {} /\ Frames(sink'[b]) = {0}
  <2>1. i \in left[b] /\ left'[b] = left[b] \ {i} /\ sink'[b] = Append(s, i) /\ answered'[b] = answered[b] /\ i \in S /\ i # 0
    BY <1>1, <1>7 DEF Ended, Pushes
  <2>2. /\ Once(s) /\ answered[b] \intersect (Frames(s) \union left[b]) = {} /\ Frames(s) \intersect left[b] = {}
        /\ 0 \notin Frames(s)
    BY <1>7, <2>1 DEF Fresh
  <2>3. Frames(sink'[b]) = Frames(s) \union {i} /\ Once(sink'[b])
    BY <1>1, <2>1, <2>2, MoreFrames
  <2> QED
    BY <2>1, <2>2, <2>3
<1>8. CASE Settled(b) /\ reader[b] = "reading"
  BY <1>8 DEF Fresh, Settled
<1>9. CASE Taken(b)
  <2>1. /\ s # <<>> /\ sink'[b] = Tail(s) /\ left'[b] = left[b]
        /\ answered'[b] \subseteq answered[b] \union Said(b)
    BY <1>9 DEF Taken
  <2>2. /\ Once(s) /\ answered[b] \intersect (Frames(s) \union left[b]) = {} /\ Frames(s) \intersect left[b] = {}
        /\ 0 \in Frames(s) => left[b] = {} /\ Frames(s) = {0}
    BY <1>9 DEF Fresh, Taken
  <2>3. Frames(s) = {Head(s)} \union Frames(Tail(s)) /\ Once(Tail(s)) /\ Head(s) \notin Frames(Tail(s))
    BY <1>1, <2>1, <2>2, FirstFrame
  <2>4. CASE Head(s) = 0
    <3>1. Frames(Tail(s)) = {} /\ left[b] = {}
      BY <2>2, <2>3, <2>4
    <3> QED
      BY <2>1, <2>3, <3>1
  <2>5. CASE Head(s) # 0
    BY <2>1, <2>2, <2>3, <2>5 DEF Said
  <2> QED
    BY <2>4, <2>5
<1>10. ~Done(b)
  BY DEF Done
<1> QED
  BY <1>2, <1>3, <1>4, <1>5, <1>6, <1>7, <1>8, <1>9, <1>10 DEF FlightOf

\* What is heard was heard before, unless the batch starts.
Heard(b) == Open(b)' => Open(b) \/ Started(b)

LEMMA CoveredKept ==
  ASSUME NEW b \in Batches, Stage(b), Covered(b), FlightOf(b), Heard(b)
  PROVE  Covered(b)'
<1> DEFINE S == OpsOf[b] \union {0}
           s == sink[b]
<1> SUFFICES ASSUME reader'[b] = "reading", Open(b)'
    PROVE OpsOf[b] \subseteq answered'[b] \union Frames(sink'[b]) \union left'[b] \/ 0 \in Frames(sink'[b])
  BY DEF Covered, Frames
<1>1. s \in Seq(S) /\ 0 \in S /\ left[b] \subseteq S
  BY DEF Stage
<1>2. CASE Started(b)
  BY <1>2 DEF Started
<1>3. ASSUME ~Started(b) PROVE Open(b)
  BY <1>3 DEF Heard
<1>4. CASE Turned(b)
  BY <1>4 DEF Turned, Stage
<1>5. CASE reader[b] # "reading"
  BY <1>5, <1>2, <1>4 DEF FlightOf, Same, Refused, Ended, Settled, Taken, Done
<1>6. ASSUME reader[b] = "reading", ~Started(b)
      PROVE OpsOf[b] \subseteq answered[b] \union Frames(s) \union left[b] \/ 0 \in Frames(s)
  BY <1>3, <1>6 DEF Covered
<1>7. CASE (Same(b) \/ Settled(b)) /\ reader[b] = "reading"
  <2>1. ~Started(b) /\ answered'[b] = answered[b] /\ sink'[b] = s /\ left'[b] = left[b]
    BY <1>7 DEF Same, Settled, Started
  <2> QED
    BY <1>6, <1>7, <2>1
<1>8. CASE Refused(b) /\ reader[b] = "reading"
  <2>1. sink'[b] = Append(s, 0)
    BY <1>8 DEF Refused, Pushes
  <2>2. Frames(Append(s, 0)) = Frames(s) \union {0}
    BY <1>1, MoreFrames
  <2> QED
    BY <2>1, <2>2
<1>9. ASSUME NEW i \in Ids, Ended(b, i), reader[b] = "reading"
      PROVE OpsOf[b] \subseteq answered'[b] \union Frames(sink'[b]) \union left'[b] \/ 0 \in Frames(sink'[b])
  <2>1. sink'[b] = Append(s, i) /\ i \in S /\ left'[b] = left[b] \ {i} /\ answered'[b] = answered[b] /\ ~Started(b)
    BY <1>1, <1>9 DEF Ended, Pushes, Started
  <2>2. Frames(Append(s, i)) = Frames(s) \union {i}
    BY <1>1, <2>1, MoreFrames
  <2> QED
    BY <1>6, <1>9, <2>1, <2>2
<1>10. CASE Taken(b)
  <2>1. /\ ~Started(b) /\ reader[b] = "reading" /\ s # <<>> /\ sink'[b] = Tail(s) /\ left'[b] = left[b]
        /\ answered'[b] = answered[b] \union Said(b)
    BY <1>3, <1>10 DEF Taken, Started, Stage
  <2>2. Frames(s) = {Head(s)} \union Frames(Tail(s))
    BY <1>1, <2>1, FirstFrame
  <2>3. CASE Head(s) = 0
    BY <2>1, <2>3 DEF Said
  <2>4. CASE Head(s) # 0
    BY <1>6, <2>1, <2>2, <2>4 DEF Said
  <2> QED
    BY <2>3, <2>4
<1>11. ~Done(b)
  BY DEF Done
<1> QED
  BY <1>2, <1>4, <1>5, <1>7, <1>8, <1>9, <1>10, <1>11 DEF FlightOf

\* One that had its end was told of all its ops.
LEMMA DoneIsTold ==
  ASSUME NEW b \in Batches, Stage(b), Covered(b), Open(b), reader[b] = "reading", FramesOver(b)
  PROVE  answered[b] = OpsOf[b]
BY NoFrames DEF Stage, Covered, FramesOver

-----------------------------------------------------------------------------
(* The count                                                                 *)

InFlightOne(b) == run[b] \in {"running", "over"} \/ (run[b] = "settled" /\ reader[b] = "reading")

LEMMA CountKept ==
  ASSUME Flights, Count, NEW b \in Batches, FlightStep(b)
  PROVE  Count'
<1>1. InFlight \subseteq Batches /\ IsFiniteSet(InFlight) /\ active = Cardinality(InFlight) /\ active \in Nat
  BY BatchesFinite, FS_Subset DEF InFlight, Count
<1>2. Stage(b) /\ (b \in InFlight <=> InFlightOne(b)) /\ (b \in InFlight' <=> InFlightOne(b)')
  BY DEF Flights, InFlight, InFlightOne
<1>3. \A o \in Batches : o # b => (o \in InFlight' <=> o \in InFlight)
  BY DEF FlightStep, Same, InFlight
<1>4. InFlight' \subseteq Batches
  BY DEF InFlight
<1>5. CASE InFlightOne(b)' = InFlightOne(b) /\ active' = active
  <2>1. InFlight' = InFlight
    BY <1>1, <1>2, <1>3, <1>4, <1>5
  <2> QED
    BY <1>1, <1>5, <2>1 DEF Count
<1>6. CASE ~InFlightOne(b) /\ InFlightOne(b)' /\ active' = active + 1
  <2>1. InFlight' = InFlight \union {b} /\ b \notin InFlight
    BY <1>1, <1>2, <1>3, <1>4, <1>6
  <2>2. Cardinality(InFlight') = Cardinality(InFlight) + 1
    BY <1>1, <2>1, FS_AddElement
  <2> QED
    BY <1>1, <1>6, <2>2 DEF Count
<1>7. CASE InFlightOne(b) /\ ~InFlightOne(b)' /\ active' = active - 1
  <2>1. InFlight' = InFlight \ {b} /\ b \in InFlight
    BY <1>1, <1>2, <1>3, <1>4, <1>7
  <2>2. Cardinality(InFlight') = Cardinality(InFlight) - 1 /\ IsFiniteSet(InFlight')
    BY <1>1, <2>1, FS_RemoveElement
  <2>3. Cardinality(InFlight') \in Nat
    BY <2>2, FS_CardinalityType
  <2> QED
    BY <1>1, <1>7, <2>2, <2>3 DEF Count
<1>8. FlightOf(b)
  BY DEF FlightStep
<1>9. CASE Same(b) /\ active' = active
  BY <1>5, <1>9 DEF Same, InFlightOne
<1>10. CASE Turned(b) /\ active' = active
  BY <1>5, <1>10 DEF Turned, InFlightOne
<1>11. CASE Refused(b) /\ active' = active
  BY <1>5, <1>11 DEF Refused, InFlightOne
<1>12. CASE (\E i \in Ids : Ended(b, i)) /\ active' = active
  BY <1>5, <1>12 DEF Ended, InFlightOne
<1>13. CASE Taken(b) /\ active' = active
  BY <1>5, <1>13 DEF Taken, InFlightOne
<1>14. CASE Started(b) /\ active' = active + 1
  BY <1>6, <1>14 DEF Started, InFlightOne
<1>15. CASE Settled(b) /\ active' = IF reader[b] = "read" THEN active - 1 ELSE active
  <2>1. reader[b] \in {"reading", "read"} /\ InFlightOne(b)
    BY <1>2, <1>15 DEF Settled, Stage, InFlightOne
  <2>2. CASE reader[b] = "read"
    BY <1>7, <1>15, <2>1, <2>2 DEF Settled, InFlightOne
  <2>3. CASE reader[b] = "reading"
    BY <1>5, <1>15, <2>1, <2>3 DEF Settled, InFlightOne
  <2> QED
    BY <2>1, <2>2, <2>3
<1>16. CASE Done(b) /\ active' = IF run[b] = "settled" THEN active - 1 ELSE active
  <2>1. run[b] \in {"running", "over", "settled"} /\ InFlightOne(b)
    BY <1>2, <1>16 DEF Done, Stage, InFlightOne
  <2>2. CASE run[b] = "settled"
    BY <1>7, <1>16, <2>1, <2>2 DEF Done, InFlightOne
  <2>3. CASE run[b] # "settled"
    BY <1>5, <1>16, <2>1, <2>3 DEF Done, InFlightOne
  <2> QED
    BY <2>2, <2>3
<1> QED
  BY <1>8, <1>9, <1>10, <1>11, <1>12, <1>13, <1>14, <1>15, <1>16 DEF FlightOf

-----------------------------------------------------------------------------
(* What each action does: the batch it moves, the types, and the count       *)

Runs == {"new", "turned", "running", "over", "settled"}
FlightTypes ==
  /\ run \in [Batches -> Runs] /\ left \in [Batches -> SUBSET Ids] /\ sink \in [Batches -> Seq(Ids \union {0})]
  /\ reader \in [Batches -> {"none", "reading", "read"}] /\ answered \in [Batches -> SUBSET Ids]
LifeTypes ==
  /\ stopped \in [Batches -> SUBSET Ids] /\ draining \in BOOLEAN
  /\ drain \in [Drains -> {"uncalled", "waiting", "drained", "late"}]
  /\ relay \in {"none", "pending", "listening", "failed"} /\ hears \in BOOLEAN
  /\ closing \in {"uncalled", "waiting", "done"}
ConnTypes ==
  /\ sock \in [Conns -> {"open", "ended", "left", "gone"}] /\ ops \in [Conns -> [Ids -> Batches \union {NoOne}]]
  /\ ending \in [Conns -> {"no", "away", "expired"}] /\ expired \in [Conns -> BOOLEAN]
  /\ latest \in [Conns -> [Ids -> Batches \union {NoOne}]]
HttpTypes ==
  /\ body \in [HttpBatches -> {"none", "accepted", "open", "closed", "errored", "canceled"}]
  /\ overflow \in [HttpBatches -> BOOLEAN]
Typed == FlightTypes /\ LifeTypes /\ ConnTypes /\ HttpTypes /\ shutdown \in {"no", "draining", "closing", "stopping"}

\* Nobody is told that all is drained while the count is not zero.
DrainsRight == \A d \in Drains : drain[d] # "drained" /\ drain'[d] = "drained" => active' = 0

LEMMA QuietFlight ==
  ASSUME UNCHANGED <<run, left, sink, reader, answered, active>> PROVE Quiet /\ (FlightTypes => FlightTypes')
BY DEF Quiet, Same, FlightTypes

LEMMA CountsOff ==
  ASSUME LifeTypes, active \in Nat, CountOff
  PROVE  active' = active - 1 /\ drain' \in [Drains -> {"uncalled", "waiting", "drained", "late"}] /\ DrainsRight
BY DEF LifeTypes, CountOff, DrainsRight

LEMMA NoDrain == ASSUME UNCHANGED drain PROVE DrainsRight
BY DEF DrainsRight

LEMMA SinkTyped == ASSUME FlightTypes, NEW b \in Batches, NEW f \in Ids \union {0} PROVE Pushed(b, f) \in [Batches -> Seq(Ids \union {0})]
<1>1. Append(sink[b], f) \in Seq(Ids \union {0})
  BY DEF FlightTypes
<1> QED
  BY <1>1 DEF Pushed, FlightTypes

LEMMA PushedIs ==
  ASSUME FlightTypes, NEW b \in Batches, NEW f, sink' = Pushed(b, f)
  PROVE  Pushes(b, f) /\ \A o \in Batches : o # b => sink'[o] = sink[o]
BY DEF Pushed, Pushes, FlightTypes

LEMMA RefuseEnvelopeStep ==
  ASSUME FlightTypes, NEW b \in Batches, RefuseEnvelope(b)
  PROVE  FlightTypes' /\ FlightStep(b)
<1>1. Pushed(b, 0) \in [Batches -> Seq(Ids \union {0})]
  BY SinkTyped
<1>2. Pushes(b, 0) /\ \A o \in Batches : o # b => sink'[o] = sink[o]
  BY PushedIs DEF RefuseEnvelope
<1>3. FlightTypes'
  BY <1>1 DEF RefuseEnvelope, FlightTypes, Runs
<1>4. Refused(b) /\ active' = active
  BY <1>2 DEF RefuseEnvelope, Refused, FlightTypes, drainVars
<1>5. \A o \in Batches : o # b => Same(o)
  BY <1>2 DEF RefuseEnvelope, Same, FlightTypes
<1> QED
  BY <1>3, <1>4, <1>5 DEF FlightStep, FlightOf

LEMMA OpEndsStep ==
  ASSUME FlightTypes, NEW b \in Batches, NEW i \in Ids, OpEnds(b, i)
  PROVE  FlightTypes' /\ FlightStep(b)
<1>1. Pushed(b, i) \in [Batches -> Seq(Ids \union {0})]
  BY SinkTyped
<1>2. Pushes(b, i) /\ \A o \in Batches : o # b => sink'[o] = sink[o]
  BY PushedIs DEF OpEnds
<1>3. run' = [run EXCEPT ![b] = IF left[b] = {i} THEN "over" ELSE "running"]
  BY DEF OpEnds
<1>4. FlightTypes'
  <2>1. run' \in [Batches -> Runs]
    BY <1>3 DEF FlightTypes, Runs
  <2>2. left' \in [Batches -> SUBSET Ids]
    BY DEF OpEnds, FlightTypes
  <2> QED
    BY <1>1, <2>1, <2>2 DEF OpEnds, FlightTypes
<1>5. Ended(b, i) /\ active' = active
  BY <1>2, <1>3 DEF OpEnds, Ended, FlightTypes, drainVars
<1>6. \A o \in Batches : o # b => Same(o)
  BY <1>2 DEF OpEnds, Same, FlightTypes
<1> QED
  BY <1>4, <1>5, <1>6 DEF FlightStep, FlightOf

LEMMA SettleStep ==
  ASSUME FlightTypes, LifeTypes, active \in Nat, NEW b \in Batches, Settle(b)
  PROVE  FlightTypes' /\ LifeTypes' /\ FlightStep(b) /\ DrainsRight
<1>1. FlightTypes'
  BY DEF Settle, FlightTypes, Runs
<1>2. Settled(b) /\ \A o \in Batches : o # b => Same(o)
  BY DEF Settle, Settled, Same, FlightTypes
<1>3. CASE reader[b] = "read"
  <2>1. active' = active - 1 /\ drain' \in [Drains -> {"uncalled", "waiting", "drained", "late"}] /\ DrainsRight
    BY <1>3, CountsOff DEF Settle
  <2> QED
    BY <1>1, <1>2, <1>3, <2>1 DEF FlightStep, FlightOf, LifeTypes, Settle, relayVars
<1>4. CASE reader[b] # "read"
  <2>1. UNCHANGED <<active, drain>>
    BY <1>4 DEF Settle
  <2> QED
    BY <1>1, <1>2, <1>4, <2>1, NoDrain DEF FlightStep, FlightOf, LifeTypes, Settle, relayVars
<1> QED
  BY <1>3, <1>4

\* A step in which the reader of b returns.
LEMMA ReaderIsDoneStep ==
  ASSUME FlightTypes, LifeTypes, active \in Nat, NEW b \in Batches, reader[b] = "reading", ReaderIsDone(b),
         UNCHANGED <<run, left, answered>>, FramesOver(b) \/ ~Open(b),
         sink' = sink \/ sink' = [sink EXCEPT ![b] = <<>>]
  PROVE  FlightTypes' /\ drain' \in [Drains -> {"uncalled", "waiting", "drained", "late"}] /\ FlightStep(b) /\ DrainsRight
<1>1. FlightTypes'
  <2>1. <<>> \in Seq(Ids \union {0})
    OBVIOUS
  <2>2. sink' \in [Batches -> Seq(Ids \union {0})]
    BY <2>1 DEF FlightTypes
  <2> QED
    BY <2>2 DEF ReaderIsDone, FlightTypes
<1>2. Done(b) /\ \A o \in Batches : o # b => Same(o)
  <2>1. sink'[b] = sink[b] \/ sink'[b] = <<>>
    BY DEF FlightTypes
  <2>2. reader'[b] = "read" /\ \A o \in Batches : o # b => reader'[o] = reader[o] /\ sink'[o] = sink[o]
    BY DEF FlightTypes, ReaderIsDone
  <2> QED
    BY <2>1, <2>2 DEF Done, Same
<1>3. CASE run[b] = "settled"
  <2>1. active' = active - 1 /\ drain' \in [Drains -> {"uncalled", "waiting", "drained", "late"}] /\ DrainsRight
    BY <1>3, CountsOff DEF ReaderIsDone
  <2> QED
    BY <1>1, <1>2, <1>3, <2>1 DEF FlightStep, FlightOf
<1>4. CASE run[b] # "settled"
  <2>1. UNCHANGED <<active, drain>>
    BY <1>4 DEF ReaderIsDone
  <2> QED
    BY <1>1, <1>2, <1>4, <2>1, NoDrain DEF FlightStep, FlightOf, LifeTypes
<1> QED
  BY <1>3, <1>4

\* A step in which b is let run.
LEMMA ExecuteStep ==
  ASSUME FlightTypes, NEW b \in Batches, Execute(b), UNCHANGED <<sink, answered>>
  PROVE  FlightTypes' /\ FlightStep(b) /\ Started(b)
<1>1. FlightTypes'
  BY OpsNamed DEF Execute, FlightTypes, Runs
<1>2. Started(b) /\ active' = active + 1 /\ \A o \in Batches : o # b => Same(o)
  BY DEF Execute, Started, Same, FlightTypes
<1> QED
  BY <1>1, <1>2 DEF FlightStep, FlightOf

LEMMA TurnAwayStep ==
  ASSUME FlightTypes, NEW b \in Batches, run[b] = "new", run' = [run EXCEPT ![b] = "turned"],
         UNCHANGED <<left, sink, reader, active>>,
         answered' = answered \/ answered' = [answered EXCEPT ![b] = OpsOf[b]], Stage(b)
  PROVE  FlightTypes' /\ FlightStep(b)
<1>1. FlightTypes'
  BY OpsNamed DEF FlightTypes, Runs
<1>2. Turned(b) /\ \A o \in Batches : o # b => Same(o)
  BY DEF Turned, Same, FlightTypes, Stage
<1> QED
  BY <1>1, <1>2 DEF FlightStep, FlightOf

\* A step in which the reader of b takes a frame.
LEMMA TakeFrameStep ==
  ASSUME FlightTypes, NEW b \in Batches, Stage(b), reader[b] = "reading", sink[b] # <<>>, sink' = [sink EXCEPT ![b] = Tail(@)],
         UNCHANGED <<run, left, reader, active>>,
         answered' = answered \/ answered' = [answered EXCEPT ![b] = @ \union Said(b)],
         Open(b) => answered' = [answered EXCEPT ![b] = @ \union Said(b)]
  PROVE  FlightTypes' /\ FlightStep(b)
<1>1. Tail(sink[b]) \in Seq(Ids \union {0})
  <2>1. sink[b] \in Seq(Ids \union {0})
    BY DEF FlightTypes
  <2> QED
    BY <2>1, FirstFrame
<1>2. Said(b) \subseteq Ids
  <2>1. sink[b] \in Seq(OpsOf[b] \union {0})
    BY DEF Stage
  <2>2. Head(sink[b]) \in OpsOf[b] \union {0}
    BY <2>1, FirstFrame
  <2> QED
    BY <2>2, OpsNamed DEF Said
<1>3. FlightTypes'
  <2>1. sink' \in [Batches -> Seq(Ids \union {0})]
    BY <1>1 DEF FlightTypes
  <2>2. answered' \in [Batches -> SUBSET Ids]
    BY <1>2 DEF FlightTypes
  <2> QED
    BY <2>1, <2>2 DEF FlightTypes
<1>4. Taken(b) /\ \A o \in Batches : o # b => Same(o)
  BY DEF Taken, Same, FlightTypes
<1> QED
  BY <1>3, <1>4 DEF FlightStep, FlightOf

\* No socket and no body opens again, and a body ends well only with its frames.
SocksStay == \A c \in Conns : sock'[c] = "open" => sock[c] = "open"
BodiesStay ==
  \A b \in HttpBatches : (body'[b] = "open" /\ ~overflow'[b]) => (body[b] = "open" /\ ~overflow[b]) \/ Started(b)
EndsWhole ==
  \A b \in HttpBatches : body'[b] = "closed" =>
    body[b] = "closed" \/ (body[b] = "open" /\ ~overflow[b] /\ reader[b] = "reading" /\ FramesOver(b) /\ Done(b))
Moved ==
  /\ Typed' /\ (Quiet \/ \E b \in Batches : FlightStep(b))
  /\ SocksStay /\ BodiesStay /\ EndsWhole /\ DrainsRight

LEMMA SameConns == ASSUME UNCHANGED connVars PROVE SocksStay /\ (ConnTypes => ConnTypes')
BY DEF connVars, SocksStay, ConnTypes
LEMMA SameBodies == ASSUME UNCHANGED httpVars PROVE BodiesStay /\ EndsWhole /\ (HttpTypes => HttpTypes')
BY DEF httpVars, BodiesStay, EndsWhole, HttpTypes

LEMMA BatchMoves ==
  ASSUME Typed, active \in Nat, BatchStep
  PROVE  Moved
<1>1. UNCHANGED <<connVars, httpVars, shutdown>>
  BY DEF BatchStep
<1>2. SocksStay /\ BodiesStay /\ EndsWhole /\ ConnTypes' /\ HttpTypes'
  BY <1>1, SameConns, SameBodies DEF Typed
<1>3. ASSUME NEW b \in Batches, RefuseEnvelope(b) \/ \E i \in Ids : OpEnds(b, i) PROVE Moved
  <2>1. FlightTypes' /\ FlightStep(b)
    BY <1>3, RefuseEnvelopeStep, OpEndsStep DEF Typed
  <2>2. UNCHANGED <<stopped, active, draining, drain, relay, hears, closing>>
    BY <1>3 DEF RefuseEnvelope, OpEnds, drainVars, relayVars
  <2>3. LifeTypes' /\ DrainsRight
    BY <2>2, NoDrain DEF LifeTypes, Typed
  <2> QED
    BY <1>1, <1>2, <2>1, <2>3 DEF Moved, Typed
<1>4. ASSUME NEW b \in Batches, Settle(b) PROVE Moved
  <2>1. FlightTypes' /\ LifeTypes' /\ FlightStep(b) /\ DrainsRight
    BY <1>4, SettleStep DEF Typed
  <2> QED
    BY <1>1, <1>2, <2>1 DEF Moved, Typed
<1> QED
  BY <1>3, <1>4 DEF BatchStep

LEMMA DrainMoves ==
  ASSUME Typed, active \in Nat, NEW d \in Drains, DrainConns(d), UNCHANGED httpVars, shutdown' \in {"no", "draining", "closing", "stopping"}
  PROVE  Moved
<1>1. UNCHANGED <<run, left, sink, reader, stopped, answered, active, relay, hears, closing, ops, expired, latest>>
  BY DEF DrainConns, batchVars, relayVars
<1>2. Quiet /\ FlightTypes' /\ BodiesStay /\ EndsWhole /\ HttpTypes'
  BY <1>1, QuietFlight, SameBodies DEF Typed
<1>3. LifeTypes' /\ DrainsRight
  <2>1. draining' = TRUE /\ drain' = [drain EXCEPT ![d] = IF active = 0 THEN "drained" ELSE "waiting"]
    BY DEF DrainConns, Drain
  <2> QED
    BY <1>1, <2>1 DEF LifeTypes, DrainsRight, Typed
<1>4. ConnTypes' /\ SocksStay
  <2>1. CASE draining
    BY <1>1, <2>1 DEF DrainConns, ConnTypes, SocksStay, Typed
  <2>2. CASE ~draining
    <3>1. GoAway
      BY <2>2 DEF DrainConns
    <3>2. sock' \in [Conns -> {"open", "ended", "left", "gone"}] /\ SocksStay
      BY <3>1 DEF GoAway, ConnTypes, SocksStay, Typed
    <3>3. ending' \in [Conns -> {"no", "away", "expired"}]
      BY <3>1 DEF GoAway, Away, ConnTypes, Typed
    <3> QED
      BY <1>1, <3>2, <3>3 DEF ConnTypes, Typed
  <2> QED
    BY <2>1, <2>2
<1> QED
  BY <1>2, <1>3, <1>4 DEF Moved, Typed

LEMMA LifeMoves ==
  ASSUME Typed, LifeStep
  PROVE  Moved
<1>1. UNCHANGED <<connVars, httpVars, shutdown>>
  BY DEF LifeStep
<1>2. SocksStay /\ BodiesStay /\ EndsWhole /\ ConnTypes' /\ HttpTypes'
  BY <1>1, SameConns, SameBodies DEF Typed
<1>3. UNCHANGED <<run, left, sink, reader, answered, active, stopped, draining>>
  BY DEF LifeStep, DrainTimesOut, RelayListens, RelayFails, CloseEnds, batchVars, drainVars
<1>4. Quiet /\ FlightTypes'
  BY <1>3, QuietFlight DEF Typed
<1>5. LifeTypes' /\ DrainsRight
  <2>1. ASSUME NEW d \in Drains, DrainTimesOut(d) PROVE LifeTypes' /\ DrainsRight
    BY <2>1 DEF DrainTimesOut, batchVars, relayVars, LifeTypes, Typed, DrainsRight
  <2>2. CASE RelayListens \/ RelayFails \/ CloseEnds
    BY <2>2, NoDrain DEF RelayListens, RelayFails, CloseEnds, batchVars, drainVars, LifeTypes, Typed
  <2> QED
    BY <2>1, <2>2 DEF LifeStep
<1> QED
  BY <1>1, <1>2, <1>4, <1>5 DEF Moved, Typed

\* The signals that a connection aborts are those of ops.
LEMMA AbortTyped == ASSUME Typed, NEW c \in Conns, AbortAll(c) PROVE stopped' \in [Batches -> SUBSET Ids]
BY DEF Typed, LifeTypes, AbortAll, OpsOfConn

LEMMA EndingTyped ==
  ASSUME Typed, NEW c \in Conns, NEW why, NEW ids, EndWhenIdle(c, why, ids)
  PROVE  sock' \in [Conns -> {"open", "ended", "left", "gone"}] /\ SocksStay
BY DEF Typed, ConnTypes, EndWhenIdle, SocksStay

LEMMA MessageMoves ==
  ASSUME Typed, Flights, active \in Nat, NEW c \in Conns, NEW b \in Batches, Message(c, b), UNCHANGED <<httpVars, shutdown>>
  PROVE  Moved
<1>1. BodiesStay /\ EndsWhole /\ HttpTypes' /\ UNCHANGED <<relay, hears, closing, shutdown>> /\ run[b] = "new" /\ Stage(b)
  BY SameBodies DEF Typed, Message, relayVars, Flights
<1>2. CASE RefuseTaken(c, b)
  <2>1. /\ run' = [run EXCEPT ![b] = "turned"]
        /\ UNCHANGED <<left, sink, reader, stopped, answered, active, draining, drain, connVars>>
    BY <1>2 DEF RefuseTaken, TurnAway, drainVars
  <2>2. FlightTypes' /\ FlightStep(b)
    BY <1>1, <2>1, TurnAwayStep DEF Typed
  <2>3. SocksStay /\ ConnTypes' /\ DrainsRight
    BY <2>1, SameConns, NoDrain DEF Typed
  <2>4. LifeTypes'
    BY <1>1, <2>1 DEF Typed, LifeTypes
  <2> QED
    BY <1>1, <2>2, <2>3, <2>4 DEF Moved, Typed
<1>3. CASE RefuseExpired(c, b)
  <2>1. /\ run' = [run EXCEPT ![b] = "turned"]
        /\ UNCHANGED <<left, sink, reader, active, draining, drain, ops, expired, latest>>
        /\ answered' = [answered EXCEPT ![b] = IF sock[c] = "open" THEN OpsOf[b] ELSE @]
    BY <1>3 DEF RefuseExpired, TurnAway, drainVars
  <2>2. answered' = answered \/ answered' = [answered EXCEPT ![b] = OpsOf[b]]
    BY <2>1 DEF Typed, FlightTypes
  <2>3. FlightTypes' /\ FlightStep(b)
    BY <1>1, <2>1, <2>2, TurnAwayStep DEF Typed
  <2>4. stopped' \in [Batches -> SUBSET Ids] /\ DrainsRight
    BY <1>3, <2>1, AbortTyped, NoDrain DEF RefuseExpired
  <2>5. LifeTypes'
    BY <1>1, <2>1, <2>4 DEF Typed, LifeTypes
  <2>6. sock' \in [Conns -> {"open", "ended", "left", "gone"}] /\ SocksStay
    BY <1>3, EndingTyped DEF RefuseExpired
  <2>7. ConnTypes'
    BY <1>3, <2>1, <2>6 DEF RefuseExpired, Revoked, Typed, ConnTypes
  <2> QED
    BY <1>1, <2>3, <2>4, <2>5, <2>6, <2>7 DEF Moved, Typed
<1>4. CASE Accept(c, b)
  <2>1. Execute(b) /\ UNCHANGED <<sink, stopped, answered, draining, drain, sock, ending, expired>>
    BY <1>4 DEF Accept
  <2>2. FlightTypes' /\ FlightStep(b) /\ DrainsRight
    BY <2>1, ExecuteStep, NoDrain DEF Typed
  <2>3. LifeTypes' /\ SocksStay
    BY <1>1, <2>1 DEF Typed, LifeTypes, SocksStay
  <2>4. ops' \in [Conns -> [Ids -> Batches \union {NoOne}]] /\ latest' \in [Conns -> [Ids -> Batches \union {NoOne}]]
    BY <1>4 DEF Accept, Typed, ConnTypes
  <2>5. ConnTypes'
    BY <2>1, <2>4 DEF Typed, ConnTypes
  <2> QED
    BY <1>1, <2>2, <2>3, <2>5 DEF Moved, Typed
<1> QED
  BY <1>2, <1>3, <1>4 DEF Message

LEMMA WriteMoves ==
  ASSUME Typed, Flights, active \in Nat, NEW c \in Conns, NEW b \in Batches, Write(c, b) \/ WriteEnds(c, b),
         UNCHANGED <<httpVars, shutdown>>
  PROVE  Moved
<1>1. BodiesStay /\ EndsWhole /\ HttpTypes' /\ UNCHANGED <<relay, hears, closing, shutdown, stopped, draining, latest, expired>>
      /\ Stage(b) /\ b \notin HttpBatches /\ ConnOf[b] = c
  BY SameBodies, OneTransport DEF Typed, Write, WriteEnds, relayVars, drainVars, Flights, WsBatches
<1>2. CASE Write(c, b)
  <2>1. /\ reader[b] = "reading" /\ sink[b] # <<>> /\ sink' = [sink EXCEPT ![b] = Tail(@)]
        /\ UNCHANGED <<run, left, reader, active, drain, sock, ending>>
        /\ answered' = Written(c, b, Said(b))
        /\ ops' = IF Head(sink[b]) = 0 THEN ops ELSE [ops EXCEPT ![c][Head(sink[b])] = NoOne]
    BY <1>2 DEF Write, drainVars, Said
  <2>2. /\ answered' = answered \/ answered' = [answered EXCEPT ![b] = @ \union Said(b)]
        /\ Open(b) => answered' = [answered EXCEPT ![b] = @ \union Said(b)]
    BY <1>1, <2>1 DEF Written, Open, Typed, FlightTypes
  <2>3. FlightTypes' /\ FlightStep(b)
    BY <1>1, <2>1, <2>2, TakeFrameStep DEF Typed
  <2>4. LifeTypes' /\ DrainsRight
    BY <1>1, <2>1, NoDrain DEF Typed, LifeTypes
  <2>5. ops' \in [Conns -> [Ids -> Batches \union {NoOne}]]
    BY <2>1 DEF Typed, ConnTypes
  <2>6. ConnTypes' /\ SocksStay
    BY <1>1, <2>1, <2>5 DEF Typed, ConnTypes, SocksStay
  <2> QED
    BY <1>1, <2>3, <2>4, <2>6 DEF Moved, Typed
<1>3. CASE WriteEnds(c, b)
  <2>1. reader[b] = "reading" /\ FramesOver(b) /\ ReaderIsDone(b) /\ UNCHANGED <<run, left, sink, answered>>
    BY <1>3 DEF WriteEnds
  <2>2. FlightTypes' /\ drain' \in [Drains -> {"uncalled", "waiting", "drained", "late"}] /\ FlightStep(b) /\ DrainsRight
    BY <2>1, ReaderIsDoneStep DEF Typed
  <2>3. LifeTypes'
    BY <1>1, <2>2 DEF Typed, LifeTypes
  <2>4. sock' \in [Conns -> {"open", "ended", "left", "gone"}] /\ SocksStay
    BY <1>3, EndingTyped DEF WriteEnds
  <2>5. ops' \in [Conns -> [Ids -> Batches \union {NoOne}]] /\ ending' \in [Conns -> {"no", "away", "expired"}]
    <3>1. Kept(c, b) \in [Ids -> Batches \union {NoOne}]
      BY DEF Kept, Typed, ConnTypes
    <3>2. Away(c) \in {"no", "away", "expired"}
      BY DEF Away, Typed, ConnTypes
    <3> QED
      BY <1>3, <3>1, <3>2 DEF WriteEnds, Typed, ConnTypes
  <2>6. ConnTypes'
    BY <1>1, <2>4, <2>5 DEF Typed, ConnTypes
  <2> QED
    BY <1>1, <2>2, <2>3, <2>4, <2>6 DEF Moved, Typed
<1> QED
  BY <1>2, <1>3

LEMMA ConnMoves ==
  ASSUME Typed, Flights, active \in Nat, NEW c \in Conns, ConnStep(c)
  PROVE  Moved
<1>1. UNCHANGED <<httpVars, shutdown>>
  BY DEF ConnStep
<1>2. ASSUME NEW b \in Batches, Message(c, b) \/ Write(c, b) \/ WriteEnds(c, b) PROVE Moved
  BY <1>1, <1>2, MessageMoves, WriteMoves
<1>3. ASSUME (\E i \in Ids : Cancel(c, i)) \/ Expire(c) \/ Revoke(c) \/ CloseFrame(c) \/ Gone(c) PROVE Moved
  <2>1. UNCHANGED <<run, left, sink, reader, answered, active, draining, drain, relay, hears, closing, latest>>
    BY <1>3 DEF Cancel, Expire, Revoke, CloseFrame, Gone, StopAll, batchVars, drainVars, relayVars, connVars
  <2>2. Quiet /\ FlightTypes' /\ BodiesStay /\ EndsWhole /\ HttpTypes' /\ DrainsRight
    BY <1>1, <2>1, QuietFlight, SameBodies, NoDrain DEF Typed
  <2>3. stopped' \in [Batches -> SUBSET Ids] /\ ConnTypes' /\ SocksStay
    <3>1. ASSUME NEW i \in Ids, Cancel(c, i) PROVE stopped' \in [Batches -> SUBSET Ids] /\ ConnTypes' /\ SocksStay
      <4>1. ops[c][i] \in Batches
        BY <3>1 DEF Cancel, Typed, ConnTypes
      <4>2. stopped' = [stopped EXCEPT ![ops[c][i]] = @ \union {i}] /\ UNCHANGED connVars
        BY <3>1 DEF Cancel
      <4> QED
        BY <4>1, <4>2, SameConns DEF Typed, LifeTypes
    <3>2. CASE Expire(c)
      BY <3>2 DEF Expire, batchVars, Typed, LifeTypes, ConnTypes, SocksStay
    <3>3. CASE Revoke(c)
      <4>1. stopped' \in [Batches -> SUBSET Ids] /\ sock' \in [Conns -> {"open", "ended", "left", "gone"}] /\ SocksStay
        BY <3>3, AbortTyped, EndingTyped DEF Revoke
      <4> QED
        BY <2>1, <3>3, <4>1 DEF Revoke, Revoked, Typed, ConnTypes
    <3>4. CASE CloseFrame(c) \/ Gone(c)
      <4>1. StopAll(c) /\ (sock' = [sock EXCEPT ![c] = "left"] \/ sock' = [sock EXCEPT ![c] = "gone"])
        BY <3>4 DEF CloseFrame, Gone
      <4>2. stopped' \in [Batches -> SUBSET Ids]
        BY <4>1, AbortTyped DEF StopAll
      <4>3. ops' \in [Conns -> [Ids -> Batches \union {NoOne}]]
        BY <4>1 DEF StopAll, NoOps, Typed, ConnTypes
      <4> QED
        BY <2>1, <4>1, <4>2, <4>3 DEF StopAll, SocksStay, Typed, ConnTypes
    <3> QED
      BY <1>3, <3>1, <3>2, <3>3, <3>4
  <2>4. LifeTypes'
    BY <2>1, <2>3 DEF Typed, LifeTypes
  <2> QED
    BY <1>1, <2>2, <2>3, <2>4 DEF Moved, Typed
<1> QED
  BY <1>2, <1>3 DEF ConnStep

LEMMA HttpMoves ==
  ASSUME Typed, Flights, active \in Nat, NEW b \in HttpBatches, HttpStep(b)
  PROVE  Moved
<1>1. b \in Batches /\ Stage(b) /\ UNCHANGED <<connVars, shutdown>> /\ SocksStay /\ ConnTypes' /\ OpsOf[b] \subseteq Ids
  BY OneTransport, SameConns, OpsNamed DEF HttpStep, Flights, Typed
<1>2. UNCHANGED <<relay, hears, closing, draining>>
  BY DEF HttpStep, Request, Respond, Enqueue, Overflow, EnqueueThrows, Skip, BodyEnds, HangUp, CancelBody, drainVars, relayVars
<1>3. CASE Request(b)
  <2>1. UNCHANGED <<left, sink, reader, stopped, answered, active, drain, overflow>> /\ run[b] = "new" /\ body[b] = "none"
    BY <1>3 DEF Request, drainVars
  <2>2. LifeTypes' /\ DrainsRight
    BY <1>2, <2>1, NoDrain DEF Typed, LifeTypes
  <2>3. CASE draining
    <3>1. run' = [run EXCEPT ![b] = "turned"] /\ body' = body
      BY <1>3, <2>3 DEF Request
    <3>2. FlightTypes' /\ FlightStep(b)
      BY <1>1, <2>1, <3>1, TurnAwayStep DEF Typed
    <3>3. BodiesStay /\ EndsWhole /\ HttpTypes'
      BY <2>1, <3>1 DEF BodiesStay, EndsWhole, HttpTypes, Typed
    <3> QED
      BY <1>1, <2>2, <3>2, <3>3 DEF Moved, Typed
  <2>4. CASE ~draining
    <3>1. body' = [body EXCEPT ![b] = "accepted"] /\ run' = run
      BY <1>3, <2>4 DEF Request
    <3>2. Quiet /\ FlightTypes'
      BY <2>1, <3>1, QuietFlight DEF Typed
    <3>3. BodiesStay /\ EndsWhole /\ HttpTypes'
      BY <2>1, <3>1 DEF BodiesStay, EndsWhole, HttpTypes, Typed
    <3> QED
      BY <1>1, <2>2, <3>2, <3>3 DEF Moved, Typed
  <2> QED
    BY <2>3, <2>4
<1>4. CASE Respond(b)
  <2>1. Execute(b) /\ UNCHANGED <<sink, stopped, answered, drain, overflow>> /\ body' = [body EXCEPT ![b] = "open"]
    BY <1>4 DEF Respond
  <2>2. FlightTypes' /\ FlightStep(b) /\ Started(b)
    BY <1>1, <2>1, ExecuteStep DEF Typed
  <2>3. LifeTypes' /\ DrainsRight
    BY <1>2, <2>1, NoDrain DEF Typed, LifeTypes
  <2>4. BodiesStay /\ EndsWhole /\ HttpTypes'
    BY <2>1, <2>2 DEF BodiesStay, EndsWhole, HttpTypes, Typed
  <2> QED
    BY <1>1, <2>2, <2>3, <2>4 DEF Moved, Typed
<1>5. CASE Enqueue(b)
  <2>1. /\ reader[b] = "reading" /\ sink[b] # <<>> /\ body[b] = "open" /\ sink' = [sink EXCEPT ![b] = Tail(@)]
        /\ UNCHANGED <<run, left, reader, active, drain, body>>
    BY <1>5 DEF Enqueue, drainVars
  <2>2. /\ answered' = answered \/ answered' = [answered EXCEPT ![b] = @ \union Said(b)]
        /\ ~overflow[b] => answered' = [answered EXCEPT ![b] = @ \union Said(b)]
        /\ overflow' = overflow \/ (~overflow[b] /\ \E full \in BOOLEAN : overflow' = [overflow EXCEPT ![b] = full])
        /\ stopped' = stopped \/ stopped' = [stopped EXCEPT ![b] = OpsOf[b]]
    BY <1>5 DEF Enqueue, Said, Stop
  <2>3. FlightTypes' /\ FlightStep(b)
    BY <1>1, <2>1, <2>2, TakeFrameStep DEF Typed, Open
  <2>4. LifeTypes' /\ DrainsRight
    BY <1>1, <1>2, <2>1, <2>2, NoDrain DEF Typed, LifeTypes
  <2>5. BodiesStay /\ EndsWhole /\ HttpTypes'
    BY <2>1, <2>2 DEF BodiesStay, EndsWhole, HttpTypes, Typed
  <2> QED
    BY <1>1, <2>3, <2>4, <2>5 DEF Moved, Typed
<1>6. CASE Overflow(b) \/ HangUp(b) \/ CancelBody(b)
  <2>1. UNCHANGED <<run, left, sink, reader, answered, active, drain>> /\ stopped' = [stopped EXCEPT ![b] = OpsOf[b]]
    BY <1>6 DEF Overflow, HangUp, CancelBody, Stop, drainVars
  <2>2. Quiet /\ FlightTypes' /\ LifeTypes' /\ DrainsRight
    BY <1>1, <1>2, <2>1, QuietFlight, NoDrain DEF Typed, LifeTypes
  <2>3. /\ body' = body \/ body' = [body EXCEPT ![b] = "canceled"]
        /\ overflow' = overflow \/ overflow' = [overflow EXCEPT ![b] = TRUE]
    BY <1>6 DEF Overflow, HangUp, CancelBody, httpVars
  <2>4. BodiesStay /\ EndsWhole /\ HttpTypes'
    BY <2>3 DEF BodiesStay, EndsWhole, HttpTypes, Typed
  <2> QED
    BY <1>1, <2>2, <2>4 DEF Moved, Typed
<1>7. CASE EnqueueThrows(b)
  <2>1. /\ reader[b] = "reading" /\ ReaderIsDone(b) /\ sink' = [sink EXCEPT ![b] = <<>>] /\ body[b] = "canceled"
        /\ UNCHANGED <<run, left, stopped, answered, httpVars>>
    BY <1>7 DEF EnqueueThrows
  <2>2. ~Open(b)
    BY <2>1 DEF Open
  <2>3. FlightTypes' /\ drain' \in [Drains -> {"uncalled", "waiting", "drained", "late"}] /\ FlightStep(b) /\ DrainsRight
    BY <1>1, <2>1, <2>2, ReaderIsDoneStep DEF Typed
  <2>4. LifeTypes' /\ BodiesStay /\ EndsWhole /\ HttpTypes'
    BY <1>2, <2>1, <2>3, SameBodies DEF Typed, LifeTypes
  <2> QED
    BY <1>1, <2>3, <2>4 DEF Moved, Typed
<1>8. CASE Skip(b)
  <2>1. /\ reader[b] = "reading" /\ sink[b] # <<>> /\ body[b] = "canceled" /\ sink' = [sink EXCEPT ![b] = Tail(@)]
        /\ UNCHANGED <<run, left, reader, stopped, answered, active, drain, httpVars>>
    BY <1>8 DEF Skip, drainVars
  <2>2. ~Open(b)
    BY <2>1 DEF Open
  <2>3. FlightTypes' /\ FlightStep(b)
    BY <1>1, <2>1, <2>2, TakeFrameStep DEF Typed
  <2>4. LifeTypes' /\ BodiesStay /\ EndsWhole /\ HttpTypes' /\ DrainsRight
    BY <1>2, <2>1, SameBodies, NoDrain DEF Typed, LifeTypes
  <2> QED
    BY <1>1, <2>3, <2>4 DEF Moved, Typed
<1>9. CASE BodyEnds(b)
  <2>1. /\ reader[b] = "reading" /\ FramesOver(b) /\ ReaderIsDone(b)
        /\ body' = [body EXCEPT ![b] = IF @ = "open" THEN Outcome(b) ELSE @]
        /\ UNCHANGED <<run, left, sink, stopped, answered, overflow>>
    BY <1>9 DEF BodyEnds
  <2>2. FlightTypes' /\ drain' \in [Drains -> {"uncalled", "waiting", "drained", "late"}] /\ FlightStep(b) /\ DrainsRight
    BY <1>1, <2>1, ReaderIsDoneStep DEF Typed
  <2>3. Done(b)
    <3>1. reader'[b] = "read"
      BY <1>1, <2>1 DEF ReaderIsDone, Typed, FlightTypes
    <3> QED
      BY <2>1, <3>1 DEF Done
  <2>4. LifeTypes' /\ HttpTypes'
    BY <1>2, <2>1, <2>2 DEF Typed, LifeTypes, HttpTypes, Outcome
  <2>5. BodiesStay
    BY <2>1 DEF BodiesStay, Outcome, Typed, HttpTypes
  <2>6. EndsWhole
    <3> SUFFICES ASSUME NEW h \in HttpBatches, body'[h] = "closed"
        PROVE body[h] = "closed" \/ (body[h] = "open" /\ ~overflow[h] /\ reader[h] = "reading" /\ FramesOver(h) /\ Done(h))
      BY DEF EndsWhole
    <3>1. CASE h = b
      BY <2>1, <2>3, <3>1 DEF Outcome, Typed, HttpTypes
    <3>2. CASE h # b
      BY <2>1, <3>2 DEF Typed, HttpTypes
    <3> QED
      BY <3>1, <3>2
  <2> QED
    BY <1>1, <2>2, <2>4, <2>5, <2>6 DEF Moved, Typed
<1> QED
  BY <1>3, <1>4, <1>5, <1>6, <1>7, <1>8, <1>9 DEF HttpStep

LEMMA ShutdownMoves ==
  ASSUME Typed, Flights, active \in Nat, Shutdown \/ CloseHttp \/ ForceHttp \/ HttpClosed
  PROVE  Moved
<1>1. CASE Shutdown
  BY <1>1, DrainMoves, ShutdownDrains DEF Shutdown
<1>2. CASE CloseHttp
  <2>1. UNCHANGED <<run, left, sink, reader, stopped, answered, active, draining, drain, relay, hears, closing>>
        /\ UNCHANGED <<connVars, httpVars>> /\ shutdown' = "closing"
    BY <1>2 DEF CloseHttp, batchVars, drainVars, relayVars
  <2>2. Quiet /\ FlightTypes' /\ LifeTypes' /\ DrainsRight
    BY <2>1, QuietFlight, NoDrain DEF Typed, LifeTypes
  <2> QED
    BY <2>1, <2>2, SameConns, SameBodies DEF Moved, Typed
<1>3. CASE ForceHttp
  <2>1. UNCHANGED <<run, left, sink, reader, answered, active, draining, drain, relay, hears, closing, connVars, overflow, shutdown>>
    BY <1>3 DEF ForceHttp, drainVars, relayVars
  <2>2. stopped' \in [Batches -> SUBSET Ids]
    BY <1>3, OpsNamed DEF ForceHttp, Typed, LifeTypes
  <2>3. Quiet /\ FlightTypes' /\ LifeTypes' /\ DrainsRight
    BY <2>1, <2>2, QuietFlight, NoDrain DEF Typed, LifeTypes
  <2>4. BodiesStay /\ EndsWhole /\ HttpTypes'
    BY <1>3, <2>1 DEF ForceHttp, BodiesStay, EndsWhole, HttpTypes, Typed
  <2> QED
    BY <2>1, <2>3, <2>4, SameConns DEF Moved, Typed
<1>4. CASE HttpClosed
  <2>1. UNCHANGED <<run, left, sink, reader, stopped, answered, active, draining, drain, relay, hears, connVars, httpVars>>
        /\ shutdown' = "stopping" /\ closing' \in {"done", "waiting"}
    BY <1>4 DEF HttpClosed, Close, batchVars, drainVars
  <2>2. Quiet /\ FlightTypes' /\ LifeTypes' /\ DrainsRight
    BY <2>1, QuietFlight, NoDrain DEF Typed, LifeTypes
  <2> QED
    BY <2>1, <2>2, SameConns, SameBodies DEF Moved, Typed
<1> QED
  BY <1>1, <1>2, <1>3, <1>4

LEMMA NextMoves == Typed /\ Flights /\ active \in Nat /\ [Next]_vars => Moved
<1> SUFFICES ASSUME Typed, Flights, active \in Nat, [Next]_vars PROVE Moved
  OBVIOUS
<1>1. CASE Next
  <2>1. ASSUME NEW d \in Drains, CallDrain(d) PROVE Moved
    BY <2>1, DrainMoves DEF CallDrain, Typed
  <2> QED
    BY <1>1, <2>1, BatchMoves, LifeMoves, ConnMoves, HttpMoves, ShutdownMoves DEF Next
<1>2. CASE UNCHANGED vars
  <2>1. UNCHANGED <<run, left, sink, reader, stopped, answered, active, draining, drain, relay, hears, closing, connVars, httpVars, shutdown>>
    BY <1>2 DEF vars, batchVars, drainVars, relayVars
  <2>2. Quiet /\ FlightTypes' /\ LifeTypes' /\ DrainsRight
    BY <2>1, QuietFlight, NoDrain DEF Typed, LifeTypes
  <2> QED
    BY <2>1, <2>2, SameConns, SameBodies DEF Moved, Typed
<1> QED
  BY <1>1, <1>2

-----------------------------------------------------------------------------
(* The count, and what was told, after any step                              *)

\* A batch whose reader is done was told of all its ops, where it was heard.
Told ==
  /\ \A b \in HttpBatches : body[b] = "closed" => reader[b] = "read" /\ answered[b] = OpsOf[b]
  /\ \A b \in WsBatches : (Open(b) /\ reader[b] = "read") => answered[b] = OpsOf[b]

LEMMA SameStays ==
  ASSUME NEW b \in Batches, Stage(b), Fresh(b), Covered(b), Same(b), Heard(b)
  PROVE  Stage(b)' /\ Fresh(b)' /\ Covered(b)'
<1>1. Stage(b)'
  BY DEF Stage, Same
<1>3. Fresh(b)'
  <2>1. Once(sink[b])' = Once(sink'[b]) /\ Frames(sink[b])' = Frames(sink'[b])
    BY DEF Once, Frames
  <2> QED
    BY <2>1 DEF Fresh, Same
<1>2. Covered(b)'
  <2>1. ~Started(b)
    BY DEF Started, Same
  <2> QED
    <3> SUFFICES ASSUME reader'[b] = "reading", Open(b)'
        PROVE OpsOf[b] \subseteq answered'[b] \union Frames(sink'[b]) \union left'[b] \/ 0 \in Frames(sink'[b])
      BY DEF Covered, Frames
    <3>1. Open(b) /\ reader[b] = "reading"
      BY <2>1 DEF Heard, Same
    <3> QED
      BY <3>1 DEF Covered, Same
<1> QED
  BY <1>1, <1>2, <1>3

LEMMA FlightsStay == ASSUME Flights, Count, Moved PROVE Flights' /\ Count'
<1>1. \A b \in Batches : Same(b) \/ FlightOf(b)
  BY DEF Moved, Quiet, FlightStep
<1>2. \A b \in Batches : Heard(b)
  <2> SUFFICES ASSUME NEW b \in Batches, Open(b)' PROVE Open(b) \/ Started(b)
    BY DEF Heard
  <2>1. CASE b \in HttpBatches
    BY <2>1 DEF Moved, BodiesStay, Open
  <2>2. CASE b \notin HttpBatches
    BY <2>2 DEF Moved, SocksStay, Open
  <2> QED
    BY <2>1, <2>2
<1>3. Flights'
  <2> SUFFICES ASSUME NEW b \in Batches PROVE Stage(b)' /\ Fresh(b)' /\ Covered(b)'
    BY DEF Flights
  <2>1. Stage(b) /\ Fresh(b) /\ Covered(b) /\ (Same(b) \/ FlightOf(b)) /\ Heard(b)
    BY <1>1, <1>2 DEF Flights
  <2> QED
    BY <2>1, SameStays, StageKept, FreshKept, CoveredKept
<1>4. CASE Quiet
  <2>1. InFlight' = InFlight /\ active' = active
    BY <1>4 DEF Quiet, Same, InFlight
  <2> QED
    BY <1>3, <2>1 DEF Count
<1>5. ASSUME NEW b \in Batches, FlightStep(b) PROVE Count'
  BY <1>5, CountKept
<1> QED
  BY <1>3, <1>4, <1>5 DEF Moved

LEMMA ReadStays ==
  ASSUME NEW b \in Batches, Stage(b), Same(b) \/ FlightOf(b)
  PROVE  /\ reader[b] = "read" => reader'[b] = "read" /\ answered'[b] = answered[b]
         /\ reader'[b] = "read" => reader[b] = "read" \/ Done(b)
<1>1. CASE Same(b)
  BY <1>1 DEF Same
<1>2. CASE Turned(b)
  BY <1>2 DEF Turned, Stage
<1>3. CASE Started(b)
  BY <1>3 DEF Started, Stage
<1>4. CASE Refused(b) \/ (\E i \in Ids : Ended(b, i)) \/ Settled(b)
  BY <1>4 DEF Refused, Ended, Settled
<1>5. CASE Taken(b)
  BY <1>5 DEF Taken
<1>6. CASE Done(b)
  BY <1>6 DEF Done
<1> QED
  BY <1>1, <1>2, <1>3, <1>4, <1>5, <1>6 DEF FlightOf

LEMMA ToldStays == ASSUME Flights, Told, Moved PROVE Told'
<1>1. \A b \in Batches : Same(b) \/ FlightOf(b)
  BY DEF Moved, Quiet, FlightStep
<1>2. ASSUME NEW b \in HttpBatches, body'[b] = "closed" PROVE reader'[b] = "read" /\ answered'[b] = OpsOf[b]
  <2>1. b \in Batches /\ Stage(b) /\ Covered(b) /\ (Same(b) \/ FlightOf(b))
    BY <1>1, OneTransport DEF Flights
  <2>2. CASE body[b] = "closed"
    BY <2>1, <2>2, ReadStays DEF Told
  <2>3. CASE body[b] = "open" /\ ~overflow[b] /\ reader[b] = "reading" /\ FramesOver(b) /\ Done(b)
    <3>1. answered[b] = OpsOf[b]
      BY <2>1, <2>3, DoneIsTold DEF Open
    <3> QED
      BY <2>3, <3>1 DEF Done
  <2> QED
    BY <1>2, <2>2, <2>3 DEF Moved, EndsWhole
<1>3. ASSUME NEW b \in WsBatches, Open(b)', reader'[b] = "read" PROVE answered'[b] = OpsOf[b]
  <2>1. b \in Batches /\ Stage(b) /\ Covered(b) /\ (Same(b) \/ FlightOf(b))
    BY <1>1 DEF Flights, WsBatches
  <2>4. Open(b)
    <3>1. b \notin HttpBatches
      BY OneTransport
    <3> QED
      BY <1>3, <3>1 DEF Open, Moved, SocksStay
  <2>2. CASE reader[b] = "read"
    BY <2>1, <2>2, <2>4, ReadStays DEF Told
  <2>3. CASE Done(b)
    <3>1. reader[b] = "reading" /\ FramesOver(b) /\ answered'[b] = answered[b]
      BY <2>3, <2>4 DEF Done
    <3> QED
      BY <2>1, <2>4, <3>1, DoneIsTold
  <2> QED
    BY <1>3, <2>1, <2>2, <2>3, ReadStays
<1> QED
  BY <1>2, <1>3, OneTransport DEF Told

-----------------------------------------------------------------------------
(* What a connection keeps of the ops on it                                  *)

\* As long as it is open, an op that is not answered is tracked under its id,
\* as the last one taken on for it.
Tracked ==
  \A b \in WsBatches : (Open(b) /\ reader[b] = "reading") =>
    \A i \in OpsOf[b] \ answered[b] : ops[ConnOf[b]][i] = b /\ latest[ConnOf[b]][i] = b

\* A step that leaves what is tracked alone, and ends an idle connection at most.
Quits ==
  /\ ops' = ops /\ latest' = latest
  /\ \A b \in WsBatches : reader'[b] = reader[b] /\ (run[b] # "new" => answered'[b] = answered[b])
  /\ \A c \in Conns : sock[c] = "open" /\ sock'[c] = "ended" => Idle(ops[c])

Answers == \A c \in Conns : sock[c] = "open" /\ sock'[c] = "ended" =>
  \A b \in Batches : ConnOf[b] = c /\ run'[b] \in {"running", "over", "settled"} => answered'[b] = OpsOf[b]
OwnIds == \A b \in WsBatches, i \in Ids : i \in answered'[b] \ answered[b] /\ run[b] # "new" => latest[ConnOf[b]][i] = b
KeepsRight == Tracked' /\ Answers /\ OwnIds

LEMMA LeavesKeeps ==
  ASSUME Flights, Told, Tracked, Flights', SocksStay, Quits
  PROVE  KeepsRight
<1>1. \A b \in WsBatches : b \in Batches /\ Stage(b) /\ Stage(b)' /\ ConnOf[b] \in Conns
  BY DEF Flights, WsBatches
<1>2. Tracked'
  <2> SUFFICES ASSUME NEW b \in WsBatches, Open(b)', reader'[b] = "reading", NEW i \in OpsOf[b] \ answered'[b]
      PROVE ops'[ConnOf[b]][i] = b /\ latest'[ConnOf[b]][i] = b
    BY DEF Tracked, WsBatches
  <2>1. Open(b) /\ reader[b] = "reading"
    BY <1>1, OneTransport DEF Open, SocksStay, Quits
  <2>2. answered'[b] = answered[b]
    BY <1>1, <2>1 DEF Quits, Stage
  <2> QED
    BY <2>1, <2>2 DEF Tracked, Quits
<1>3. Answers
  <2> SUFFICES ASSUME NEW c \in Conns, sock[c] = "open", sock'[c] = "ended",
        NEW b \in Batches, ConnOf[b] = c, run'[b] \in {"running", "over", "settled"}
      PROVE answered'[b] = OpsOf[b]
    BY DEF Answers
  <2>1. b \in WsBatches /\ Open(b) /\ Idle(ops[c])
    BY OneTransport DEF WsBatches, Open, Quits
  <2>2. reader[b] \in {"reading", "read"} /\ answered'[b] = answered[b]
    BY <1>1, <2>1 DEF Stage, Quits
  <2>3. CASE reader[b] = "read"
    BY <2>1, <2>2, <2>3 DEF Told
  <2>4. CASE reader[b] = "reading"
    <3>1. \A i \in OpsOf[b] \ answered[b] : FALSE
      BY <2>1, <2>4, NoOneIsNoBatch, OpsNamed DEF Tracked, Idle
    <3>2. answered[b] \subseteq OpsOf[b]
      BY <1>1, <2>1 DEF Stage
    <3> QED
      BY <2>2, <3>1, <3>2
  <2> QED
    BY <2>2, <2>3, <2>4
<1>4. OwnIds
  BY DEF OwnIds, Quits
<1> QED
  BY <1>2, <1>3, <1>4 DEF KeepsRight
LEMMA AcceptKeeps ==
  ASSUME Typed, Flights, Told, Tracked, Flights', NEW c \in Conns, NEW b \in Batches, ConnOf[b] = c, Accept(c, b)
  PROVE  KeepsRight
<1>1. /\ sock' = sock /\ answered' = answered /\ run[b] = "new" /\ \A i \in OpsOf[b] : ops[c][i] = NoOne
      /\ reader' = [reader EXCEPT ![b] = "reading"] /\ OpsOf[b] \subseteq Ids
      /\ ops' = [ops EXCEPT ![c] = [i \in Ids |-> IF i \in OpsOf[b] THEN b ELSE @[i]]]
      /\ latest' = [latest EXCEPT ![c] = [i \in Ids |-> IF i \in OpsOf[b] THEN b ELSE @[i]]]
  BY OpsNamed DEF Accept, Acceptable, Execute
<1>2. Tracked'
  <2> SUFFICES ASSUME NEW o \in WsBatches, Open(o)', reader'[o] = "reading", NEW i \in OpsOf[o] \ answered'[o]
      PROVE ops'[ConnOf[o]][i] = o /\ latest'[ConnOf[o]][i] = o
    BY DEF Tracked, WsBatches
  <2>1. o \in Batches /\ ConnOf[o] \in Conns /\ i \in Ids /\ Open(o)
    BY <1>1, OneTransport, OpsNamed DEF WsBatches, Open
  <2>2. CASE o = b
    BY <1>1, <2>1, <2>2 DEF Typed, ConnTypes
  <2>3. CASE o # b
    <3>1. ops[ConnOf[o]][i] = o /\ latest[ConnOf[o]][i] = o
      BY <1>1, <2>1, <2>3 DEF Tracked, Typed, FlightTypes
    <3>2. ConnOf[o] = c => i \notin OpsOf[b]
      BY <1>1, <2>1, <3>1, NoOneIsNoBatch
    <3> QED
      BY <1>1, <2>1, <3>1, <3>2 DEF Typed, ConnTypes
  <2> QED
    BY <2>2, <2>3
<1> QED
  BY <1>1, <1>2 DEF KeepsRight, Answers, OwnIds

LEMMA WriteKeeps ==
  ASSUME Typed, Flights, Told, Tracked, Flights', NEW c \in Conns, NEW b \in Batches, Write(c, b)
  PROVE  KeepsRight
<1> DEFINE f == Head(sink[b])
<1>1. /\ ConnOf[b] = c /\ reader[b] = "reading" /\ sink[b] # <<>> /\ sock' = sock /\ latest' = latest /\ reader' = reader
      /\ answered' = Written(c, b, Said(b))
      /\ ops' = IF f = 0 THEN ops ELSE [ops EXCEPT ![c][f] = NoOne]
      /\ Stage(b) /\ Fresh(b)
  BY DEF Write, Said, Flights
<1>2. f \in OpsOf[b] \union {0} /\ f \in Frames(sink[b]) /\ f \notin answered[b]
  BY <1>1, FirstFrame DEF Stage, Fresh
<1> HIDE DEF f
<1>3. \A o \in Batches : o # b => answered'[o] = answered[o]
  BY <1>1 DEF Written, Typed, FlightTypes
<1>4. sock[c] = "open" => answered'[b] = answered[b] \union Said(b)
  BY <1>1 DEF Written, Typed, FlightTypes
<1>5. sock[c] # "open" => answered'[b] = answered[b]
  BY <1>1 DEF Written, Typed, FlightTypes
<1>6. b \in WsBatches /\ (sock[c] = "open" => Open(b)) /\ Said(b) \subseteq OpsOf[b] /\ (f # 0 => Said(b) = {f})
  BY <1>1, <1>2, OneTransport DEF WsBatches, Open, Said, f
<1>7. Tracked'
  <2> SUFFICES ASSUME NEW o \in WsBatches, Open(o)', reader'[o] = "reading", NEW i \in OpsOf[o] \ answered'[o]
      PROVE ops'[ConnOf[o]][i] = o /\ latest'[ConnOf[o]][i] = o
    BY DEF Tracked, WsBatches
  <2>1. o \in Batches /\ ConnOf[o] \in Conns /\ i \in Ids /\ Open(o) /\ reader[o] = "reading"
    BY <1>1, OneTransport, OpsNamed DEF WsBatches, Open
  <2>2. i \in OpsOf[o] \ answered[o]
    <3>1. answered[b] \subseteq answered'[b]
      BY <1>4, <1>5
    <3> QED
      BY <1>3, <2>1, <3>1
  <2>3. ops[ConnOf[o]][i] = o /\ latest[ConnOf[o]][i] = o
    BY <2>1, <2>2 DEF Tracked
  <2>4. ConnOf[o] = c /\ f # 0 => i # f
    <3>1. CASE o = b
      <4>1. ConnOf[o] = c => sock[c] = "open"
        BY <1>1, <2>1, OneTransport DEF Open
      <4> QED
        BY <1>4, <1>6, <3>1, <4>1
    <3>2. CASE o # b
      <4>1. ConnOf[o] = c => Open(b)
        BY <1>6, <2>1, OneTransport DEF Open
      <4>2. ConnOf[o] = c /\ f # 0 => ops[c][f] = b
        BY <1>1, <1>2, <1>6, <4>1 DEF Tracked
      <4> QED
        BY <2>3, <3>2, <4>2
    <3> QED
      BY <3>1, <3>2
  <2> QED
    BY <1>1, <2>1, <2>3, <2>4 DEF Typed, ConnTypes
<1>8. OwnIds
  <2> SUFFICES ASSUME NEW o \in WsBatches, NEW i \in Ids, i \in answered'[o] \ answered[o]
      PROVE latest[ConnOf[o]][i] = o
    BY DEF OwnIds
  <2>1. o = b
    BY <1>3 DEF WsBatches
  <2>2. sock[c] = "open" /\ i \in OpsOf[b] \ answered[b]
    BY <1>4, <1>5, <1>6, <2>1
  <2> QED
    BY <1>1, <1>6, <2>1, <2>2 DEF Tracked
<1> QED
  BY <1>1, <1>7, <1>8 DEF KeepsRight, Answers

LEMMA WriteEndsKeeps ==
  ASSUME Typed, Flights, Told, Tracked, Flights', SocksStay, NEW c \in Conns, NEW b \in Batches, WriteEnds(c, b)
  PROVE  KeepsRight
<1>1. /\ ConnOf[b] = c /\ reader[b] = "reading" /\ FramesOver(b) /\ reader' = [reader EXCEPT ![b] = "read"]
      /\ latest' = latest /\ answered' = answered /\ run' = run /\ ops' = [ops EXCEPT ![c] = Kept(c, b)]
      /\ EndWhenIdle(c, ending'[c], Kept(c, b))
  BY DEF WriteEnds, ReaderIsDone
<1>2. Stage(b) /\ Covered(b) /\ b \notin HttpBatches /\ b \in WsBatches
  BY <1>1, OneTransport DEF Flights, WsBatches
<1>3. Tracked'
  <2> SUFFICES ASSUME NEW o \in WsBatches, Open(o)', reader'[o] = "reading", NEW i \in OpsOf[o] \ answered'[o]
      PROVE ops'[ConnOf[o]][i] = o /\ latest'[ConnOf[o]][i] = o
    BY DEF Tracked, WsBatches
  <2>1. o \in Batches /\ ConnOf[o] \in Conns /\ i \in Ids /\ o # b /\ reader[o] = "reading" /\ o \notin HttpBatches
    BY <1>1, OneTransport, OpsNamed DEF WsBatches, Typed, FlightTypes
  <2>2. Open(o)
    BY <2>1 DEF Open, SocksStay
  <2>3. ops[ConnOf[o]][i] = o /\ latest[ConnOf[o]][i] = o
    BY <1>1, <2>1, <2>2 DEF Tracked
  <2> QED
    BY <1>1, <2>1, <2>3 DEF Kept, Typed, ConnTypes
<1>4. Answers
  <2> SUFFICES ASSUME NEW k \in Conns, sock[k] = "open", sock'[k] = "ended",
        NEW o \in Batches, ConnOf[o] = k, run'[o] \in {"running", "over", "settled"}
      PROVE answered'[o] = OpsOf[o]
    BY DEF Answers
  <2>1. k = c /\ Idle(Kept(c, b))
    BY <1>1 DEF EndWhenIdle, Typed, ConnTypes
  <2>2. o \in WsBatches /\ Open(o) /\ Stage(o) /\ reader[o] \in {"reading", "read"}
    BY <1>1, OneTransport DEF WsBatches, Open, Flights, Stage
  <2>3. CASE o = b
    BY <1>1, <1>2, <2>2, <2>3, DoneIsTold
  <2>4. CASE reader[o] = "read"
    BY <1>1, <2>2, <2>4 DEF Told
  <2>5. CASE o # b /\ reader[o] = "reading"
    <3>1. \A i \in OpsOf[o] \ answered[o] : i \in Ids /\ ops[c][i] = o
      BY <2>1, <2>2, <2>5, OpsNamed DEF Tracked
    <3>2. \A i \in OpsOf[o] \ answered[o] : Kept(c, b)[i] = o
      BY <2>5, <3>1 DEF Kept
    <3>3. \A i \in OpsOf[o] \ answered[o] : FALSE
      BY <2>1, <3>1, <3>2, NoOneIsNoBatch DEF Idle
    <3> QED
      BY <1>1, <2>2, <3>3 DEF Stage
  <2> QED
    BY <2>2, <2>3, <2>4, <2>5
<1>5. OwnIds
  BY <1>1 DEF OwnIds
<1> QED
  BY <1>3, <1>4, <1>5 DEF KeepsRight

LEMMA StopAllKeeps ==
  ASSUME Typed, Flights, Told, Tracked, SocksStay, NEW c \in Conns, CloseFrame(c) \/ Gone(c)
  PROVE  KeepsRight
<1>1. /\ UNCHANGED <<reader, answered, latest>> /\ ops' = [ops EXCEPT ![c] = NoOps]
      /\ sock' = [sock EXCEPT ![c] = "left"] \/ sock' = [sock EXCEPT ![c] = "gone"]
  BY DEF CloseFrame, Gone, StopAll
<1>2. Tracked'
  <2> SUFFICES ASSUME NEW o \in WsBatches, Open(o)', reader'[o] = "reading", NEW i \in OpsOf[o] \ answered'[o]
      PROVE ops'[ConnOf[o]][i] = o /\ latest'[ConnOf[o]][i] = o
    BY DEF Tracked, WsBatches
  <2>1. ConnOf[o] \in Conns /\ ConnOf[o] # c /\ Open(o)
    BY <1>1, OneTransport DEF WsBatches, Open, SocksStay, Typed, ConnTypes
  <2> QED
    BY <1>1, <2>1 DEF Tracked, Typed, ConnTypes
<1>3. Answers
  BY <1>1 DEF Answers, Typed, ConnTypes
<1>4. OwnIds
  BY <1>1 DEF OwnIds
<1> QED
  BY <1>2, <1>3, <1>4 DEF KeepsRight
LEMMA LeavesConn ==
  ASSUME Typed, NEW c \in Conns,
         (\E b \in Batches : Message(c, b) /\ ~Accept(c, b)) \/ (\E i \in Ids : Cancel(c, i)) \/ Expire(c) \/ Revoke(c)
  PROVE  Quits
<1>1. ASSUME NEW b \in Batches, RefuseTaken(c, b) PROVE Quits
  BY <1>1 DEF RefuseTaken, Quits, connVars
<1>2. ASSUME NEW b \in Batches, run[b] = "new", RefuseExpired(c, b) PROVE Quits
  <2>1. /\ UNCHANGED <<reader, ops, latest>> /\ answered' = [answered EXCEPT ![b] = IF sock[c] = "open" THEN OpsOf[b] ELSE @]
        /\ EndWhenIdle(c, Revoked(c), ops[c])
    BY <1>2 DEF RefuseExpired
  <2>2. \A o \in WsBatches : o \in Batches /\ (run[o] # "new" => answered'[o] = answered[o])
    BY <1>2, <2>1 DEF WsBatches, Typed, FlightTypes
  <2>3. \A k \in Conns : sock[k] = "open" /\ sock'[k] = "ended" => Idle(ops[k])
    BY <2>1 DEF EndWhenIdle, Typed, ConnTypes
  <2> QED
    BY <2>1, <2>2, <2>3 DEF Quits
<1>3. ASSUME (\E i \in Ids : Cancel(c, i)) \/ Expire(c) PROVE Quits
  BY <1>3 DEF Cancel, Expire, Quits, connVars, batchVars
<1>4. CASE Revoke(c)
  <2>1. UNCHANGED <<reader, ops, latest, answered>> /\ EndWhenIdle(c, Revoked(c), ops[c])
    BY <1>4 DEF Revoke
  <2>2. \A k \in Conns : sock[k] = "open" /\ sock'[k] = "ended" => Idle(ops[k])
    BY <2>1 DEF EndWhenIdle, Typed, ConnTypes
  <2> QED
    BY <2>1, <2>2 DEF Quits
<1> QED
  BY <1>1, <1>2, <1>3, <1>4 DEF Message

LEMMA LeavesDrain == ASSUME Typed, NEW d \in Drains, DrainConns(d) PROVE Quits
<1>1. UNCHANGED <<reader, answered, ops, latest>>
  BY DEF DrainConns, batchVars
<1>2. \A k \in Conns : sock[k] = "open" /\ sock'[k] = "ended" => Idle(ops[k])
  BY DEF DrainConns, GoAway, Typed, ConnTypes
<1> QED
  BY <1>1, <1>2 DEF Quits

LEMMA LeavesElse ==
  ASSUME Typed, BatchStep \/ LifeStep \/ (\E b \in HttpBatches : HttpStep(b)) \/ CloseHttp \/ ForceHttp \/ HttpClosed \/ UNCHANGED vars
  PROVE  Quits
<1>1. UNCHANGED <<sock, ops, latest>>
  BY DEF BatchStep, LifeStep, HttpStep, CloseHttp, ForceHttp, HttpClosed, vars, connVars
<1>2. \A b \in WsBatches : b \in Batches /\ b \notin HttpBatches
  BY OneTransport DEF WsBatches
<1>3. \A b \in WsBatches : reader'[b] = reader[b] /\ answered'[b] = answered[b]
  <2>1. CASE BatchStep
    BY <2>1 DEF BatchStep, RefuseEnvelope, OpEnds, Settle
  <2>2. CASE LifeStep
    BY <2>2 DEF LifeStep, DrainTimesOut, RelayListens, RelayFails, CloseEnds, batchVars
  <2>3. ASSUME NEW h \in HttpBatches, HttpStep(h) PROVE \A b \in WsBatches : reader'[b] = reader[b] /\ answered'[b] = answered[b]
    <3>1. CASE Request(h) \/ Overflow(h) \/ Skip(h) \/ HangUp(h) \/ CancelBody(h)
      BY <3>1 DEF Request, Overflow, Skip, HangUp, CancelBody
    <3>2. CASE Respond(h)
      BY <1>2, <3>2 DEF Respond, Execute, Typed, FlightTypes
    <3>3. CASE Enqueue(h)
      BY <1>2, <3>3 DEF Enqueue, Typed, FlightTypes
    <3>4. CASE EnqueueThrows(h) \/ BodyEnds(h)
      BY <1>2, <3>4 DEF EnqueueThrows, BodyEnds, ReaderIsDone, Typed, FlightTypes
    <3> QED
      BY <2>3, <3>1, <3>2, <3>3, <3>4 DEF HttpStep
  <2>4. CASE CloseHttp \/ ForceHttp \/ HttpClosed \/ UNCHANGED vars
    BY <2>4 DEF CloseHttp, ForceHttp, HttpClosed, vars, batchVars
  <2> QED
    BY <2>1, <2>2, <2>3, <2>4
<1> QED
  BY <1>1, <1>3 DEF Quits

LEMMA NextKeeps ==
  ASSUME Typed, Flights, Told, Tracked, Flights', SocksStay, [Next]_vars
  PROVE  KeepsRight
<1>1. ASSUME NEW c \in Conns, ConnStep(c) PROVE KeepsRight
  <2>1. ASSUME NEW b \in Batches, Message(c, b), Accept(c, b) PROVE KeepsRight
    BY <2>1, AcceptKeeps DEF Message
  <2>2. ASSUME NEW b \in Batches, Write(c, b) PROVE KeepsRight
    BY <2>2, WriteKeeps
  <2>3. ASSUME NEW b \in Batches, WriteEnds(c, b) PROVE KeepsRight
    BY <2>3, WriteEndsKeeps
  <2>4. CASE CloseFrame(c) \/ Gone(c)
    BY <2>4, StopAllKeeps
  <2>5. CASE (\E b \in Batches : Message(c, b) /\ ~Accept(c, b)) \/ (\E i \in Ids : Cancel(c, i)) \/ Expire(c) \/ Revoke(c)
    BY <2>5, LeavesConn, LeavesKeeps
  <2> QED
    BY <1>1, <2>1, <2>2, <2>3, <2>4, <2>5 DEF ConnStep
<1>2. ASSUME NEW d \in Drains, DrainConns(d) PROVE KeepsRight
  BY <1>2, LeavesDrain, LeavesKeeps
<1>3. ASSUME BatchStep \/ LifeStep \/ (\E b \in HttpBatches : HttpStep(b)) \/ CloseHttp \/ ForceHttp \/ HttpClosed \/ UNCHANGED vars
      PROVE KeepsRight
  BY <1>3, LeavesElse, LeavesKeeps
<1> QED
  BY <1>1, <1>2, <1>3, ShutdownDrains DEF Next, CallDrain, Shutdown

-----------------------------------------------------------------------------
(* Theorems                                                                  *)

WireInv == Typed /\ Flights /\ Count /\ Told /\ Tracked

LEMMA WireInit == Init => WireInv
<1> SUFFICES ASSUME Init PROVE WireInv
  OBVIOUS
<1>1. /\ left = [b \in Batches |-> {}] /\ sink = [b \in Batches |-> <<>>] /\ reader = [b \in Batches |-> "none"]
      /\ stopped = [b \in Batches |-> {}] /\ active = 0 /\ draining = FALSE /\ answered = [b \in Batches |-> {}]
      /\ hears = FALSE /\ closing = "uncalled" /\ run \in [Batches -> {"new", "turned"}]
      /\ relay \in {"none", "pending"} /\ drain \in [Drains -> {"uncalled", "late"}]
  BY WorkloadsFit DEF Init, LifeInit
<1>2. <<>> \in Seq(Ids \union {0}) /\ \A S : <<>> \in Seq(S)
  OBVIOUS
<1>3. FlightTypes /\ LifeTypes
  BY <1>1, <1>2 DEF FlightTypes, LifeTypes, Runs
<1>4. ConnTypes /\ HttpTypes /\ shutdown = "no"
  BY DEF Init, ConnInit, HttpInit, ConnTypes, HttpTypes
<1>5. Flights
  BY <1>1, <1>2 DEF Flights, Stage, Fresh, Covered
<1>6. Count
  <2>1. InFlight = {}
    BY <1>1 DEF InFlight
  <2> QED
    BY <1>1, <2>1, FS_EmptySet DEF Count
<1>7. Told
  BY <1>1, OneTransport DEF Told, Init, HttpInit, WsBatches
<1>8. Tracked
  BY <1>1 DEF Tracked, WsBatches
<1> QED
  BY <1>3, <1>4, <1>5, <1>6, <1>7, <1>8 DEF WireInv, Typed

LEMMA WireStep == WireInv /\ [Next]_vars => WireInv' /\ KeepsRight /\ DrainsRight
<1> SUFFICES ASSUME WireInv, [Next]_vars PROVE WireInv' /\ KeepsRight /\ DrainsRight
  OBVIOUS
<1>1. Moved
  BY NextMoves DEF WireInv, Count
<1>2. Flights' /\ Count' /\ Told'
  BY <1>1, FlightsStay, ToldStays DEF WireInv
<1>3. KeepsRight
  BY <1>1, <1>2, NextKeeps DEF WireInv, Moved
<1> QED
  BY <1>1, <1>2, <1>3 DEF WireInv, Moved, KeepsRight

\* The server's count is that of the batches which run or are still read, and a
\* response that ends well has told of every op, however many batches, clients
\* and drains there are (server.ts execute and drain, fetch.ts).
THEOREM CountIsRight == Spec => []FlightsCounted
<1>1. WireInv => FlightsCounted
  BY DEF WireInv, Typed, FlightTypes, LifeTypes, ConnTypes, HttpTypes, Runs, Count, Told,
         FlightsCounted, TypeOK, InFlightIsCounted, WholeBodies
<1> QED
  BY <1>1, WireInit, WireStep, PTL DEF Spec

\* drain() resolves in time only when nothing runs and nobody reads, the server
\* ends a connection only when what it took on was answered, and no answer goes
\* out under an id that a later batch has taken (server.ts drain, ws.ts).
THEOREM NoAnswerIsLost == Spec => AnswersComeThrough
<1>1. WireInv /\ [Next]_vars =>
        [\A d \in Drains : drain[d] # "drained" /\ drain'[d] = "drained" => InFlight' = {}]_vars
  <2> SUFFICES ASSUME WireInv, [Next]_vars, NEW d \in Drains, drain[d] # "drained", drain'[d] = "drained" PROVE InFlight' = {}
    OBVIOUS
  <2>1. active' = 0 /\ active' = Cardinality(InFlight') /\ InFlight' \subseteq Batches
    BY WireStep DEF WireInv, Count, DrainsRight, InFlight
  <2>2. IsFiniteSet(InFlight')
    BY <2>1, BatchesFinite, FS_Subset
  <2> QED
    BY <2>1, <2>2, FS_EmptySet
<1>2. WireInv /\ [Next]_vars => [Answers]_vars /\ [OwnIds]_vars
  BY WireStep DEF KeepsRight
<1>3. Spec => DrainWaitsForReaders
  BY <1>1, WireInit, WireStep, PTL DEF Spec, DrainWaitsForReaders
<1>4. Spec => [][Answers]_vars /\ [][OwnIds]_vars
  BY <1>2, WireInit, WireStep, PTL DEF Spec
<1> QED
  BY <1>3, <1>4 DEF AnswersComeThrough, EndsAfterAnswers, NobodyElsesAnswer, Answers, OwnIds

-----------------------------------------------------------------------------
(* KtServer: the inductive invariant and its steps                           *)

\* Who may stand where: an op that is kept under its id is of a batch of that
\* session that was taken on, and has not ended; of a batch that is being read,
\* no id is in use, and no other is read beside it.
KsStarted == {"runs", "writes", "handing", "over", "left"}
KsTaken == KsStarted \cup {"launched"}
KsKept ==
  /\ \A c \in KsConns, i \in KsIds, b \in KsBatches : <<i, b>> \in ksOps[c] =>
       /\ KsConnOf[b] = c /\ ksStage[b] \in KsTaken \cup {"kept", "dropped"}
       /\ i \in KsOpsOf[b] \ ksFreed[b]
  /\ \A c \in KsConns, i \in KsIds, b, o \in KsBatches : <<i, b>> \in ksOps[c] /\ <<i, o>> \in ksOps[c] => b = o
  /\ \A b \in KsBatches : ksStage[b] \in {"read", "passed", "kept", "left"} => KsConnOf[b] \in KsConns
  /\ \A b, o \in KsBatches :
       ksStage[b] \in {"read", "passed", "kept"} /\ ksStage[o] \in {"read", "passed", "kept"} /\ KsConnOf[b] = KsConnOf[o] => b = o
  /\ \A b \in KsBatches : ksStage[b] \in {"read", "passed"} =>
       \A i \in KsOpsOf[b], o \in KsBatches : <<i, o>> \notin ksOps[KsConnOf[b]]
\* What a batch has told: of what has ended, and all of it when it is over on
\* a session nobody closed or found idle.
KsSaid ==
  /\ \A b \in KsBatches : ksTold[b] \subseteq ksFreed[b] /\ ksFreed[b] \subseteq KsOpsOf[b]
  /\ \A b \in KsBatches : ksStage[b] \notin KsStarted => ksFreed[b] = {}
  /\ \A c \in KsConns : ksEnded[c] \subseteq ksLooked[c]
  /\ \A b \in KsBatches : KsConnOf[b] \in KsConns =>
       /\ ksStage[b] = "runs" => ksTold[b] = ksFreed[b] \/ ksLooked[KsConnOf[b]] # {}
       /\ ksStage[b] \in {"handing", "over", "left"} =>
            KsConnOf[b] \in ksClosed \/ ksTold[b] = KsOpsOf[b] \/ ksLooked[KsConnOf[b]] # {}
       /\ ksStage[b] \in KsTaken => ksLooked[KsConnOf[b]] = {} \/ b \in ksSlipped \/ ksTold[b] = KsOpsOf[b]
\* How a call of drain() stands: it is among those that wait, or was told; when
\* nothing runs, someone is telling; and who was told was so when all that it
\* waited for had ended.
KsBeforeEnded(d) == ksBefore[d] \cap KsInFlight = {}
KsWaits ==
  /\ \A d \in ksIdle : ksDrain[d] \in {"joined", "waits"}
  /\ \A d \in KsDrains : ksDrain[d] \in {"joined", "waits"} => d \in ksIdle \cup ksDone
  /\ \A d \in ksDone : ksDrain[d] \in {"joined", "waits", "intime", "late"} /\ d \notin ksIdle
  /\ \A d \in KsDrains : ksDrain[d] = "waits" /\ d \notin ksDone /\ ksActive = 0 => \E b \in KsBatches : ksStage[b] = "handing"
  /\ \A d \in KsDrains : \A b \in ksBefore[d] : ksStage[b] \in KsStarted
  /\ \A d \in ksIdle \ ksRaced : (\E b \in KsBatches : ksStage[b] = "handing") => KsBeforeEnded(d)
  /\ \A d \in KsDrains \ ksRaced : d \in ksDone \/ ksDrain[d] = "intime" => KsBeforeEnded(d)

KsInv == KsTypeOK /\ KtCounted /\ KsKept /\ KsSaid /\ KsWaits

-----------------------------------------------------------------------------
(* One batch moves                                                           *)

LEMMA KsMoves ==
  ASSUME KsTypeOK, NEW b \in KsBatches, NEW s, ksStage' = [ksStage EXCEPT ![b] = s]
  PROVE  ksStage'[b] = s /\ \A o \in KsBatches : o # b => ksStage'[o] = ksStage[o]
BY DEF KsTypeOK

\* The counts are of finite sets.
LEMMA KsFinite ==
  ASSUME KsTypeOK
  PROVE  /\ IsFiniteSet(KsInFlight) /\ Cardinality(KsInFlight) \in Nat
         /\ \A c \in KsConns : IsFiniteSet(RunningOn(c)) /\ Cardinality(RunningOn(c)) \in Nat
<1>1. IsFiniteSet(KsBatches)
  BY KtServerAssumption
<1>2. KsInFlight \subseteq KsBatches /\ \A c \in KsConns : RunningOn(c) \subseteq KsBatches
  BY DEF KsInFlight, RunningOn, On
<1>3. IsFiniteSet(KsInFlight) /\ \A c \in KsConns : IsFiniteSet(RunningOn(c))
  BY <1>1, <1>2, FS_Subset
<1> QED
  BY <1>3, FS_CardinalityType

\* A step in which nothing begins and nothing ends leaves the counts alone.
LEMMA KsSameCounts ==
  ASSUME KsTypeOK, KtCounted, ksRunning' = ksRunning, ksActive' = ksActive,
         KsInFlight' = KsInFlight, \A c \in KsConns : RunningOn(c)' = RunningOn(c)
  PROVE  KtCounted'
BY DEF KtCounted

\* A batch that moves between stages of the same kind is counted as before.
LEMMA KsSameSets ==
  ASSUME KsTypeOK, NEW b \in KsBatches, NEW s, ksStage' = [ksStage EXCEPT ![b] = s],
         s \in {"runs", "writes"} <=> ksStage[b] \in {"runs", "writes"},
         s \in {"launched", "runs", "writes", "handing", "over", "dropped"} <=>
           ksStage[b] \in {"launched", "runs", "writes", "handing", "over", "dropped"}
  PROVE  KsInFlight' = KsInFlight /\ \A c \in KsConns : RunningOn(c)' = RunningOn(c)
<1>1. ksStage'[b] = s /\ \A o \in KsBatches : o # b => ksStage'[o] = ksStage[o]
  BY KsMoves
<1>2. \A o \in KsBatches : ksStage'[o] \in {"runs", "writes"} <=> ksStage[o] \in {"runs", "writes"}
  BY <1>1
<1>3. \A o \in KsBatches : ksStage'[o] \in {"launched", "runs", "writes", "handing", "over", "dropped"} <=>
        ksStage[o] \in {"launched", "runs", "writes", "handing", "over", "dropped"}
  BY <1>1
<1> QED
  BY <1>2, <1>3 DEF KsInFlight, RunningOn, On

\* Beginning and ending count one more and one less.
LEMMA KsBegins ==
  ASSUME KsTypeOK, KtCounted, NEW b \in KsBatches, KsStart(b)
  PROVE  KtCounted'
<1>1. ksStage'[b] = "runs" /\ (\A o \in KsBatches : o # b => ksStage'[o] = ksStage[o]) /\ ksStage[b] = "launched"
  BY KsMoves DEF KsStart, To
<1>2. KsInFlight' = KsInFlight \cup {b} /\ b \notin KsInFlight
  BY <1>1 DEF KsInFlight
<1>3. \A c \in KsConns : RunningOn(c)' = RunningOn(c)
  BY <1>1 DEF RunningOn, On
<1>4. Cardinality(KsInFlight') = Cardinality(KsInFlight) + 1
  BY <1>2, KsFinite, FS_AddElement
<1> QED
  BY <1>3, <1>4 DEF KtCounted, KsStart

LEMMA KsEndsOnce ==
  ASSUME KsTypeOK, KtCounted, NEW b \in KsBatches, Leaves(b)
  PROVE  KtCounted' /\ ksActive' \in Nat /\ (ksActive' = 0 => KsInFlight' = {}) /\ KsInFlight' = KsInFlight \ {b}
<1> DEFINE s == IF ksActive = 1 THEN "handing" ELSE "over"
<1>1. ksStage'[b] = s /\ \A o \in KsBatches : o # b => ksStage'[o] = ksStage[o]
  BY KsMoves DEF Leaves, To
<1>2. b \in KsInFlight /\ ksStage[b] \in {"runs", "writes"} /\ s \in {"handing", "over"}
  BY DEF Leaves, KsInFlight
<1>3. KsInFlight' = KsInFlight \ {b}
  BY <1>1, <1>2 DEF KsInFlight
<1>4. \A c \in KsConns : RunningOn(c)' = RunningOn(c)
  BY <1>1, <1>2 DEF RunningOn, On
<1>5. Cardinality(KsInFlight \ {b}) = Cardinality(KsInFlight) - 1 /\ IsFiniteSet(KsInFlight \ {b})
  BY <1>2, KsFinite, FS_RemoveElement
<1>6. Cardinality(KsInFlight \ {b}) \in Nat
  BY <1>5, FS_CardinalityType
<1>7. ksActive' = ksActive - 1 /\ ksActive = Cardinality(KsInFlight) /\ ksRunning' = ksRunning
  BY DEF Leaves, KtCounted
<1>8. ksActive' = Cardinality(KsInFlight')
  BY <1>3, <1>5, <1>7
<1>9. KsInFlight' = {} \/ ksActive' # 0
  BY <1>3, <1>5, <1>8, FS_EmptySet
<1> QED
  BY <1>3, <1>4, <1>6, <1>7, <1>8, <1>9, <1>5 DEF KtCounted

LEMMA KsLaunches ==
  ASSUME KsTypeOK, KtCounted, NEW b \in KsBatches, Launch(b), KsConnOf[b] \in KsConns
  PROVE  KtCounted'
<1>1. ksStage'[b] = "launched" /\ (\A o \in KsBatches : o # b => ksStage'[o] = ksStage[o]) /\ ksStage[b] = "kept"
  BY KsMoves DEF Launch, To
<1>2. KsInFlight' = KsInFlight
  BY <1>1 DEF KsInFlight
<1> DEFINE c == KsConnOf[b]
<1>3. RunningOn(c)' = RunningOn(c) \cup {b} /\ b \notin RunningOn(c) /\ \A o \in KsConns : o # c => RunningOn(o)' = RunningOn(o)
  BY <1>1 DEF RunningOn, On
<1>4. Cardinality(RunningOn(c)') = Cardinality(RunningOn(c)) + 1
  BY <1>3, KsFinite, FS_AddElement
<1>5. ksRunning'[c] = ksRunning[c] + 1 /\ (\A o \in KsConns : o # c => ksRunning'[o] = ksRunning[o]) /\ ksActive' = ksActive
  BY DEF Launch, KsTypeOK
<1>6. \A o \in KsConns : ksRunning'[o] = Cardinality(RunningOn(o)')
  BY <1>3, <1>4, <1>5 DEF KtCounted
<1> QED
  BY <1>2, <1>5, <1>6 DEF KtCounted

LEMMA KsGoes ==
  ASSUME KsTypeOK, KtCounted, NEW b \in KsBatches, Leave(b)
  PROVE  KtCounted' /\ ksRunning' \in [KsConns -> Nat]
<1> DEFINE c == KsConnOf[b]
<1>0. c \in KsConns
  BY DEF Leave
<1>1. ksStage'[b] = "left" /\ (\A o \in KsBatches : o # b => ksStage'[o] = ksStage[o]) /\ ksStage[b] = "over"
  BY KsMoves DEF Leave, To
<1>2. KsInFlight' = KsInFlight
  BY <1>1 DEF KsInFlight
<1>3. RunningOn(c)' = RunningOn(c) \ {b} /\ b \in RunningOn(c) /\ \A o \in KsConns : o # c => RunningOn(o)' = RunningOn(o)
  BY <1>1 DEF RunningOn, On
<1>4. Cardinality(RunningOn(c) \ {b}) = Cardinality(RunningOn(c)) - 1 /\ IsFiniteSet(RunningOn(c) \ {b})
  BY <1>0, <1>3, KsFinite, FS_RemoveElement
<1>5. Cardinality(RunningOn(c) \ {b}) \in Nat
  BY <1>4, FS_CardinalityType
<1>6. ksRunning'[c] = ksRunning[c] - 1 /\ (\A o \in KsConns : o # c => ksRunning'[o] = ksRunning[o]) /\ ksActive' = ksActive
  BY <1>0 DEF Leave, KsTypeOK
<1>7. \A o \in KsConns : ksRunning'[o] = Cardinality(RunningOn(o)')
  BY <1>0, <1>3, <1>4, <1>6 DEF KtCounted
<1>8. ksRunning'[c] \in Nat
  BY <1>0, <1>3, <1>5, <1>7
<1>9. ksRunning' = [ksRunning EXCEPT ![c] = @ - 1]
  BY DEF Leave
<1>10. ksRunning[c] - 1 \in Nat
  BY <1>0, <1>6, <1>8
<1> QED
  BY <1>0, <1>2, <1>6, <1>7, <1>9, <1>10 DEF KtCounted, KsTypeOK

-----------------------------------------------------------------------------
(* Types and counts                                                          *)

LEMMA KsOpsTyped == \A b \in KsBatches : KsOpsOf[b] \subseteq KsIds
BY DEF KsIds

LEMMA KsBatchKeepsTypes ==
  ASSUME KsTypeOK, KtCounted, KsKept, NEW b \in KsBatches, KsMessage(b) \/ KsRequest(b) \/ KsHangUp(b) \/ BatchWork(b)
  PROVE  KsTypeOK' /\ KtCounted'
<1> USE DEF ksConnVars, ksDrainVars, ksBatchVars
<1>1. CASE KsMessage(b)
  <2>1. KsTypeOK'
    BY <1>1 DEF KsTypeOK, KsMessage, To
  <2> QED
    BY <1>1, <2>1, KsSameSets, KsSameCounts DEF KsMessage, To
<1>2. CASE KsRequest(b)
  <2>1. KsTypeOK'
    BY <1>2 DEF KsTypeOK, KsRequest, To
  <2>2. KsConnOf[b] = KsHttp /\ KsHttp \notin KsConns /\ ksStage[b] = "unsent" /\ ksRunning' = ksRunning /\ ksActive' = ksActive
    BY <1>2, KtServerAssumption DEF KsRequest
  <2>3. ksStage'[b] \in {"refused", "launched"} /\ \A o \in KsBatches : o # b => ksStage'[o] = ksStage[o]
    BY <1>2, KsMoves DEF KsRequest, To
  <2>4. KsInFlight' = KsInFlight /\ \A c \in KsConns : RunningOn(c)' = RunningOn(c)
    BY <2>2, <2>3 DEF KsInFlight, RunningOn, On
  <2> QED
    BY <2>1, <2>2, <2>4, KsSameCounts
<1>3. ASSUME Leaves(b) PROVE KsTypeOK' /\ KtCounted'
  <2>1. KtCounted' /\ ksActive' \in Nat
    BY <1>3, KsEndsOnce
  <2>2. KsTypeOK'
    BY <1>3, <2>1 DEF KsTypeOK, Leaves, To
  <2> QED
    BY <2>1, <2>2
<1>4. CASE KsHangUp(b)
  BY <1>3, <1>4 DEF KsHangUp
<1>5. CASE KsAccept(b)
  <2>1. KsTypeOK'
    BY <1>5 DEF KsTypeOK, KsAccept, To
  <2> QED
    BY <1>5, <2>1, KsSameSets, KsSameCounts DEF KsAccept, To
<1>6. CASE KsRefuse(b)
  <2>1. OpenOn(KsConnOf[b]) \subseteq KsBatches \X KsIds /\ KsConnOf[b] \in KsConns
    BY <1>6 DEF OpenOn, KsRefuse, KsKept
  <2>2. KsTypeOK'
    BY <1>6, <2>1 DEF KsTypeOK, KsRefuse, KsRevoke, To
  <2> QED
    BY <1>6, <2>2, KsSameSets, KsSameCounts DEF KsRefuse, To
<1>7. CASE Keep(b)
  <2>1. KsOpsOf[b] \X {b} \subseteq KsIds \X KsBatches
    BY KsOpsTyped
  <2>2. KsTypeOK'
    BY <1>7, <2>1 DEF KsTypeOK, Keep, To
  <2> QED
    BY <1>7, <2>2, KsSameSets, KsSameCounts DEF Keep, To
<1>8. CASE Launch(b)
  <2>1. KsConnOf[b] \in KsConns
    BY <1>8 DEF Launch, KsKept
  <2>2. KtCounted'
    BY <1>8, <2>1, KsLaunches
  <2>3. ksRunning' \in [KsConns -> Nat] /\ ksSlipped' \subseteq KsBatches
    BY <1>8, <2>1 DEF KsTypeOK, Launch
  <2>4. KsTypeOK'
    BY <1>8, <2>3 DEF KsTypeOK, Launch, To
  <2> QED
    BY <2>2, <2>4
<1>9. CASE KsStart(b)
  <2>1. KsTypeOK'
    BY <1>9 DEF KsTypeOK, KsStart, To
  <2> QED
    BY <1>9, <2>1, KsBegins
<1>10. CASE Drop(b)
  <2>1. KsTypeOK'
    BY <1>10 DEF KsTypeOK, Drop, To
  <2> QED
    BY <1>10, <2>1, KsSameSets, KsSameCounts DEF Drop, To
<1>11. ASSUME NEW i \in KsIds, KsAnswer(b, i) PROVE KsTypeOK' /\ KtCounted'
  <2>1. ksOps' \in [KsConns -> SUBSET (KsIds \X KsBatches)]
    BY <1>11 DEF KsTypeOK, KsAnswer, Free
  <2>2. KsTypeOK'
    BY <1>11, <2>1 DEF KsTypeOK, KsAnswer, To
  <2> QED
    BY <1>11, <2>2, KsSameSets, KsSameCounts DEF KsAnswer, To
<1>12. CASE KsWrite(b)
  <2>1. KsTypeOK'
    BY <1>12 DEF KsTypeOK, KsWrite, To
  <2> QED
    BY <1>12, <2>1, KsSameSets, KsSameCounts DEF KsWrite, To
<1>13. CASE KsCountOff(b)
  BY <1>3, <1>13 DEF KsCountOff
<1>14. CASE HandedOver(b)
  <2>1. KsTypeOK'
    BY <1>14 DEF KsTypeOK, HandedOver, To
  <2> QED
    BY <1>14, <2>1, KsSameSets, KsSameCounts DEF HandedOver, To
<1>15. CASE Leave(b)
  <2>1. KtCounted' /\ ksRunning' \in [KsConns -> Nat]
    BY <1>15, KsGoes
  <2>2. KsTypeOK'
    BY <1>15, <2>1 DEF KsTypeOK, Leave, To
  <2> QED
    BY <2>1, <2>2
<1>16. ASSUME NEW d \in KsDrains, HandOver(b, d) PROVE KsTypeOK' /\ KtCounted'
  <2>1. KsTypeOK'
    BY <1>16 DEF KsTypeOK, HandOver
  <2> QED
    BY <1>16, <2>1 DEF HandOver, KtCounted, KsInFlight, RunningOn
<1> QED
  BY <1>1, <1>2, <1>4, <1>5, <1>6, <1>7, <1>8, <1>9, <1>10, <1>11, <1>12, <1>13, <1>14, <1>15, <1>16 DEF BatchWork

LEMMA KsConnKeepsTypes ==
  ASSUME KsTypeOK, KtCounted, NEW c \in KsConns,
         ConnWork(c) \/ KsClockPasses(c) \/ PeerLeaves(c) \/ Connect(c) \/ \E i \in KsIds : KsCancel(c, i)
  PROVE  KsTypeOK' /\ KtCounted' /\ ksStage' = ksStage
<1> USE DEF ksConnVars, ksDrainVars, ksBatchVars
<1>0. OpenOn(c) \subseteq KsBatches \X KsIds
  BY DEF OpenOn
<1>1. CASE KsClockPasses(c)
  BY <1>1 DEF KsTypeOK, KsClockPasses, KtCounted, KsInFlight, RunningOn
<1>2. CASE CloseSession(c)
  BY <1>0, <1>2 DEF KsTypeOK, CloseSession, KtCounted, KsInFlight, RunningOn
<1>3. CASE Connect(c)
  BY <1>3 DEF KsTypeOK, Connect, KtCounted, KsInFlight, RunningOn
<1>4. ASSUME NEW i \in KsIds, KsCancel(c, i) PROVE KsTypeOK' /\ KtCounted' /\ ksStage' = ksStage
  BY <1>0, <1>4 DEF KsTypeOK, KsCancel, KtCounted, KsInFlight, RunningOn
<1>5. CASE KsExpire(c)
  BY <1>0, <1>5 DEF KsTypeOK, KsExpire, KsRevoke, KtCounted, KsInFlight, RunningOn
<1>6. ASSUME NEW w \in {"away", "expired"}, Look(c, w) PROVE KsTypeOK' /\ KtCounted' /\ ksStage' = ksStage
  BY <1>6 DEF KsTypeOK, Look, KtCounted, KsInFlight, RunningOn
<1>7. ASSUME NEW w \in {"away", "expired"}, EndSocket(c, w) PROVE KsTypeOK' /\ KtCounted' /\ ksStage' = ksStage
  BY <1>7 DEF KsTypeOK, EndSocket, KtCounted, KsInFlight, RunningOn
<1> QED
  BY <1>1, <1>2, <1>3, <1>4, <1>5, <1>6, <1>7 DEF ConnWork, ServerCloses, PeerLeaves

LEMMA KsDrainKeepsTypes ==
  ASSUME KsTypeOK, KtCounted, NEW d \in KsDrains, DrainCalled(d) \/ DrainWork(d)
  PROVE  KsTypeOK' /\ KtCounted' /\ ksStage' = ksStage
<1> USE DEF ksConnVars, ksDrainVars, ksBatchVars
<1>0. KsInFlight \subseteq KsBatches
  BY DEF KsInFlight
<1>1. CASE DrainCalled(d)
  BY <1>0, <1>1 DEF KsTypeOK, DrainCalled, DrainTo, KtCounted, KsInFlight, RunningOn
<1>2. CASE DrainCounts(d)
  BY <1>2 DEF KsTypeOK, DrainCounts, DrainTo, KtCounted, KsInFlight, RunningOn
<1>3. CASE DrainJoins(d)
  BY <1>3 DEF KsTypeOK, DrainJoins, DrainTo, KtCounted, KsInFlight, RunningOn
<1>4. CASE DrainCountsAgain(d)
  BY <1>4 DEF KsTypeOK, DrainCountsAgain, DrainTo, KtCounted, KsInFlight, RunningOn
<1>5. CASE DrainTold(d)
  BY <1>5 DEF KsTypeOK, DrainTold, DrainTo, KtCounted, KsInFlight, RunningOn
<1>6. CASE DrainLate(d)
  BY <1>6 DEF KsTypeOK, DrainLate, DrainTo, KtCounted, KsInFlight, RunningOn
<1> QED
  BY <1>1, <1>2, <1>3, <1>4, <1>5, <1>6 DEF DrainWork

-----------------------------------------------------------------------------
(* Ids in use                                                                *)

KsReads(b) == ksStage[b] \in {"read", "passed", "kept"}
KsHolds(s) == s \in KsTaken \cup {"kept", "dropped"}

\* Nothing is put under an id, and a batch moves on.
LEMMA KsKeptMoves ==
  ASSUME KsTypeOK, KsKept, NEW b \in KsBatches, NEW s, ksStage' = [ksStage EXCEPT ![b] = s], ksFreed' = ksFreed,
         \A c \in KsConns : ksOps'[c] \subseteq ksOps[c],
         KsHolds(s) \/ \A c \in KsConns, i \in KsIds : <<i, b>> \notin ksOps'[c],
         s \in {"read", "passed", "kept", "left"} => KsConnOf[b] \in KsConns,
         s \in {"read", "passed", "kept"} => KsReads(b) \/ \A o \in KsBatches : KsConnOf[o] = KsConnOf[b] => ~KsReads(o),
         s \in {"read", "passed"} => ksStage[b] \in {"read", "passed"} \/
           \A i \in KsOpsOf[b], o \in KsBatches : <<i, o>> \notin ksOps[KsConnOf[b]]
  PROVE  KsKept'
<1>0. ksStage'[b] = s /\ \A o \in KsBatches : o # b => ksStage'[o] = ksStage[o]
  BY KsMoves
<1>1. ASSUME NEW c \in KsConns, NEW i \in KsIds, NEW o \in KsBatches, <<i, o>> \in ksOps'[c]
      PROVE  KsConnOf[o] = c /\ ksStage'[o] \in KsTaken \cup {"kept", "dropped"} /\ i \in KsOpsOf[o] \ ksFreed'[o]
  <2>1. <<i, o>> \in ksOps[c]
    BY <1>1
  <2>2. KsConnOf[o] = c /\ ksStage[o] \in KsTaken \cup {"kept", "dropped"} /\ i \in KsOpsOf[o] \ ksFreed[o]
    BY <2>1 DEF KsKept
  <2>3. o = b => KsHolds(s)
    BY <1>1
  <2> QED
    BY <1>0, <2>2, <2>3 DEF KsHolds
<1>2. \A c \in KsConns, i \in KsIds, o, p \in KsBatches : <<i, o>> \in ksOps'[c] /\ <<i, p>> \in ksOps'[c] => o = p
  BY DEF KsKept
<1>3. \A o \in KsBatches : ksStage'[o] \in {"read", "passed", "kept", "left"} => KsConnOf[o] \in KsConns
  BY <1>0 DEF KsKept
<1>4. \A o, p \in KsBatches :
        ksStage'[o] \in {"read", "passed", "kept"} /\ ksStage'[p] \in {"read", "passed", "kept"} /\ KsConnOf[o] = KsConnOf[p]
          => o = p
  BY <1>0 DEF KsKept, KsReads
<1>5. ASSUME NEW o \in KsBatches, ksStage'[o] \in {"read", "passed"}, NEW i \in KsOpsOf[o], NEW p \in KsBatches
      PROVE  <<i, p>> \notin ksOps'[KsConnOf[o]]
  <2>1. KsConnOf[o] \in KsConns
    BY <1>3, <1>5
  <2>2. <<i, p>> \notin ksOps[KsConnOf[o]]
    BY <1>0, <1>5 DEF KsKept
  <2> QED
    BY <2>1, <2>2
<1> QED
  BY <1>1, <1>2, <1>3, <1>4, <1>5 DEF KsKept

LEMMA KsKeptShrinks ==
  ASSUME KsKept, ksStage' = ksStage, ksFreed' = ksFreed, \A c \in KsConns : ksOps'[c] \subseteq ksOps[c]
  PROVE  KsKept'
<1>1. \A b \in KsBatches : ksStage[b] \in {"read", "passed"} => KsConnOf[b] \in KsConns
  BY DEF KsKept
<1> QED
  BY <1>1 DEF KsKept

\* The ops of a batch that was read are put under their ids, none of which was
\* in use.
LEMMA KsKeptKeep ==
  ASSUME KsTypeOK, KsKept, KsSaid, NEW b \in KsBatches, Keep(b)
  PROVE  KsKept'
<1> DEFINE r == KsConnOf[b]
<1>0. ksStage'[b] = "kept" /\ (\A o \in KsBatches : o # b => ksStage'[o] = ksStage[o]) /\ ksStage[b] = "passed" /\ ksFreed' = ksFreed
  BY KsMoves DEF Keep, To
<1>1. r \in KsConns /\ ksFreed[b] = {}
  BY <1>0 DEF KsKept, KsSaid, KsStarted
<1>2. \A c \in KsConns, i \in KsIds, o \in KsBatches : <<i, o>> \in ksOps'[c] <=>
        <<i, o>> \in ksOps[c] \/ (c = r /\ o = b /\ i \in KsOpsOf[b])
  BY <1>1 DEF KsTypeOK, Keep
<1>3. \A i \in KsOpsOf[b], o \in KsBatches : <<i, o>> \notin ksOps[r]
  BY <1>0 DEF KsKept
<1>4. ASSUME NEW c \in KsConns, NEW i \in KsIds, NEW o \in KsBatches, <<i, o>> \in ksOps'[c]
      PROVE  KsConnOf[o] = c /\ ksStage'[o] \in KsTaken \cup {"kept", "dropped"} /\ i \in KsOpsOf[o] \ ksFreed'[o]
  <2>1. CASE <<i, o>> \in ksOps[c]
    BY <1>0, <2>1 DEF KsKept
  <2>2. CASE c = r /\ o = b /\ i \in KsOpsOf[b]
    BY <1>0, <1>1, <2>2
  <2> QED
    BY <1>2, <1>4, <2>1, <2>2
<1>5. ASSUME NEW c \in KsConns, NEW i \in KsIds, NEW o \in KsBatches, NEW p \in KsBatches,
             <<i, o>> \in ksOps'[c], <<i, p>> \in ksOps'[c]
      PROVE  o = p
  BY <1>2, <1>3, <1>5 DEF KsKept
<1>6. \A o \in KsBatches : ksStage'[o] \in {"read", "passed", "kept", "left"} => KsConnOf[o] \in KsConns
  BY <1>0, <1>1 DEF KsKept
<1>7. \A o, p \in KsBatches :
        ksStage'[o] \in {"read", "passed", "kept"} /\ ksStage'[p] \in {"read", "passed", "kept"} /\ KsConnOf[o] = KsConnOf[p]
          => o = p
  BY <1>0 DEF KsKept
<1>8. ASSUME NEW o \in KsBatches, ksStage'[o] \in {"read", "passed"}, NEW i \in KsOpsOf[o], NEW p \in KsBatches
      PROVE  <<i, p>> \notin ksOps'[KsConnOf[o]]
  <2>1. o # b /\ ksStage[o] \in {"read", "passed"}
    BY <1>0, <1>8
  <2>2. KsConnOf[o] # r /\ KsConnOf[o] \in KsConns
    BY <1>0, <2>1 DEF KsKept
  <2>3. <<i, p>> \notin ksOps[KsConnOf[o]] /\ i \in KsIds
    BY <2>1, KsOpsTyped DEF KsKept
  <2> QED
    BY <1>2, <2>2, <2>3
<1> QED
  BY <1>4, <1>5, <1>6, <1>7, <1>8 DEF KsKept

LEMMA KsKeptAnswer ==
  ASSUME KsTypeOK, KsKept, NEW b \in KsBatches, NEW i \in KsIds, KsAnswer(b, i)
  PROVE  KsKept'
<1>0. ksStage'[b] = "writes" /\ (\A o \in KsBatches : o # b => ksStage'[o] = ksStage[o]) /\ ksStage[b] = "runs"
  BY KsMoves DEF KsAnswer, To
<1>1. ksFreed'[b] = ksFreed[b] \cup {i} /\ \A o \in KsBatches : o # b => ksFreed'[o] = ksFreed[o]
  BY DEF KsTypeOK, KsAnswer
<1>2. \A c \in KsConns, j \in KsIds, o \in KsBatches : <<j, o>> \in ksOps'[c] =>
        <<j, o>> \in ksOps[c] /\ (c = KsConnOf[b] => <<j, o>> # <<i, b>>)
  BY KtServerAssumption DEF KsTypeOK, KsAnswer, Free
<1>3. ASSUME NEW c \in KsConns, NEW j \in KsIds, NEW o \in KsBatches, <<j, o>> \in ksOps'[c]
      PROVE  KsConnOf[o] = c /\ ksStage'[o] \in KsTaken \cup {"kept", "dropped"} /\ j \in KsOpsOf[o] \ ksFreed'[o]
  <2>1. <<j, o>> \in ksOps[c]
    BY <1>2, <1>3
  <2>2. KsConnOf[o] = c /\ ksStage[o] \in KsTaken \cup {"kept", "dropped"} /\ j \in KsOpsOf[o] \ ksFreed[o]
    BY <2>1 DEF KsKept
  <2>3. o = b => j # i
    BY <1>2, <1>3, <2>2
  <2> QED
    BY <1>0, <1>1, <2>2, <2>3 DEF KsTaken, KsStarted
<1>4. \A c \in KsConns, j \in KsIds, o, p \in KsBatches : <<j, o>> \in ksOps'[c] /\ <<j, p>> \in ksOps'[c] => o = p
  BY <1>2 DEF KsKept
<1>5. \A o \in KsBatches : ksStage'[o] \in {"read", "passed", "kept", "left"} => o # b /\ KsConnOf[o] \in KsConns
  BY <1>0 DEF KsKept
<1>6. \A o, p \in KsBatches :
        ksStage'[o] \in {"read", "passed", "kept"} /\ ksStage'[p] \in {"read", "passed", "kept"} /\ KsConnOf[o] = KsConnOf[p]
          => o = p
  BY <1>0 DEF KsKept
<1>7. ASSUME NEW o \in KsBatches, ksStage'[o] \in {"read", "passed"}, NEW j \in KsOpsOf[o], NEW p \in KsBatches
      PROVE  <<j, p>> \notin ksOps'[KsConnOf[o]]
  <2>1. o # b /\ ksStage[o] \in {"read", "passed"} /\ KsConnOf[o] \in KsConns /\ j \in KsIds
    BY <1>0, <1>5, <1>7, KsOpsTyped
  <2>2. <<j, p>> \notin ksOps[KsConnOf[o]]
    BY <2>1 DEF KsKept
  <2> QED
    BY <1>2, <2>1, <2>2
<1> QED
  BY <1>3, <1>4, <1>5, <1>6, <1>7 DEF KsKept

LEMMA KsBatchKeepsKept ==
  ASSUME KsTypeOK, KsKept, KsSaid, NEW b \in KsBatches, KsMessage(b) \/ KsRequest(b) \/ KsHangUp(b) \/ BatchWork(b)
  PROVE  KsKept'
<1> USE DEF ksConnVars, ksDrainVars, ksBatchVars
<1> DEFINE r == KsConnOf[b]
<1>0. KsIds = UNION {KsOpsOf[o] : o \in KsBatches}
  BY DEF KsIds
<1>1. CASE KsMessage(b)
  <2>1. r \in KsConns /\ (\A o \in KsBatches : KsConnOf[o] = r => ~KsReads(o)) /\ ksStage[b] = "unsent" /\ ksOps' = ksOps /\ ksFreed' = ksFreed
    BY <1>1 DEF KsMessage, Reading, On, KsReads, Opened
  <2>2. \A c \in KsConns, i \in KsIds : <<i, b>> \notin ksOps[c]
    BY <2>1 DEF KsKept, KsTaken, KsStarted
  <2>3. CASE \E i \in KsOpsOf[b] : InUse(r, i)
    <3>1. ksStage' = [ksStage EXCEPT ![b] = "refused"]
      BY <1>1, <2>3 DEF KsMessage, To
    <3> QED
      BY <2>1, <2>2, <3>1, KsKeptMoves
  <2>4. CASE ~\E i \in KsOpsOf[b] : InUse(r, i)
    <3>1. ksStage' = [ksStage EXCEPT ![b] = "read"]
      BY <1>1, <2>4 DEF KsMessage, To
    <3>2. \A i \in KsOpsOf[b], o \in KsBatches : <<i, o>> \notin ksOps[r]
      BY <2>4 DEF InUse
    <3> QED
      BY <2>1, <2>2, <3>1, <3>2, KsKeptMoves
  <2> QED
    BY <2>3, <2>4
<1>2. CASE KsRequest(b)
  <2>1. ksStage[b] = "unsent" /\ ksOps' = ksOps /\ ksFreed' = ksFreed
    BY <1>2 DEF KsRequest
  <2>2. \A c \in KsConns, i \in KsIds : <<i, b>> \notin ksOps[c]
    BY <2>1 DEF KsKept, KsTaken, KsStarted
  <2>3. ksStage' = [ksStage EXCEPT ![b] = "refused"] \/ ksStage' = [ksStage EXCEPT ![b] = "launched"]
    BY <1>2 DEF KsRequest, To
  <2> QED
    BY <2>1, <2>2, <2>3, KsKeptMoves
<1>3. ASSUME Leaves(b) PROVE KsKept'
  <2>1. ksOps' = ksOps /\ ksFreed' = ksFreed
    BY <1>3 DEF Leaves
  <2>2. ksStage' = [ksStage EXCEPT ![b] = "handing"] \/ ksStage' = [ksStage EXCEPT ![b] = "over"]
    BY <1>3 DEF Leaves, To
  <2>3. KsHolds("handing") /\ KsHolds("over")
    BY DEF KsHolds, KsTaken, KsStarted
  <2> QED
    BY <2>1, <2>2, <2>3, KsKeptMoves
<1>4. CASE KsHangUp(b)
  BY <1>3, <1>4 DEF KsHangUp
<1>5. CASE KsAccept(b)
  <2>1. ksOps' = ksOps /\ ksFreed' = ksFreed /\ ksStage' = [ksStage EXCEPT ![b] = "passed"] /\ ksStage[b] = "read" /\ r \in KsConns
    BY <1>5 DEF KsAccept, To, KsKept
  <2>2. \A c \in KsConns, i \in KsIds : <<i, b>> \notin ksOps[c]
    BY <2>1 DEF KsKept, KsTaken, KsStarted
  <2> QED
    BY <2>1, <2>2, KsKeptMoves DEF KsReads
<1>6. CASE KsRefuse(b)
  <2>1. ksOps' = ksOps /\ ksFreed' = ksFreed /\ ksStage' = [ksStage EXCEPT ![b] = "refused"] /\ ksStage[b] = "read"
    BY <1>6 DEF KsRefuse, To
  <2>2. \A c \in KsConns, i \in KsIds : <<i, b>> \notin ksOps[c]
    BY <2>1 DEF KsKept, KsTaken, KsStarted
  <2> QED
    BY <2>1, <2>2, KsKeptMoves
<1>7. CASE Keep(b)
  BY <1>7, KsKeptKeep
<1>8. CASE Launch(b)
  <2>1. ksOps' = ksOps /\ ksFreed' = ksFreed /\ ksStage' = [ksStage EXCEPT ![b] = "launched"]
    BY <1>8 DEF Launch, To
  <2> QED
    BY <2>1, KsKeptMoves DEF KsHolds, KsTaken
<1>9. CASE KsStart(b)
  <2>1. ksOps' = ksOps /\ ksFreed' = ksFreed /\ ksStage' = [ksStage EXCEPT ![b] = "runs"]
    BY <1>9 DEF KsStart, To
  <2> QED
    BY <2>1, KsKeptMoves DEF KsHolds, KsTaken, KsStarted
<1>10. CASE Drop(b)
  <2>1. ksOps' = ksOps /\ ksFreed' = ksFreed /\ ksStage' = [ksStage EXCEPT ![b] = "dropped"]
    BY <1>10 DEF Drop, To
  <2> QED
    BY <2>1, KsKeptMoves DEF KsHolds
<1>11. ASSUME NEW i \in KsIds, KsAnswer(b, i) PROVE KsKept'
  BY <1>11, KsKeptAnswer
<1>12. CASE KsWrite(b)
  <2>1. ksOps' = ksOps /\ ksFreed' = ksFreed /\ ksStage' = [ksStage EXCEPT ![b] = "runs"]
    BY <1>12 DEF KsWrite, To
  <2> QED
    BY <2>1, KsKeptMoves DEF KsHolds, KsTaken, KsStarted
<1>13. CASE KsCountOff(b)
  BY <1>3, <1>13 DEF KsCountOff
<1>14. CASE HandedOver(b)
  <2>1. ksOps' = ksOps /\ ksFreed' = ksFreed /\ ksStage' = [ksStage EXCEPT ![b] = "over"]
    BY <1>14 DEF HandedOver, To
  <2> QED
    BY <2>1, KsKeptMoves DEF KsHolds, KsTaken, KsStarted
<1>15. CASE Leave(b)
  <2>1. ksFreed' = ksFreed /\ ksStage' = [ksStage EXCEPT ![b] = "left"] /\ r \in KsConns
    BY <1>15 DEF Leave, To
  <2>2. \A c \in KsConns : ksOps'[c] \subseteq ksOps[c]
    BY <1>15, <2>1 DEF Leave, KsTypeOK
  <2> QED
    BY <2>1, <2>2, KsKeptMoves DEF KsHolds, KsTaken, KsStarted
<1>16. ASSUME NEW d \in KsDrains, HandOver(b, d) PROVE KsKept'
  BY <1>16, KsKeptShrinks DEF HandOver
<1> QED
  BY <1>1, <1>2, <1>4, <1>5, <1>6, <1>7, <1>8, <1>9, <1>10, <1>11, <1>12, <1>13, <1>14, <1>15, <1>16 DEF BatchWork

LEMMA KsConnKeepsKept ==
  ASSUME KsTypeOK, KsKept, NEW c \in KsConns,
         ConnWork(c) \/ KsClockPasses(c) \/ PeerLeaves(c) \/ Connect(c) \/ \E i \in KsIds : KsCancel(c, i)
  PROVE  KsKept'
<1>1. ksStage' = ksStage /\ ksFreed' = ksFreed
  BY DEF ConnWork, KsClockPasses, PeerLeaves, ServerCloses, CloseSession, Connect, KsCancel, KsExpire, Look, EndSocket,
         ksConnVars, ksBatchVars
<1>2. \A o \in KsConns : ksOps'[o] \subseteq ksOps[o]
  BY DEF ConnWork, KsClockPasses, PeerLeaves, ServerCloses, CloseSession, Connect, KsCancel, KsExpire, Look, EndSocket,
         ksConnVars, ksBatchVars, KsTypeOK
<1> QED
  BY <1>1, <1>2, KsKeptShrinks

LEMMA KsDrainKeepsKept ==
  ASSUME KsKept, NEW d \in KsDrains, DrainCalled(d) \/ DrainWork(d)
  PROVE  KsKept'
<1>1. ksStage' = ksStage /\ ksFreed' = ksFreed /\ ksOps' = ksOps
  BY DEF DrainCalled, DrainWork, DrainCounts, DrainJoins, DrainCountsAgain, DrainTold, DrainLate, ksBatchVars
<1> QED
  BY <1>1, KsKeptShrinks

-----------------------------------------------------------------------------
(* What was told                                                             *)

KsSaidOf(b) ==
  KsConnOf[b] \in KsConns =>
    /\ ksStage[b] = "runs" => ksTold[b] = ksFreed[b] \/ ksLooked[KsConnOf[b]] # {}
    /\ ksStage[b] \in {"handing", "over", "left"} =>
         KsConnOf[b] \in ksClosed \/ ksTold[b] = KsOpsOf[b] \/ ksLooked[KsConnOf[b]] # {}
    /\ ksStage[b] \in KsTaken => ksLooked[KsConnOf[b]] = {} \/ b \in ksSlipped \/ ksTold[b] = KsOpsOf[b]

LEMMA KsSaidMoves ==
  ASSUME KsTypeOK, KsSaid, NEW b \in KsBatches, NEW s, ksStage' = [ksStage EXCEPT ![b] = s],
         ksFreed' = ksFreed, ksTold' = ksTold, ksLooked' = ksLooked, ksEnded' = ksEnded, ksClosed' = ksClosed,
         ksSlipped \subseteq ksSlipped', s \in KsStarted \/ ksStage[b] \notin KsStarted,
         KsSaidOf(b)'
  PROVE  KsSaid'
<1>0. ksStage'[b] = s /\ \A o \in KsBatches : o # b => ksStage'[o] = ksStage[o]
  BY KsMoves
<1>1. \A o \in KsBatches : ksStage'[o] \notin KsStarted => ksStage[o] \notin KsStarted
  BY <1>0
<1>2. \A o \in KsBatches : ksTold'[o] \subseteq ksFreed'[o] /\ ksFreed'[o] \subseteq KsOpsOf[o]
  BY DEF KsSaid
<1>3. \A o \in KsBatches : ksStage'[o] \notin KsStarted => ksFreed'[o] = {}
  BY <1>1 DEF KsSaid
<1>4. ASSUME NEW o \in KsBatches PROVE KsSaidOf(o)'
  <2>1. CASE o = b
    BY <2>1
  <2>2. CASE o # b
    <3>1. KsSaidOf(o)
      BY DEF KsSaid, KsSaidOf
    <3> QED
      BY <1>0, <2>2, <3>1 DEF KsSaidOf
  <2> QED
    BY <2>1, <2>2
<1>5. \A c \in KsConns : ksEnded'[c] \subseteq ksLooked'[c]
  BY DEF KsSaid
<1> QED
  BY <1>2, <1>3, <1>4, <1>5 DEF KsSaid, KsSaidOf

LEMMA KsBatchKeepsSaid ==
  ASSUME KsTypeOK, KsKept, KsSaid, NEW b \in KsBatches, KsMessage(b) \/ KsRequest(b) \/ KsHangUp(b) \/ BatchWork(b)
  PROVE  KsSaid'
<1> USE DEF ksConnVars, ksDrainVars, ksBatchVars
<1> DEFINE r == KsConnOf[b]
           SaidSame == /\ ksFreed' = ksFreed /\ ksTold' = ksTold /\ ksLooked' = ksLooked /\ ksEnded' = ksEnded
                   /\ ksClosed' = ksClosed /\ ksSlipped \subseteq ksSlipped'
<1>0. KsSaidOf(b) /\ ksTold[b] \subseteq ksFreed[b] /\ (ksStage[b] \notin KsStarted => ksFreed[b] = {})
  BY DEF KsSaid, KsSaidOf
<1>1. ASSUME NEW s \in {"read", "refused", "passed", "kept", "dropped"}, ksStage' = [ksStage EXCEPT ![b] = s], SaidSame, ksStage[b] \notin KsStarted
      PROVE  KsSaid'
  <2>1. ksStage'[b] = s
    BY <1>1, KsMoves
  <2>2. KsSaidOf(b)'
    BY <2>1 DEF KsSaidOf, KsTaken, KsStarted
  <2>3. ksSlipped \subseteq ksSlipped'
    BY <1>1
  <2> QED
    BY <1>1, <2>2, <2>3, KsSaidMoves
<1>2. CASE KsMessage(b)
  BY <1>1, <1>2 DEF KsMessage, To, KsStarted
<1>3. CASE KsRequest(b)
  <2>1. SaidSame /\ ksStage[b] \notin KsStarted /\ r \notin KsConns
    BY <1>3, KtServerAssumption DEF KsRequest, KsStarted
  <2>2. CASE ksDraining
    BY <1>1, <1>3, <2>1, <2>2 DEF KsRequest, To
  <2>3. CASE ~ksDraining
    <3>1. ksStage' = [ksStage EXCEPT ![b] = "launched"] /\ KsSaidOf(b)'
      BY <1>3, <2>1, <2>3 DEF KsRequest, To, KsSaidOf
    <3> QED
      BY <2>1, <3>1, KsSaidMoves
  <2> QED
    BY <2>2, <2>3
<1>4. CASE KsAccept(b)
  BY <1>1, <1>4 DEF KsAccept, To, KsStarted
<1>5. CASE KsRefuse(b)
  BY <1>1, <1>5 DEF KsRefuse, To, KsStarted
<1>6. CASE Keep(b)
  BY <1>1, <1>6 DEF Keep, To, KsStarted
<1>7. CASE Drop(b)
  BY <1>1, <1>7 DEF Drop, To, KsStarted
<1>8. CASE Launch(b)
  <2>1. ksStage' = [ksStage EXCEPT ![b] = "launched"] /\ SaidSame /\ ksStage[b] \notin KsStarted
    BY <1>8 DEF Launch, To, KsStarted
  <2>2. ksLooked[r] = {} \/ b \in ksSlipped'
    BY <1>8 DEF Launch
  <2>3. ksStage'[b] = "launched"
    BY <2>1, KsMoves
  <2>4. KsSaidOf(b)'
    BY <2>1, <2>2, <2>3 DEF KsSaidOf
  <2> QED
    BY <2>1, <2>4, KsSaidMoves
<1>9. CASE KsStart(b)
  <2>1. ksStage' = [ksStage EXCEPT ![b] = "runs"] /\ SaidSame /\ ksStage[b] = "launched"
    BY <1>9 DEF KsStart, To
  <2>2. ksStage'[b] = "runs" /\ ksFreed[b] = {} /\ ksTold[b] = {}
    BY <1>0, <2>1, KsMoves DEF KsStarted
  <2>3. KsSaidOf(b)'
    BY <1>0, <2>1, <2>2 DEF KsSaidOf, KsTaken, KsStarted
  <2> QED
    BY <2>1, <2>3, KsSaidMoves DEF KsStarted
<1>10. ASSUME Leaves(b), KsEnds(b) \/ r \notin KsConns PROVE KsSaid'
  <2>1. SaidSame /\ b \in KsInFlight /\ ksStage[b] \in {"runs", "writes"}
    BY <1>10 DEF Leaves, KsInFlight
  <2>2. PICK s \in {"handing", "over"} : ksStage' = [ksStage EXCEPT ![b] = s]
    BY <1>10 DEF Leaves, To
  <2>3. ksStage'[b] = s
    BY <2>2, KsMoves
  <2>4. r \in KsConns => r \in ksClosed \/ ksTold[b] = KsOpsOf[b] \/ ksLooked[r] # {}
    BY <1>0, <1>10 DEF KsEnds, Over, KsSaidOf
  <2>5. KsSaidOf(b)'
    BY <1>0, <2>1, <2>3, <2>4 DEF KsSaidOf, KsTaken, KsStarted
  <2>6. s \in KsStarted
    BY DEF KsStarted
  <2> QED
    BY <2>1, <2>2, <2>5, <2>6, KsSaidMoves
<1>11. CASE KsHangUp(b)
  BY <1>10, <1>11, KtServerAssumption DEF KsHangUp
<1>12. CASE KsCountOff(b)
  BY <1>10, <1>12 DEF KsCountOff
<1>13. CASE HandedOver(b)
  <2>1. ksStage' = [ksStage EXCEPT ![b] = "over"] /\ SaidSame /\ ksStage[b] = "handing"
    BY <1>13 DEF HandedOver, To
  <2>2. ksStage'[b] = "over"
    BY <2>1, KsMoves
  <2>3. KsSaidOf(b)'
    BY <1>0, <2>1, <2>2 DEF KsSaidOf, KsTaken, KsStarted
  <2> QED
    BY <2>1, <2>3, KsSaidMoves DEF KsStarted
<1>14. CASE Leave(b)
  <2>1. ksStage' = [ksStage EXCEPT ![b] = "left"] /\ SaidSame /\ ksStage[b] = "over"
    BY <1>14 DEF Leave, To
  <2>2. ksStage'[b] = "left"
    BY <2>1, KsMoves
  <2>3. KsSaidOf(b)'
    BY <1>0, <2>1, <2>2 DEF KsSaidOf, KsTaken, KsStarted
  <2> QED
    BY <2>1, <2>3, KsSaidMoves DEF KsStarted
<1>15. ASSUME NEW i \in KsIds, KsAnswer(b, i) PROVE KsSaid'
  <2>0. ksStage'[b] = "writes" /\ (\A o \in KsBatches : o # b => ksStage'[o] = ksStage[o]) /\ ksStage[b] = "runs"
    BY <1>15, KsMoves DEF KsAnswer, To
  <2>1. ksFreed'[b] = ksFreed[b] \cup {i} /\ (\A o \in KsBatches : o # b => ksFreed'[o] = ksFreed[o]) /\ i \in KsOpsOf[b]
    BY <1>15 DEF KsTypeOK, KsAnswer
  <2>2. ksTold' = ksTold /\ ksLooked' = ksLooked /\ ksEnded' = ksEnded /\ ksClosed' = ksClosed /\ ksSlipped' = ksSlipped
    BY <1>15 DEF KsAnswer
  <2>3. \A o \in KsBatches : ksTold'[o] \subseteq ksFreed'[o] /\ ksFreed'[o] \subseteq KsOpsOf[o]
    BY <2>1, <2>2 DEF KsSaid
  <2>4. \A o \in KsBatches : ksStage'[o] \notin KsStarted => ksFreed'[o] = {}
    BY <2>0, <2>1 DEF KsSaid, KsStarted
  <2>5. ASSUME NEW o \in KsBatches PROVE KsSaidOf(o)'
    <3>1. KsSaidOf(o)
      BY DEF KsSaid, KsSaidOf
    <3> QED
      BY <2>0, <2>1, <2>2, <3>1 DEF KsSaidOf, KsTaken, KsStarted
  <2> QED
    BY <2>2, <2>3, <2>4, <2>5 DEF KsSaid, KsSaidOf
<1>16. CASE KsWrite(b)
  <2>0. ksStage'[b] = "runs" /\ (\A o \in KsBatches : o # b => ksStage'[o] = ksStage[o]) /\ ksStage[b] = "writes"
    BY <1>16, KsMoves DEF KsWrite, To
  <2>1. ksTold'[b] \in {ksTold[b], ksFreed[b]} /\ (\A o \in KsBatches : o # b => ksTold'[o] = ksTold[o])
        /\ (Hears(b) => ksTold'[b] = ksFreed[b])
    BY <1>16 DEF KsTypeOK, KsWrite
  <2>2. ksFreed' = ksFreed /\ ksLooked' = ksLooked /\ ksEnded' = ksEnded /\ ksClosed' = ksClosed /\ ksSlipped' = ksSlipped
    BY <1>16 DEF KsWrite
  <2>3. \A o \in KsBatches : ksTold'[o] \subseteq ksFreed'[o] /\ ksFreed'[o] \subseteq KsOpsOf[o]
    BY <2>1, <2>2 DEF KsSaid
  <2>4. \A o \in KsBatches : ksStage'[o] \notin KsStarted => ksFreed'[o] = {}
    BY <2>0, <2>2 DEF KsSaid, KsStarted
  <2>5. r \in KsConns => Hears(b) \/ ksLooked[r] # {}
    BY KtServerAssumption DEF Hears, KsSaid
  <2>6. ksTold[b] = KsOpsOf[b] => ksTold'[b] = KsOpsOf[b]
    BY <1>0, <2>1 DEF KsSaid
  <2>7. ASSUME NEW o \in KsBatches PROVE KsSaidOf(o)'
    <3>1. KsSaidOf(o)
      BY DEF KsSaid, KsSaidOf
    <3>2. CASE o = b
      BY <2>0, <2>1, <2>2, <2>5, <2>6, <3>1, <3>2 DEF KsSaidOf, KsTaken, KsStarted
    <3>3. CASE o # b
      BY <2>0, <2>1, <2>2, <3>1, <3>3 DEF KsSaidOf
    <3> QED
      BY <3>2, <3>3
  <2> QED
    BY <2>2, <2>3, <2>4, <2>7 DEF KsSaid, KsSaidOf
<1>17. ASSUME NEW d \in KsDrains, HandOver(b, d) PROVE KsSaid'
  BY <1>17 DEF HandOver, KsSaid
<1> QED
  BY <1>2, <1>3, <1>4, <1>5, <1>6, <1>7, <1>8, <1>9, <1>11, <1>12, <1>13, <1>14, <1>15, <1>16, <1>17 DEF BatchWork

\* A session is found idle only when what it took on has been told or cut.
LEMMA KsLookKeepsSaid ==
  ASSUME KsTypeOK, KtCounted, KsSaid, NEW c \in KsConns, NEW w \in {"away", "expired"}, Look(c, w)
  PROVE  KsSaid'
<1>0. ksStage' = ksStage /\ ksFreed' = ksFreed /\ ksTold' = ksTold /\ ksEnded' = ksEnded /\ ksClosed' = ksClosed /\ ksSlipped' = ksSlipped
  BY DEF Look, ksBatchVars
<1>1. (\A o \in KsConns : ksLooked[o] \subseteq ksLooked'[o]) /\ \A o \in KsConns : o # c => ksLooked'[o] = ksLooked[o]
  BY DEF Look, KsTypeOK
<1>2. ASSUME NEW b \in KsBatches, KsConnOf[b] = c, ksStage[b] \in KsTaken, ksLooked'[c] # {}, ksLooked[c] = {}
      PROVE  ksTold[b] = KsOpsOf[b]
  <2>1. IdleFor(c, w)
    BY <1>2 DEF Look
  <2>2. Cardinality(RunningOn(c)) = 0
    BY <2>1 DEF IdleFor, KtCounted
  <2>3. RunningOn(c) = {}
    BY <2>2, KsFinite, FS_EmptySet
  <2>4. b \notin RunningOn(c)
    BY <2>3
  <2>5. ksStage[b] = "left"
    BY <1>2, <2>4 DEF RunningOn, On, KsTaken, KsStarted
  <2> QED
    BY <1>2, <2>1, <2>5 DEF KsSaid, IdleFor
<1>3. ASSUME NEW b \in KsBatches, KsConnOf[b] \in KsConns
      PROVE  KsSaidOf(b)'
  <2>1. KsSaidOf(b)
    BY DEF KsSaid, KsSaidOf
  <2>2. ksLooked[KsConnOf[b]] # {} => ksLooked'[KsConnOf[b]] # {}
    BY <1>1, <1>3
  <2>3. ksStage[b] \in KsTaken => ksLooked'[KsConnOf[b]] = {} \/ b \in ksSlipped \/ ksTold[b] = KsOpsOf[b]
    <3>1. CASE KsConnOf[b] = c /\ ksLooked[c] = {}
      BY <1>2, <3>1
    <3>2. CASE KsConnOf[b] # c \/ ksLooked[c] # {}
      BY <1>1, <1>3, <2>1, <3>2 DEF KsSaidOf
    <3> QED
      BY <3>1, <3>2
  <2> QED
    BY <1>0, <1>3, <2>1, <2>2, <2>3 DEF KsSaidOf
<1>4. \A o \in KsConns : ksEnded'[o] \subseteq ksLooked'[o]
  BY <1>0, <1>1 DEF KsSaid
<1> QED
  BY <1>0, <1>3, <1>4 DEF KsSaid, KsSaidOf

LEMMA KsConnKeepsSaid ==
  ASSUME KsTypeOK, KtCounted, KsSaid, NEW c \in KsConns,
         ConnWork(c) \/ KsClockPasses(c) \/ PeerLeaves(c) \/ Connect(c) \/ \E i \in KsIds : KsCancel(c, i)
  PROVE  KsSaid'
<1> USE DEF ksConnVars, ksDrainVars, ksBatchVars
<1>1. CASE CloseSession(c)
  <2>1. ksStage' = ksStage /\ ksFreed' = ksFreed /\ ksTold' = ksTold /\ ksEnded' = ksEnded /\ ksClosed \subseteq ksClosed' /\ ksSlipped' = ksSlipped /\ ksLooked' = ksLooked
    BY <1>1 DEF CloseSession
  <2> QED
    BY <2>1 DEF KsSaid
<1>2. ASSUME NEW w \in {"away", "expired"}, EndSocket(c, w) PROVE KsSaid'
  <2>1. ksStage' = ksStage /\ ksFreed' = ksFreed /\ ksTold' = ksTold /\ ksClosed' = ksClosed /\ ksSlipped' = ksSlipped /\ ksLooked' = ksLooked
    BY <1>2 DEF EndSocket
  <2>2. \A o \in KsConns : ksEnded'[o] \subseteq ksLooked'[o]
    BY <1>2, <2>1 DEF EndSocket, KsTypeOK, KsSaid
  <2> QED
    BY <2>1, <2>2 DEF KsSaid
<1>3. CASE KsClockPasses(c)
  BY <1>3 DEF KsClockPasses, KsSaid
<1>4. CASE Connect(c)
  BY <1>4 DEF Connect, KsSaid
<1>5. ASSUME NEW i \in KsIds, KsCancel(c, i) PROVE KsSaid'
  BY <1>5 DEF KsCancel, KsSaid
<1>6. CASE KsExpire(c)
  BY <1>6 DEF KsExpire, KsRevoke, KsSaid
<1> QED
  BY <1>1, <1>2, <1>3, <1>4, <1>5, <1>6, KsLookKeepsSaid DEF ConnWork, ServerCloses, PeerLeaves

LEMMA KsDrainKeepsSaid ==
  ASSUME KsSaid, NEW d \in KsDrains, DrainCalled(d) \/ DrainWork(d)
  PROVE  KsSaid'
<1>1. ksBatchVars' = ksBatchVars /\ ksLooked' = ksLooked /\ ksEnded' = ksEnded /\ ksClosed' = ksClosed
  BY DEF DrainCalled, DrainWork, DrainCounts, DrainJoins, DrainCountsAgain, DrainTold, DrainLate, ksBatchVars, ksConnVars
<1> QED
  BY <1>1 DEF KsSaid, ksBatchVars

-----------------------------------------------------------------------------
(* Those who wait in drain()                                                 *)

KsTelling == \E b \in KsBatches : ksStage[b] = "handing"

\* What was in flight when a call was made only ends.
LEMMA KsBeforeOnlyEnds ==
  ASSUME KsTypeOK, KsWaits, ksBefore' = ksBefore, NEW b \in KsBatches, NEW s, ksStage' = [ksStage EXCEPT ![b] = s],
         s \in {"runs", "writes"} => ksStage[b] \in {"runs", "writes"} \/ ksStage[b] \notin KsStarted,
         ksStage[b] \in KsStarted => s \in KsStarted
  PROVE  \A d \in KsDrains : /\ KsBeforeEnded(d) => KsBeforeEnded(d)'
                             /\ \A o \in ksBefore'[d] : ksStage'[o] \in KsStarted
<1>0. ksStage'[b] = s /\ \A o \in KsBatches : o # b => ksStage'[o] = ksStage[o]
  BY KsMoves
<1>1. \A d \in KsDrains : ksBefore[d] \subseteq KsBatches /\ \A o \in ksBefore[d] : ksStage[o] \in KsStarted
  BY DEF KsTypeOK, KsWaits
<1>2. \A o \in KsBatches : ksStage'[o] \in {"runs", "writes"} => ksStage[o] \in {"runs", "writes"} \/ ksStage[o] \notin KsStarted
  BY <1>0
<1>3. \A d \in KsDrains : KsBeforeEnded(d) => KsBeforeEnded(d)'
  BY <1>1, <1>2 DEF KsBeforeEnded, KsInFlight
<1>4. \A o \in KsBatches : ksStage[o] \in KsStarted => ksStage'[o] \in KsStarted
  BY <1>0
<1>5. \A d \in KsDrains : \A o \in ksBefore'[d] : ksStage'[o] \in KsStarted
  BY <1>1, <1>4
<1> QED
  BY <1>3, <1>5

\* A batch moves, nobody is told, and nothing comes to its end.
LEMMA KsWaitsMoves ==
  ASSUME KsTypeOK, KsWaits, ksDrainVars' = ksDrainVars, NEW b \in KsBatches, NEW s, ksStage' = [ksStage EXCEPT ![b] = s],
         s \in {"runs", "writes"} => ksStage[b] \in {"runs", "writes"} \/ ksStage[b] \notin KsStarted,
         ksStage[b] \in KsStarted => s \in KsStarted,
         s # "handing", ksStage[b] = "handing" => ksIdle = {},
         ksActive' = 0 => ksActive = 0
  PROVE  KsWaits'
<1>0. ksStage'[b] = s /\ \A o \in KsBatches : o # b => ksStage'[o] = ksStage[o]
  BY KsMoves
<1>1. ksIdle' = ksIdle /\ ksDone' = ksDone /\ ksDrain' = ksDrain /\ ksBefore' = ksBefore /\ ksRaced' = ksRaced
  BY DEF ksDrainVars
<1>2. \A d \in KsDrains : /\ KsBeforeEnded(d) => KsBeforeEnded(d)'
                          /\ \A o \in ksBefore'[d] : ksStage'[o] \in KsStarted
  BY <1>1, KsBeforeOnlyEnds
<1>3. KsTelling' => KsTelling
  BY <1>0 DEF KsTelling
<1>4. KsTelling /\ ksIdle # {} => KsTelling'
  BY <1>0 DEF KsTelling
<1>5. ASSUME NEW d \in KsDrains, ksDrain'[d] = "waits", d \notin ksDone', ksActive' = 0
      PROVE  KsTelling'
  <2>1. d \in ksIdle
    BY <1>1, <1>5 DEF KsWaits
  <2>2. KsTelling
    BY <1>1, <1>5 DEF KsWaits, KsTelling
  <2> QED
    BY <1>4, <2>1, <2>2
<1>6. ASSUME NEW d \in ksIdle \ ksRaced, KsTelling' PROVE KsBeforeEnded(d)'
  BY <1>2, <1>3, <1>6 DEF KsWaits, KsTelling, KsTypeOK
<1>7. ASSUME NEW d \in KsDrains \ ksRaced, d \in ksDone \/ ksDrain[d] = "intime" PROVE KsBeforeEnded(d)'
  BY <1>2, <1>7 DEF KsWaits
<1> QED
  BY <1>1, <1>2, <1>5, <1>6, <1>7 DEF KsWaits, KsTelling

LEMMA KsLeavesKeepsWaits ==
  ASSUME KsTypeOK, KtCounted, KsWaits, NEW b \in KsBatches, Leaves(b)
  PROVE  KsWaits'
<1>1. ksIdle' = ksIdle /\ ksDone' = ksDone /\ ksDrain' = ksDrain /\ ksBefore' = ksBefore /\ ksRaced' = ksRaced
  BY DEF Leaves, ksDrainVars
<1>2. ksStage[b] \in {"runs", "writes"}
  BY DEF Leaves, KsInFlight
<1>3. ksActive' \in Nat /\ (ksActive' = 0 => KsInFlight' = {}) /\ ksActive' = ksActive - 1 /\ ksActive \in Nat
  BY KsEndsOnce DEF Leaves, KsTypeOK
<1> DEFINE s == IF ksActive = 1 THEN "handing" ELSE "over"
<1>4. ksStage' = [ksStage EXCEPT ![b] = s] /\ s \in KsStarted /\ s \notin {"runs", "writes"}
  BY DEF Leaves, To, KsStarted
<1>5. ksStage'[b] = s /\ \A o \in KsBatches : o # b => ksStage'[o] = ksStage[o]
  BY <1>4, KsMoves
<1>6. \A d \in KsDrains : /\ KsBeforeEnded(d) => KsBeforeEnded(d)'
                          /\ \A o \in ksBefore'[d] : ksStage'[o] \in KsStarted
  BY <1>1, <1>4, KsBeforeOnlyEnds
<1>7. CASE ksActive = 1
  <2>1. KsInFlight' = {} /\ KsTelling'
    BY <1>3, <1>5, <1>7 DEF KsTelling
  <2>2. \A d \in KsDrains : KsBeforeEnded(d)'
    BY <2>1 DEF KsBeforeEnded
  <2> QED
    BY <1>1, <1>6, <2>1, <2>2 DEF KsWaits, KsTelling, KsTypeOK
<1>8. CASE ksActive # 1
  <2>1. ksActive' # 0 /\ (KsTelling' => KsTelling)
    BY <1>3, <1>5, <1>8 DEF KsTelling
  <2>2. \A d \in ksIdle \ ksRaced : KsTelling' => KsBeforeEnded(d)'
    BY <1>6, <2>1 DEF KsWaits, KsTelling, KsTypeOK
  <2>3. \A d \in KsDrains \ ksRaced : d \in ksDone \/ ksDrain[d] = "intime" => KsBeforeEnded(d)'
    BY <1>6 DEF KsWaits
  <2> QED
    BY <1>1, <1>6, <2>1, <2>2, <2>3 DEF KsWaits, KsTelling
<1> QED
  BY <1>7, <1>8

LEMMA KsHandOverKeepsWaits ==
  ASSUME KsTypeOK, KsWaits, NEW b \in KsBatches, NEW d \in KsDrains, HandOver(b, d)
  PROVE  KsWaits'
<1>1. /\ ksDrain' = ksDrain /\ ksBefore' = ksBefore /\ ksRaced' = ksRaced /\ ksStage' = ksStage /\ ksActive' = ksActive
      /\ ksIdle' = ksIdle \ {d} /\ ksDone' = ksDone \cup {d} /\ d \in ksIdle /\ ksStage[b] = "handing"
  BY DEF HandOver, ksBatchVars
<1>2. KsInFlight' = KsInFlight
  BY <1>1 DEF KsInFlight
<1>3. d \notin ksRaced => KsBeforeEnded(d)
  BY <1>1 DEF KsWaits
<1>4. \A e \in KsDrains \ ksRaced : e \in ksDone' \/ ksDrain'[e] = "intime" => KsBeforeEnded(e)'
  BY <1>1, <1>2, <1>3 DEF KsWaits, KsBeforeEnded
<1>5. \A e \in ksIdle' \ ksRaced : KsTelling' => KsBeforeEnded(e)'
  BY <1>1, <1>2 DEF KsWaits, KsBeforeEnded, KsTelling
<1> QED
  BY <1>1, <1>4, <1>5 DEF KsWaits, KsTelling

LEMMA KsBatchKeepsWaits ==
  ASSUME KsTypeOK, KtCounted, KsWaits, NEW b \in KsBatches, KsMessage(b) \/ KsRequest(b) \/ KsHangUp(b) \/ BatchWork(b)
  PROVE  KsWaits'
<1> USE DEF ksConnVars, ksBatchVars
<1>1. ASSUME NEW s \in {"read", "refused", "passed", "kept", "launched", "dropped", "writes", "runs", "left"},
             ksStage' = [ksStage EXCEPT ![b] = s], ksDrainVars' = ksDrainVars, ksActive' = ksActive,
             \/ ksStage[b] \in {"unsent", "read", "passed", "kept", "launched"} /\ s \notin {"runs", "writes"}
             \/ ksStage[b] \in {"runs", "writes"} /\ s \in {"runs", "writes"}
             \/ ksStage[b] = "over" /\ s = "left"
      PROVE  KsWaits'
  BY <1>1, KsWaitsMoves DEF KsStarted
<1>2. CASE KsMessage(b)
  BY <1>1, <1>2 DEF KsMessage, To
<1>3. CASE KsRequest(b)
  BY <1>1, <1>3 DEF KsRequest, To
<1>4. CASE KsAccept(b)
  BY <1>1, <1>4 DEF KsAccept, To
<1>5. CASE KsRefuse(b)
  BY <1>1, <1>5 DEF KsRefuse, To
<1>6. CASE Keep(b)
  BY <1>1, <1>6 DEF Keep, To
<1>7. CASE Launch(b)
  BY <1>1, <1>7 DEF Launch, To
<1>8. CASE Drop(b)
  BY <1>1, <1>8 DEF Drop, To
<1>9. ASSUME NEW i \in KsIds, KsAnswer(b, i) PROVE KsWaits'
  BY <1>1, <1>9 DEF KsAnswer, To
<1>10. CASE KsWrite(b)
  BY <1>1, <1>10 DEF KsWrite, To
<1>11. CASE Leave(b)
  BY <1>1, <1>11 DEF Leave, To
<1>12. CASE KsStart(b)
  <2>1. ksActive' # 0 /\ ksDrainVars' = ksDrainVars /\ ksStage' = [ksStage EXCEPT ![b] = "runs"] /\ ksStage[b] = "launched"
    BY <1>12 DEF KsStart, To, KsTypeOK
  <2> QED
    BY <2>1, KsWaitsMoves DEF KsStarted
<1>13. CASE HandedOver(b)
  <2>1. ksActive' = ksActive /\ ksDrainVars' = ksDrainVars /\ ksStage' = [ksStage EXCEPT ![b] = "over"] /\ ksIdle = {}
    BY <1>13 DEF HandedOver, To
  <2> QED
    BY <2>1, KsWaitsMoves DEF KsStarted
<1>14. ASSUME NEW d \in KsDrains, HandOver(b, d) PROVE KsWaits'
  BY <1>14, KsHandOverKeepsWaits
<1> QED
  BY <1>2, <1>3, <1>4, <1>5, <1>6, <1>7, <1>8, <1>9, <1>10, <1>11, <1>12, <1>13, <1>14, KsLeavesKeepsWaits
     DEF BatchWork, KsCountOff, KsHangUp

LEMMA KsConnKeepsWaits ==
  ASSUME KsWaits, NEW c \in KsConns,
         ConnWork(c) \/ KsClockPasses(c) \/ PeerLeaves(c) \/ Connect(c) \/ \E i \in KsIds : KsCancel(c, i)
  PROVE  KsWaits'
<1>1. ksStage' = ksStage /\ ksActive' = ksActive /\ ksDrainVars' = ksDrainVars
  BY DEF ConnWork, KsClockPasses, PeerLeaves, ServerCloses, CloseSession, Connect, KsCancel, KsExpire, Look, EndSocket,
         ksConnVars, ksBatchVars
<1> QED
  BY <1>1 DEF KsWaits, ksDrainVars, KsBeforeEnded, KsInFlight

LEMMA KsDrainKeepsWaits ==
  ASSUME KsTypeOK, KtCounted, KsWaits, NEW d \in KsDrains, DrainCalled(d) \/ DrainWork(d)
  PROVE  KsWaits'
<1>0. ksStage' = ksStage /\ ksActive' = ksActive /\ ksDone' = ksDone
  BY DEF DrainCalled, DrainWork, DrainCounts, DrainJoins, DrainCountsAgain, DrainTold, DrainLate, ksBatchVars
<1>1. KsInFlight' = KsInFlight /\ (KsTelling' <=> KsTelling)
  BY <1>0 DEF KsInFlight, KsTelling
<1>2. ksActive = 0 => KsInFlight = {}
  BY KsFinite, FS_EmptySet DEF KtCounted
<1>3. ksActive = 0 => KsBeforeEnded(d)
  BY <1>2 DEF KsBeforeEnded
<1>4. CASE DrainCalled(d)
  <2>1. ksDrain[d] = "out" /\ ksIdle' = ksIdle /\ ksRaced' = ksRaced
    BY <1>4 DEF DrainCalled
  <2>2. ksDrain'[d] = "told" /\ \A e \in KsDrains : e # d => ksDrain'[e] = ksDrain[e]
    BY <1>4 DEF DrainCalled, DrainTo, KsTypeOK
  <2>3. ksBefore'[d] = KsInFlight /\ \A e \in KsDrains : e # d => ksBefore'[e] = ksBefore[e]
    BY <1>4 DEF DrainCalled, KsTypeOK
  <2>4. d \notin ksIdle /\ d \notin ksDone
    BY <2>1 DEF KsWaits
  <2>5. \A e \in KsDrains : e # d => (KsBeforeEnded(e)' <=> KsBeforeEnded(e))
    BY <1>1, <2>3 DEF KsBeforeEnded
  <2>6. \A e \in KsDrains : \A b \in ksBefore'[e] : ksStage'[b] \in KsStarted
    BY <1>0, <2>3 DEF KsWaits, KsInFlight, KsStarted
  <2>7. \A e \in ksIdle' \ ksRaced' : KsTelling' => KsBeforeEnded(e)'
    BY <1>1, <2>1, <2>4, <2>5 DEF KsWaits, KsTelling, KsTypeOK
  <2>8. \A e \in KsDrains \ ksRaced' : e \in ksDone' \/ ksDrain'[e] = "intime" => KsBeforeEnded(e)'
    BY <1>0, <2>1, <2>2, <2>4, <2>5 DEF KsWaits
  <2>9. ksIdle \subseteq KsDrains /\ ksDone \subseteq KsDrains
    BY DEF KsTypeOK
  <2>10. \A e \in ksIdle' : ksDrain'[e] \in {"joined", "waits"}
    BY <2>1, <2>2, <2>4, <2>9 DEF KsWaits
  <2>11. \A e \in KsDrains : ksDrain'[e] \in {"joined", "waits"} => e \in ksIdle' \cup ksDone'
    BY <1>0, <2>1, <2>2 DEF KsWaits
  <2>12. \A e \in ksDone' : ksDrain'[e] \in {"joined", "waits", "intime", "late"} /\ e \notin ksIdle'
    BY <1>0, <2>1, <2>2, <2>4, <2>9 DEF KsWaits
  <2>13. \A e \in KsDrains : ksDrain'[e] = "waits" /\ e \notin ksDone' /\ ksActive' = 0 => KsTelling'
    BY <1>0, <1>1, <2>2 DEF KsWaits, KsTelling
  <2> QED
    BY <2>6, <2>7, <2>8, <2>10, <2>11, <2>12, <2>13 DEF KsWaits, KsTelling
<1>5. ASSUME DrainWork(d) PROVE KsWaits'
  <2>0. ksBefore' = ksBefore
    BY <1>5 DEF DrainWork, DrainCounts, DrainJoins, DrainCountsAgain, DrainTold, DrainLate
  <2>1. \A e \in KsDrains : KsBeforeEnded(e)' <=> KsBeforeEnded(e)
    BY <1>1, <2>0 DEF KsBeforeEnded
  <2>2. \A e \in KsDrains : \A b \in ksBefore'[e] : ksStage'[b] \in KsStarted
    BY <1>0, <2>0 DEF KsWaits
  <2>3. \A e \in KsDrains : e # d => ksDrain'[e] = ksDrain[e] /\ (e \in ksIdle' <=> e \in ksIdle) /\ (e \in ksRaced' <=> e \in ksRaced)
    BY <1>5 DEF DrainWork, DrainCounts, DrainJoins, DrainCountsAgain, DrainTold, DrainLate, DrainTo, KsTypeOK
  <2>4. ASSUME d \in ksIdle' => ksDrain'[d] \in {"joined", "waits"} /\ (d \notin ksRaced' /\ KsTelling => KsBeforeEnded(d)),
               ksDrain'[d] \in {"joined", "waits"} => d \in ksIdle' \cup ksDone,
               d \in ksDone => ksDrain'[d] \in {"joined", "waits", "intime", "late"} /\ d \notin ksIdle',
               ksDrain'[d] = "waits" /\ d \notin ksDone /\ ksActive = 0 => KsTelling,
               d \notin ksRaced' /\ (d \in ksDone \/ ksDrain'[d] = "intime") => KsBeforeEnded(d),
               ksIdle' \subseteq KsDrains
        PROVE  KsWaits'
    <3>1. \A e \in ksIdle' : ksDrain'[e] \in {"joined", "waits"}
      BY <2>3, <2>4 DEF KsWaits
    <3>2. \A e \in KsDrains : ksDrain'[e] \in {"joined", "waits"} => e \in ksIdle' \cup ksDone'
      BY <1>0, <2>3, <2>4 DEF KsWaits
    <3>3. \A e \in ksDone' : ksDrain'[e] \in {"joined", "waits", "intime", "late"} /\ e \notin ksIdle'
      BY <1>0, <2>3, <2>4 DEF KsWaits, KsTypeOK
    <3>4. \A e \in KsDrains : ksDrain'[e] = "waits" /\ e \notin ksDone' /\ ksActive' = 0 => KsTelling'
      BY <1>0, <1>1, <2>3, <2>4 DEF KsWaits, KsTelling
    <3>5. \A e \in ksIdle' \ ksRaced' : KsTelling' => KsBeforeEnded(e)'
      <4> SUFFICES ASSUME NEW e \in ksIdle' \ ksRaced', KsTelling PROVE KsBeforeEnded(e)
        BY <1>1, <2>1, <2>4
      <4>1. CASE e = d
        BY <2>4, <4>1
      <4>2. CASE e # d
        BY <2>3, <2>4, <4>2 DEF KsWaits, KsTelling
      <4> QED
        BY <4>1, <4>2
    <3>6. \A e \in KsDrains \ ksRaced' : e \in ksDone' \/ ksDrain'[e] = "intime" => KsBeforeEnded(e)'
      BY <1>0, <2>1, <2>3, <2>4 DEF KsWaits
    <3> QED
      BY <2>2, <3>1, <3>2, <3>3, <3>4, <3>5, <3>6 DEF KsWaits, KsTelling
  <2>5. /\ d \in ksIdle => ksDrain[d] \in {"joined", "waits"} /\ (d \notin ksRaced /\ KsTelling => KsBeforeEnded(d))
        /\ ksDrain[d] \in {"joined", "waits"} => d \in ksIdle \cup ksDone
        /\ d \in ksDone => ksDrain[d] \in {"joined", "waits", "intime", "late"} /\ d \notin ksIdle
        /\ ksDrain[d] = "waits" /\ d \notin ksDone /\ ksActive = 0 => KsTelling
        /\ d \notin ksRaced /\ (d \in ksDone \/ ksDrain[d] = "intime") => KsBeforeEnded(d)
    BY DEF KsWaits, KsTelling
  <2>6. ksIdle \subseteq KsDrains /\ ksDrain \in [KsDrains -> {"out", "told", "adds", "joined", "waits", "intime", "late"}]
    BY DEF KsTypeOK
  <2>7. CASE DrainCounts(d)
    <3>1. ksDrain[d] = "told" /\ ksIdle' = ksIdle /\ ksRaced' = ksRaced /\ ksDrain'[d] = (IF ksActive = 0 THEN "intime" ELSE "adds")
      BY <2>6, <2>7 DEF DrainCounts, DrainTo
    <3> QED
      BY <1>3, <2>4, <2>5, <2>6, <3>1
  <2>8. CASE DrainJoins(d)
    <3>1. /\ ksDrain[d] = "adds" /\ ksIdle' = ksIdle \cup {d} /\ ksDrain'[d] = "joined"
          /\ ksRaced' = IF KsTelling THEN ksRaced \cup {d} ELSE ksRaced
      BY <2>6, <2>8 DEF DrainJoins, DrainTo, KsTelling
    <3> QED
      BY <2>4, <2>5, <2>6, <3>1
  <2>9. CASE DrainCountsAgain(d)
    <3>1. /\ ksDrain[d] = "joined" /\ ksIdle' = (IF ksActive = 0 THEN ksIdle \ {d} ELSE ksIdle) /\ ksRaced' = ksRaced
          /\ ksDrain'[d] = (IF ksActive = 0 THEN "intime" ELSE "waits")
      BY <2>6, <2>9 DEF DrainCountsAgain, DrainTo
    <3> QED
      BY <1>3, <2>4, <2>5, <2>6, <3>1
  <2>10. CASE DrainTold(d)
    <3>1. ksDrain[d] = "waits" /\ d \in ksDone /\ ksIdle' = ksIdle /\ ksRaced' = ksRaced /\ ksDrain'[d] = "intime"
      BY <2>6, <2>10 DEF DrainTold, DrainTo
    <3>2. d \notin ksIdle
      BY <2>5, <3>1
    <3> QED
      BY <2>4, <2>5, <2>6, <3>1, <3>2
  <2>11. CASE DrainLate(d)
    <3>1. ksDrain[d] = "waits" /\ ksIdle' = ksIdle \ {d} /\ ksRaced' = ksRaced /\ ksDrain'[d] = "late"
      BY <2>6, <2>11 DEF DrainLate, DrainTo
    <3> QED
      BY <2>4, <2>5, <2>6, <3>1
  <2> QED
    BY <1>5, <2>7, <2>8, <2>9, <2>10, <2>11 DEF DrainWork
<1> QED
  BY <1>4, <1>5

-----------------------------------------------------------------------------

LEMMA KsStarts == KsInit => KsInv
<1> SUFFICES ASSUME KsInit PROVE KsInv
  OBVIOUS
<1>1. KsTypeOK
  BY DEF KsInit, KsTypeOK
<1>2. KsInFlight = {} /\ \A c \in KsConns : RunningOn(c) = {}
  BY DEF KsInit, KsInFlight, RunningOn, On
<1>3. KtCounted
  BY <1>2, FS_EmptySet DEF KsInit, KtCounted
<1>4. KsKept
  BY DEF KsInit, KsKept
<1>5. KsSaid
  BY DEF KsInit, KsSaid, KsStarted, KsTaken
<1>6. KsWaits
  BY <1>2 DEF KsInit, KsWaits, KsBeforeEnded
<1> QED
  BY <1>1, <1>3, <1>4, <1>5, <1>6 DEF KsInv

LEMMA KsGoesOn == KsInv /\ [KsNext]_ksVars => KsInv'
<1> SUFFICES ASSUME KsInv, [KsNext]_ksVars PROVE KsInv'
  OBVIOUS
<1> USE DEF KsInv
<1>1. CASE UNCHANGED ksVars
  BY <1>1 DEF ksVars, ksBatchVars, ksConnVars, ksDrainVars, KsTypeOK, KtCounted, KsKept, KsSaid, KsWaits, KsBeforeEnded,
              KsInFlight, RunningOn
<1>2. ASSUME NEW b \in KsBatches, KsMessage(b) \/ KsRequest(b) \/ KsHangUp(b) \/ BatchWork(b) PROVE KsInv'
  BY <1>2, KsBatchKeepsTypes, KsBatchKeepsKept, KsBatchKeepsSaid, KsBatchKeepsWaits
<1>3. ASSUME NEW c \in KsConns,
             ConnWork(c) \/ KsClockPasses(c) \/ PeerLeaves(c) \/ Connect(c) \/ \E i \in KsIds : KsCancel(c, i)
      PROVE  KsInv'
  BY <1>3, KsConnKeepsTypes, KsConnKeepsKept, KsConnKeepsSaid, KsConnKeepsWaits
<1>4. ASSUME NEW d \in KsDrains, DrainCalled(d) \/ DrainWork(d) PROVE KsInv'
  BY <1>4, KsDrainKeepsTypes, KsDrainKeepsKept, KsDrainKeepsSaid, KsDrainKeepsWaits
<1> QED
  BY <1>1, <1>2, <1>3, <1>4 DEF KsNext

\* For any batches, sessions and calls of drain(): what a Kotlin server and its
\* sessions count is what runs there, drain() waits for what was in flight and
\* forgets nobody, ids have one batch, and a socket is ended after its answers.
THEOREM KotlinSessionsKept == KsSpec => []KtSessionsKept
<1>1. KsInv => KtSessionsKept
  <2> SUFFICES ASSUME KsInv PROVE KtSessionsKept
    OBVIOUS
  <2>1. KtDrainWaits
    <3>1. ASSUME NEW d \in KsDrains, ksDrain[d] = "intime", d \notin ksRaced PROVE ksBefore[d] \cap KsInFlight = {}
      BY <3>1 DEF KsInv, KsWaits, KsBeforeEnded
    <3>2. ASSUME NEW d \in KsDrains, ksDrain[d] = "waits", d \notin ksDone, ksActive = 0
          PROVE  d \in ksIdle /\ \E b \in KsBatches : ksStage[b] = "handing"
      BY <3>2 DEF KsInv, KsWaits
    <3> QED
      BY <3>1, <3>2 DEF KtDrainWaits
  <2>2. \A c \in KsConns, b \in KsBatches : \A i \in ksTold[b] : <<i, b>> \notin ksOps[c]
    <3> SUFFICES ASSUME NEW c \in KsConns, NEW b \in KsBatches, NEW i \in ksTold[b], <<i, b>> \in ksOps[c] PROVE FALSE
      OBVIOUS
    <3>1. i \in ksFreed[b] /\ i \in KsIds
      BY DEF KsInv, KsSaid, KsTypeOK
    <3> QED
      BY <3>1 DEF KsInv, KsKept
  <2>3. \A b \in KsBatches : KsConnOf[b] \in KsConns /\ ksStage[b] \in {"launched", "runs", "writes", "handing", "over", "left"} =>
          (ksLooked[KsConnOf[b]] = {} \/ b \in ksSlipped \/ ksTold[b] = KsOpsOf[b])
    BY DEF KsInv, KsSaid, KsTaken, KsStarted
  <2>4. KtAnswersFirst
    BY <2>2, <2>3 DEF KtAnswersFirst, KsInv, KsKept
  <2> QED
    BY <2>1, <2>4 DEF KtSessionsKept, KsInv
<1> QED
  BY <1>1, KsStarts, KsGoesOn, PTL DEF KsSpec
=============================================================================
