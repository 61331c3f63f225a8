------------------------------- MODULE PgRelay -------------------------------
(***************************************************************************)
(* The relay between servers over LISTEN/NOTIFY: PgRelay in                *)
(* packages/postgres/src/relay.ts.  A server publishes without waiting for *)
(* the message before (ChangeBus.publish, EventBus.emit); one too large    *)
(* for a payload goes through the relay table.  Postgres hands every       *)
(* listener the notifications in one order, that of their commits.  One    *)
(* clock is read by all servers.                                           *)
(***************************************************************************)
EXTENDS Integers, Sequences

CONSTANTS
  Relay,       \* the servers' relays
  MaxSent,     \* how many messages each one publishes
  Sizes,       \* the sizes in play, of "inline" and "large"
  Ttl,         \* how long a row is kept
  MaxTime

ASSUME RelayAssumption ==
  /\ MaxSent \in [Relay -> Nat] /\ Ttl \in Nat /\ MaxTime \in Nat /\ Sizes \subseteq {"inline", "large"}

VARIABLES
  now,
  sent,        \* messages each relay has published
  writing,     \* the large ones on their way through the table
  rows,        \* the relay table
  channel,     \* the notifications, in the order of their commits
  taken,       \* how many of them each relay has been handed
  chain,       \* what it has been handed and not yet passed on, in turn
  delivered,   \* what it passed to its server: places in the channel, in order
  reported     \* what it reported through onError instead

vars == <<now, sent, writing, rows, channel, taken, chain, delivered, reported>>

\* The n-th message of relay `from`, stamped with the publisher's clock.
Message == [from : Relay, n : Nat, at : 0..MaxTime, large : BOOLEAN]
Step == {"insert", "sweep", "notify"}

Init ==
  /\ now = 0
  /\ sent = [r \in Relay |-> 0]
  /\ writing = {} /\ rows = {} /\ channel = <<>>
  /\ taken = [r \in Relay |-> 0]
  /\ chain = [r \in Relay |-> <<>>]
  /\ delivered = [r \in Relay |-> <<>>]
  /\ reported = [r \in Relay |-> {}]

receiver == <<taken, chain, delivered, reported>>

-----------------------------------------------------------------------------
(* publish                                                                  *)

PublishInline(r) ==
  /\ "inline" \in Sizes /\ sent[r] < MaxSent[r]
  /\ sent' = [sent EXCEPT ![r] = sent[r] + 1]
  /\ channel' = Append(channel, [from |-> r, n |-> sent[r] + 1, at |-> now, large |-> FALSE])
  /\ UNCHANGED <<now, writing, rows, receiver>>

PublishLarge(r) ==
  /\ "large" \in Sizes /\ sent[r] < MaxSent[r]
  /\ sent' = [sent EXCEPT ![r] = sent[r] + 1]
  /\ writing' = writing \cup
       {[step |-> "insert", m |-> [from |-> r, n |-> sent[r] + 1, at |-> now, large |-> TRUE]]}
  /\ UNCHANGED <<now, rows, channel, receiver>>

InsertRow(w) ==
  /\ w \in writing /\ w.step = "insert"
  /\ rows' = rows \cup {w.m}
  /\ writing' = (writing \ {w}) \cup {[step |-> "sweep", m |-> w.m]}
  /\ UNCHANGED <<now, sent, channel, receiver>>

\* WHERE at < t - ttl, with the t the new row is stamped with.
Old(row, t) == row.at < t - Ttl

SweepRows(w) ==
  /\ w \in writing /\ w.step = "sweep"
  /\ rows' = {row \in rows : ~Old(row, w.m.at)}
  /\ writing' = (writing \ {w}) \cup {[step |-> "notify", m |-> w.m]}
  /\ UNCHANGED <<now, sent, channel, receiver>>

NotifyRef(w) ==
  /\ w \in writing /\ w.step = "notify"
  /\ channel' = Append(channel, w.m)
  /\ writing' = writing \ {w}
  /\ UNCHANGED <<now, sent, rows, receiver>>

-----------------------------------------------------------------------------
(* subscribe and read                                                       *)

\* What reading a payload comes to at once: its own is dropped, an inline one
\* is there, the row of another takes a query.
FirstRead(r, m) ==
  CASE m.from = r -> "own"
    [] m.from # r /\ ~m.large -> "read"
    [] m.from # r /\ m.large -> "query"

Take(r) ==
  /\ taken[r] < Len(channel)
  /\ taken' = [taken EXCEPT ![r] = taken[r] + 1]
  /\ chain' = [chain EXCEPT ![r] =
       Append(chain[r], [place |-> taken[r] + 1, state |-> FirstRead(r, channel[taken[r] + 1])])]
  /\ UNCHANGED <<now, sent, writing, rows, channel, delivered, reported>>

\* The query for a row is answered; queries of several messages run at once.
ReadRow(r, i) ==
  /\ i \in DOMAIN chain[r] /\ chain[r][i].state = "query"
  /\ chain' = [chain EXCEPT ![r][i].state =
       IF channel[chain[r][i].place] \in rows THEN "read" ELSE "gone"]
  /\ UNCHANGED <<now, sent, writing, rows, channel, taken, delivered, reported>>

\* Mutant: any message that is read is passed on, whatever stands before it.
AnyTurn(r) == {i \in DOMAIN chain[r] : chain[r][i].state # "query"}

\* Mutant: a message that could not be read holds up those behind it.
TurnUnlessGone(r) == {i \in DOMAIN chain[r] : i = 1 /\ chain[r][i].state \in {"own", "read"}}

\* The first of the chain, once it is read.
InTurn(r) == {i \in DOMAIN chain[r] : i = 1 /\ chain[r][i].state # "query"}

PassOn(r) ==
  \E i \in InTurn(r) :
    LET item == chain[r][i] IN
    /\ chain' = [chain EXCEPT ![r] = SubSeq(chain[r], 1, i - 1) \o SubSeq(chain[r], i + 1, Len(chain[r]))]
    /\ delivered' = IF item.state = "read" THEN [delivered EXCEPT ![r] = Append(delivered[r], item.place)] ELSE delivered
    /\ reported' = IF item.state = "gone" THEN [reported EXCEPT ![r] = reported[r] \cup {item.place}] ELSE reported
    /\ UNCHANGED <<now, sent, writing, rows, channel, taken>>

Tick ==
  /\ now < MaxTime /\ now' = now + 1
  /\ UNCHANGED <<sent, writing, rows, channel, receiver>>

-----------------------------------------------------------------------------

Write == \E w \in writing : InsertRow(w) \/ SweepRows(w) \/ NotifyRef(w)
Receive(r) == Take(r) \/ PassOn(r) \/ \E i \in DOMAIN chain[r] : ReadRow(r, i)

Next ==
  \/ \E r \in Relay : PublishInline(r) \/ PublishLarge(r) \/ Receive(r)
  \/ Write \/ Tick

Spec == Init /\ [][Next]_vars

\* Postgres answers, and a promise that settled runs what waits on it.
FairSpec == Spec /\ WF_vars(Write) /\ \A r \in Relay : WF_vars(Receive(r))

-----------------------------------------------------------------------------

Place == 1..Len(channel)

\* Rows, notifications and chains are in their domains, and what a chain marks
\* as its own is exactly what its relay published.
TypeOK ==
  /\ now \in 0..MaxTime
  /\ sent \in [Relay -> Nat] /\ \A r \in Relay : sent[r] <= MaxSent[r]
  /\ writing \subseteq [step : Step, m : Message] /\ rows \subseteq Message
  /\ channel \in Seq(Message)
  /\ taken \in [Relay -> 0..Len(channel)]
  /\ chain \in [Relay -> Seq([place : Place, state : {"own", "query", "read", "gone"}])]
  /\ \A r \in Relay : \A i \in DOMAIN chain[r] :
       /\ chain[r][i].place <= taken[r]
       /\ chain[r][i].state = "own" <=> channel[chain[r][i].place].from = r
  /\ delivered \in [Relay -> Seq(Place)] /\ reported \in [Relay -> SUBSET Place]

Increasing(s) == \A i, j \in DOMAIN s : i < j => s[i] < s[j]

\* A server hears the others in the order their messages were notified, each
\* once, although reading some of them takes a query (the comment in subscribe).
HeardAsNotified == \A r \in Relay : Increasing(delivered[r])

\* A row is gone only for a relay that read it later than the time it is kept.
GoneOnlyWhenOld ==
  [][\A r \in Relay : \A i \in DOMAIN chain[r] \cap DOMAIN chain'[r] :
       (chain[r][i].state = "query" /\ chain'[r][i] = [chain[r][i] EXCEPT !.state = "gone"])
         => now - channel[chain[r][i].place].at > Ttl]_vars

\* Every message reaches every other server, or is reported there.
Heard(r, p, n) ==
  \E k \in Place : channel[k].from = p /\ channel[k].n = n
    /\ (k \in reported[r] \/ \E i \in DOMAIN delivered[r] : delivered[r][i] = k)

EveryoneHears ==
  []<>(\A r, p \in Relay : \A n \in 1..sent[p] : r # p => Heard(r, p, n))

\* What a relay holds and has passed on: its chain is of what it took, and what
\* it passed on is in the order of the notifications.
HeardInOrder == TypeOK /\ HeardAsNotified

\* Every message reaches every other server, or is reported there as gone, which
\* only one that was read too late is.
NothingGoesUnheard == EveryoneHears /\ GoneOnlyWhenOld
=============================================================================
