---------------------------- MODULE MCServerWire ----------------------------
(* A server under its connections, in one of the runtimes.  ts: one WebSocket *)
(* connection, on which an id is used again, and one streamed response.  kt:  *)
(* two requests and a drain; an id that is used again while the capability    *)
(* ends; a live query that is drained and expires; a client that leaves.      *)
EXTENDS ServerWire, KtServer, TLC

VARIABLE part

CONSTANTS b1, b2, h, c1, d1, d2

Ops      == (b1 :> {1, 2}) @@ (b2 :> {1}) @@ (h :> {1})
Live     == {<<b1, 1>>, <<b2, 1>>, <<h, 1>>}
Apart    == {[sent |-> {b1, b2}, relay |-> "none", drains |-> {d1}], [sent |-> {b2, h}, relay |-> "none", drains |-> {d1}],
             [sent |-> {h}, relay |-> "pending", drains |-> {d1, d2}]}
OnConn   == (b1 :> c1) @@ (b2 :> c1) @@ (h :> NoOne)

CONSTANTS l, g

KtOps  == Ops @@ (l :> {2}) @@ (g :> {1})
KtLive == {<<b1, 1>>, <<l, 2>>}
KtOn   == OnConn @@ (l :> c1) @@ (g :> NoOne)
Done(sent, drains, opens, ends, leaves) ==
  [sent |-> sent, drains |-> drains, opens |-> opens, ends |-> ends, leaves |-> leaves]
KtApart ==
  {Done({h, g}, {d1}, {}, {}, {NoOne}), Done({b1, b2}, {}, {c1}, {c1}, {}), Done({l}, {d1}, {c1}, {c1}, {}),
   Done({b2}, {d1}, {c1}, {}, {c1})}

all == <<part, vars, ksVars>>
InTs(A) == part = "ts" /\ UNCHANGED part /\ A /\ UNCHANGED ksVars
InKt(A) == part = "kt" /\ UNCHANGED part /\ A /\ UNCHANGED vars
MCInit ==
  /\ part \in {"ts", "kt"} /\ Init /\ KsInit
  /\ part = "ts" => ksPlan = Done({h, g}, {d1}, {}, {}, {NoOne})
  /\ part = "kt" => relay = "pending"
MCSpec ==
  /\ MCInit /\ [][InTs(Next) \/ InKt(KsNext)]_all
  /\ WF_all(InTs(Work) \/ InKt(KsWork))

\* What must end does: in the one runtime what nobody reads, and the server;
\* in the other the sessions.
ServersEnd == WhatStopsEnds /\ KtSessionsEnd
=============================================================================
