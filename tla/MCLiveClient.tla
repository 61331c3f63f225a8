---------------------------- MODULE MCLiveClient ----------------------------
(* Three rows, two of them listed at first; commands on one of them, with    *)
(* policies that let the server's word win on one field.                     *)
EXTENDS LiveClient, TLC

CONSTANTS r1, r2, r3

Rows    == {r1, r2, r3}
TwoRows == <<r1, r2>>
Merges  == ("f" :> "serverWins") @@ ("g" :> "keepLocal") @@ ("next" :> "none")
Edit(k, f)    == [kind |-> "edit", key |-> k, inner |-> k, field |-> f, to |-> 1]
Link(k, n, f) == [kind |-> "link", key |-> k, inner |-> n, field |-> f, to |-> 1]
DeleteRow(k)  == [kind |-> "delete", key |-> k, inner |-> k, field |-> "f", to |-> 0]
E1 == Edit(r1, "f")
L1 == Link(r2, r1, "g")
D1 == DeleteRow(r1)
AllCalls == {E1, L1, D1}
Use(kind, made, n, d) == [open |-> {kind}, calls |-> made, changes |-> n, drops |-> d]
OneOpen == {Use("live", {E1, L1}, 0, 1), Use("live", {E1, D1}, 1, 0), Use("live", {D1}, 2, 0),
            Use("live", {E1}, 1, 1), Use("live", {}, 2, 1), Use("watch", AllCalls, 1, 0)}
NothingOpen == Use("live", {}, 2, 1)

\* A row that is linked to itself.
SelfLink   == {Link(r1, r1, "g")}
SelfLinked == {Use("watch", SelfLink, 0, 0)}
=============================================================================
