------------------------------ MODULE MCStores ------------------------------
(* What servers share a database or a process for, one part at a time.        *)
(* Relay: two servers, three messages, any of them too large for a payload,   *)
(* and a row that may be swept before a slow server reads it. Keys: four      *)
(* commands on three keys in a store for one record.  Uploads: three, of      *)
(* which the store holds any two but the largest with another.                *)
EXTENDS PgRelay, MemoryStore, Uploads, TLC

VARIABLE part

CONSTANTS r1, r2, a1, a2, a3, a4, ka, kb, kc, fa, fb, fc
MCRelay == {r1, r2}
MCSent == (r1 :> 2) @@ (r2 :> 1)
MCCallers == {a1, a2, a3, a4}
MCCallerKey == (a1 :> ka) @@ (a2 :> ka) @@ (a3 :> kb) @@ (a4 :> kc)
MCFiles == {fa, fb, fc}
MCSizeOf == (fa :> 1) @@ (fb :> 1) @@ (fc :> 2)

storesVars == <<part, vars, memVars, uploadVars>>
StoresInit ==
  /\ part \in {"relay", "keys", "held", "shared", "none"} /\ Init /\ MemInit /\ UploadsInit
  /\ part # "keys" => runtime = "ts"
Only(p) == part = p /\ UNCHANGED part
RelayStep == Only("relay") /\ Next /\ UNCHANGED <<memVars, uploadVars>>
KeysStep == Only("keys") /\ MemNext /\ UNCHANGED <<vars, uploadVars>>
HeldStep == Only("held") /\ (HeldNext \/ HourPasses) /\ UNCHANGED <<vars, memVars>>
SharedStep == Only("shared") /\ (SharedNext \/ HourPasses) /\ UNCHANGED <<vars, memVars>>
StoresNext == RelayStep \/ KeysStep \/ HeldStep \/ SharedStep

\* Postgres answers, and a promise that settled runs what waits on it.
StoresRun ==
  /\ WF_storesVars(Only("relay") /\ Write /\ UNCHANGED <<memVars, uploadVars>>)
  /\ \A r \in Relay : WF_storesVars(Only("relay") /\ Receive(r) /\ UNCHANGED <<memVars, uploadVars>>)
=============================================================================
