---------------------------- MODULE MCBridgeUse -----------------------------
(***************************************************************************)
(* The instance of BridgeUse for TLC.                                      *)
(***************************************************************************)
EXTENDS MCBridge, BridgeUse

\* Bound: races are explored with one VM.
RaceBound ==
  raced => /\ v2 \in alive \ given /\ vm # v2 /\ global # v2
           /\ \A t \in Threads : /\ loc[t].arg \notin [vm : {v2}, owns : BOOLEAN]
                                 /\ v2 \notin {loc[t].vm, loc[t].global, loc[t].eval}
           /\ \A r \in Regs : fn[r] # v2
=============================================================================
