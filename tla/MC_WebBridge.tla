---------------------------- MODULE MC_WebBridge ----------------------------
(* Two hosts over the same frames and arenas: one that uses err.h itself   *)
(* and one that calls the bridge.                                          *)
EXTENDS WebBridge

VARIABLE host

MCSizes == {0, 2}
MCSymmetry == Permutations(Frames) \union Permutations(QPs)

MCInit == BridgeInit /\ host \in {"native", "bridge"}
MCNext ==
  \/ host = "native" /\ Next /\ UNCHANGED <<bridgeVars, host>>
  \/ host = "bridge" /\ BridgeNext /\ UNCHANGED host
MCSpec == MCInit /\ [][MCNext]_<<vars, bridgeVars, host>>
=============================================================================
