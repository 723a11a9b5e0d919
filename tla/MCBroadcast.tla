---------------------------- MODULE MCBroadcast ----------------------------
(* Browsers that reconnect while one kind of message is broadcast. *)
EXTENDS Broadcast, TLC

TypeOK == BroadcastTypeOK({"update"})

Spec == BroadcastInit /\ [][BroadcastNext({"update"})]_broadcastVars

BrowserSymmetry == Permutations(Browser)
=============================================================================
