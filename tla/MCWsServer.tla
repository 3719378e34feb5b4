----------------------------- MODULE MCWsServer -----------------------------
(* Instances of WsServer for TLC: the model values come from the cfg files. *)
EXTENDS WsServer, TLC

Symmetry == Permutations(Conns) \cup Permutations(PeerIds) \cup Permutations(RoomIds)
=============================================================================
