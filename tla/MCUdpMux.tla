------------------------------ MODULE MCUdpMux ------------------------------
(* UdpMux with the symmetry of its peers, which the code treats alike. *)
EXTENDS UdpMux, TLC

PeerSymmetry == Permutations(Peers)
=============================================================================
