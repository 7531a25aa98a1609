------------------------- MODULE MCSignalingWorker -------------------------
(* Two clients compete for descriptors and addresses, so that both are     *)
(* reused while messages of the first client are still in flight.          *)
EXTENDS SignalingWorker, TLC

Symmetry == Permutations(Client) \cup Permutations(Fd) \cup Permutations(Addr)
=============================================================================
