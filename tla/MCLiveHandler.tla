--------------------------- MODULE MCLiveHandler ----------------------------
(* An instance of LiveHandler for TLC; the clients are interchangeable.     *)
EXTENDS LiveHandler, TLC

Symmetry == Permutations(Clients)
=============================================================================
