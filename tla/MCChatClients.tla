---------------------------- MODULE MCChatClients ----------------------------
(* Small instances of ChatClients for TLC; the bounds are in the .cfg files. *)
EXTENDS ChatClients, TLC

Symmetry == Permutations(Clients)
=============================================================================
