---------------------------- MODULE MCPiggyback ----------------------------
(***************************************************************************)
(* Hosts and senders are interchangeable.                                  *)
(***************************************************************************)
EXTENDS Piggyback, TLC

Symmetric == Permutations(Host) \cup Permutations(Sender)
=============================================================================
