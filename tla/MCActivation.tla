---------------------------- MODULE MCActivation ----------------------------
(***************************************************************************)
(* Changes and activations are interchangeable, the sites are not: one is  *)
(* the central site.                                                       *)
(***************************************************************************)
EXTENDS Activation, TLC

Symmetric == Permutations(Change) \cup Permutations(Activation)
=============================================================================
