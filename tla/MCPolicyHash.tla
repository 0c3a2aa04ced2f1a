---------------------------- MODULE MCPolicyHash ----------------------------
(* Constants of the TLC runs of PolicyHash.                                *)
EXTENDS PolicyHash, TLC

MCSymmetry == Permutations(Player) \cup Permutations(Text) \cup Permutations(Limits)
=============================================================================
