-------------------------------- MODULE ArpMC --------------------------------
(* The arpeggiator for TLC: the input tasks are interchangeable. *)
EXTENDS Arp, TLC

PlayerSymmetry == Permutations(Players)

=============================================================================
