------------------------------ MODULE MC_Restore ------------------------------
(* A small instance of Restore: four of the nine unfinished states, the last *)
(* of which a session leaves for an earlier one.                             *)
EXTENDS Restore, TLC

CONSTANTS s1, s2, s3, fqdn, label, other, blank, unread

ThreeIds   == {s1, s2, s3}
FourStates == <<"Starting", "Working", "Stopping", "WaitingSlot">>
TwoRules   == <<"space", "credentials">>
ThreeNames == {fqdn, label, other}

Symmetry == Permutations(ThreeIds)

=============================================================================
