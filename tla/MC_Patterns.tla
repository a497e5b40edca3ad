------------------------------ MODULE MC_Patterns ------------------------------
(* A small instance of Patterns: patterns are revoked, removed and edited. *)
EXTENDS Patterns, TLC

CONSTANTS t1, t2, p1, q1, v1

TwoThreads == {t1, t2}
TwoIds     == {p1, q1}
OneTarget  == {v1}

Symmetry == Permutations(TwoThreads)

Yaml(id, sound, expires, hourly, daily, threshold, cooldown) ==
    [id |-> id, sound |-> sound, expires |-> expires, hourly |-> hourly,
     daily |-> daily, breaker |-> [threshold |-> threshold, cooldown |-> cooldown]]

\* p1 is revoked, then removed; q1 expires, and is edited as p1 is removed.
Revoked == << <<Yaml(p1, TRUE, 0, 0, 2, 2, 1), Yaml(q1, TRUE, 1, 1, 0, 1, 1)>>,
              <<Yaml(p1, FALSE, 0, 0, 2, 2, 1), Yaml(q1, TRUE, 1, 1, 0, 1, 1)>>,
              <<Yaml(q1, TRUE, 0, 1, 2, 1, 2)>> >>

AfterThree == [threshold |-> 3, cooldown |-> 2]

=============================================================================
