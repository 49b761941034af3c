---------------------------- MODULE MCPfLifecycle ----------------------------
(* Instances of PfLifecycle for TLC.                                       *)
EXTENDS PfLifecycle, TLC

CONSTANTS d1, d2, g1, r1, t1, t2, t3

MCDaemon == {d1, d2}
MCGuard == {g1}
MCRepairer == {r1}
MCToken == {t1, t2, t3}

Symmetry == Permutations(MCDaemon) \cup Permutations(MCToken)
=============================================================================
