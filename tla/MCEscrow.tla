------------------------------- MODULE MCEscrow -------------------------------
EXTENDS Escrow, TLC

CONSTANTS mint, platform, u1, u2, u3, o1, o2, k1, k2, t1, t2

Symmetry == Permutations({u1, u2}) \cup Permutations(Orders)
            \cup Permutations(RequestKeys) \cup Permutations(Instants)
===============================================================================
