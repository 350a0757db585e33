---------------------------- MODULE MCRedisOutage -----------------------------
EXTENDS RedisOutage, TLC

CONSTANTS u1, u2, u3, o1, r1, r2, w1, w2

Symmetry == Permutations(Users) \cup Permutations(Orders)
            \cup Permutations(Requests) \cup Permutations(Workers)
===============================================================================
