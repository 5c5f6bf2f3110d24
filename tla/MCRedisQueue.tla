---------------------------- MODULE MCRedisQueue ----------------------------
EXTENDS RedisQueue, TLC
CONSTANTS a, b, notice, s, t

MCKept == {a, b}
MCRec == {a, b, notice}
MCSub == {s, t}
MCSymmetry == Permutations(MCKept) \cup Permutations(MCSub)
=============================================================================
