-------------------------- MODULE MCHomeSelection --------------------------
EXTENDS HomeSelection, TLC
CONSTANTS r1, r2, a1, a2
MCRes == {r1, r2}
MCAttempt == {a1, a2}
=============================================================================
