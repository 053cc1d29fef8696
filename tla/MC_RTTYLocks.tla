----------------------------- MODULE MC_RTTYLocks -----------------------------
EXTENDS RTTYLocks, TLC

CONSTANTS d1, d2, d3

MCDevices == {d1, d2}

MCNoSilent == {}

MCThreeDevices == {d1, d2, d3}

Symm3 == Permutations(MCThreeDevices)

MCSilent == {d1}

Symm == Permutations(MCDevices)
====
