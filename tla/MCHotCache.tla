----------------------------- MODULE MCHotCache -----------------------------
EXTENDS HotCache, TLC

CONSTANTS a, b, c, x, y

MCKey == {a, b, c}
MCValue == {x, y}
Perms == Permutations(MCKey) \cup Permutations(MCValue)
=============================================================================
