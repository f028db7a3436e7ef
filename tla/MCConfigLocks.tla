--------------------------- MODULE MCConfigLocks ----------------------------
EXTENDS ConfigLocks

CONSTANTS s1, s2, g1, g2
=============================================================================
