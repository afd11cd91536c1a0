----------------------------- MODULE MCL1History -----------------------------
EXTENDS L1History
CONSTANTS h1, h2, c1, c2
MCHash == {h1, h2}
MCClient == {c1, c2}
=============================================================================
