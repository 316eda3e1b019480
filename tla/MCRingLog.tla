----------------------------- MODULE MCRingLog -----------------------------
EXTENDS RingLog

CONSTANTS e1, e2
MCEntry == {e1, e2}
============================================================================
