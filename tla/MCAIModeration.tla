---------------------------- MODULE MCAIModeration ----------------------------
EXTENDS AIModeration

CONSTANTS w, a1, a2, t1, t2, r1, r2
===============================================================================
