--------------------------- MODULE MCBrowserSession ---------------------------
EXTENDS BrowserSession, TLC

CONSTANTS t1, t2, u1, u2, feed

MCSymmetry == Permutations(Tabs) \cup Permutations(Users)
===============================================================================
