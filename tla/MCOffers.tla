------------------------------- MODULE MCOffers -------------------------------
EXTENDS OfferWorkflow, TLC

CONSTANTS i1, i2, p1, p2, o1, o2, o3, w1, w2

MCSymmetry ==
  Permutations(Workers) \cup Permutations(OfferIds) \cup Permutations(Partners)
===============================================================================
