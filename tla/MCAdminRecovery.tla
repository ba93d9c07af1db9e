-------------------------- MODULE MCAdminRecovery --------------------------
EXTENDS AdminRecovery, TLC

CONSTANTS award, spend, session, alice, r1, r2, i1, w1

RequestSymmetry == Permutations(Requests)
=============================================================================
