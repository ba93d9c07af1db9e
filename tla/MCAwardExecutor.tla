-------------------------- MODULE MCAwardExecutor --------------------------
EXTENDS AwardRefinement, TLC

CONSTANTS k1, k2, k3, s1, s2, w1, w2, c1, c2, d1, d2, p1, p2

\* A single award.
SingleSession == (k1 :> s1)
SingleDedup == (k1 :> d1)

\* Two unrelated awards.
SeparateSessions == (k1 :> s1 @@ k2 :> s2)
SeparateDedups == (k1 :> d1 @@ k2 :> d2)

\* k2 replaces k1's CDR for the same physical session, and k3 is an
\* unqualified CDR whose legacy key collides with k2's.
ReplacedSessions == (k1 :> s1 @@ k2 :> s1 @@ k3 :> None)
CollidingDedups == (k1 :> d1 @@ k2 :> d2 @@ k3 :> d2)

NoLegacy == {}
LegacyAward == {[key |-> k1, wallet |-> w1, amount |-> 1, tx |-> None]}

ProcSymmetry == Permutations(Procs)
=============================================================================
