-------------------------- MODULE MCSpendExecutor --------------------------
EXTENDS SpendExecutor, TLC

CONSTANTS m1, m2, r1, r2, w1, w2, i1, i2, e0, e1, e2, p1, p2

\* Every manual key belongs to the owner of w1.
OwnerWallet == [k \in Keys |-> w1]

\* Nothing, one token and two tokens of energy.
Truncated == (e0 :> 0 @@ e1 :> 1 @@ e2 :> 2)
TruncatedSome == [d \in Deliveries |-> Truncated[d]]

OneEach == [w \in Wallets |-> 1]
TwoEach == [w \in Wallets |-> 2]
ThreeEach == [w \in Wallets |-> 3]

ProcSymmetry == Permutations(Procs)
=============================================================================
