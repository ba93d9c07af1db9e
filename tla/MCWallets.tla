------------------------------ MODULE MCWallets ------------------------------
EXTENDS CustodialSpends, TLC

CONSTANTS u1, x1, x2, m1, t1, a1, s1, p1, p2

\* The contract id's managed wallet.
OneManaged == (u1 :> m1)

\* The transfer is sent by the first external wallet.
FirstSends == [t \in Transfers |-> x1]
=============================================================================
