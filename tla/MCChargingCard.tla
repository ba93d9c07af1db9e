--------------------------- MODULE MCChargingCard ---------------------------
EXTENDS ChargingCard, TLC

CONSTANTS o1, o2, s1, s2, p1, p2

Host(o, s, on, resumed) == [owner |-> o, session |-> s, plugged |-> on, resume |-> resumed]

\* A session, the next one with a reservation to resume, the first one's
\* close; another owner's session, and one that resumes another session's
\* reservation.
Pages ==
  { Host(o1, s1, TRUE, None), Host(o1, s2, TRUE, s2), Host(o1, s1, FALSE, None),
    Host(o2, s1, TRUE, None), Host(o2, s2, FALSE, s1) }
=============================================================================
