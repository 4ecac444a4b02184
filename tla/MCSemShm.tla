------------------------------ MODULE MCSemShm ------------------------------
(* Two writers and two readers on one set: enough for a session to meet what *)
(* the one before it left behind.                                            *)
EXTENDS SemShm, TLC

CONSTANTS w1, w2, r1, r2

TwoWriters == {w1, w2}
TwoReaders == {r1, r2}
AnyLeftover == {0, 2}
NoLeftover == {0}

Symmetric == Permutations(TwoWriters) \cup Permutations(TwoReaders)
=============================================================================
