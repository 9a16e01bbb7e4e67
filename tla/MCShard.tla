------------------------------ MODULE MCShard ------------------------------
(* Small instances of Shard for TLC.                                       *)
EXTENDS Shard, TLC

CONSTANTS o1, o2, c1, c2, c3

OneCaller == {o1}
TwoCallers == {o1, o2}
TwoConns == {c1, c2}
ThreeConns == {c1, c2, c3}

\* Connections are interchangeable, and so are the callers.
Symmetry == Permutations(TwoCallers) \cup Permutations(ThreeConns)
=============================================================================
