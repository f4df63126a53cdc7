--------------------------- MODULE MCIndexerLease ----------------------------
(* Three processes, the first with a fast clock and the last with a slow one. *)
EXTENDS IndexerLease

CONSTANTS i1, i2, i3

ThreeInstances == {i1, i2, i3}

Clocks == [i \in Instances |-> IF i = i1 THEN 1 ELSE IF i = i3 THEN -1 ELSE 0]
=============================================================================
