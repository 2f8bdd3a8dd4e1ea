------------------------------ MODULE MCDriver ------------------------------
(***************************************************************************)
(* Three files in the directory: two share cluster fingerprints, two       *)
(* fingerprints share a hash bucket, and only one of them encodes a        *)
(* cardinality constraint.  The third file is not readable from the        *)
(* working directory.  generate may raise on the second file.              *)
(***************************************************************************)
EXTENDS Driver

CONSTANTS f1, f2, f3, k1, k2, k3, b1, b2

MCFileSeq == <<f1, f2, f3>>
MCKeys == {k1, k2, k3}
\* k1 and k2 collide.
MCHash == [k \in MCKeys |-> IF k = k3 THEN b2 ELSE b1]
\* k2 is a cluster whose clauses are not a cardinality constraint.
MCExtractable == {k1, k3}
MCClusters ==
    [f \in {f1, f2, f3} |->
        IF f = f1 THEN <<[key |-> k1, evars |-> {1}], [key |-> k2, evars |-> {2}]>>
        ELSE IF f = f2 THEN <<[key |-> k2, evars |-> {3}], [key |-> k1, evars |-> {4}],
                              [key |-> k3, evars |-> {5}]>>
        ELSE <<>>]
MCUnreadable == {f3}
MCRaising == {f2}
MCMaxRuns == 2
====
