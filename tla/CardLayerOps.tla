----------------------------- MODULE CardLayerOps -----------------------------
(***************************************************************************)
(* The structural extractor of src/tools/kanalyze.py: given the decision   *)
(* diagram left after bucket elimination (a function of the data variables *)
(* only), CardLayer walks it one data variable at a time, keeping the      *)
(* "layer" of nodes reached after i increment-literals are true, and       *)
(* Extractor.findConstraints / getConstraints turn the final layer into    *)
(* at most two cardinality constraints.                                    *)
(*                                                                         *)
(* Data variables are 1..NData, numbered in diagram order (the order       *)
(* Extractor.variables() returns).  A diagram node whose remaining         *)
(* variables are k..NData is modelled by the Boolean function it denotes,  *)
(* a truth table over Asg(k).  The diagram package (bdd.py, not under      *)
(* src/) is canonical: equal functions are the same node, so node          *)
(* comparison in tryExtend is function equality here, a leaf is a constant *)
(* function, and a non-leaf node's top variable is the first variable it   *)
(* depends on.                                                             *)
(***************************************************************************)
EXTENDS Integers, Sequences, FiniteSets, FiniteSetsExt, Functions, TLC

CONSTANT NData        \* ndata: number of data variables of the cluster

ASSUME NData \in Nat \ {0}

DataVars == 1..NData

\* Assignments to the variables k..NData that a node at level k still reads.
Asg(k) == [k..NData -> {0, 1}]

\* The literal of variable v that counts as "true" under phase ph.
Oriented(v, ph) == IF ph = 1 THEN v ELSE -v

LitTrue(lit, a) == IF lit > 0 THEN a[lit] = 1 ELSE a[-lit] = 0

\* A constraint holds when at least bound of its literals are true.
Holds(con, a) == Cardinality({l \in con.lits : LitTrue(l, a)}) >= con.bound

\* Number of variables in S whose value agrees with their phase.
CountTrue(a, ph, S) == Cardinality({v \in S : a[v] = ph[v]})

(***************************************************************************)
(* Diagram nodes (bdd.Node, canonical).                                    *)
(***************************************************************************)
IsLeaf(node) == \A a, b \in DOMAIN node : node[a] = node[b]

LeafValue(node) == node[CHOOSE a \in DOMAIN node : TRUE]

\* node.variable.id = v: the node reads v, v being the first variable left.
SplitsAt(node, v) ==
    \E a \in DOMAIN node : node[a] # node[[a EXCEPT ![v] = 1 - a[v]]]

(***************************************************************************)
(* CardLayer.getChild: a leaf is its own child; a node that splits at v    *)
(* yields its high or low child; any other node raises BddException.       *)
(***************************************************************************)
ChildOk(node, v) == IsLeaf(node) \/ SplitsAt(node, v)

Child(node, v, ph) == [a \in Asg(v + 1) |-> node[(v :> ph) @@ a]]

NoLayer == <<>>

\* Mutant: tryExtend without the shift-by-one comparison.
TryExtendNoShiftCheck(lay, ph, v) ==
    IF \A j \in DOMAIN lay : ChildOk(lay[j], v)
    THEN <<Child(lay[1], v, 1 - ph)>> \o [j \in DOMAIN lay |-> Child(lay[j], v, ph)]
    ELSE NoLayer

(***************************************************************************)
(* CardLayer.tryExtend: children on phase ph are the "increment" nodes,    *)
(* children on 1-ph the "same" nodes; the layer extends only if every      *)
(* same-node j+1 equals increment-node j, and the new layer is             *)
(* sames[0] followed by all increments.  NoLayer stands for None.          *)
(***************************************************************************)
TryExtend(lay, ph, v) ==
    IF \A j \in DOMAIN lay : ChildOk(lay[j], v)
    THEN LET incrs == [j \in DOMAIN lay |-> Child(lay[j], v, ph)]
             sames == [j \in DOMAIN lay |-> Child(lay[j], v, 1 - ph)]
         IN  IF \A j \in 1..(Len(lay) - 1) : sames[j + 1] = incrs[j]
             THEN <<sames[1]>> \o incrs
             ELSE NoLayer
    ELSE NoLayer

ExtendPhase(lay, v) ==
    IF TryExtend(lay, 1, v) # NoLayer THEN 1
    ELSE IF TryExtend(lay, 0, v) # NoLayer THEN 0
    ELSE -1

(***************************************************************************)
(* CardLayer.check.  lvalues[i] (count i = 0..n) is 1 for the true leaf, 0 *)
(* for the false leaf, -1 otherwise.  Returns <<L, U>>, <<1, 0>> for an    *)
(* unsatisfiable layer, or NoRange for (None, None).  The lower-bound scan *)
(* runs over range(U), i.e. counts 0..n-1, exactly as the code does.       *)
(***************************************************************************)
NoRange == <<>>

LValues(lay) ==
    [i \in 0..(Len(lay) - 1) |->
        IF IsLeaf(lay[i + 1]) THEN (IF LeafValue(lay[i + 1]) THEN 1 ELSE 0)
        ELSE -1]

\* Mutant: the all-true layer reported with U = len(nodes) instead of n.
CheckRangeUpperPastEnd(lay) ==
    LET lv == LValues(lay)
        n  == Len(lay) - 1
        low  == IF \E i \in 0..(n - 1) : lv[i] = 1
                THEN Min({i \in 0..(n - 1) : lv[i] = 1}) ELSE 0
    IN  IF \E i \in 0..n : lv[i] = -1 THEN NoRange
        ELSE IF {i \in 0..n : lv[i] = 1} = {} THEN <<1, 0>>
        ELSE IF \A i \in 0..n : lv[i] = 1 THEN <<0, n + 1>>
        ELSE <<low, Max({i \in low..n : lv[i] = 1})>>

CheckRange(lay) ==
    LET lv == LValues(lay)
        n  == Len(lay) - 1
        ones == {i \in 0..n : lv[i] = 1}
        low  == IF \E i \in 0..(n - 1) : lv[i] = 1
                THEN Min({i \in 0..(n - 1) : lv[i] = 1}) ELSE 0
    IN  IF \E i \in 0..n : lv[i] = -1 THEN NoRange
        ELSE IF ones = {} THEN <<1, 0>>
        ELSE IF \A i \in 0..n : lv[i] = 1 THEN <<0, n>>
        ELSE <<low, Max({i \in low..n : lv[i] = 1})>>

\* Mutant: the lower-bound constraint written even when L = 0.
GetConstraintsLowerAlways(ph, lb, ub) ==
    IF lb > ub THEN {[lits |-> {}, bound |-> 1]}
    ELSE {[lits |-> {Oriented(v, ph[v]) : v \in DataVars}, bound |-> lb]}
         \cup
         (IF ub < NData THEN {[lits |-> {Oriented(v, 1 - ph[v]) : v \in DataVars},
                               bound |-> NData - ub]} ELSE {})

\* Mutant: the upper-bound constraint's bound off by one.
GetConstraintsUpperOffByOne(ph, lb, ub) ==
    IF lb > ub THEN {[lits |-> {}, bound |-> 1]}
    ELSE (IF lb > 0 THEN {[lits |-> {Oriented(v, ph[v]) : v \in DataVars},
                           bound |-> lb]} ELSE {})
         \cup
         (IF ub < NData THEN {[lits |-> {Oriented(v, 1 - ph[v]) : v \in DataVars},
                               bound |-> NData - ub + 1]} ELSE {})

(***************************************************************************)
(* Extractor.getConstraints: the unsatisfiable constraint for L > U, a     *)
(* lower-bound constraint over the phase-oriented literals if L > 0, and   *)
(* an upper bound U expressed as "at least NData-U of the complemented     *)
(* literals" if U < NData.                                                 *)
(***************************************************************************)
GetConstraints(ph, lb, ub) ==
    IF lb > ub THEN {[lits |-> {}, bound |-> 1]}
    ELSE (IF lb > 0 THEN {[lits |-> {Oriented(v, ph[v]) : v \in DataVars},
                           bound |-> lb]} ELSE {})
         \cup
         (IF ub < NData THEN {[lits |-> {Oriented(v, 1 - ph[v]) : v \in DataVars},
                               bound |-> NData - ub]} ELSE {})

(***************************************************************************)
(* Extractor.findConstraints as a function of the root: extend the layer   *)
(* by each data variable in turn, stopping at the first failure, then      *)
(* check the final layer.  Returns <<phases, range>>; range is NoRange on  *)
(* a functional failure.                                                   *)
(***************************************************************************)
RECURSIVE Walk(_, _, _)
Walk(lay, v, phs) ==
    IF v > NData THEN <<phs, CheckRange(lay)>>
    ELSE LET ph == ExtendPhase(lay, v) IN
         IF ph = -1 THEN <<phs, NoRange>>
         ELSE Walk(TryExtend(lay, ph, v), v + 1, Append(phs, ph))

FindConstraints(root) == Walk(<<root>>, 1, <<>>)

=============================================================================
