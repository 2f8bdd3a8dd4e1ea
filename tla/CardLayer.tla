------------------------------ MODULE CardLayer ------------------------------
(***************************************************************************)
(* The findConstraints loop of src/tools/kanalyze.py (Extractor) as a      *)
(* state machine over the operators of CardLayerOps: one step per data     *)
(* variable the layer is extended by, then the final check.                *)
(***************************************************************************)
EXTENDS CardLayerOps

-----------------------------------------------------------------------------
VARIABLES
    root,         \* the diagram handed to findConstraints
    layer,        \* cl.nodes: node reached when i increment-literals are true
    phases,       \* phases chosen so far, phases[v] for v < vid
    vid,          \* next data variable to extend by
    status,       \* "extending", "success" or "functionFailure"
    range,        \* <<lb, ub>> returned by check on success
    constraints   \* Extractor.constraints

vars == <<root, layer, phases, vid, status, range, constraints>>

\* Extractor.findConstraints entry: layer [root], no phases yet.  Every
\* function of the data variables is a possible root.
Init ==
    /\ root \in [Asg(1) -> BOOLEAN]
    /\ layer = <<root>>
    /\ phases = <<>>
    /\ vid = 1
    /\ status = "extending"
    /\ range = NoRange
    /\ constraints = {}

\* One iteration of the findConstraints loop that extends the layer.
Extend ==
    /\ status = "extending"
    /\ vid <= NData
    /\ ExtendPhase(layer, vid) # -1
    /\ LET ph == ExtendPhase(layer, vid) IN
         /\ layer' = TryExtend(layer, ph, vid)
         /\ phases' = Append(phases, ph)
    /\ vid' = vid + 1
    /\ UNCHANGED <<root, status, range, constraints>>

\* The loop iteration whose extend returns (None, None): functional failure.
ExtendFail ==
    /\ status = "extending"
    /\ vid <= NData
    /\ ExtendPhase(layer, vid) = -1
    /\ status' = "functionFailure"
    /\ UNCHANGED <<root, layer, phases, vid, range, constraints>>

\* All data variables placed: check the final layer and build constraints.
Check ==
    /\ status = "extending"
    /\ vid > NData
    /\ LET r == CheckRange(layer) IN
         IF r = NoRange
         THEN /\ status' = "functionFailure"
              /\ UNCHANGED <<range, constraints>>
         ELSE /\ status' = "success"
              /\ range' = r
              /\ constraints' = GetConstraints(phases, r[1], r[2])
    /\ UNCHANGED <<root, layer, phases, vid>>

Next == Extend \/ ExtendFail \/ Check

Spec == Init /\ [][Next]_vars

-----------------------------------------------------------------------------
(***************************************************************************)
(* Properties.                                                             *)
(***************************************************************************)
TypeOK ==
    /\ root \in [Asg(1) -> BOOLEAN]
    /\ vid \in 1..(NData + 1)
    /\ phases \in [1..(vid - 1) -> {0, 1}]
    /\ Len(layer) = vid
    /\ \A j \in DOMAIN layer : layer[j] \in [Asg(vid) -> BOOLEAN]
    /\ status \in {"extending", "success", "functionFailure"}
    /\ range \in {NoRange} \cup ((0..(NData + 1)) \X (0..NData))
    /\ \A c \in constraints : c.lits \subseteq (DataVars \cup {-v : v \in DataVars})

\* Number of increment-literals true in a full assignment a.
Count(a) == CountTrue(a, phases, DataVars)

(***************************************************************************)
(* The layer walk of CardLayer.tryExtend is faithful to the diagram: after *)
(* extending by variables 1..vid-1, the root's value on any assignment is  *)
(* the value of the layer node indexed by how many processed variables     *)
(* agree with their phase, applied to the unprocessed variables.           *)
(***************************************************************************)
LayerRepresentsRoot ==
    \A a \in Asg(1) :
        root[a] = layer[CountTrue(a, phases, 1..(vid - 1)) + 1]
                       [Restrict(a, vid..NData)]

\* f is a cardinality function: for some orientation of the variables and
\* some L, U it is true exactly when L <= (number of true literals) <= U
\* (any L > U gives the constant false function).
IsCardinalityFunction(f) ==
    \E o \in [DataVars -> {0, 1}], lo \in 0..(NData + 1), hi \in 0..NData :
        \A a \in Asg(1) : f[a] <=> (lo <= CountTrue(a, o, DataVars) /\ CountTrue(a, o, DataVars) <= hi)

ConstraintsMatchRange ==
    status = "success" =>
        \A a \in Asg(1) :
            (\A c \in constraints : Holds(c, a))
                <=> (range[1] <= Count(a) /\ Count(a) <= range[2])

=============================================================================
