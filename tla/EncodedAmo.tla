----------------------------- MODULE EncodedAmo -----------------------------
(***************************************************************************)
(* Encoded at-most-one detection of src/tools/card_extractor.py            *)
(* (ConstraintFinder.findEncodedAmos, classifyVars, buildMaps, getCluster, *)
(* expandCluster, findEncodedConstraints, validateConstraint).            *)
(*                                                                         *)
(* classifyVars(2) marks a variable seen in both polarities among clauses  *)
(* of length <= 2 as an encoding variable.  buildMaps lists, once, the     *)
(* clauses standing at that moment that contain each variable.  The loop   *)
(* then takes the first encoding variable left, closes over co-occurring   *)
(* encoding variables (getCluster), filters the cluster, adds the binary   *)
(* clauses inside it (expandCluster) and validates it: the cluster's       *)
(* clauses with the encoding variables quantified out (the decision        *)
(* diagram bucket elimination computes) are walked by the structural       *)
(* extractor (CardLayerOps), and on success the clauses are deleted and    *)
(* the constraints written.                                                *)
(*                                                                         *)
(* The data-variable order of the diagram comes from ClauseGraph, which    *)
(* draws on the unseeded module random, so every order is possible.  The  *)
(* diagram's sizes are not modelled: any interesting cluster may hit the   *)
(* node limit or maxBddSize (BucketElimination's ResourceAbort), and then  *)
(* validateConstraint counts a resource failure and leaves it intact.      *)
(***************************************************************************)
EXTENDS Integers, Sequences, FiniteSets, FiniteSetsExt, SequencesExt

CONSTANTS
    Inputs       \* set of CNFs: sequences of clauses, clause ids 1..Len

\* The structural extractor over n data variables.
Ops(n) == INSTANCE CardLayerOps WITH NData <- n

Abs(l) == IF l < 0 THEN -l ELSE l

VarsOf(c) == {Abs(c[i]) : i \in DOMAIN c}

VARIABLES
    cnf,          \* the clause list read by CnfReader (fixed)
    clauseDict,   \* ids of clauses still standing
    evarOrder,    \* key order of evarMap (insertion order of polarityDict)
    evarMap,      \* encoding variable -> ids of the clauses containing it
    dvarMap,      \* data variable -> ids of the clauses containing it
    emitted,      \* constraints written by doCard, as [lits, bound]
    eliminated,   \* encodedVarIDs: encoding variables of accepted clusters
    timedOut,     \* encodedAmoTimeout
    phase         \* "start", "loop" or "done"

vars == <<cnf, clauseDict, evarOrder, evarMap, dvarMap, emitted, eliminated,
          timedOut, phase>>

(***************************************************************************)
(* classifyVars(maxSize): polarities seen in clauses of length <= maxSize. *)
(* Dict insertion order is the order of first occurrence, scanning clause  *)
(* ids upwards and each clause left to right.                              *)
(***************************************************************************)
\* Mutant: the length test of classifyVars dropped.
ShortIdsAnyLength(dict, maxSize) == dict

ShortIds(dict, maxSize) == {cid \in dict : Len(cnf[cid]) <= maxSize}

SeenWith(dict, maxSize, v, pos) ==
    \E cid \in ShortIds(dict, maxSize) :
        \E i \in DOMAIN cnf[cid] : cnf[cid][i] = IF pos THEN v ELSE -v

PolarityVars(dict, maxSize) == UNION {VarsOf(cnf[cid]) : cid \in ShortIds(dict, maxSize)}

FirstSeen(dict, maxSize, v) ==
    Min(UNION {{cid * 100 + i : i \in {j \in DOMAIN cnf[cid] : Abs(cnf[cid][j]) = v}} :
                   cid \in ShortIds(dict, maxSize)})

\* buildMaps: a variable seen in both polarities is an encoding variable.
EncodingVars(dict, maxSize) ==
    {v \in PolarityVars(dict, maxSize) :
        SeenWith(dict, maxSize, v, TRUE) /\ SeenWith(dict, maxSize, v, FALSE)}

\* Mutant: incidence lists built from the short clauses only.
IncidenceShortOnly(dict, v) == {cid \in ShortIds(dict, 2) : v \in VarsOf(cnf[cid])}

\* buildMaps: every standing clause, of any length, is listed under its variables.
Incidence(dict, v) == {cid \in dict : v \in VarsOf(cnf[cid])}

(***************************************************************************)
(* getCluster.  From the first encoding variable left, the closure over    *)
(* encoding variables that share a clause; each is deleted from evarMap.   *)
(* The taint set of the code is never filled (its only add sits under a    *)
(* test already known false), so tainting does nothing.                    *)
(***************************************************************************)
FirstEvar == CHOOSE i \in DOMAIN evarOrder :
                 /\ evarOrder[i] \in DOMAIN evarMap
                 /\ \A j \in 1..(i - 1) : evarOrder[j] \notin DOMAIN evarMap

ClauseIdsOf(E) == UNION {evarMap[e] : e \in E}

VarsIn(ids) == UNION {VarsOf(cnf[cid]) : cid \in ids}

RECURSIVE Closure(_)
Closure(E) ==
    LET E2 == E \cup (VarsIn(ClauseIdsOf(E)) \cap DOMAIN evarMap)
    IN  IF E2 = E THEN E ELSE Closure(E2)

\* del evarMap[ev] for every traced encoding variable.
DropTraced(map, E) == [v \in DOMAIN map \ E |-> map[v]]

\* The cluster getCluster returns: ok, dset, eset, idset.
Cluster ==
    LET E   == Closure({evarOrder[FirstEvar]})
        ids == ClauseIdsOf(E)
    IN  [ok   |-> VarsIn(ids) \subseteq E \cup DOMAIN dvarMap,
         dset |-> VarsIn(ids) \cap DOMAIN dvarMap,
         eset |-> E,
         ids  |-> ids]

\* The acceptance filters of findEncodedConstraints with amo = True.
Interesting(cl) ==
    LET nd == Cardinality(cl.dset)
        ne == Cardinality(cl.eset)
    IN  /\ cl.ok
        /\ 3 <= nd /\ nd <= 1000
        /\ ne <= 2000
        /\ ne <= 3 * nd
        /\ ~(nd > 10 /\ 3 * ne < nd)

\* Mutant: expandCluster without the check that the clause still stands.
ExpandIdsUnguarded(cl) ==
    {cid \in UNION {dvarMap[d] : d \in cl.dset} :
        Len(cnf[cid]) <= 2 /\ VarsOf(cnf[cid]) \subseteq cl.dset \cup cl.eset}

\* expandCluster: standing binary clauses whose variables are all in the cluster.
ExpandIds(cl) ==
    {cid \in UNION {dvarMap[d] : d \in cl.dset} :
        /\ cid \in clauseDict
        /\ Len(cnf[cid]) <= 2
        /\ VarsOf(cnf[cid]) \subseteq cl.dset \cup cl.eset}

(***************************************************************************)
(* validateConstraint.  ReducedCnf renumbers the cluster, and Extractor    *)
(* builds by bucket elimination the diagram of its clauses with every      *)
(* encoding variable quantified out, over the data variables in the order  *)
(* ord (ord[i] is the i-th data variable of the diagram).  The walk of     *)
(* CardLayerOps then yields phases and a range, or a functional failure.   *)
(***************************************************************************)
ClauseSat(c, val) == \E i \in DOMAIN c : IF c[i] > 0 THEN val[c[i]] = 1 ELSE val[-c[i]] = 0

Position(ord, v) == CHOOSE i \in DOMAIN ord : ord[i] = v

ReducedRoot(cl, ids, ord) ==
    [b \in [1..Len(ord) -> {0, 1}] |->
        \E e \in [cl.eset -> {0, 1}] :
            LET val == [v \in cl.dset \cup cl.eset |->
                           IF v \in cl.eset THEN e[v] ELSE b[Position(ord, v)]]
            IN  \A cid \in ids : ClauseSat(cnf[cid], val)]

\* Extractor.findConstraints on that diagram: <<phases, range>>.
Extraction(cl, ids, ord) == Ops(Len(ord))!FindConstraints(ReducedRoot(cl, ids, ord))

\* ReducedCnf maps the constraints' literals back through rmap.
OriginalLit(ord, l) == IF l > 0 THEN ord[l] ELSE -ord[-l]

\* Extractor.getConstraints, recoded to the original variables.
ExtractedConstraints(cl, ids, ord) ==
    LET x == Extraction(cl, ids, ord)
    IN  {[lits |-> {OriginalLit(ord, l) : l \in con.lits}, bound |-> con.bound] :
            con \in Ops(Len(ord))!GetConstraints(x[1], x[2][1], x[2][2])}

-----------------------------------------------------------------------------
\* ConstraintFinder.__init__: every clause stands; findEncodedAmos not begun.
Init ==
    /\ cnf \in Inputs
    /\ clauseDict = DOMAIN cnf
    /\ evarOrder = <<>>
    /\ evarMap = <<>>
    /\ dvarMap = <<>>
    /\ emitted = {}
    /\ eliminated = {}
    /\ timedOut = FALSE
    /\ phase = "start"

\* findEncodedAmos: classifyVars(2), then buildMaps over the standing clauses.
BuildMaps ==
    /\ phase = "start"
    /\ LET ev == EncodingVars(clauseDict, 2)
           dv == PolarityVars(clauseDict, 2) \ ev
       IN  /\ evarOrder' = SetToSortSeq(ev, LAMBDA a, b :
                               FirstSeen(clauseDict, 2, a) < FirstSeen(clauseDict, 2, b))
           /\ evarMap' = [v \in ev |-> Incidence(clauseDict, v)]
           /\ dvarMap' = [v \in dv |-> Incidence(clauseDict, v)]
    /\ phase' = "loop"
    /\ UNCHANGED <<cnf, clauseDict, emitted, eliminated, timedOut>>

\* A loop iteration whose cluster fails a filter: only evarMap shrinks.
ClusterRejected ==
    /\ phase = "loop"
    /\ DOMAIN evarMap # {}
    /\ ~Interesting(Cluster)
    /\ evarMap' = DropTraced(evarMap, Cluster.eset)
    /\ UNCHANGED <<cnf, clauseDict, evarOrder, dvarMap, emitted, eliminated,
                   timedOut, phase>>

\* validateConstraint with a functional failure: the clauses stay.
ClusterFailed ==
    /\ phase = "loop"
    /\ DOMAIN evarMap # {}
    /\ Interesting(Cluster)
    /\ \E ord \in SetToSeqs(Cluster.dset) :
         Extraction(Cluster, Cluster.ids \cup ExpandIds(Cluster), ord)[2] = <<>>
    /\ evarMap' = DropTraced(evarMap, Cluster.eset)
    /\ UNCHANGED <<cnf, clauseDict, evarOrder, dvarMap, emitted, eliminated,
                   timedOut, phase>>

\* Extractor.__init__ with generateBdd returning None: resourceFailure, and
\* validateConstraint leaves the clauses, whatever the extraction would give.
ClusterResourceFailed ==
    /\ phase = "loop"
    /\ DOMAIN evarMap # {}
    /\ Interesting(Cluster)
    /\ evarMap' = DropTraced(evarMap, Cluster.eset)
    /\ UNCHANGED <<cnf, clauseDict, evarOrder, dvarMap, emitted, eliminated,
                   timedOut, phase>>

(***************************************************************************)
(* validateConstraint with success: encodedVarIDs grows by the cluster's   *)
(* encoding variables, every clause of the cluster is deleted and every    *)
(* constraint written.                                                     *)
(***************************************************************************)
ClusterAccepted ==
    /\ phase = "loop"
    /\ DOMAIN evarMap # {}
    /\ Interesting(Cluster)
    /\ \E ord \in SetToSeqs(Cluster.dset) :
         LET ids == Cluster.ids \cup ExpandIds(Cluster) IN
         /\ Extraction(Cluster, ids, ord)[2] # <<>>
         /\ clauseDict' = clauseDict \ ids
         /\ emitted' = emitted \cup ExtractedConstraints(Cluster, ids, ord)
         /\ eliminated' = eliminated \cup Cluster.eset
    /\ evarMap' = DropTraced(evarMap, Cluster.eset)
    /\ UNCHANGED <<cnf, evarOrder, dvarMap, timedOut, phase>>

\* The loop ends when evarMap is empty.
EncodedDone ==
    /\ phase = "loop"
    /\ DOMAIN evarMap = {}
    /\ phase' = "done"
    /\ UNCHANGED <<cnf, clauseDict, evarOrder, evarMap, dvarMap, emitted,
                   eliminated, timedOut>>

\* The time check at the top of the loop; elapsed time is not modelled.
EncodedTimeout ==
    /\ phase = "loop"
    /\ DOMAIN evarMap # {}
    /\ timedOut' = TRUE
    /\ phase' = "done"
    /\ UNCHANGED <<cnf, clauseDict, evarOrder, evarMap, dvarMap, emitted, eliminated>>

Next ==
    \/ BuildMaps \/ ClusterRejected \/ ClusterFailed \/ ClusterResourceFailed
    \/ ClusterAccepted
    \/ EncodedDone \/ EncodedTimeout

Spec == Init /\ [][Next]_vars

-----------------------------------------------------------------------------
(***************************************************************************)
(* Properties.                                                             *)
(***************************************************************************)
AllVars == VarsIn(DOMAIN cnf)

LitTrue(l, a) == IF l > 0 THEN a[l] = 1 ELSE a[-l] = 0

Holds(con, a) == Cardinality({l \in con.lits : LitTrue(l, a)}) >= con.bound

\* The input formula, and the formula the KNF writer ends up with.
InputHolds(a) == \A cid \in DOMAIN cnf : ClauseSat(cnf[cid], a)

OutputHolds(a) ==
    /\ \A cid \in clauseDict : ClauseSat(cnf[cid], a)
    /\ \A con \in emitted : Holds(con, a)

TypeOK ==
    /\ clauseDict \subseteq DOMAIN cnf
    /\ DOMAIN evarMap \subseteq Range(evarOrder)
    /\ \A v \in DOMAIN evarMap : evarMap[v] \subseteq DOMAIN cnf
    /\ \A v \in DOMAIN dvarMap : dvarMap[v] \subseteq DOMAIN cnf
    /\ \A con \in emitted : con.lits \subseteq {l \in Int : Abs(l) \in AllVars}
                            /\ con.bound \in Nat \ {0}
    /\ eliminated \subseteq AllVars
    /\ timedOut \in BOOLEAN
    /\ phase \in {"start", "loop", "done"}

(***************************************************************************)
(* getCluster reads clauseDict[cid] for every clause evarMap lists, and    *)
(* expandCluster for every clause dvarMap lists that it keeps; both maps   *)
(* were built before earlier clusters deleted their clauses.  No read hits *)
(* a deleted clause (a KeyError that processFile re-raises).               *)
(***************************************************************************)
StandingReads ==
    (phase = "loop" /\ DOMAIN evarMap # {}) =>
        /\ Cluster.ids \subseteq clauseDict
        /\ Interesting(Cluster) => ExpandIds(Cluster) \subseteq clauseDict

(***************************************************************************)
(* An eliminated encoding variable (encodedVarIDs) occurs in no clause     *)
(* left standing: every clause that mentioned it was deleted with its      *)
(* cluster.                                                                *)
(***************************************************************************)
EliminatedVarsGone ==
    \A cid \in clauseDict : VarsOf(cnf[cid]) \cap eliminated = {}

(***************************************************************************)
(* ReducedCnf looks the renumbered clauses up in the extraction cache      *)
(* (tuplefy) without ndata, the number of data variables the Extractor is *)
(* built with.  The key is still enough: within every interesting cluster *)
(* the encoding variables are exactly those seen in both polarities among *)
(* the cluster's own short clauses, so the clauses fix the split and the  *)
(* renumbering puts the data variables first.                             *)
(***************************************************************************)
BothPolarities(ids) ==
    {v \in VarsIn(ids) :
        \A pos \in BOOLEAN :
            \E cid \in ids :
                /\ Len(cnf[cid]) <= 2
                /\ \E i \in DOMAIN cnf[cid] : cnf[cid][i] = IF pos THEN v ELSE -v}

CacheKeyDeterminesSplit ==
    (phase = "loop" /\ DOMAIN evarMap # {} /\ Interesting(Cluster)) =>
        LET ids == Cluster.ids \cup ExpandIds(Cluster) IN
        /\ Cluster.eset = BothPolarities(ids)
        /\ Cluster.dset = VarsIn(ids) \ BothPolarities(ids)

(***************************************************************************)
(* Extraction never strengthens the formula: every assignment satisfying  *)
(* the input satisfies the standing clauses and every written constraint. *)
(***************************************************************************)
NoModelLost ==
    \A a \in [AllVars -> {0, 1}] : InputHolds(a) => OutputHolds(a)

(***************************************************************************)
(* Extraction never weakens the formula: every assignment satisfying the  *)
(* output extends, by some values of the eliminated encoding variables,   *)
(* to one satisfying the input (spec section 8, Equivalence).             *)
(***************************************************************************)
NoModelAdded ==
    \A a \in [AllVars -> {0, 1}] :
        OutputHolds(a) =>
            \E e \in [eliminated -> {0, 1}] :
                InputHolds([v \in AllVars |-> IF v \in eliminated THEN e[v] ELSE a[v]])

=============================================================================
