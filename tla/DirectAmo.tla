------------------------------ MODULE DirectAmo ------------------------------
(***************************************************************************)
(* Direct at-most-one detection of src/tools/card_extractor.py            *)
(* (ConstraintFinder.buildPairGraph, findDirectAmos, expandClique,        *)
(* findCliqueClauses, removeEdge, emitAmo, finishSmallAmo).               *)
(*                                                                         *)
(* A binary clause (-a -b) is an edge a--b of a graph over literals.       *)
(* findDirectAmos repeatedly takes the first remaining edge, grows a       *)
(* clique greedily from its first literal, removes the clique's edges, and *)
(* emits cliques of 5 or more literals at once; cliques of 3-4 are kept    *)
(* and emitted by finishSmallAmo after the encoded-AMO phase if all their  *)
(* clauses are still present.  Between the two, the encoded-AMO phase     *)
(* (modelled in detail elsewhere) may consume clauses: here it is an       *)
(* environment that replaces a present clause by an equivalent constraint. *)
(*                                                                         *)
(* Python set iteration order (edgeMap[lit], the clique set) is not fixed  *)
(* by the program, so expandClique's neighbour order and the order of      *)
(* equal-|lit| literals after sorting are chosen nondeterministically.     *)
(* Dict order is insertion order, so the first edge of idMap is the pair   *)
(* whose first clause id is smallest.                                     *)
(***************************************************************************)
EXTENDS Integers, Sequences, FiniteSets, FiniteSetsExt, SequencesExt

CONSTANTS
    NVars,           \* variables are 1..NVars
    Inputs,          \* set of CNFs: functions from clause ids 1..n to clauses
    MaxEncodedTakes  \* clauses the encoded-AMO environment may consume

Vars == 1..NVars
Lits == {v : v \in Vars} \cup {-v : v \in Vars}
Abs(l) == IF l < 0 THEN -l ELSE l

ASSUME MaxEncodedTakes \in Nat

VARIABLES
    cnf,          \* the clause list read by CnfReader (fixed)
    clauseDict,   \* ids of clauses still standing
    idMap,        \* pair <<l1, l2>> (|l1| <= |l2|) -> clause id
    small,        \* smallCliqueLiterals / smallCliqueClauseIds, as pairs
    emitted,      \* constraints written by doCard, as [lits, bound]
    taken,        \* clause ids consumed by the encoded-AMO environment
    timedOut,     \* directAmoTimeout
    phase         \* "direct", "encoded", "finish", "done" or "crashed"

vars == <<cnf, clauseDict, idMap, small, emitted, taken, timedOut, phase>>

(***************************************************************************)
(* buildPairGraph.  The clause (c1 c2) becomes the pair of negated         *)
(* literals ordered by variable; a later clause with the same pair         *)
(* overwrites the id but keeps the key's insertion position.              *)
(***************************************************************************)
PairOf(c) ==
    IF Abs(-c[1]) > Abs(-c[2]) THEN <<-c[2], -c[1]>> ELSE <<-c[1], -c[2]>>

BinaryIds(f) == {cid \in DOMAIN f : Len(f[cid]) = 2}

InitialIdMap(f) ==
    LET ps == {PairOf(f[cid]) : cid \in BinaryIds(f)}
    IN  [p \in ps |-> Max({cid \in BinaryIds(f) : PairOf(f[cid]) = p})]

InsertPos(p) == Min({cid \in BinaryIds(cnf) : PairOf(cnf[cid]) = p})

\* edgeMap[l]: the literals joined to l by a remaining edge.
Adj(l) == {m \in Lits : <<l, m>> \in DOMAIN idMap \/ <<m, l>> \in DOMAIN idMap}

\* The first key of idMap (dict iteration order).
FirstPair ==
    CHOOSE p \in DOMAIN idMap : \A q \in DOMAIN idMap : InsertPos(p) <= InsertPos(q)

\* Mutant: a neighbour joins when it is adjacent to the start literal only.
ExpandCliqueNoMutualCheck(lit, order) ==
    FoldLeft(LAMBDA set, olit : set \cup {olit}, {lit}, order)

(***************************************************************************)
(* expandClique: scanning lit's neighbours in the given order, a neighbour *)
(* joins the clique when it is adjacent to every member already in it.    *)
(***************************************************************************)
ExpandClique(lit, order) ==
    FoldLeft(LAMBDA set, olit :
                 IF \A clit \in set : olit = clit \/ clit \in Adj(olit)
                 THEN set \cup {olit} ELSE set,
             {lit}, order)

\* The cliques expandClique can return, over all neighbour orders.
Cliques(lit) == {ExpandClique(lit, ord) : ord \in SetToSeqs(Adj(lit))}

\* sorted(cliqueSet, key=abs): ties between l and -l keep set order.
SortedByVar(S) ==
    {s \in SetToSeqs(S) : \A i \in 1..(Len(s) - 1) : Abs(s[i]) <= Abs(s[i + 1])}

\* The pairs findCliqueClauses looks up, i1 < i2 in literal order.
CliquePairs(lits) ==
    {<<lits[q[1]], lits[q[2]]>> :
        q \in {r \in (1..Len(lits)) \X (1..Len(lits)) : r[1] < r[2]}}

\* Mutant: removeEdge that leaves the edge in place.
RemoveEdgesNoop(map, ps) == map

\* removeEdge for every pair in ps: del idMap[pair], edgeMap updated alike.
RemoveEdges(map, ps) == [p \in DOMAIN map \ ps |-> map[p]]

\* Mutant: doAmo writing an at-most-two constraint.
AmoConstraintBoundOffByOne(lits) ==
    [lits |-> {-lits[i] : i \in 1..Len(lits)}, bound |-> Len(lits) - 2]

\* Mutant: doAmo forgetting that clique literals are already negated.
AmoConstraintUnnegated(lits) ==
    [lits |-> {lits[i] : i \in 1..Len(lits)}, bound |-> Len(lits) - 1]

\* KnfWriter.doAmo: at least n-1 of the negated literals.
AmoConstraint(lits) ==
    [lits |-> {-lits[i] : i \in 1..Len(lits)}, bound |-> Len(lits) - 1]

\* Mutant: cliques of five deferred as well.
IsSmallCliqueOffByOne(lits) == Len(lits) <= 5

\* findDirectAmos: cliques of at most 4 literals are deferred.
IsSmallClique(lits) == Len(lits) <= 4

-----------------------------------------------------------------------------
\* ConstraintFinder.__init__ and the start of findDirectAmos.
Init ==
    /\ cnf \in Inputs
    /\ clauseDict = DOMAIN cnf
    /\ idMap = InitialIdMap(cnf)
    /\ small = <<>>
    /\ emitted = {}
    /\ taken = {}
    /\ timedOut = FALSE
    /\ phase = "direct"

(***************************************************************************)
(* One iteration of the findDirectAmos loop whose clique has fewer than 3  *)
(* literals: `l1, l2 = literals` then removeEdge.  A one-literal clique    *)
(* (a self-loop from a repeated literal) fails to unpack and a pair not    *)
(* stored in that orientation fails the del: both raise, and processFile  *)
(* re-raises, ending the run.                                              *)
(***************************************************************************)
DiscardEdge ==
    /\ phase = "direct"
    /\ DOMAIN idMap # {}
    /\ \E cs \in Cliques(FirstPair[1]) : \E lits \in SortedByVar(cs) :
         /\ Len(lits) < 3
         /\ IF Len(lits) = 2 /\ <<lits[1], lits[2]>> \in DOMAIN idMap
            THEN /\ idMap' = RemoveEdges(idMap, {<<lits[1], lits[2]>>})
                 /\ UNCHANGED phase
            ELSE /\ phase' = "crashed"
                 /\ UNCHANGED idMap
    /\ UNCHANGED <<cnf, clauseDict, small, emitted, taken, timedOut>>

(***************************************************************************)
(* emitAmo: the constraint is written (doAmo), then each clause id is      *)
(* deleted from clauseDict; an id already gone raises KeyError and the     *)
(* run aborts, so what was written before it is not modelled.              *)
(***************************************************************************)
EmitAmo(lits, cids) ==
    IF cids \subseteq clauseDict
    THEN /\ emitted' = emitted \cup {AmoConstraint(lits)}
         /\ clauseDict' = clauseDict \ cids
         /\ UNCHANGED phase
    ELSE /\ phase' = "crashed"
         /\ UNCHANGED <<clauseDict, emitted>>

(***************************************************************************)
(* A loop iteration with a clique of 3 or more literals:                   *)
(* findCliqueClauses collects and removes every pair's edge (a missing key *)
(* raises KeyError); a clique of at most 4 is deferred, a larger one is    *)
(* emitted at once by emitAmo, which deletes its clauses.                  *)
(***************************************************************************)
TakeClique ==
    /\ phase = "direct"
    /\ DOMAIN idMap # {}
    /\ \E cs \in Cliques(FirstPair[1]) : \E lits \in SortedByVar(cs) :
         LET ps   == CliquePairs(lits)
             cids == {idMap[p] : p \in ps \cap DOMAIN idMap}
         IN
         /\ Len(lits) >= 3
         /\ IF ps \subseteq DOMAIN idMap
            THEN /\ idMap' = RemoveEdges(idMap, ps)
                 /\ IF IsSmallClique(lits)
                    THEN /\ small' = Append(small, <<lits, cids>>)
                         /\ UNCHANGED <<clauseDict, emitted, phase>>
                    ELSE /\ EmitAmo(lits, cids)
                         /\ UNCHANGED small
            ELSE /\ phase' = "crashed"
                 /\ UNCHANGED <<idMap, small, clauseDict, emitted>>
    /\ UNCHANGED <<cnf, taken, timedOut>>

\* The loop ends when idMap is empty.
DirectDone ==
    /\ phase = "direct"
    /\ DOMAIN idMap = {}
    /\ phase' = "encoded"
    /\ UNCHANGED <<cnf, clauseDict, idMap, small, emitted, taken, timedOut>>

(***************************************************************************)
(* The time check at the top of the loop: past minSeconds with a low      *)
(* deletion rate, or past maxSeconds, the remaining edges are abandoned.   *)
(* Elapsed time is not modelled, so the check may fire at any iteration.   *)
(***************************************************************************)
DirectTimeout ==
    /\ phase = "direct"
    /\ DOMAIN idMap # {}
    /\ timedOut' = TRUE
    /\ phase' = "encoded"
    /\ UNCHANGED <<cnf, clauseDict, idMap, small, emitted, taken>>

(***************************************************************************)
(* Environment: the encoded-AMO phase (findEncodedAmos) deletes clauses    *)
(* it has replaced by equivalent constraints.  At most MaxEncodedTakes.    *)
(***************************************************************************)
EncodedConsume ==
    /\ phase = "encoded"
    /\ Cardinality(taken) < MaxEncodedTakes
    /\ \E cid \in clauseDict :
         /\ clauseDict' = clauseDict \ {cid}
         /\ taken' = taken \cup {cid}
         /\ emitted' = emitted \cup
                {[lits |-> {cnf[cid][i] : i \in DOMAIN cnf[cid]}, bound |-> 1]}
    /\ UNCHANGED <<cnf, idMap, small, timedOut, phase>>

EncodedDone ==
    /\ phase = "encoded"
    /\ phase' = "finish"
    /\ UNCHANGED <<cnf, clauseDict, idMap, small, emitted, taken, timedOut>>

\* Mutant: finishSmallAmo without the presence check.
StillPresentUnchecked(entry, dict) == TRUE

\* finishSmallAmo: a deferred clique is emitted only if all its clauses stand.
StillPresent(entry, dict) == entry[2] \subseteq dict

(***************************************************************************)
(* finishSmallAmo, the whole loop: every deferred clique whose clauses are *)
(* all still present is emitted and its clauses deleted; deleting an       *)
(* absent id would raise KeyError.  The clause lists of distinct cliques   *)
(* are disjoint, so the loop's order does not matter.                      *)
(***************************************************************************)
FinishSmallAmo ==
    /\ phase = "finish"
    /\ LET sel  == {i \in DOMAIN small : StillPresent(small[i], clauseDict)}
           dels == UNION {small[i][2] : i \in sel}
       IN  IF dels \subseteq clauseDict
           THEN /\ emitted' = emitted \cup {AmoConstraint(small[i][1]) : i \in sel}
                /\ clauseDict' = clauseDict \ dels
                /\ phase' = "done"
           ELSE /\ phase' = "crashed"
                /\ UNCHANGED <<emitted, clauseDict>>
    /\ UNCHANGED <<cnf, idMap, small, taken, timedOut>>

Next ==
    \/ DiscardEdge \/ TakeClique \/ DirectDone \/ DirectTimeout
    \/ EncodedConsume \/ EncodedDone \/ FinishSmallAmo

Spec == Init /\ [][Next]_vars

(***************************************************************************)
(* The program's own steps are fair; the timeout and the encoded phase's   *)
(* deletions are not required to happen.                                   *)
(***************************************************************************)
LoopStep == DiscardEdge \/ TakeClique \/ DirectDone \/ EncodedDone \/ FinishSmallAmo

FairSpec == Spec /\ WF_vars(LoopStep)

-----------------------------------------------------------------------------
(***************************************************************************)
(* Properties.                                                             *)
(***************************************************************************)
Assignments == [Vars -> BOOLEAN]

LitTrue(l, a) == IF l > 0 THEN a[l] ELSE ~a[-l]

ClauseHolds(c, a) == \E i \in DOMAIN c : LitTrue(c[i], a)

Holds(con, a) == Cardinality({l \in con.lits : LitTrue(l, a)}) >= con.bound

TypeOK ==
    /\ clauseDict \subseteq DOMAIN cnf
    /\ DOMAIN idMap \subseteq Lits \X Lits
    /\ \A p \in DOMAIN idMap : idMap[p] \in BinaryIds(cnf)
    /\ \A i \in DOMAIN small : Len(small[i][1]) \in 3..4
    /\ \A con \in emitted : con.lits \subseteq Lits /\ con.bound \in Nat
    /\ taken \subseteq DOMAIN cnf \ clauseDict
    /\ timedOut \in BOOLEAN
    /\ phase \in {"direct", "encoded", "finish", "done", "crashed"}

(***************************************************************************)
(* Deleting clauses never changes the formula: at every point the clauses  *)
(* still standing together with the constraints already written are       *)
(* equivalent to the input (emitAmo deletes exactly the pairwise clauses  *)
(* of a true clique, and finishSmallAmo re-emits a deferred clique only   *)
(* when the encoded phase has left all of its clauses in place).           *)
(***************************************************************************)
OutputEquivalent ==
    \A a \in Assignments :
        (\A cid \in DOMAIN cnf : ClauseHolds(cnf[cid], a))
            <=> /\ \A cid \in clauseDict : ClauseHolds(cnf[cid], a)
                /\ \A con \in emitted : Holds(con, a)

(***************************************************************************)
(* On well-formed clauses the detector never raises: no del of a missing   *)
(* idMap key or clauseDict id, no failed unpacking of a clique.            *)
(***************************************************************************)
NoCrash == phase # "crashed"

\* Edges of the pair graph built from the whole input.
InputAdj(l) ==
    {m \in Lits : \E p \in DOMAIN InitialIdMap(cnf) : p = <<l, m>> \/ p = <<m, l>>}

\* K is a connected component of the input pair graph and a clique.
IsolatedClique(K) == \A x \in K : x \notin InputAdj(x) /\ {x} \cup InputAdj(x) = K

(***************************************************************************)
(* Pairwise encoding recovery: when neither a timeout nor the encoded      *)
(* phase intervenes, every component of the pair graph that is a clique of *)
(* at least 3 literals ends as exactly one at-most-one constraint, whatever *)
(* order the sets are scanned in (immediately for 5+, via finishSmallAmo  *)
(* for 3-4).                                                               *)
(***************************************************************************)
IsolatedCliquesRecovered ==
    (phase = "done" /\ ~timedOut /\ taken = {}) =>
        \A l \in Lits :
            LET K == {l} \cup InputAdj(l) IN
                (Cardinality(K) >= 3 /\ IsolatedClique(K)) =>
                    {con \in emitted : con.lits \cap {-x : x \in K} # {}}
                        = {[lits |-> {-x : x \in K}, bound |-> Cardinality(K) - 1]}

(***************************************************************************)
(* findDirectAmos ends without relying on its timeout: every iteration of  *)
(* its loop removes at least one edge of idMap, and finishSmallAmo ends.   *)
(***************************************************************************)
Termination == <>(phase \in {"done", "crashed"})

=============================================================================
