---------------------------- MODULE VariableOrder ----------------------------
(***************************************************************************)
(* The variable orderer of src/tools/kanalyze.py: ClauseGraph, which ranks *)
(* the encoding variables of a reduced CNF along a longest breadth-first   *)
(* path and interleaves the data variables, and the Permuter that checks   *)
(* the result.  The clause graph is a set of operators over the CNF; the   *)
(* walk of buildOrder is a state machine.  The random sample and choice of *)
(* findCorner and the iteration order of Python sets are nondeterministic. *)
(***************************************************************************)
EXTENDS Integers, Sequences, FiniteSets, FiniteSetsExt, SequencesExt, Functions

CONSTANTS
    Inputs    \* reduced CNFs [ndata, nvar, clauses]: data variables 1..ndata

\* kanalyze.candidateCount: the size of the random sample in findCorner.
CandidateCount == 10

Abs(x) == IF x < 0 THEN -x ELSE x

DataVariables(c) == 1..c.ndata

EncodingVariablesPastEnd(c) == (c.ndata + 1)..(c.nvar + 1)

EncodingVariables(c) == (c.ndata + 1)..c.nvar

IsData(c, v) == v <= c.ndata

\* The ordered variable pairs addEdge is called with: idx1 < idx2 in a clause.
IndexPairs(cl) == {p \in (DOMAIN cl) \X (DOMAIN cl) : p[1] < p[2]}

ClausePairs(c) ==
    UNION {{<<Abs(c.clauses[k][p[1]]), Abs(c.clauses[k][p[2]])>> : p \in IndexPairs(c.clauses[k])} :
           k \in DOMAIN c.clauses}

\* edgeMap: encoding variables that share a clause (both directions).
EdgeMap(c, v) ==
    {w \in EncodingVariables(c) :
        <<v, w>> \in ClausePairs(c) \/ <<w, v>> \in ClausePairs(c)}

\* dataNeighbors / encodingNeighbors: the data-encoding pairs of addEdge.
Neighbors(c, v) ==
    {w \in 1..c.nvar : IsData(c, v) # IsData(c, w) /\
                       (<<v, w>> \in ClausePairs(c) \/ <<w, v>> \in ClausePairs(c))}

\* dataWeights[d]: addEdge counts a pair for its first variable when that is
\* a data variable, otherwise for its second when that one is.
DataWeight(c, d) ==
    MapThenSumSet(LAMBDA k :
        Cardinality({p \in IndexPairs(c.clauses[k]) :
                        \/ Abs(c.clauses[k][p[1]]) = d
                        \/ ~IsData(c, Abs(c.clauses[k][p[1]])) /\ Abs(c.clauses[k][p[2]]) = d}),
        DOMAIN c.clauses)

\* unitVariables: encoding variables that form a unit clause.
UnitVariables(c) ==
    {Abs(c.clauses[k][1]) : k \in {k \in DOMAIN c.clauses : Len(c.clauses[k]) = 1
                                                            /\ ~IsData(c, Abs(c.clauses[k][1]))}}

Frontier(c, visited, horizon) == UNION {EdgeMap(c, u) : u \in horizon} \ visited

\* furthestFrom: breadth-first search; the last non-empty horizon and its
\* distance.
RECURSIVE FurthestStep(_, _, _, _)
FurthestStep(c, visited, horizon, distance) ==
    IF Frontier(c, visited \cup horizon, horizon) = {}
    THEN [distance |-> distance, horizon |-> horizon]
    ELSE FurthestStep(c, visited \cup horizon, Frontier(c, visited \cup horizon, horizon), distance + 1)

FurthestFrom(c, root) == FurthestStep(c, {}, {root}, 0)

\* levelize: breadth-first level of every encoding variable, n when it is
\* not reachable from root.
RECURSIVE LevelStep(_, _, _, _, _)
LevelStep(c, visited, horizon, distance, dmap) ==
    IF Frontier(c, visited \cup horizon, horizon) = {}
    THEN [v \in DOMAIN dmap |-> IF v \in horizon THEN distance ELSE dmap[v]]
    ELSE LevelStep(c, visited \cup horizon, Frontier(c, visited \cup horizon, horizon), distance + 1,
                   [v \in DOMAIN dmap |-> IF v \in horizon THEN distance ELSE dmap[v]])

Levelize(c, root) ==
    LevelStep(c, {}, {root}, 0, [v \in EncodingVariables(c) |-> Cardinality(EncodingVariables(c))])

\* hop(vset, 1): the union of the furthest horizons of vset.
Hop(c, vset) == UNION {FurthestFrom(c, v).horizon : v \in vset}

\* findCorner, first branch: the possible corners and the vertices reached.
PossibleCorners(c) ==
    IF UnitVariables(c) # {} THEN UnitVariables(c)
    ELSE UNION {Neighbors(c, d) :
                d \in {d \in DataVariables(c) :
                         \A d2 \in DataVariables(c) : DataWeight(c, d) <= DataWeight(c, d2)}}

\* evlist and random.sample(evlist, candidateCount).
EvList(c) == {v \in EncodingVariables(c) : EdgeMap(c, v) # {}}

CandidateSets(c) ==
    IF Cardinality(EvList(c)) > CandidateCount
    THEN {s \in SUBSET EvList(c) : Cardinality(s) = CandidateCount}
    ELSE {EvList(c)}

ReachSets(c) ==
    IF UnitVariables(c) # {} THEN {UnitVariables(c)}
    ELSE {Hop(c, s) : s \in CandidateSets(c)}

\* One iteration of findCorner's scan for the best vertex (v = 0 is None),
\* with f = furthestFrom(v).
ScanWith(pc, best, v, f) ==
    IF f.distance > best.d \/ (f.distance = best.d /\ v \in pc)
    THEN [v |-> v, d |-> f.distance, h |-> f.horizon]
    ELSE best

ScanStep(c, pc, best, v) == ScanWith(pc, best, v, FurthestFrom(c, v))

\* The scan over reach in a given iteration order.
Scan(c, order) == FoldLeft(LAMBDA best, v : ScanStep(c, PossibleCorners(c), best, v),
                           [v |-> 0, d |-> 0, h |-> {}], order)

\* The vertices random.choice picks the sink from: the horizon, narrowed
\* to the possible corners when they meet it.
SinkChoicesNoFallback(c, best) == best.h \cap PossibleCorners(c)

SinkChoices(c, best) ==
    IF best.h \cap PossibleCorners(c) # {} THEN best.h \cap PossibleCorners(c) ELSE best.h

\* The outcomes of the scan over every sample and iteration order.
Scans(c) == {Scan(c, order) : order \in UNION {SetToSeqs(r) : r \in ReachSets(c)}}

\* rankEncoding: sort by (n+1) * levelFromSource + n - levelFromSink, ties
\* in the order of encodingVariables (sorted is stable).
Rank(n, sl, kl, v) == (n + 1) * sl[v] + n - kl[v]

RankBy(c, sl, kl) ==
    SortSeq([i \in 1..Cardinality(EncodingVariables(c)) |-> c.ndata + i],
            LAMBDA a, b :
                \/ Rank(Cardinality(EncodingVariables(c)), sl, kl, a)
                     < Rank(Cardinality(EncodingVariables(c)), sl, kl, b)
                \/ /\ Rank(Cardinality(EncodingVariables(c)), sl, kl, a)
                        = Rank(Cardinality(EncodingVariables(c)), sl, kl, b)
                   /\ a < b)

RankEncoding(c, source, sink) == RankBy(c, Levelize(c, source), Levelize(c, sink))

\* Permuter(varList, outList): raises unless outList maps 1..len onto itself.
PermuterAccepts(outList) == Range(outList) = 1..Len(outList)

-----------------------------------------------------------------------------
VARIABLES
    cnf,           \* the reduced CNF handed to Extractor (creader)
    phase,         \* "start", "walk", "permute", "done", or the exception
                   \* raised: "cornerFailed" (findCorner) or
                   \* "permuteFailed" (PermutationException)
    evars,         \* ranked encoding variables not yet placed
    outList,       \* buildOrder's outList
    dataNbrs,      \* self.dataNeighbors: pending encoding neighbours
    dvars          \* data variables not yet placed

vars == <<cnf, phase, evars, outList, dataNbrs, dvars>>

\* Extractor.__init__ builds ClauseGraph(creader, ndata) and calls buildOrder.
Init ==
    /\ cnf \in Inputs
    /\ phase = "start"
    /\ evars = <<>>
    /\ outList = <<>>
    /\ dataNbrs = [d \in DataVariables(cnf) |-> Neighbors(cnf, d)]
    /\ dvars = DataVariables(cnf)

\* No encoding variable: the identity Permuter over the data variables.
BuildIdentity ==
    /\ phase = "start" /\ EncodingVariables(cnf) = {}
    /\ outList' = [i \in DataVariables(cnf) |-> i]
    /\ phase' = "done"
    /\ UNCHANGED <<cnf, evars, dataNbrs, dvars>>

\* One encoding variable: it comes first, then the data variables.
BuildSingle ==
    /\ phase = "start" /\ Cardinality(EncodingVariables(cnf)) = 1
    /\ outList' = <<cnf.nvar>> \o [i \in DataVariables(cnf) |-> i]
    /\ phase' = "permute"
    /\ UNCHANGED <<cnf, evars, dataNbrs, dvars>>

\* rankEncoding from the corner findCorner returns (source, sink).
RankVariables ==
    /\ phase = "start" /\ Cardinality(EncodingVariables(cnf)) > 1
    /\ \E best \in Scans(cnf) :
         /\ best.h # {}
         /\ \E sink \in SinkChoices(cnf, best) : evars' = RankEncoding(cnf, best.v, sink)
    /\ phase' = "walk"
    /\ UNCHANGED <<cnf, outList, dataNbrs, dvars>>

\* findCorner found no best vertex: random.choice of an empty horizon raises.
CornerFails ==
    /\ phase = "start" /\ Cardinality(EncodingVariables(cnf)) > 1
    /\ \E best \in Scans(cnf) : best.h = {}
    /\ phase' = "cornerFailed"
    /\ UNCHANGED <<cnf, evars, outList, dataNbrs, dvars>>

ReleasedEarly(e, nbrs) == {d \in Neighbors(cnf, e) : Cardinality(nbrs[d] \ {e}) <= 1}

\* Data neighbours of e whose last pending encoding neighbour is e.
Released(e, nbrs) == {d \in Neighbors(cnf, e) : nbrs[d] \ {e} = {}}

PlaceEncodingKeepDvars ==
    /\ phase = "walk" /\ evars # <<>>
    /\ \E rs \in SetToSeqs(Released(Head(evars), dataNbrs)) :
         outList' = Append(outList, Head(evars)) \o rs
    /\ dataNbrs' = [d \in DOMAIN dataNbrs |->
                      IF d \in Neighbors(cnf, Head(evars)) THEN dataNbrs[d] \ {Head(evars)}
                      ELSE dataNbrs[d]]
    /\ evars' = Tail(evars)
    /\ UNCHANGED <<cnf, phase, dvars>>

\* One iteration of buildOrder's loop: place e, drop it from its data
\* neighbours' pending sets and place those left with none, in set order.
PlaceEncoding ==
    /\ phase = "walk" /\ evars # <<>>
    /\ \E rs \in SetToSeqs(Released(Head(evars), dataNbrs)) :
         outList' = Append(outList, Head(evars)) \o rs
    /\ dataNbrs' = [d \in DOMAIN dataNbrs |->
                      IF d \in Neighbors(cnf, Head(evars)) THEN dataNbrs[d] \ {Head(evars)}
                      ELSE dataNbrs[d]]
    /\ dvars' = dvars \ Released(Head(evars), dataNbrs)
    /\ evars' = Tail(evars)
    /\ UNCHANGED <<cnf, phase>>

\* The data variables left over are appended in set order.
AppendLeftover ==
    /\ phase = "walk" /\ evars = <<>>
    /\ \E rs \in SetToSeqs(dvars) : outList' = outList \o rs
    /\ dvars' = {}
    /\ phase' = "permute"
    /\ UNCHANGED <<cnf, evars, dataNbrs>>

\* Permuter(varList, outList) checks that outList is a permutation.
MakePermuter ==
    /\ phase = "permute"
    /\ phase' = IF PermuterAccepts(outList) THEN "done" ELSE "permuteFailed"
    /\ UNCHANGED <<cnf, evars, outList, dataNbrs, dvars>>

Next ==
    \/ BuildIdentity \/ BuildSingle \/ RankVariables \/ CornerFails
    \/ PlaceEncoding \/ AppendLeftover \/ MakePermuter

Spec == Init /\ [][Next]_vars

\* buildOrder is one sequential call: each step that is enabled is taken.
FairSpec == Spec /\ WF_vars(Next)

-----------------------------------------------------------------------------
(***************************************************************************)
(* Properties.                                                             *)
(***************************************************************************)
TypeOK ==
    /\ cnf \in Inputs
    /\ phase \in {"start", "walk", "permute", "done", "cornerFailed", "permuteFailed"}
    /\ evars \in Seq(EncodingVariables(cnf))
    /\ outList \in Seq(1..cnf.nvar)
    /\ dataNbrs \in [DataVariables(cnf) -> SUBSET EncodingVariables(cnf)]
    /\ dvars \subseteq DataVariables(cnf)

Pos(s, x) == CHOOSE i \in DOMAIN s : s[i] = x

(***************************************************************************)
(* The order buildOrder computes is a bijection over 1..nvar (spec,        *)
(* "Variable-order validity"): the Permuter never raises, and a finished   *)
(* order holds every variable of the reduced CNF exactly once.             *)
(***************************************************************************)
OrderIsPermutation ==
    /\ phase # "permuteFailed"
    /\ phase = "done" => Len(outList) = cnf.nvar /\ Range(outList) = 1..cnf.nvar

(***************************************************************************)
(* buildOrder inserts each data variable as soon as its last pending       *)
(* encoding neighbour is placed: a data variable with encoding neighbours  *)
(* is in outList exactly when all of them are, and no encoding variable    *)
(* comes between the last of them and it.                                  *)
(***************************************************************************)
EagerPlacement ==
    \A d \in DataVariables(cnf) : Neighbors(cnf, d) # {} =>
        /\ (d \in Range(outList)) = (Neighbors(cnf, d) \subseteq Range(outList))
        /\ d \in Range(outList) =>
             \A i \in DOMAIN outList :
                 (\A e \in Neighbors(cnf, d) : Pos(outList, e) < i) /\ i < Pos(outList, d)
                     => IsData(cnf, outList[i])

(***************************************************************************)
(* buildOrder implements VariableOrderSpec: the order it finishes with is  *)
(* a bijection that puts every data variable after its encoding            *)
(* neighbours, findCorner raises exactly on the CNFs where no corner       *)
(* exists, and the call always ends.  The abstract status is the phase     *)
(* with the internal steps hidden; the abstract order is outList once the  *)
(* Permuter accepted it.                                                   *)
(***************************************************************************)
AbstractStatus ==
    CASE phase = "done" -> "done"
      [] phase \in {"cornerFailed", "permuteFailed"} -> "failed"
      [] OTHER -> "busy"

Abstract == INSTANCE VariableOrderSpec
                WITH status <- AbstractStatus,
                     order <- IF phase = "done" THEN outList ELSE <<>>

ImplementsOrderSpec == Abstract!Spec /\ Abstract!Ends

====
