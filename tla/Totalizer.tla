------------------------------ MODULE Totalizer ------------------------------
(***************************************************************************)
(* The KNF-to-CNF translation of                                           *)
(* src/cardinality-splitting/totalizer_splitting.py: parse_knf reads the   *)
(* formula line by line, keeps clauses and the cardinality lines a later   *)
(* knf2cnf pass handles (bound 2, AMO, clause-like), and replaces every    *)
(* other cardinality line by a totalizer tree (encode_totalizer,           *)
(* totalizer_layer, clauses_for_totalizer) over fresh variables.  A line   *)
(* of the input is a record: [kind |-> "p", nvar |-> n] for the header,    *)
(* [kind |-> "k", bound |-> b, lits |-> s] for a cardinality line, and     *)
(* [kind |-> "c", lits |-> s] for a clause.                                *)
(***************************************************************************)
EXTENDS Integers, Sequences, FiniteSets, FiniteSetsExt, SequencesExt

CONSTANTS
    Inputs,      \* the KNF files, as sequences of lines
    CubeCounts   \* values of -i (0: write the CNF only)

Abs(l) == IF l < 0 THEN -l ELSE l

VarsOf(c) == {Abs(c[i]) : i \in DOMAIN c}

\* Python's 0-based s[i].
At(s, i) == s[i + 1]

-----------------------------------------------------------------------------
(***************************************************************************)
(* clauses_for_totalizer: the clauses tying the counters new of a node to  *)
(* the counters of its children; counter i (0-based) stands for "at least  *)
(* i+1 of the leaves below are true".  Returns the clauses and the node's  *)
(* counters, without the last one when an AMK node counts to bound + 1.    *)
(***************************************************************************)
BackwardClauses(left, right, new, bound) ==
    {<<-At(new, 0), At(left, 0), At(right, 0)>>}
    \cup {IF l = Len(left) THEN <<-At(new, l), At(right, 0)>>
                           ELSE <<-At(new, l), At(left, l), At(right, 0)>> :
            l \in {l \in 1..Len(left) : l < bound}}
    \cup {IF r = Len(right) THEN <<-At(new, r), At(left, 0)>>
                            ELSE <<-At(new, r), At(right, r), At(left, 0)>> :
            r \in {r \in 1..Len(right) : r < bound}}
    \cup {IF p[1] + 1 = Len(left)
          THEN <<-At(new, p[1] + p[2] + 2), At(right, p[2] + 1)>>
          ELSE IF p[2] + 1 = Len(right)
          THEN <<-At(new, p[1] + p[2] + 2), At(left, p[1] + 1)>>
          ELSE <<-At(new, p[1] + p[2] + 2), At(left, p[1] + 1), At(right, p[2] + 1)>> :
            p \in {p \in (0..(Len(left) - 1)) \X (0..(Len(right) - 1)) :
                      /\ p[1] + p[2] + 3 <= bound
                      /\ ~(p[1] + 1 = Len(left) /\ p[2] + 1 = Len(right))}}

ForwardClausesKeepOffByOne(left, right, new, bound, alk) ==
    LET Keep(i) == ~(alk /\ i > bound) /\ i <= bound
    IN {<<At(new, l), -At(left, l)>> : l \in {l \in 0..(Len(left) - 1) : Keep(l)}}
       \cup {<<At(new, r), -At(right, r)>> : r \in {r \in 0..(Len(right) - 1) : Keep(r)}}
       \cup {<<At(new, p[1] + p[2] + 1), -At(left, p[1]), -At(right, p[2])>> :
               p \in {p \in (0..(Len(left) - 1)) \X (0..(Len(right) - 1)) :
                        ~(alk /\ p[1] + p[2] + 2 > bound) /\ p[1] + p[2] + 2 <= bound}}

ForwardClauses(left, right, new, bound, alk) ==
    LET Keep(i) == ~(alk /\ i > bound) /\ i <= bound + 1
    IN {<<At(new, l), -At(left, l)>> : l \in {l \in 0..(Len(left) - 1) : Keep(l)}}
       \cup {<<At(new, r), -At(right, r)>> : r \in {r \in 0..(Len(right) - 1) : Keep(r)}}
       \cup {<<At(new, p[1] + p[2] + 1), -At(left, p[1]), -At(right, p[2])>> :
               p \in {p \in (0..(Len(left) - 1)) \X (0..(Len(right) - 1)) :
                        ~(alk /\ p[1] + p[2] + 2 > bound) /\ p[1] + p[2] + 2 <= bound + 1}}

OrderClauses(new) == {<<At(new, i), -At(new, i + 1)>> : i \in 0..(Len(new) - 2)}

ClausesForTotalizer(left, right, new, bound, alk, allTot) ==
    LET needsUnit == ~alk /\ Len(new) = bound + 1
    IN [clauses |-> (IF alk \/ allTot THEN BackwardClauses(left, right, new, bound) ELSE {})
                    \cup (IF ~alk \/ allTot THEN ForwardClauses(left, right, new, bound, alk) ELSE {})
                    \cup OrderClauses(new)
                    \cup (IF needsUnit THEN {<<-Last(new)>>} ELSE {}),
        counters |-> IF needsUnit THEN Front(new) ELSE new]

\* Number of counters of a merged node: capped at bound (ALK) or bound + 1
\* (AMK).
NumCounters(left, right, bound, alk) ==
    IF alk THEN IF Len(left) + Len(right) > bound THEN bound ELSE Len(left) + Len(right)
           ELSE IF Len(left) + Len(right) > bound + 1 THEN bound + 1 ELSE Len(left) + Len(right)

WithMaxVar(res, maxVar) == [counters |-> res.counters, clauses |-> res.clauses, maxVar |-> maxVar]

\* One merge of totalizer_layer: fresh counters after maxVar and the node's
\* clauses.
MergeNodes(left, right, bound, alk, allTot, maxVar) ==
    WithMaxVar(ClausesForTotalizer(left, right,
                                   [i \in 1..NumCounters(left, right, bound, alk) |-> maxVar + i],
                                   bound, alk, allTot),
               maxVar + NumCounters(left, right, bound, alk))

Attach(st, x, y, nd) ==
    [made |-> [c |-> nd.counters, id |-> st.nodeCnt],
     layer |-> st.layer,
     maxVar |-> nd.maxVar,
     clauses |-> st.clauses \cup nd.clauses,
     nodeCnt |-> st.nodeCnt + 1,
     nodes |-> st.nodes @@ (st.nodeCnt :> [left |-> x.id, right |-> y.id, counters |-> nd.counters])]

\* The merge of nodes x and y (records [c |-> counters, id |-> node id])
\* as node st.nodeCnt, recorded in st.nodes as totalizer_layer does.
AddNode(st, x, y, bound, alk, allTot) ==
    Attach(st, x, y, MergeNodes(x.c, y.c, bound, alk, allTot, st.maxVar))

AppendMade(st) == [st EXCEPT !.layer = Append(st.layer, st.made)]

ReplaceLastByMade(st) == [st EXCEPT !.layer = [st.layer EXCEPT ![Len(st.layer)] = st.made]]

\* The paired merges of totalizer_layer, from group k on.
RECURSIVE MergePairs(_, _, _, _, _, _)
MergePairs(cur, k, bound, alk, allTot, st) ==
    IF 2 * k > Len(cur) THEN st
    ELSE MergePairs(cur, k + 1, bound, alk, allTot,
                    AppendMade(AddNode(st, cur[2 * k - 1], cur[2 * k], bound, alk, allTot)))

\* The straggler of an odd layer is merged into the last node made.
Straggler(st, cur, bound, alk, allTot) ==
    IF Len(cur) % 2 = 0 THEN st
    ELSE ReplaceLastByMade(AddNode(st, Last(st.layer), Last(cur), bound, alk, allTot))

\* totalizer_layer: merge neighbours of st.layer into a new layer.
TotalizerLayer(st, bound, alk, allTot) ==
    Straggler(MergePairs(st.layer, 1, bound, alk, allTot, [st EXCEPT !.layer = <<>>]),
              st.layer, bound, alk, allTot)

\* encode_totalizer's while loop over the layers; st.made ends as the root.
RECURSIVE BuildTree(_, _, _, _)
BuildTree(st, bound, alk, allTot) ==
    IF Len(st.layer) <= 1 THEN [st EXCEPT !.made = st.layer[1]]
    ELSE BuildTree(TotalizerLayer(st, bound, alk, allTot), bound, alk, allTot)

\* The breadth-first walk of encode_totalizer from the root: the layers of
\* internal nodes; ids below nLeaves are the leaves, already seen.
RECURSIVE TreeLayers(_, _, _)
TreeLayers(frontier, nodes, nLeaves) ==
    IF frontier = <<>> THEN <<>>
    ELSE <<frontier>> \o
         TreeLayers(FlattenSeq([i \in DOMAIN frontier |->
                        SelectSeq(<<nodes[frontier[i]].left, nodes[frontier[i]].right>>,
                                  LAMBDA x : x >= nLeaves)]),
                    nodes, nLeaves)

\* The end of encode_totalizer: an ALK tree gets the unit on the last
\* variable made, which is the root's top counter; then the layers.
TreeResult(t, alk, nLeaves) ==
    [clauses |-> t.clauses \cup (IF alk THEN {<<t.maxVar>>} ELSE {}),
     root |-> t.made.c, maxVar |-> t.maxVar, nodes |-> t.nodes,
     layers |-> TreeLayers(<<t.nodeCnt - 1>>, t.nodes, nLeaves)]

\* encode_totalizer: the leaves are the literals, numbered from 0.
EncodeTotalizer(bound, lits, maxVar, alk, allTot) ==
    TreeResult(BuildTree([made |-> <<>>,
                          layer |-> [i \in DOMAIN lits |-> [c |-> <<lits[i]>>, id |-> i - 1]],
                          maxVar |-> maxVar, clauses |-> {},
                          nodeCnt |-> Len(lits), nodes |-> <<>>],
                         bound, alk, allTot),
               alk, Len(lits))

\* parse_knf's choice for a general cardinality line: ALK unless always_ALK
\* is off and bound > len(lits)/2, in which case the line is flipped to
\* "at most len - bound of the negated literals".
UseALK(alwaysALK, bound, lits) == alwaysALK \/ ~(2 * bound > Len(lits))

\* parse_knf keeps a cardinality line for knf2cnf when its bound is 2, equals
\* the number of literals, or is one less (an AMO); len(tokens) - 3 is the
\* number of literals.
KeptForKnf2CnfNoFull(line) ==
    \/ line.bound = 2
    \/ line.bound = Len(line.lits) - 1

KeptForKnf2Cnf(line) ==
    \/ line.bound = 2
    \/ line.bound = Len(line.lits)
    \/ line.bound = Len(line.lits) - 1

-----------------------------------------------------------------------------
(***************************************************************************)
(* Cube generation of write_cube_file.                                    *)
(***************************************************************************)
\* get_some_cube_vars' pick in one node: position int(len * bound / n), one
\* further when roundUp, clamped to the last counter.  (The code computes
\* the product in floating point; for counter lists shorter than the line
\* this equals the integer quotient.)
PickCounter(cnt, t, roundUp) ==
    LET h0 == (Len(cnt) * t.bound) \div Len(t.line.lits)
        h == IF roundUp THEN h0 + 1 ELSE h0
    IN IF h < Len(cnt) THEN At(cnt, h) ELSE At(cnt, h - 1)

\* One layer of get_some_cube_vars: nodes by decreasing number of counters
\* (Python's stable sort), roundUp alternating from node to node.
LayerPicks(t, layer, roundUp) ==
    LET Cnt(k) == t.nodes[layer[k]].counters
        order == SortSeq([k \in DOMAIN layer |-> k],
                         LAMBDA a, b : \/ Len(Cnt(a)) > Len(Cnt(b))
                                       \/ Len(Cnt(a)) = Len(Cnt(b)) /\ a < b)
    IN [k \in DOMAIN order |-> PickCounter(Cnt(order[k]), t, IF k % 2 = 1 THEN roundUp ELSE ~roundUp)]

\* get_some_cube_vars from 0-based layer i on; roundUp carries across
\* layers, flipped after a layer with an odd number of nodes.  acc holds
\* the picks up to and including layer i - 1.
RECURSIVE SomeCubeVars(_, _, _, _, _)
RECURSIVE SomeCubeVarsAfter(_, _, _, _, _)
SomeCubeVars(t, n, i, roundUp, acc) ==
    IF i >= Len(t.layers) THEN acc
    ELSE SomeCubeVarsAfter(t, n, i, roundUp, acc \o LayerPicks(t, t.layers[i + 1], roundUp))

SomeCubeVarsAfter(t, n, i, roundUp, acc) ==
    IF Len(acc) >= n THEN SubSeq(acc, 1, n)
    ELSE SomeCubeVars(t, n, i + 1,
                      IF Len(t.layers[i + 1]) % 2 = 1 THEN ~roundUp ELSE roundUp, acc)

\* get_cube_vars' loop over the totalizers from index j on.
RECURSIVE CubeVarsFrom(_, _, _, _, _)
RECURSIVE CubeVarsAfter(_, _, _, _, _)
CubeVarsFrom(ts, nCubes, perTotal, j, acc) ==
    IF j > Len(ts) THEN acc
    ELSE CubeVarsAfter(ts, nCubes, perTotal, j, acc \o SomeCubeVars(ts[j], perTotal, 2, TRUE, <<>>))

CubeVarsAfter(ts, nCubes, perTotal, j, acc) ==
    IF Len(acc) >= nCubes THEN SubSeq(acc, 1, nCubes)
    ELSE CubeVarsFrom(ts, nCubes, perTotal, j + 1, acc)

\* get_cube_vars: nCubes split evenly over the totalizers, at least one
\* each.  Defined only when there is a totalizer (the code divides by
\* len(self.totalizers)).
GetCubeVars(ts, nCubes) ==
    LET q == nCubes \div Len(ts)
    IN CubeVarsFrom(ts, nCubes, IF q < 1 THEN 1 ELSE q, 1, <<>>)

\* all_combos: every sequence of n signs, the +1 branch first.
RECURSIVE AllCombos(_)
SignedBoth(prev) ==
    [i \in DOMAIN prev |-> <<1>> \o prev[i]] \o [i \in DOMAIN prev |-> <<-1>> \o prev[i]]

AllCombos(n) == IF n > 0 THEN SignedBoth(AllCombos(n - 1)) ELSE << <<>> >>

Signed(cs, vs) == [j \in DOMAIN cs |-> [i \in DOMAIN vs |-> cs[j][i] * vs[i]]]

GenerateCubes(vs) == Signed(AllCombos(Len(vs)), vs)

-----------------------------------------------------------------------------
VARIABLES
    file,          \* the KNF file parse_knf opened
    lines,         \* its lines not read yet
    alwaysALK,     \* -l / -m: always_ALK
    allTotalizer,  \* -p: all_totalizer (clauses in both directions)
    maxVar,        \* parse_knf's maxVar: header value, then last fresh variable
    clauses,       \* self.clauses
    klauses,       \* self.klauses: lines left for knf2cnf
    totalizers,    \* self.totalizers, each with the line it encodes
    printSemantics, \* -s
    nCubes,        \* -i
    cubes,         \* self.cubes
    phase          \* "parse", "written" or "crashed"

parsed == <<file, lines, alwaysALK, allTotalizer, maxVar, clauses, klauses, totalizers>>

vars == <<parsed, printSemantics, nCubes, cubes, phase>>

\* run() builds Totalizer(always_ALK, all_totalizer) from the flags and calls
\* parse_knf on the file; maxVar starts at -1 until the header is read.
Init ==
    /\ file \in Inputs
    /\ lines = file
    /\ alwaysALK \in BOOLEAN
    /\ allTotalizer \in BOOLEAN
    /\ printSemantics \in BOOLEAN
    /\ nCubes \in CubeCounts
    /\ cubes = <<>>
    /\ maxVar = -1
    /\ clauses = <<>>
    /\ klauses = <<>>
    /\ totalizers = <<>>
    /\ phase = "parse"

Line == Head(lines)

ReadHeader ==
    /\ phase = "parse" /\ lines # <<>> /\ Line.kind = "p"
    /\ maxVar' = Line.nvar
    /\ lines' = Tail(lines)
    /\ UNCHANGED <<file, alwaysALK, allTotalizer, clauses, klauses, totalizers, printSemantics, nCubes, cubes, phase>>

ReadClause ==
    /\ phase = "parse" /\ lines # <<>> /\ Line.kind = "c"
    /\ clauses' = Append(clauses, Line.lits)
    /\ lines' = Tail(lines)
    /\ UNCHANGED <<file, alwaysALK, allTotalizer, maxVar, klauses, totalizers, printSemantics, nCubes, cubes, phase>>

KeepKlause ==
    /\ phase = "parse" /\ lines # <<>> /\ Line.kind = "k"
    /\ KeptForKnf2Cnf(Line)
    /\ klauses' = Append(klauses, Line)
    /\ lines' = Tail(lines)
    /\ UNCHANGED <<file, alwaysALK, allTotalizer, maxVar, clauses, totalizers, printSemantics, nCubes, cubes, phase>>

\* The totalizer record kept in self.totalizers for a line.
TotRecord(line, alk, bound, t) ==
    [line |-> line, alk |-> alk, bound |-> bound, clauses |-> t.clauses,
     root |-> t.root, nodes |-> t.nodes, layers |-> t.layers]

\* The line as encoded: flipped to AMK over the negated literals when chosen.
EncBound(always, line) ==
    IF UseALK(always, line.bound, line.lits) THEN line.bound ELSE Len(line.lits) - line.bound

EncLits(always, line) ==
    IF UseALK(always, line.bound, line.lits) THEN line.lits
    ELSE [i \in DOMAIN line.lits |-> -line.lits[i]]

Encoding(line) ==
    EncodeTotalizer(EncBound(alwaysALK, line), EncLits(alwaysALK, line), maxVar,
                    UseALK(alwaysALK, line.bound, line.lits), allTotalizer)

EncodeKlauseStaleMaxVar ==
    /\ phase = "parse" /\ lines # <<>> /\ Line.kind = "k"
    /\ ~KeptForKnf2Cnf(Line)
    /\ totalizers' = Append(totalizers, TotRecord(Line, UseALK(alwaysALK, Line.bound, Line.lits),
                                                  EncBound(alwaysALK, Line), Encoding(Line)))
    /\ lines' = Tail(lines)
    /\ UNCHANGED <<file, alwaysALK, allTotalizer, maxVar, clauses, klauses, printSemantics, nCubes, cubes, phase>>

\* Records the encoding t of the head line and advances maxVar past it.
AppendTotalizer(t) ==
    /\ totalizers' = Append(totalizers, TotRecord(Line, UseALK(alwaysALK, Line.bound, Line.lits),
                                                  EncBound(alwaysALK, Line), t))
    /\ maxVar' = t.maxVar

\* A general cardinality line: flip it to AMK when chosen, encode the tree
\* over fresh variables after maxVar, and advance maxVar past them.
EncodeKlause ==
    /\ phase = "parse" /\ lines # <<>> /\ Line.kind = "k"
    /\ ~KeptForKnf2Cnf(Line)
    /\ AppendTotalizer(Encoding(Line))
    /\ lines' = Tail(lines)
    /\ UNCHANGED <<file, alwaysALK, allTotalizer, clauses, klauses, printSemantics, nCubes, cubes, phase>>

\* After parse_knf, run() prints totalizers[0] under -s, then writes the
\* CNF (no -i) or the formula followed by the cubes (-i > 0).
ParseDone ==
    /\ phase = "parse" /\ lines = <<>>
    /\ ~(printSemantics /\ totalizers = <<>>)

WriteFormula ==
    /\ ParseDone /\ nCubes = 0
    /\ phase' = "written"
    /\ UNCHANGED <<parsed, printSemantics, nCubes, cubes>>

WriteCubeFile ==
    /\ ParseDone /\ nCubes > 0 /\ totalizers # <<>>
    /\ cubes' = GenerateCubes(GetCubeVars(totalizers, nCubes))
    /\ phase' = "written"
    /\ UNCHANGED <<parsed, printSemantics, nCubes>>

\* -s with no totalizer: self.totalizers[0] raises IndexError.
PrintSemanticsFails ==
    /\ phase = "parse" /\ lines = <<>>
    /\ printSemantics /\ totalizers = <<>>
    /\ phase' = "crashed"
    /\ UNCHANGED <<parsed, printSemantics, nCubes, cubes>>

\* -i with no totalizer: write_cube_file has written the formula when
\* get_cube_vars divides by len(self.totalizers) = 0.
CubeFileFails ==
    /\ ParseDone /\ nCubes > 0 /\ totalizers = <<>>
    /\ phase' = "crashed"
    /\ UNCHANGED <<parsed, printSemantics, nCubes, cubes>>

Next ==
    \/ ReadHeader \/ ReadClause \/ KeepKlause \/ EncodeKlause
    \/ WriteFormula \/ WriteCubeFile \/ PrintSemanticsFails \/ CubeFileFails

Spec == Init /\ [][Next]_vars

-----------------------------------------------------------------------------
(***************************************************************************)
(* Properties.                                                             *)
(***************************************************************************)
LitTrue(l, a) == IF l > 0 THEN a[l] ELSE ~a[-l]

ClauseHolds(c, a) == \E i \in DOMAIN c : LitTrue(c[i], a)

\* The meaning of "k bound lits 0": at least bound of lits are true.
AtLeast(bound, lits, a) == Cardinality({i \in DOMAIN lits : LitTrue(lits[i], a)}) >= bound

\* Variables of the input file.
FileVars == UNION {VarsOf(file[i].lits) : i \in {j \in DOMAIN file : file[j].kind # "p"}}

\* Variables a totalizer's clauses use besides those of its own line.
Aux(t) == UNION {VarsOf(c) : c \in t.clauses} \ VarsOf(t.line.lits)

TypeOK ==
    /\ phase \in {"parse", "written", "crashed"}
    /\ nCubes \in CubeCounts /\ printSemantics \in BOOLEAN
    /\ cubes \in Seq(Seq(Int \ {0}))
    /\ alwaysALK \in BOOLEAN /\ allTotalizer \in BOOLEAN
    /\ maxVar \in Int
    /\ \A i \in DOMAIN totalizers :
          /\ totalizers[i].alk \in BOOLEAN
          /\ totalizers[i].bound \in 1..Len(totalizers[i].line.lits)
          /\ totalizers[i].clauses \subseteq Seq(Int \ {0})

(***************************************************************************)
(* Every totalizer encode_totalizer builds means exactly the cardinality   *)
(* line it replaces, in ALK and in flipped AMK form, with or without -p:   *)
(* an assignment of the line's variables satisfies "at least bound" iff    *)
(* some assignment of the tree's counters satisfies all its clauses.       *)
(***************************************************************************)
EncodingsCorrect ==
    \A i \in DOMAIN totalizers :
        LET t == totalizers[i] IN
        \A x \in [VarsOf(t.line.lits) -> BOOLEAN] :
            AtLeast(t.line.bound, t.line.lits, x)
                <=> \E aux \in [Aux(t) -> BOOLEAN] :
                        \A c \in t.clauses : ClauseHolds(c, x @@ aux)

(***************************************************************************)
(* parse_knf threads maxVar from the header through every encoding: the   *)
(* counters of each totalizer are positive variables above every variable *)
(* of the file, shared with no other totalizer, and the written header's  *)
(* variable count covers them.  Together with EncodingsCorrect this makes *)
(* the written CNF equivalent to the KNF over the file's variables.       *)
(***************************************************************************)
FreshAuxVars ==
    \A i \in DOMAIN totalizers :
        /\ \A v \in Aux(totalizers[i]) : v > 0 /\ v \notin FileVars /\ v <= maxVar
        /\ \A j \in DOMAIN totalizers :
              i # j => Aux(totalizers[i]) \cap Aux(totalizers[j]) = {}

(***************************************************************************)
(* run() always ends by writing its output: no combination of a KNF file   *)
(* and the -s and -i options makes it raise.                               *)
(***************************************************************************)
NoCrash == phase # "crashed"

=============================================================================
