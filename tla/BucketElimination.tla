-------------------------- MODULE BucketElimination --------------------------
(***************************************************************************)
(* Extractor.generateBdd of src/tools/kanalyze.py, run on the order        *)
(* buildOrder returns (VariableOrder): each clause becomes a diagram filed *)
(* in the bucket of its first encoding variable in that order; the buckets *)
(* are processed in order, conjoining pairs and quantifying the bucket's   *)
(* variable, until bucket 0 holds the diagram over the data variables.     *)
(*                                                                         *)
(* bdd.py is not in the repository.  A diagram is modelled by the function *)
(* it denotes: the set of its satisfying assignments, an assignment being  *)
(* a number whose bit v-1 is the value of variable v.  The manager's node  *)
(* limit and checkStatus's size limit may abort any operation.             *)
(***************************************************************************)
EXTENDS VariableOrder

\* The most variables of any input: assignments are below 2^VarBound.
VarBound == CHOOSE m \in {c.nvar : c \in Inputs} : \A c \in Inputs : c.nvar <= m

BitTable == [v \in 1..VarBound |-> [a \in 0..(2^VarBound - 1) |-> (a \div 2^(v - 1)) % 2]]

FlipTable == [v \in 1..VarBound |->
                [a \in 0..(2^VarBound - 1) |->
                   IF BitTable[v][a] = 1 THEN a - 2^(v - 1) ELSE a + 2^(v - 1)]]

\* The value of variable v in assignment a, and a with v negated.
Bit(a, v) == BitTable[v][a]

Flip(a, v) == FlipTable[v][a]

Assignments(c) == 0..(2^c.nvar - 1)

LitTrue(l, a) == IF l > 0 THEN Bit(a, l) = 1 ELSE Bit(a, -l) = 0

\* mgr.buildClause: the disjunction of the clause's literals.
ClauseNode(c, cl) == {a \in Assignments(c) : \E i \in DOMAIN cl : LitTrue(cl[i], a)}

\* mgr.getSupportIds: the variables the function depends on.
Support(c, n) == {v \in 1..c.nvar : \E a \in n : Flip(a, v) \notin n}

QuantifiedAtLevel(n, v) == n \cup {Flip(a, outList[v]) : a \in n}

\* mgr.equant(n, v).
Quantified(n, v) == n \cup {Flip(a, v) : a \in n}

\* Permuter.reverse: the level buildOrder gave the variable.
Level(v) == Pos(outList, v)

\* getEncodingId: the encoding variable of the support that comes first in
\* the order (rpermute sorts by level), or 0 when there is none.
EncodingIdHighest(n) ==
    LET es == Support(cnf, n) \ DataVariables(cnf) IN
        IF es = {} THEN 0 ELSE CHOOSE e \in es : \A f \in es : Level(f) <= Level(e)

EncodingId(n) ==
    LET es == Support(cnf, n) \ DataVariables(cnf) IN
        IF es = {} THEN 0 ELSE CHOOSE e \in es : \A f \in es : Level(e) <= Level(f)

EncodingIdsAllVars == SortSeq(SetToSeq(1..cnf.nvar), LAMBDA x, y : Level(x) < Level(y))

\* self.encodingIds: the encoding variables sorted by level.
EncodingIds == SortSeq(SetToSeq(EncodingVariables(cnf)), LAMBDA x, y : Level(x) < Level(y))

\* Append the diagram n to the bucket its getEncodingId names.
FileNode(bs, n) == [bs EXCEPT ![EncodingId(n)] = Append(@, n)]

-----------------------------------------------------------------------------
VARIABLES
    bphase,    \* "idle" (ordering), "building", "built" or "aborted"
    buckets,   \* self.buckets: bucket id -> list of diagrams
    todo,      \* bucket ids the elimination loop has still to process
    filed,     \* clauses turned into diagrams and filed so far
    root       \* the diagram generateBdd returns

bvars == <<bphase, buckets, todo, filed, root>>

BInit ==
    /\ bphase = "idle"
    /\ buckets = [e \in {0} \cup EncodingVariables(cnf) |-> <<>>]
    /\ todo = <<>>
    /\ filed = 0
    /\ root = {}

\* Extractor.__init__ after buildOrder: the manager and litMap in level
\* order, then generateBdd sets up encodingIds and empty buckets.
StartGenerate ==
    /\ phase = "done" /\ bphase = "idle"
    /\ bphase' = "building"
    /\ todo' = EncodingIds \o <<0>>
    /\ UNCHANGED <<buckets, filed, root>>

\* One clause of the filing loop.
FileClause ==
    /\ bphase = "building" /\ filed < Len(cnf.clauses)
    /\ buckets' = FileNode(buckets, ClauseNode(cnf, cnf.clauses[filed + 1]))
    /\ filed' = filed + 1
    /\ UNCHANGED <<bphase, todo, root>>

ConjoinKeepSecond ==
    /\ bphase = "building" /\ filed = Len(cnf.clauses) /\ todo # <<>>
    /\ Len(buckets[Head(todo)]) > 1
    /\ LET b == buckets[Head(todo)]
           rest == [buckets EXCEPT ![Head(todo)] = SubSeq(b, 2, Len(b))] IN
         buckets' = FileNode(rest, b[1] \cap b[2])
    /\ UNCHANGED <<bphase, todo, filed, root>>

\* The while loop: conjoin the first two diagrams of the bucket and file
\* the product, possibly back into the same bucket.
Conjoin ==
    /\ bphase = "building" /\ filed = Len(cnf.clauses) /\ todo # <<>>
    /\ Len(buckets[Head(todo)]) > 1
    /\ LET b == buckets[Head(todo)]
           rest == [buckets EXCEPT ![Head(todo)] = SubSeq(b, 3, Len(b))] IN
         buckets' = FileNode(rest, b[1] \cap b[2])
    /\ UNCHANGED <<bphase, todo, filed, root>>

\* A single diagram left in an encoding bucket: quantify the bucket's
\* variable out, file the result, and go on to the next bucket.
EliminateVariable ==
    /\ bphase = "building" /\ filed = Len(cnf.clauses) /\ todo # <<>>
    /\ Head(todo) > 0 /\ Len(buckets[Head(todo)]) = 1
    /\ buckets' = FileNode([buckets EXCEPT ![Head(todo)] = <<>>],
                           Quantified(buckets[Head(todo)][1], Head(todo)))
    /\ todo' = Tail(todo)
    /\ UNCHANGED <<bphase, filed, root>>

\* An empty bucket, or bucket 0 reduced to one diagram: next bucket.
NextBucket ==
    /\ bphase = "building" /\ filed = Len(cnf.clauses) /\ todo # <<>>
    /\ Len(buckets[Head(todo)]) <= 1
    /\ Head(todo) = 0 \/ buckets[Head(todo)] = <<>>
    /\ todo' = Tail(todo)
    /\ UNCHANGED <<bphase, buckets, filed, root>>

\* generateBdd returns buckets[0][0].
Finish ==
    /\ bphase = "building" /\ filed = Len(cnf.clauses) /\ todo = <<>>
    /\ root' = Head(buckets[0])
    /\ bphase' = "built"
    /\ UNCHANGED <<buckets, todo, filed>>

\* bdd.BddAbort from buildClause, applyAnd or equant (the node limit), or
\* checkStatus over maxBddSize: generateBdd returns None, a resource failure.
ResourceAbort ==
    /\ bphase = "building"
    /\ \/ filed < Len(cnf.clauses)
       \/ /\ todo # <<>>
          /\ \/ Len(buckets[Head(todo)]) > 1
             \/ Head(todo) > 0 /\ Len(buckets[Head(todo)]) = 1
    /\ bphase' = "aborted"
    /\ UNCHANGED <<buckets, todo, filed, root>>

BNext ==
    \/ StartGenerate \/ FileClause \/ Conjoin \/ EliminateVariable \/ NextBucket
    \/ Finish \/ ResourceAbort

allVars == <<vars, bvars>>

\* Extractor.__init__: buildOrder, then generateBdd.
ExtractorNext == (Next /\ UNCHANGED bvars) \/ (BNext /\ UNCHANGED vars)

\* One sequential call: buildOrder keeps running while it can.  The bucket
\* loop needs no fairness for what is checked of it: its termination is
\* the variant EliminationProgress, a property of every step.
ExtractorInit == Init /\ BInit

ExtractorSpec ==
    ExtractorInit /\ [][ExtractorNext]_allVars /\ WF_allVars(Next /\ UNCHANGED bvars)

NodeCount == MapThenSumSet(LAMBDA e : Len(buckets[e]), DOMAIN buckets)

\* What generateBdd has still to do: clauses to file, buckets to process,
\* diagrams in the buckets.
Variant == <<Len(cnf.clauses) - filed, Len(todo), NodeCount>>

LexLess(x, y) == \E i \in DOMAIN x : x[i] < y[i] /\ \A j \in 1..(i - 1) : x[j] = y[j]

-----------------------------------------------------------------------------
(***************************************************************************)
(* Properties.                                                             *)
(***************************************************************************)
BTypeOK ==
    /\ bphase \in {"idle", "building", "built", "aborted"}
    /\ buckets \in [{0} \cup EncodingVariables(cnf) -> Seq(SUBSET Assignments(cnf))]
    /\ todo \in Seq({0} \cup EncodingVariables(cnf))
    /\ filed \in 0..Len(cnf.clauses)
    /\ root \subseteq Assignments(cnf)

\* The diagrams still to be combined: the filed ones and the clauses not
\* yet filed.
PendingNodes ==
    UNION {{buckets[e][i] : i \in DOMAIN buckets[e]} : e \in DOMAIN buckets}
    \cup {ClauseNode(cnf, cnf.clauses[k]) : k \in (filed + 1)..Len(cnf.clauses)}

Conj(c, S) == {a \in Assignments(c) : \A n \in S : a \in n}

\* The assignments whose data part extends to a member of n.
Projection(c, n) ==
    LET dataParts == {b % 2^c.ndata : b \in n} IN
        {a \in Assignments(c) : a % 2^c.ndata \in dataParts}

\* The CNF with its encoding variables existentially quantified.
Target(c) == Projection(c, Conj(c, {ClauseNode(c, c.clauses[k]) : k \in DOMAIN c.clauses}))

(***************************************************************************)
(* Bucket elimination computes the CNF's projection onto the data          *)
(* variables: throughout generateBdd the pending diagrams, with every      *)
(* encoding variable quantified, mean the projection, and the returned     *)
(* root is exactly it, whatever order buildOrder chose.  This holds only   *)
(* if each equant removes a variable no other pending diagram mentions.    *)
(***************************************************************************)
EliminationSound ==
    /\ bphase = "building" => Projection(cnf, Conj(cnf, PendingNodes)) = Target(cnf)
    /\ bphase = "built" => root = Target(cnf)

(***************************************************************************)
(* No diagram is stranded: every diagram in an encoding bucket depends on  *)
(* that bucket's variable and on no encoding variable placed before it,    *)
(* diagrams in bucket 0 depend on data variables only, and every bucket    *)
(* holding a diagram is one the elimination loop has yet to reach.         *)
(***************************************************************************)
BucketDiscipline ==
    bphase = "building" =>
        \A e \in DOMAIN buckets : \A i \in DOMAIN buckets[e] :
            LET es == Support(cnf, buckets[e][i]) \ DataVariables(cnf) IN
                /\ e = 0 => es = {}
                /\ e # 0 => e \in es /\ \A f \in es : Level(e) <= Level(f)
                /\ filed = Len(cnf.clauses) /\ e # 0 => \E j \in DOMAIN todo : todo[j] = e

(***************************************************************************)
(* generateBdd's loops terminate: every step that keeps it building        *)
(* strictly decreases the variant (clauses to file, buckets to process,    *)
(* diagrams held), so refiling a product into the bucket it came from      *)
(* never lets the while loop run forever.                                  *)
(***************************************************************************)
EliminationProgress ==
    [][bphase = "building" /\ bphase' = "building" => LexLess(Variant', Variant)]_allVars

====
