--------------------------- MODULE VariableOrderSpec ---------------------------
(***************************************************************************)
(* What ClauseGraph.buildOrder promises, stated over the clauses alone:    *)
(* it either returns an order that is a bijection over 1..nvar and puts    *)
(* every data variable after every encoding variable it shares a clause    *)
(* with, or, when no two encoding variables share a clause and none stands *)
(* in a unit clause, findCorner raises.  Either way it ends.               *)
(***************************************************************************)
EXTENDS Integers, Sequences, FiniteSets

CONSTANTS Inputs

VARIABLES cnf, status, order

AbsVar(l) == IF l < 0 THEN -l ELSE l
ClauseVars(cl) == {AbsVar(cl[i]) : i \in DOMAIN cl}
EncVars(c) == (c.ndata + 1)..c.nvar
ClauseSet(c) == {c.clauses[k] : k \in DOMAIN c.clauses}

\* Encoding variables that share a clause with the data variable d.
EncNeighbours(c, d) ==
    UNION {ClauseVars(cl) \cap EncVars(c) : cl \in {cl \in ClauseSet(c) : d \in ClauseVars(cl)}}

\* No corner exists: several encoding variables, none in a unit clause and
\* no clause joining two of them.
NoCorner(c) ==
    /\ Cardinality(EncVars(c)) > 1
    /\ \A cl \in ClauseSet(c) :
         /\ Cardinality(ClauseVars(cl) \cap EncVars(c)) <= 1
         /\ Len(cl) = 1 => ClauseVars(cl) \cap EncVars(c) = {}

At(o, x) == CHOOSE i \in DOMAIN o : o[i] = x

\* A bijection over 1..nvar with each data variable after its encoding
\* neighbours.
ValidOrder(c, o) ==
    /\ Len(o) = c.nvar
    /\ {o[i] : i \in DOMAIN o} = 1..c.nvar
    /\ \A d \in 1..c.ndata : \A e \in EncNeighbours(c, d) : At(o, e) < At(o, d)

Init ==
    /\ cnf \in Inputs
    /\ status = "busy"
    /\ order = <<>>

Produce ==
    /\ status = "busy"
    /\ ~NoCorner(cnf)
    /\ status' = "done"
    /\ ValidOrder(cnf, order')
    /\ UNCHANGED cnf

Fail ==
    /\ status = "busy"
    /\ NoCorner(cnf)
    /\ status' = "failed"
    /\ UNCHANGED <<cnf, order>>

Next == Produce \/ Fail

Spec == Init /\ [][Next]_<<cnf, status, order>>

\* buildOrder returns or raises.
Ends == <>(status # "busy")

====
