---------------------------- MODULE MCDirectAmo -----------------------------
(* Inputs for DirectAmo: sets of pairwise clauses (-i -j) written in       *)
(* increasing order, so cliques of 3, 4 and 5 literals, overlapping        *)
(* cliques and near-cliques all occur.                                     *)
EXTENDS DirectAmo

MCNVars == 5

\* The pairwise clauses (-i -j), i < j, in increasing order.
AllNegPairs ==
    <<<<-1, -2>>, <<-1, -3>>, <<-1, -4>>, <<-1, -5>>, <<-2, -3>>,
      <<-2, -4>>, <<-2, -5>>, <<-3, -4>>, <<-3, -5>>, <<-4, -5>>>>

\* The pairs over variables 1..4 only.
PairsOf4 == SelectSeq(AllNegPairs, LAMBDA c : -c[2] <= 4)

\* Every pair set over four variables (cliques of 3 and 4, overlaps, paths),
\* the five-clique, the five-clique less one edge, and the five-clique with
\* one clause listed twice (a later duplicate overwrites the id in idMap).
WellFormedInputs ==
    {SelectSeq(PairsOf4, LAMBDA c : c \in S) : S \in SUBSET ToSet(PairsOf4)}
    \cup {AllNegPairs,
          SelectSeq(AllNegPairs, LAMBDA c : c # <<-2, -4>>),
          AllNegPairs \o <<<<-1, -2>>>>}

(* Clauses CnfReader accepts because strict parsing is off (careful=False *)
(* in src/tools/exutil.py): a repeated literal and a tautology, alone and *)
(* beside an ordinary pairwise clause.                                     *)
MalformedInputs ==
    {<<<<-1, -1>>>>, <<<<-1, -2>>, <<-1, -1>>>>, <<<<1, -1>>>>,
     <<<<-1, -2>>, <<1, -1>>>>}

MCMaxEncodedTakes == 1
=============================================================================
