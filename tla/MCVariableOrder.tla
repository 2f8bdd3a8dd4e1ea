--------------------------- MODULE MCVariableOrder ---------------------------
(***************************************************************************)
(* Reduced CNFs for VariableOrder, numbered as ReducedCnf numbers a        *)
(* cluster: data variables 1..ndata, then the encoding variables.          *)
(***************************************************************************)
EXTENDS VariableOrder

\* The example of kanalyze's header comment, run with -n 3: no encoding
\* variable.
ExactlyOne3 ==
    [ndata |-> 3, nvar |-> 3,
     clauses |-> << <<-1, -2>>, <<-1, -3>>, <<-2, -3>>, <<1, 2, 3>> >>]

\* One bit of a binary AMO over four literals: getCluster makes each bit a
\* cluster of its own, with one encoding variable.
BinaryBit4 ==
    [ndata |-> 4, nvar |-> 5,
     clauses |-> << <<-1, -5>>, <<-2, 5>>, <<-3, -5>>, <<-4, 5>> >>]

\* Sequential-counter AMOs over three and four literals.
SeqAmo3 ==
    [ndata |-> 3, nvar |-> 5,
     clauses |-> << <<-1, 4>>, <<-2, 5>>, <<-4, 5>>, <<-2, -4>>, <<-3, -5>> >>]

SeqAmo4 ==
    [ndata |-> 4, nvar |-> 7,
     clauses |-> << <<-1, 5>>, <<-2, 6>>, <<-5, 6>>, <<-2, -5>>,
                    <<-3, 7>>, <<-6, 7>>, <<-3, -6>>, <<-4, -7>> >>]

SeqAmo5 ==
    [ndata |-> 5, nvar |-> 9,
     clauses |-> << <<-1, 6>>, <<-2, 7>>, <<-6, 7>>, <<-2, -6>>, <<-3, 8>>, <<-7, 8>>,
                    <<-3, -7>>, <<-4, 9>>, <<-8, 9>>, <<-4, -8>>, <<-5, -9>> >>]

\* The totalizer of totalizer_splitting for "at least two of 1..4" (ALK):
\* two layers and the unit on the root's top counter.
TotalizerAlk24 ==
    [ndata |-> 4, nvar |-> 10,
     clauses |-> << <<-10, 6, 7>>, <<-10, 8, 5>>, <<-9, 5, 7>>, <<-8, 3>>, <<-8, 4>>,
                    <<-7, 3, 4>>, <<-6, 1>>, <<-6, 2>>, <<-5, 1, 2>>, <<5, -6>>,
                    <<7, -8>>, <<9, -10>>, <<10>> >>]

\* The totalizer of totalizer_splitting for "at most one of 1, 2, 3" (AMK,
\* counting to two): its units -5 and -7 are on encoding variables.
TotalizerAmo3 ==
    [ndata |-> 3, nvar |-> 7,
     clauses |-> << <<-7>>, <<-5>>, <<4, -5>>, <<4, 1>>, <<4, 2>>, <<5, 1, 2>>,
                    <<6, -7>>, <<6, -4>>, <<6, 3>>, <<7, -4, 3>> >>]

\* A binary AMO over four literals with bits 5 and 6, as a whole file for
\* kanalyze: the two encoding variables never share a clause.
BinaryAmo4 ==
    [ndata |-> 4, nvar |-> 6,
     clauses |-> << <<-1, -5>>, <<-1, -6>>, <<-2, 5>>, <<-2, -6>>,
                    <<-3, -5>>, <<-3, 6>>, <<-4, 5>>, <<-4, 6>> >>]

MCInputs == {ExactlyOne3, BinaryBit4, SeqAmo3, SeqAmo4, SeqAmo5, TotalizerAmo3,
            TotalizerAlk24, BinaryAmo4}

====
