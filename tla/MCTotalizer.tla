----------------------------- MODULE MCTotalizer -----------------------------
(***************************************************************************)
(* KNF files for Totalizer: every general cardinality line on at most five *)
(* literals (bounds 1 and 3 of five, 1 of three and four), mixed signs,    *)
(* two general lines in one file, and lines kept for knf2cnf.              *)
(***************************************************************************)
EXTENDS Totalizer

Hdr(n) == [kind |-> "p", nvar |-> n]
K(b, s) == [kind |-> "k", bound |-> b, lits |-> s]
Cl(s) == [kind |-> "c", lits |-> s]

MCInputs ==
    { <<Hdr(3), K(1, <<1, 2, 3>>)>>,
      <<Hdr(4), K(1, <<1, -2, 3, 4>>), Cl(<<1, -4>>)>>,
      <<Hdr(5), K(1, <<1, 2, 3, 4, 5>>)>>,
      <<Hdr(5), K(3, <<1, 2, 3, 4, 5>>)>>,
      <<Hdr(5), K(1, <<1, 2, 3, 4, 5>>), K(3, <<1, -2, 3, -4, 5>>)>>,
      <<Hdr(5), K(3, <<-1, 2, -3, 4, -5>>), K(2, <<1, 2, 3>>), K(3, <<1, 4, 5>>)>>,
      <<Hdr(5), K(1, <<1, 2, 3, 4>>), K(3, <<1, 2, 3, 4, 5>>), K(4, <<1, 2, 3, 4, 5>>)>>,
      <<Hdr(6), K(1, <<1, 2, 3, 4, 5, 6>>), K(1, <<-1, -6, 2>>)>>,
      <<Hdr(5), K(4, <<1, 2, 3, 4, 5>>), Cl(<<1, 2>>)>> }

\* Files without a general cardinality line, for which -s and -i fail.
KeptOnlyInputs == {<<Hdr(5), K(4, <<1, 2, 3, 4, 5>>), Cl(<<1, 2>>)>>}

MCCubeCounts == {0, 1, 2, 3}

==============================================================================
