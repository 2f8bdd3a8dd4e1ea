---------------------------- MODULE MCEncodedAmo ----------------------------
(* Inputs for EncodedAmo: small at-most-one gadgets over data variables    *)
(* 1..3 with encoding variables 4..7, alone and combined, and variants     *)
(* that fail a filter or validation.                                       *)
EXTENDS EncodedAmo

\* Sequential counter at-most-one over 1, 2, 3 with auxiliaries 4, 5.
SeqAmo == <<<<-1, 4>>, <<-2, 5>>, <<-4, 5>>, <<-2, -4>>, <<-3, -5>>>>

\* Binary (bitwise) at-most-one over 1, 2, 3 with code bits 6, 7.
BinAmo == <<<<-1, -6>>, <<-1, -7>>, <<-2, 6>>, <<-2, -7>>, <<-3, -6>>, <<-3, 7>>>>

\* x1 /\ x2 /\ x3 behind the auxiliary 4.
AndGadget == <<<<4>>, <<-4, 1>>, <<-4, 2>>, <<-4, 3>>>>

\* count(x1, x2, x3) \in {0, 1, 3}: 4 <=> 5 forces all true, else at most one.
NonIntervalGadget ==
    <<<<-4, 5>>, <<4, -5>>, <<-4, 1>>, <<-4, 2>>, <<-4, 3>>,
      <<5, -1, -2>>, <<5, -1, -3>>, <<5, -2, -3>>>>

\* Every sub-list of a gadget's clauses: partial and degenerate encodings.
SubLists(s) == {SelectSeq(s, LAMBDA c : c \in S) : S \in SUBSET ToSet(s)}

WellFormedInputs ==
    { SeqAmo,
      \* an implied ternary clause over an auxiliary joins the cluster
      SeqAmo \o <<<<-1, -2, 5>>>>,
      \* two encodings of the same constraint sharing data variables, with a
      \* data-only binary clause that the first cluster's expansion deletes
      SeqAmo \o <<<<-1, -2>>>> \o BinAmo,
      \* a clause dropped: not a cardinality function
      SelectSeq(SeqAmo, LAMBDA c : c # <<-2, -4>>),
      \* an auxiliary in a clause with variables of long clauses only: not ok
      SeqAmo \o <<<<-4, 8, 9>>>>,
      \* a data variable positive only in a long clause
      SeqAmo \o <<<<1, 8, 9>>>>,
      \* two data variables only: filtered
      <<<<-1, 4>>, <<-4, -2>>>>,
      AndGadget }
    \cup SubLists(SeqAmo) \cup SubLists(BinAmo)

BrokenRangeInputs == {AndGadget, NonIntervalGadget}
=============================================================================
