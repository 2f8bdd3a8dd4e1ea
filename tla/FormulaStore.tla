---------------------------- MODULE FormulaStore ----------------------------
(***************************************************************************)
(* The formula store: KnfWriter (src/tools/exutil.py), which buffers the   *)
(* constraints an extractor emits and writes a "p cnf|knf V C" file when   *)
(* it finishes, and the three programs that read such files back:          *)
(* CnfReader.readCnf (exutil.py), knf2opb (src/Tools/knf2opb.py) and       *)
(* permute (src/tools/permute.py).                                         *)
(*                                                                         *)
(* A line of a file is the sequence of its whitespace-separated tokens.    *)
(* A token is an integer or one of the format's words, which are model     *)
(* values distinct from every integer: int() of a word fails.  The text   *)
(* of a comment is the single word TXT.                                    *)
(*                                                                         *)
(* Every writer call is one action.  The ghost variable intended records   *)
(* what the caller asked for, as a set of cardinality constraints          *)
(* [lits, cmp, k]: "at least k" (cmp = "ge") or "at most k" (cmp = "le")  *)
(* of the literals are true.  The properties compare it with what each     *)
(* reader makes of the finished file.                                      *)
(***************************************************************************)
EXTENDS Integers, Sequences, SequencesExt, FiniteSets, Functions

CONSTANTS
    NVar,       \* the variableCount the writer is created with
    Vars,       \* the variables the caller's literals range over
    Bounds,     \* the constants passed to doCard and doAtMostK
    MaxCalls,   \* bound on the number of writer calls before finish
    C, P, CNF, KNF, K, TXT  \* the words "c", "p", "cnf", "knf", "k", text

Words == {C, P, CNF, KNF, K, TXT}
IsInt(t) == t \notin Words
\* the words whose first character is 'c' (line[0] == 'c', remove_comment)
StartsWithC == {C, CNF}

AbsLit(l) == IF l < 0 THEN -l ELSE l
Lits == Vars \cup {-v : v \in Vars}
\* the literal lists a caller passes: distinct variables, at most two
LitSeqs == {s \in BoundedSeq(Lits, 2) :
              \A i, j \in DOMAIN s : i # j => AbsLit(s[i]) # AbsLit(s[j])}
Negated(vars) == [i \in DOMAIN vars |-> -vars[i]]
LitsOf(s) == {s[i] : i \in DOMAIN s}
Meanings == [lits : LitSeqs, cmp : {"ge", "le"}, k : Int]

CommentLine == <<C, TXT>>
HeaderLine(fmt, nv, nc) == <<P, fmt, nv, nc>>

VARIABLES
    variableCount, constraintCount, headerComments, outputList, cnfOnly,
    outfile,    \* "open" until finish closes it and sets it to None
    file,       \* the lines finish wrote
    statOnly,   \* the statOnly argument finish was given
    verbose,    \* verbLevel >= 2
    intended,   \* ghost: the constraints the caller asked for
    calls       \* number of writer calls so far

vars == <<variableCount, constraintCount, headerComments, outputList,
          cnfOnly, outfile, file, statOnly, verbose, intended, calls>>

(* KnfWriter.__init__ (and Writer.__init__ opening the file); verbLevel is *)
(* fixed by the caller before the writer is used.                          *)
Init ==
    /\ variableCount = NVar
    /\ constraintCount = 0
    /\ headerComments = 0
    /\ outputList = <<>>
    /\ cnfOnly = TRUE
    /\ outfile = "open"
    /\ file = <<>>
    /\ statOnly = FALSE
    /\ verbose \in BOOLEAN
    /\ intended = {}
    /\ calls = 0

Call == outfile = "open" /\ calls < MaxCalls /\ calls' = calls + 1

\* doComment: the comment is kept only at verbLevel >= 2
Commented(list) == IF verbose THEN Append(list, CommentLine) ELSE list

\* mutant: the variable count taken over literals, not their variables
WidenedSigned(count, lits) == Max({count} \cup LitsOf(lits))

\* the loop over lits in doClause/doCard: the count covers every variable
Widened(count, lits) == Max({count} \cup {AbsLit(l) : l \in LitsOf(lits)})

\* the line doCard appends: "k const" only when const # 1
CardLine(const, lits) ==
    (IF const # 1 THEN <<K, const>> ELSE <<>>) \o lits \o <<0>>

\* mutant: the comment line counted as a constraint
WriteCardsCountComment(cards, meaning, comment) ==
    /\ Call
    /\ variableCount' =
          Widened(variableCount, FlattenSeq([i \in DOMAIN cards |-> cards[i][2]]))
    /\ cnfOnly' = (cnfOnly /\ \A i \in DOMAIN cards : cards[i][1] = 1)
    /\ outputList' = (IF comment THEN Commented(outputList) ELSE outputList)
                       \o [i \in DOMAIN cards |-> CardLine(cards[i][1], cards[i][2])]
    /\ constraintCount' = constraintCount + Len(cards) + (IF comment THEN 1 ELSE 0)
    /\ intended' = intended \cup meaning
    /\ UNCHANGED <<headerComments, outfile, file, statOnly, verbose>>

\* mutant: cnfOnly cleared only for a constant above 1
WriteCardsCnfUpToOne(cards, meaning, comment) ==
    /\ Call
    /\ variableCount' =
          Widened(variableCount, FlattenSeq([i \in DOMAIN cards |-> cards[i][2]]))
    /\ cnfOnly' = (cnfOnly /\ \A i \in DOMAIN cards : cards[i][1] <= 1)
    /\ outputList' = (IF comment THEN Commented(outputList) ELSE outputList)
                       \o [i \in DOMAIN cards |-> CardLine(cards[i][1], cards[i][2])]
    /\ constraintCount' = constraintCount + Len(cards)
    /\ intended' = intended \cup meaning
    /\ UNCHANGED <<headerComments, outfile, file, statOnly, verbose>>

(* The state change of a run of doCard calls, cards[i] = <<const, lits>>, *)
(* preceded by doComment when comment holds.                              *)
WriteCards(cards, meaning, comment) ==
    /\ Call
    /\ variableCount' =
          Widened(variableCount, FlattenSeq([i \in DOMAIN cards |-> cards[i][2]]))
    /\ cnfOnly' = (cnfOnly /\ \A i \in DOMAIN cards : cards[i][1] = 1)
    /\ outputList' = (IF comment THEN Commented(outputList) ELSE outputList)
                       \o [i \in DOMAIN cards |-> CardLine(cards[i][1], cards[i][2])]
    /\ constraintCount' = constraintCount + Len(cards)
    /\ intended' = intended \cup meaning
    /\ UNCHANGED <<headerComments, outfile, file, statOnly, verbose>>

AtLeast(lits, k) == [lits |-> lits, cmp |-> "ge", k |-> k]
AtMost(lits, k) == [lits |-> lits, cmp |-> "le", k |-> k]

DoComment ==
    /\ Call
    /\ outputList' = Commented(outputList)
    /\ UNCHANGED <<variableCount, constraintCount, headerComments, cnfOnly,
                   outfile, file, statOnly, verbose, intended>>

DoHeaderComment ==
    /\ Call
    /\ headerComments' = headerComments + 1
    /\ UNCHANGED <<variableCount, constraintCount, outputList, cnfOnly,
                   outfile, file, statOnly, verbose, intended>>

\* Writer.newVariables(n): n calls of newVariable, each a fresh variable
NewVariables(n) ==
    /\ Call
    /\ variableCount' = variableCount + n
    /\ UNCHANGED <<constraintCount, headerComments, outputList, cnfOnly,
                   outfile, file, statOnly, verbose, intended>>

\* doClause writes the plain line of doCard(1, lits) and leaves cnfOnly
DoClause(lits) == WriteCards(<< <<1, lits>> >>, {AtLeast(lits, 1)}, FALSE)

DoCard(const, lits) ==
    WriteCards(<< <<const, lits>> >>, {AtLeast(lits, const)}, FALSE)

DoAlo(vs, comment) == WriteCards(<< <<1, vs>> >>, {AtLeast(vs, 1)}, comment)

DoAmo(vs, comment) ==
    WriteCards(<< <<Len(vs) - 1, Negated(vs)>> >>, {AtMost(vs, 1)}, comment)

DoExactlyOne(vs, comment) ==
    WriteCards(<< <<1, vs>>, <<Len(vs) - 1, Negated(vs)>> >>,
               {AtLeast(vs, 1), AtMost(vs, 1)}, comment)

DoAtMostK(const, vs, comment) ==
    WriteCards(<< <<Len(vs) - const, Negated(vs)>> >>, {AtMost(vs, const)}, comment)

(* finish: header comments, the header, then the body unless statOnly;    *)
(* a second finish returns at once (outfile is None).                     *)
Finish(so) ==
    /\ outfile = "open"
    /\ file' = [i \in 1..headerComments |-> CommentLine]
               \o <<HeaderLine(IF cnfOnly THEN CNF ELSE KNF,
                               variableCount, constraintCount)>>
               \o (IF so THEN <<>> ELSE outputList)
    /\ outfile' = "closed"
    /\ statOnly' = so
    /\ UNCHANGED <<variableCount, constraintCount, headerComments, outputList,
                   cnfOnly, verbose, intended, calls>>

Next ==
    \/ DoComment
    \/ DoHeaderComment
    \/ \E n \in 1..2 : NewVariables(n)
    \/ \E l \in LitSeqs : DoClause(l)
    \/ \E k \in Bounds, l \in LitSeqs : DoCard(k, l)
    \/ \E l \in LitSeqs, cm \in BOOLEAN : DoAlo(l, cm)
    \/ \E l \in LitSeqs, cm \in BOOLEAN : DoAmo(l, cm)
    \/ \E l \in LitSeqs, cm \in BOOLEAN : DoExactlyOne(l, cm)
    \/ \E k \in Bounds, l \in LitSeqs, cm \in BOOLEAN : DoAtMostK(k, l, cm)
    \/ \E so \in BOOLEAN : Finish(so)

Spec == Init /\ [][Next]_vars

-----------------------------------------------------------------------------
(***************************************************************************)
(* CnfReader.readCnf with careful = False (its value in exutil.py): a      *)
(* fold over the lines.  Blank and 'c' lines are skipped, a 'p' line must  *)
(* be "p cnf V C", any other line must follow a header with C # 0, must be *)
(* all integers, and loses its last token.  err is a CnfException.         *)
(***************************************************************************)
Raise(st) == [st EXCEPT !.err = TRUE]

ReadLine(st, t) ==
    IF st.err \/ t = <<>> \/ t[1] \in StartsWithC THEN st
    ELSE IF t[1] = P
         THEN IF Len(t) # 4 \/ t[2] # CNF \/ ~IsInt(t[3]) \/ ~IsInt(t[4])
              THEN Raise(st)
              ELSE [st EXCEPT !.nvar = t[3], !.nclause = t[4]]
    ELSE IF st.nclause = 0 \/ \E i \in DOMAIN t : ~IsInt(t[i]) THEN Raise(st)
    ELSE [st EXCEPT !.clauses = Append(@, Front(t)), !.clauseCount = @ + 1]

\* CnfReader.__init__ sets nvar = 0 and clauses = [] before readCnf
ReadCnf(f) ==
    LET st == FoldLeft(ReadLine, [err |-> FALSE, nvar |-> 0, nclause |-> 0,
                                  clauseCount |-> 0, clauses |-> <<>>], f)
    IN  IF st.clauseCount # st.nclause THEN Raise(st) ELSE st

(***************************************************************************)
(* knf2opb: print_constraint turns a bound and literals into the OPB       *)
(* constraint  sum of (+1 x_v | -1 x_v) >= bound - (number of negatives);  *)
(* opb2knf skips empty and "c" lines, turns "p" into the OPB header, reads *)
(* "k b lits 0" with bound b and other lines with bound 1.                 *)
(***************************************************************************)
\* mutant: the bound not shifted by the negative literals
OpbConstraintNoShift(bound, lits) ==
    [kind  |-> "con",
     terms |-> [i \in DOMAIN lits |-> <<IF lits[i] < 0 THEN -1 ELSE 1, AbsLit(lits[i])>>],
     rhs   |-> bound]

OpbConstraint(bound, lits) ==
    [kind  |-> "con",
     terms |-> [i \in DOMAIN lits |-> <<IF lits[i] < 0 THEN -1 ELSE 1, AbsLit(lits[i])>>],
     rhs   |-> bound - Cardinality({i \in DOMAIN lits : lits[i] < 0})]

OpbLine(out, t) ==
    CASE t = <<>> \/ t[1] = C -> out
      [] t[1] = P -> Append(out, [kind |-> "hdr", nvars |-> t[3], ncons |-> t[4]])
      [] t[1] = K -> Append(out, OpbConstraint(t[2], SubSeq(t, 3, Len(t) - 1)))
      [] OTHER    -> Append(out, OpbConstraint(1, Front(t)))

Knf2Opb(f) == FoldLeft(OpbLine, <<>>, f)

(***************************************************************************)
(* permute: skip the lines up to the first "p" line, rewrite the header,  *)
(* then cut every later line at its first 'c' (remove_comment), drop "p"  *)
(* lines and empty results, and write the rest in a random order.         *)
(***************************************************************************)
CutAtC(t) ==
    LET cs == {i \in DOMAIN t : t[i] \in StartsWithC}
    IN  IF cs = {} THEN t ELSE SubSeq(t, 1, Min(cs) - 1)

Permuted(f) ==
    LET h    == Min({i \in DOMAIN f : f[i][1] = P})
        hdr  == HeaderLine(IF f[h][2] = KNF THEN KNF ELSE CNF, f[h][3], f[h][4])
        rest == SelectSeq([i \in 1..(Len(f) - h) |-> f[h + i]], LAMBDA t : t[1] # P)
        body == SelectSeq([i \in DOMAIN rest |-> CutAtC(rest[i])], LAMBDA t : t # <<>>)
    IN  {<<hdr>> \o [i \in DOMAIN body |-> body[pi[i]]] :
            pi \in Bijection(DOMAIN body, DOMAIN body)}

-----------------------------------------------------------------------------
Assignments == [Vars -> {0, 1}]
LitTrue(l, a) == IF l < 0 THEN a[-l] = 0 ELSE a[l] = 1
NTrue(lits, a) == Cardinality({i \in DOMAIN lits : LitTrue(lits[i], a)})
Holds(m, a) == IF m.cmp = "ge" THEN NTrue(m.lits, a) >= m.k
                               ELSE NTrue(m.lits, a) <= m.k
Meant(a) == \A m \in intended : Holds(m, a)

OpbValue(terms, a) == FoldLeft(LAMBDA acc, tm : acc + tm[1] * a[tm[2]], 0, terms)
OpbSat(items, a) ==
    \A i \in DOMAIN items :
        items[i].kind = "con" => OpbValue(items[i].terms, a) >= items[i].rhs

ClauseSat(cls, a) == \A i \in DOMAIN cls : NTrue(cls[i], a) >= 1

\* a finished file with its body: what the readers are given
Written == outfile = "closed" /\ ~statOnly
\* the files a reader may be given: the written one and every permutation
Derived == {file} \cup Permuted(file)

TypeOK ==
    /\ variableCount \in Nat
    /\ constraintCount \in 0..(2 * MaxCalls)
    /\ headerComments \in 0..MaxCalls
    /\ cnfOnly \in BOOLEAN
    /\ outfile \in {"open", "closed"}
    /\ intended \subseteq Meanings
    /\ calls \in 0..MaxCalls

(* Every constraint the caller asked of KnfWriter (doClause, doCard,      *)
(* doAlo, doAmo, doExactlyOne, doAtMostK) reaches the OPB solver intact:  *)
(* knf2opb of the written file, and of every file permute makes of it,    *)
(* is satisfied by exactly the assignments that satisfy the requests.     *)
ConversionsPreserveMeaning ==
    Written =>
        \A g \in Derived, a \in Assignments : OpbSat(Knf2Opb(g), a) <=> Meant(a)

(* The header finish writes (and the ones permute and knf2opb copy from   *)
(* it) is true of the body: one header, its count equals the number of    *)
(* constraint lines, no constraint names a variable above its variable    *)
(* count, and it says "cnf" exactly when no line is a "k" line.           *)
HeadersMatchBodies ==
    Written =>
        \A g \in Derived :
            LET items == Knf2Opb(g)
                hs == {i \in DOMAIN items : items[i].kind = "hdr"}
                cs == {i \in DOMAIN items : items[i].kind = "con"}
                h  == CHOOSE i \in DOMAIN g : g[i][1] = P
            IN  /\ Cardinality(hs) = 1
                /\ \A j \in hs :
                     /\ items[j].ncons = Cardinality(cs)
                     /\ \A i \in cs : \A x \in DOMAIN items[i].terms :
                          items[i].terms[x][2] <= items[j].nvars
                /\ (g[h][2] = CNF) <=> ~\E i \in DOMAIN g : g[i][1] = K

(* CnfReader reads a written file back exactly when KnfWriter marked it   *)
(* cnfOnly, and then yields the writer's variable count and clauses with  *)
(* the meaning of the requests; a KNF file raises a CnfException.         *)
ReadBack ==
    Written =>
        LET r == ReadCnf(file) IN
            /\ ~r.err <=> cnfOnly
            /\ ~r.err => /\ r.nvar = variableCount
                         /\ \A a \in Assignments : ClauseSat(r.clauses, a) <=> Meant(a)
====
