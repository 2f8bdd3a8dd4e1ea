--------------------------- MODULE MCFormulaStore ---------------------------
EXTENDS FormulaStore

\* two variables, the writer created with one of them, two calls
MCVars == {1, 2}
MCBounds == 0..2
====
