--------------------------- MODULE MCContextCache ---------------------------
(* Small instances of ContextCache for TLC.                                *)
EXTENDS ContextCache, TLC

CONSTANTS x1, x2, x3, x4, c1, c2

FourExchanges == {x1, x2, x3, x4}
TwoChats == {c1, c2}
ThreeAndOne == [x \in FourExchanges |-> IF x = x4 THEN c2 ELSE c1]

\* The exchanges of one conversation are interchangeable.
Renamings == Permutations({x1, x2, x3})
=============================================================================
