----------------------------- MODULE MCRefresh -----------------------------
(***************************************************************************)
(* An instance of Refresh for TLC: a quota that is just enough for the     *)
(* dataset, and one that is too small for it, so that due addresses are    *)
(* left out.                                                               *)
(***************************************************************************)
EXTENDS Refresh

CONSTANTS a1, a2, a3

ThreeAddresses == {a1, a2, a3}
ThreeInOrder == [address \in ThreeAddresses |->
    CASE address = a1 -> 1 [] address = a2 -> 2 [] address = a3 -> 3]

\* With two ticks from run to run: one lookup in each of three runs and three in
\* one are exactly what is needed, two in one are too few.
EnoughAndSmall ==
    {[maxLookups |-> 1, refreshAfter |-> 6],
     [maxLookups |-> 3, refreshAfter |-> 2],
     [maxLookups |-> 2, refreshAfter |-> 2]}
=============================================================================
