------------------------------ MODULE MCShared ------------------------------
(* Instances of SharedStore for TLC.                                       *)
EXTENDS SharedProperties, TLC

CONSTANTS p1, p2, main, other

NoCursors == {NoCursor}
TwoColumns == <<"template", "mode">>
OneOutcome == [i \in Indices |-> {"empty"}]
ProcessSymmetry == Permutations({p1, p2})
=============================================================================
