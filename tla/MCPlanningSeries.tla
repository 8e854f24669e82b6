-------------------------- MODULE MCPlanningSeries --------------------------
EXTENDS PlanningSeries, TLC
MCRules == {[step |-> 1, count |-> 2], [step |-> 1, count |-> 3]}
MCTargetSets == {Members}
Symmetry == Permutations(Members)
=============================================================================
