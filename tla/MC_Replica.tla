------------------------------- MODULE MC_Replica -------------------------------
EXTENDS Replica

At(id, var, index) == [id |-> id, var |-> var, index |-> index]

\* Two elements of one replica and one of another: the visible flags are reliable, the
\* state of the first element, replicated while it is visible, and its name are not.
Vars == {At(1, 1, 0), At(1, 2, 0), At(1, 3, 0), At(1, 1, 1), At(2, 1, 0)}
Priorities == [x \in Item |-> x.var - 1]
Conditions == [x \in Item |-> IF x = At(1, 2, 0) THEN At(1, 1, 0) ELSE x]
===============================================================================
