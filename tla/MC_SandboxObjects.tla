--------------------------- MODULE MC_SandboxObjects ---------------------------
EXTENDS SandboxObjects

CONSTANTS m, a, b

Objects == {m, a, b}
Modules == {m}
\* The objects that are no modules are the same to every action.
Symmetry == Permutations({a, b})
===============================================================================
