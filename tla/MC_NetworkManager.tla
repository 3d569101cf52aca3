--------------------------- MODULE MC_NetworkManager ---------------------------
EXTENDS NetworkManager

CONSTANTS a, b

Pair == {a, b}
OnePeerEach == [n \in Node |-> 1]
===============================================================================
