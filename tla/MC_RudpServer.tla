----------------------------- MODULE MC_RudpServer -----------------------------
EXTENDS RudpServer, TLC

CONSTANTS a, b, c

Pair == {a, b}
Three == {a, b, c}
\* The two nodes that connect are alike.
Alike == Permutations({a, c})
OnePeerEach == [n \in Node |-> 1]
===============================================================================
