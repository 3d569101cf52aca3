----------------------------- MODULE MC_TaskManager -----------------------------
EXTENDS TaskManager, TLC

CONSTANTS p1, w1, w2, k1, k2

OnePoster == {p1}
TwoWorkers == {w1, w2}
Workers == 0 :> w1 @@ 1 :> w2
TwoTasks == {k1, k2}
Counts == k1 :> 2 @@ k2 :> 0
===============================================================================
