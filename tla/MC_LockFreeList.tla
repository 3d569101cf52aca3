---------------------------- MODULE MC_LockFreeList ----------------------------
EXTENDS LockFreeList

CONSTANTS n1, n2, n3, t1, t2

Two == {t1, t2}
ThreeNodes == {n1, n2, n3}
===============================================================================
