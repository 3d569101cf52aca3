---------------------------- MODULE MC_RequestQueue ----------------------------
EXTENDS RequestQueue

CONSTANTS t1, t2

Two == {t1, t2}
===============================================================================
