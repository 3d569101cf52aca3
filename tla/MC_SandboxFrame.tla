---------------------------- MODULE MC_SandboxFrame ----------------------------
EXTENDS SandboxFrame

CONSTANTS s1, s2, f1, i1

Processors == {s1, s2, f1, i1}
WithThread == {s1, s2, f1}
InFrames == {s1, s2}
InOrder == <<s1, i1, f1, s2>>
Slaves == {s2}
===============================================================================
