----------------------------- MODULE MCPushSync -----------------------------
EXTENDS PushSync, TLC

CONSTANTS c1, c2, r1, i1
MCParentOf == r1 :> c1
MCPlaceOf == [x \in Root |-> 1]  \* all at one place
MCAlike == {<<1, 1>>}            \* a text that is not 1 is sent rewritten
=============================================================================
