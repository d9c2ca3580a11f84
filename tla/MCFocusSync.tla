----------------------------- MODULE MCFocusSync -----------------------------
EXTENDS FocusSync

CONSTANTS c1, c2
=============================================================================
