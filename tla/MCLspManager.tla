---------------------------- MODULE MCLspManager ----------------------------
EXTENDS LspManager, TLC

CONSTANTS go, f1, f2, r1, r2
MCLangOf == f1 :> go @@ f2 :> go
=============================================================================
