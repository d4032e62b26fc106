------------------------- MODULE MCDocumentNumbering -------------------------
EXTENDS DocumentNumbering, TLC
CallSymmetry == Permutations(Request) \cup Permutations(Tenant)
=============================================================================
