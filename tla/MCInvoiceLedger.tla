--------------------------- MODULE MCInvoiceLedger ---------------------------
EXTENDS InvoiceLedger, TLC
RequestSymmetry == Permutations(Request)
=============================================================================
