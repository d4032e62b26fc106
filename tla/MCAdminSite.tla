----------------------------- MODULE MCAdminSite ------------------------------
EXTENDS AdminSite

\* The saves are alike.
SiteSymmetry == Permutations(Save)
=============================================================================
