----------------------------- MODULE MCCustomers -----------------------------
EXTENDS Customers, TLC
CustomerSymmetry ==
  Permutations(Request) \cup Permutations(Client) \cup Permutations(Email)
=============================================================================
