---------------------------- MODULE MCTravelCases ----------------------------
EXTENDS TravelCases, TLC
CaseSymmetry ==
  Permutations(Case) \cup Permutations(Request) \cup Permutations(Passenger) \cup Permutations(Plan)

\* What changes a case itself, with and without a history; its passengers; its itinerary.
FourMixes ==
  {{"updateStatus", "remove"},
   {"update", "remove", "toggle", "removeItem"},
   {"addPassenger", "updatePassenger", "removePassenger", "remove"},
   {"replacePlan", "remove"}}
=============================================================================
