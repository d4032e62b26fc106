------------------------------- MODULE MCSales -------------------------------
EXTENDS Sales, TLC
CONSTANTS x1, x2, q1

\* Different sets of items have different sums.
PowersOfTwo == [x \in Item |-> IF x = x1 THEN 1 ELSE IF x = x2 THEN 2 ELSE 4]

\* What concerns the items and totals of a quotation, what concerns its proposal, and the
\* items of two quotations.
ThreeMixes ==
  {[ops |-> {"update", "updateStatus", "addItem", "removeItem", "remove"},
    quotations |-> {q1}],
   [ops |-> {"updateStatus", "remove", "createProposal", "send", "accept", "reject"},
    quotations |-> {q1}],
   [ops |-> {"addItem", "removeItem"}, quotations |-> Quotation]}
=============================================================================
