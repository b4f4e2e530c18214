----------------------------- MODULE MCCanAddr -----------------------------
(* Two packs whose first check sums are equal.                             *)
EXTENDS CanAddr

TwoPacks == {"a", "b"}
SameFirst == [a |-> <<2, 3>>, b |-> <<2, 1>>]
ASSUME Negotiates == Negotiable
=============================================================================
