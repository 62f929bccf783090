-------------------------- MODULE MCChildApproval ---------------------------
(* Instances of ChildApproval for TLC. *)
EXTENDS ChildApproval, TLC

CONSTANTS c1, c2, c3

MCOneChild == {c1}
MCThreeChildren == {c1, c2, c3}

\* c1 is a child as it should be, c2 claims c1's node-id without having the
\* certificate, c3 sends no node-id.
MCClaim == [c \in MCThreeChildren |-> IF c = c3 THEN Anonymous ELSE "a"]
MCCommonName == [c \in MCThreeChildren |-> IF c = c1 THEN "a" ELSE "b"]
MCClaimOne == [c \in MCOneChild |-> MCClaim[c]]
MCCommonNameOne == [c \in MCOneChild |-> MCCommonName[c]]
=============================================================================
