-------------------------- MODULE MCDownstreamLink --------------------------
(* Instances of DownstreamLink for TLC. *)
EXTENDS DownstreamLink, TLC

CONSTANTS c1, c2, s1, s2, s3

MCOneChild == {c1}
MCTwoChildren == {c1, c2}
MCTwoStreams == {s1, s2}
MCThreeStreams == {s1, s2, s3}

\* One child with a node-id; one with and one without.
MCClaimOne == c1 :> "a"
MCClaimMixed == c1 :> "a" @@ c2 :> ""

MCSymmetry == Permutations({s1, s2, s3})
=============================================================================
