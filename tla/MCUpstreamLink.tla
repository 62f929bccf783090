--------------------------- MODULE MCUpstreamLink ---------------------------
(* Instances of UpstreamLink for TLC. *)
EXTENDS UpstreamLink, TLC

CONSTANTS e1, e2, s1, s2, s3

MCOneEnvelope == {e1}
MCTwoEnvelopes == {e1, e2}
MCTwoStreams == {s1, s2}
MCThreeStreams == {s1, s2, s3}

\* No CHOOSE is applied to either set, and no property tells its members
\* apart.  Never used with a liveness property.
MCSymmetry == Permutations({e1, e2}) \cup Permutations({s1, s2, s3})
=============================================================================
