----------------------------- MODULE MCRtspSink ------------------------------
(* Constants of RtspSink for TLC. *)
EXTENDS RtspSink, TLC

CONSTANTS s1, s2, c1, c2, c3, e1, e2

Interchangeable ==
    Permutations({s1, s2}) \cup Permutations({c1, c2, c3}) \cup Permutations({e1, e2})
=============================================================================
