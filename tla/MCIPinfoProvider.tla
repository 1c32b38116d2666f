--------------------------- MODULE MCIPinfoProvider ---------------------------
(* Instances of IPinfoProvider for TLC: one status of each kind _request    *)
(* tells apart, and a redirect, which it hands to the parser.               *)
EXTENDS IPinfoProvider, TLC

CONSTANTS c1, c2

KindsOfStatus == {200, 302, 404, 401, 429, 503}
Symmetry == Permutations(Calls)
=============================================================================
