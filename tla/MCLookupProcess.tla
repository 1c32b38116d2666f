--------------------------- MODULE MCLookupProcess ---------------------------
(* Instance of LookupProcess for TLC.                                       *)
EXTENDS LookupProcess, TLC

CONSTANTS c1, c2, google

(* A response to parse, one to give up on of two kinds, one to retry.       *)
KindsOfStatus == {200, 401, 429, 503}
OneAddress == "8.8.8.8" :> google
=============================================================================
