------------------------------ MODULE MCHttpApi ------------------------------
(* Instances of HttpApi for TLC. *)
EXTENDS HttpApi, TLC

CONSTANTS q1, q2

EveryPath == {"lookups", "index", "file", "nowhere", "live", "ready", "metrics"}
Symmetry == Permutations(Requests)
=============================================================================
