-------------------------- MODULE MCTrafficGenerator --------------------------
(* Instances of TrafficGenerator for TLC: two requests of the generator, with *)
(* indexes on the two sides of each boundary of request_for, and one other    *)
(* client.                                                                    *)
EXTENDS TrafficGenerator, TLC

CONSTANTS g1, g2, q1

OtherPaths == {"lookups", "index", "file", "nowhere", "live", "ready", "metrics"}
Slice(i, j) == (g1 :> i) @@ (g2 :> j)
Boundaries == {Slice(84, 98), Slice(85, 97), Slice(94, 96)}
=============================================================================
