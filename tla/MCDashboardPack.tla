--------------------------- MODULE MCDashboardPack ---------------------------
(* Instances of DashboardPack for TLC: the two dashboards of the builder, and *)
(* every small one of up to four items in one row or two.                     *)
EXTENDS DashboardPack

Sizes == [w : {8, 16, 17}, h : {5, 7}]
Small == UNION {[1..n -> Sizes] : n \in 1..4}
SmallDashboards ==
    {<<r>> : r \in Small} \cup {<<a, b>> : a, b \in UNION {[1..n -> Sizes] : n \in 0..2}}
MCDashboards == {sre_overview, api_performance} \cup SmallDashboards
MCOthers == {[dir |-> "other", uid |-> u, targets |-> <<b>>] : u \in {Ours, "infrastructure"}, b \in BOOLEAN}
MCSampleSets == {{}, {"zero"}, {"number"}, {"zero", "number"}, {"nan"}, {"zero", "nan"}, {"text"}}
=============================================================================
