-------------------------- MODULE PodRecovery_proofs --------------------------
(***************************************************************************)
(* Theorems about PodRecovery for any names and nodes and any number of    *)
(* lookups, and about Rollout for any values that may be released besides. *)
(***************************************************************************)
EXTENDS Rollout, FiniteSetTheorems, TLAPS

Ever == {n \in Names : pods[n].life # "unborn"}

-----------------------------------------------------------------------------
(* Type correctness, over the actions that share no variable. *)

Beside == <<main, traffic, stop, drill, tally, result>>

LEMMA ClusterTypes ==
    ASSUME TypeOK, ClusterStep
    PROVE  pods' \in [Names -> [life : Lives, node : Nodes \cup {None}, ready : BOOLEAN]]
           /\ UNCHANGED Beside
<1> DEFINE Pod == [life : Lives, node : Nodes \cup {None}, ready : BOOLEAN]
<1>1. ASSUME NEW n \in Names, NEW pod \in Pod, Change(n, pod)
      PROVE  pods' \in [Names -> Pod]
    BY <1>1 DEF Change, TypeOK
<1>2. PICK n \in Names :
        CreatePod(n) \/ Probe(n) \/ PodGoes(n) \/ \E node \in Nodes : Schedule(n, node)
    BY DEF ClusterStep
<1>3. pods[n] \in Pod
    BY DEF TypeOK
<1>4. CASE CreatePod(n)
    <2>1. [pods[n] EXCEPT !.life = "live"] \in Pod
        BY <1>3 DEF Lives
    <2> QED BY <1>1, <1>4, <2>1 DEF CreatePod, Beside
<1>5. CASE Probe(n)
    <2>1. [pods[n] EXCEPT !.ready = ~@] \in Pod
        BY <1>3
    <2> QED BY <1>1, <1>5, <2>1 DEF Probe, Beside
<1>6. CASE PodGoes(n)
    <2>1. [pods[n] EXCEPT !.life = "gone", !.ready = FALSE] \in Pod
        BY <1>3 DEF Lives
    <2> QED BY <1>1, <1>6, <2>1 DEF PodGoes, Beside
<1>7. CASE \E node \in Nodes : Schedule(n, node)
    <2>1. PICK node \in Nodes : Schedule(n, node)
        BY <1>7
    <2>2. [pods[n] EXCEPT !.node = node] \in Pod
        BY <1>3
    <2> QED BY <1>1, <2>1, <2>2 DEF Schedule, Beside
<1> QED BY <1>2, <1>4, <1>5, <1>6, <1>7

LEMMA TypeKept == TypeOK /\ [Next]_vars => TypeOK'
<1> SUFFICES ASSUME TypeOK, [Next]_vars PROVE TypeOK'
    OBVIOUS
<1>1. CASE ClusterStep
    BY <1>1, ClusterTypes DEF Beside, TypeOK, drill, tally, result
<1>2. CASE Inventory
    BY <1>2 DEF Inventory, TypeOK, cluster, tally, result, Existing, ReadyPods, Live, First,
        Steps, Exits
<1>3. CASE DeletePod
    <2>1. deleted \in Existing =>
            [pods[deleted] EXCEPT !.life = "deleting"] \in
            [life : Lives, node : Nodes \cup {None}, ready : BOOLEAN]
        BY DEF Existing, TypeOK, Lives
    <2>2. pods' \in [Names -> [life : Lives, node : Nodes \cup {None}, ready : BOOLEAN]]
        BY <1>3, <2>1 DEF DeletePod, Change, TypeOK, Existing
    <2> QED BY <1>3, <2>2 DEF DeletePod, TypeOK, tally, result, Steps, Exits
<1>4. CASE Poll
    <2>1. recovered' \in BOOLEAN /\ watched' \in BOOLEAN
        BY <1>4, Zenon DEF Poll, Recovered
    <2>2. after' \subseteq Names /\ main' \in Steps
        BY <1>4 DEF Poll, ReadyPods, Live, Steps
    <2>3. UNCHANGED <<cluster, traffic, stop, before, deleted, extant, tally, result>>
        BY <1>4, Zenon DEF Poll
    <2> QED BY <2>1, <2>2, <2>3, ZenonT(60) DEF TypeOK, cluster, tally, result
<1>5. CASE GiveUp \/ CommandFails \/ Settle
    BY <1>5 DEF GiveUp, CommandFails, Settle, TypeOK, cluster, drill, tally, result, Steps, Exits
<1>6. CASE Join
    BY <1>6 DEF Join, TypeOK, cluster, drill, tally, Steps
<1>7. CASE Sum
    BY <1>7 DEF Sum, TypeOK, cluster, drill, tally, Steps
<1>8. CASE Report
    <2>1. Replacement \subseteq Names \cup {None}
        BY DEF Replacement, First, TypeOK
    <2>2. codes["200"] + codes["other"] + unexpected \in Nat
        <3>1. codes["200"] \in Nat /\ codes["other"] \in Nat /\ unexpected \in Nat
            BY DEF TypeOK
        <3> QED BY <3>1
    <2>3. report' \in [requests : Nat, replacement : Names \cup {None}]
        BY <1>8, <2>1, <2>2 DEF Report
    <2> QED BY <1>8, <2>3 DEF Report, TypeOK, cluster, drill, tally, Exits
<1>9. CASE TrafficStep
    BY <1>9 DEF TrafficStep, Send, Answered, CutOff, Leave, Ok, HttpError, NoAnswer, TypeOK,
        cluster, drill, tally, result
<1>10. CASE UNCHANGED vars
    BY <1>10 DEF vars, cluster, drill, tally, result, TypeOK
<1> QED BY <1>1, <1>2, <1>3, <1>4, <1>5, <1>6, <1>7, <1>8, <1>9, <1>10
        DEF Next, MainStep

LEMMA InitTypes == Init => TypeOK
<1> SUFFICES ASSUME Init PROVE TypeOK
    OBVIOUS
<1>1. [life : {"live", "deleting"}, node : Nodes, ready : BOOLEAN] \subseteq
      [life : Lives, node : Nodes \cup {None}, ready : BOOLEAN]
    BY DEF Lives
<1>2. [life |-> "unborn", node |-> None, ready |-> FALSE] \in
      [life : Lives, node : Nodes \cup {None}, ready : BOOLEAN]
    BY DEF Lives
<1>3. pods \in [Names -> [life : Lives, node : Nodes \cup {None}, ready : BOOLEAN]]
    BY <1>1, <1>2, Zenon DEF Init
<1> QED BY <1>3 DEF Init, TypeOK, Steps

(* Every variable of the drill and of the cluster keeps its type            *)
(* (verify-pod-recovery.py:90-192).                                         *)
THEOREM TypeCorrect == Spec => []TypeOK
BY InitTypes, TypeKept, PTL DEF Spec

-----------------------------------------------------------------------------
(* The tally. *)

(* Every outcome is a 200 or a failure, and every other status is one too;  *)
(* once a traffic thread was joined nothing is tallied any more, so that    *)
(* what was summed is what there is.                                        *)
TallyInv ==
    /\ codes["200"] + failures = answered
    /\ codes["other"] <= failures
    /\ main \in {"sum", "report"} /\ ~late => traffic \in {"ended", "dead"}
    /\ main = "report" /\ ~late => unexpected = failures
    /\ PassCountsEveryLookup

LEMMA TallyKept == TypeOK /\ TallyInv /\ [Next]_vars => TallyInv'
<1> SUFFICES ASSUME TypeOK, TallyInv, [Next]_vars PROVE TallyInv'
    OBVIOUS
<1>1. CASE ClusterStep
    BY <1>1, ClusterTypes DEF Beside, TallyInv, PassCountsEveryLookup, tally, result
<1>2. CASE Inventory
    BY <1>2 DEF Inventory, TallyInv, PassCountsEveryLookup, tally, result
<1>3. CASE DeletePod \/ GiveUp \/ CommandFails \/ Settle
    BY <1>3 DEF DeletePod, GiveUp, CommandFails, Settle, TallyInv,
        PassCountsEveryLookup, tally, result
<1>4. CASE Poll
    <2>1. main' \in {"settle", "poll"}
        BY <1>4 DEF Poll
    <2> QED BY <1>4, <2>1 DEF Poll, TallyInv, PassCountsEveryLookup, tally, result
<1>5. CASE Join
    <2>1. ~late' => traffic \in {"ended", "dead"}
        BY <1>5 DEF Join
    <2> QED BY <1>5, <2>1 DEF Join, TallyInv, PassCountsEveryLookup, tally
<1>6. CASE Sum
    BY <1>6 DEF Sum, TallyInv, PassCountsEveryLookup, tally
<1>7. CASE Report
    <2>1. UNCHANGED <<codes, failures, answered, late, unexpected, traffic>>
        BY <1>7 DEF Report, tally
    <2>2. main' \in {"passed", "failed"}
        BY <1>7, Zenon DEF Report
    <2>3. ASSUME main' = "passed", ~late
          PROVE  report'.requests = answered /\ codes["200"] = answered
        <3>1. unexpected = 0
            BY <1>7, <2>3 DEF Report
        <3>2. failures = 0
            BY <1>7, <2>3, <3>1 DEF Report, TallyInv
        <3>3. codes["other"] = 0 /\ codes["200"] = answered
            BY <3>2 DEF TallyInv, TypeOK
        <3>4. report'.requests = codes["200"] + codes["other"] + unexpected
            BY <1>7 DEF Report
        <3> QED BY <3>1, <3>3, <3>4 DEF TypeOK
    <2>4. PassCountsEveryLookup'
        BY <2>1, <2>3, Zenon DEF PassCountsEveryLookup
    <2> QED BY <2>1, <2>2, <2>4 DEF TallyInv
<1>8. CASE Send \/ CutOff \/ Leave
    BY <1>8 DEF Send, CutOff, Leave, TallyInv, PassCountsEveryLookup, tally, result
<1>9. CASE Answered
    <2>1. codes'["200"] + failures' = answered' /\ codes'["other"] <= failures'
        BY <1>9 DEF Answered, Ok, HttpError, NoAnswer, TallyInv, TypeOK
    <2>2. main \notin Exits /\ traffic = "asking" /\ UNCHANGED <<main, late>>
        BY <1>9 DEF Answered, Running, result
    <2>3. main' \in {"sum", "report"} => late'
        BY <2>2, Zenon DEF TallyInv
    <2> QED BY <2>1, <2>2, <2>3 DEF TallyInv, PassCountsEveryLookup, Exits
<1>10. CASE UNCHANGED vars
    BY <1>10 DEF vars, tally, result, TallyInv, PassCountsEveryLookup
<1> QED BY <1>1, <1>2, <1>3, <1>4, <1>5, <1>6, <1>7, <1>8, <1>9, <1>10 DEF Next, MainStep, TrafficStep

(* A report of a passing drill counts every lookup once, and all were       *)
(* answered 200 (verify-pod-recovery.py:116-133, 172-192).                  *)
THEOREM PassCountsEveryLookupHolds == Spec => []PassCountsEveryLookup
<1>1. Init => TallyInv
    BY DEF Init, TallyInv, PassCountsEveryLookup
<1>2. TallyInv => PassCountsEveryLookup
    BY DEF TallyInv
<1> QED BY <1>1, <1>2, InitTypes, TypeKept, TallyKept, PTL DEF Spec

-----------------------------------------------------------------------------
(* The recovery. *)

(* A Ready pod is on a node, and no two pods are on one.                    *)
PodsOK ==
    /\ \A n \in Names :
          /\ pods[n].ready => pods[n].node # None
          /\ pods[n].life = "unborn" => pods[n].node = None
    /\ \A m, n \in Existing :
          m # n => pods[m].node # pods[n].node \/ pods[m].node = None

(* What holds of the pods of an inventory that showed a recovery.           *)
RecoveryOK ==
    /\ Cardinality(after) = 2
    /\ after \ before # {}
    /\ after \cap extant \subseteq before
    /\ deleted \in extant /\ pods[deleted].life = "gone"
    /\ \A n \in after : pods[n].node # None
    /\ \A m, n \in after : m # n => pods[m].node # pods[n].node

(* Nothing is created from the inventory to the deletion, so that every pod *)
(* of the deletion that is still there was in the inventory.                *)
DrillCore ==
    /\ PodsOK
    /\ main \in {"inventory", "delete", "poll"} => ~recovered
    /\ main \in {"inventory", "delete"} => extant = {}
    /\ main = "delete" => Existing \subseteq before
    /\ extant \subseteq Ever
    /\ main \notin {"inventory", "delete", "raised"} => deleted \in extant
    /\ main \notin {"inventory", "delete"} => Existing \cap extant \subseteq before
    /\ recovered => RecoveryOK
    /\ main = "passed" => recovered /\ report.replacement \in after \ before

(* Nothing is created because both replicas live.                           *)
DrillInv == DrillCore /\ (main = "delete" => Cardinality(Live) >= Replicas)

LEMMA LiveFinite ==
    /\ IsFiniteSet(Live) /\ Cardinality(Live) \in Nat
    /\ \A ns \in SUBSET Live : Cardinality(ns) <= Cardinality(Live)
<1>1. Live \in SUBSET Names
    BY DEF Live
<1>2. IsFiniteSet(Live)
    BY <1>1, NamesAssumption, FS_Subset
<1> QED BY <1>2, FS_Subset, FS_CardinalityType

(* What a step of the cluster keeps: a place, an end, and the two replicas. *)
LEMMA ClusterKeeps ==
    ASSUME TypeOK, PodsOK, ClusterStep
    PROVE  /\ PodsOK'
           /\ \A n \in Names : pods[n].node # None => pods'[n].node = pods[n].node
           /\ \A n \in Names : pods[n].life = "gone" => pods'[n].life = "gone"
           /\ Ever \subseteq Ever'
           /\ Existing' \cap Ever \subseteq Existing
           /\ Cardinality(Live) >= Replicas => Live' = Live /\ Ever' = Ever
<1>1. PICK n \in Names :
        CreatePod(n) \/ Probe(n) \/ PodGoes(n) \/ \E node \in Nodes : Schedule(n, node)
    BY DEF ClusterStep
<1>2. CASE CreatePod(n)
    <2>1. Cardinality(Live) < Replicas /\ Cardinality(Live) \in Nat
        BY <1>2, LiveFinite DEF CreatePod
    <2>2. ~(Cardinality(Live) >= Replicas)
        BY <2>1 DEF Replicas
    <2>3. /\ \A m \in Names : pods'[m].node = pods[m].node /\ pods'[m].ready = pods[m].ready
          /\ pods[n].life = "unborn" /\ pods'[n].life = "live"
          /\ \A m \in Names \ {n} : pods'[m] = pods[m]
        BY <1>2 DEF CreatePod, Change, TypeOK
    <2> QED BY <2>2, <2>3 DEF PodsOK, Existing, Ever, TypeOK
<1>3. CASE Probe(n)
    <2>1. /\ \A m \in Names : pods'[m].node = pods[m].node /\ pods'[m].life = pods[m].life
          /\ pods[n].node # None
          /\ \A m \in Names \ {n} : pods'[m] = pods[m]
        BY <1>3 DEF Probe, Change, TypeOK
    <2> QED BY <2>1 DEF PodsOK, Existing, Ever, Live
<1>4. CASE PodGoes(n)
    <2>1. /\ \A m \in Names : pods'[m].node = pods[m].node
          /\ pods[n].life = "deleting" /\ pods'[n].life = "gone" /\ pods'[n].ready = FALSE
          /\ \A m \in Names \ {n} : pods'[m] = pods[m]
        BY <1>4 DEF PodGoes, Change, TypeOK
    <2> QED BY <2>1 DEF PodsOK, Existing, Ever, Live
<1>5. CASE \E node \in Nodes : Schedule(n, node)
    <2>1. PICK node \in Nodes : Schedule(n, node)
        BY <1>5
    <2>2. /\ \A m \in Names : pods'[m].life = pods[m].life /\ pods'[m].ready = pods[m].ready
          /\ pods[n].node = None /\ pods'[n].node = node
          /\ \A m \in Existing : pods[m].node # node
          /\ \A m \in Names \ {n} : pods'[m] = pods[m]
        BY <2>1 DEF Schedule, Change, TypeOK
    <2>3. node # None
        BY NodesAssumption
    <2>4. Existing' = Existing /\ Ever' = Ever /\ Live' = Live /\ n \in Existing
        BY <2>1, <2>2 DEF Existing, Ever, Live, Schedule
    <2>5. \A m, k \in Existing :
            m # k => pods'[m].node # pods'[k].node \/ pods'[m].node = None
        <3> TAKE m, k \in Existing
        <3> QED BY <2>2, <2>3, <2>4 DEF PodsOK, Existing
    <2>6. PodsOK'
        BY <2>2, <2>3, <2>4, <2>5 DEF PodsOK, Existing
    <2> QED BY <2>2, <2>4, <2>6
<1> QED BY <1>1, <1>2, <1>3, <1>4, <1>5

(* What happens to the pods, whoever makes it happen, leaves the drill what *)
(* it found as long as a pod keeps its node and does not come back.         *)
LEMMA PodsKeepDrill ==
    ASSUME TypeOK, DrillCore, UNCHANGED Beside, PodsOK',
           \A n \in Names : pods[n].node # None => pods'[n].node = pods[n].node,
           \A n \in Names : pods[n].life = "gone" => pods'[n].life = "gone",
           Ever \subseteq Ever', Existing' \cap Ever \subseteq Existing,
           main = "delete" => Existing' \subseteq Existing
    PROVE  DrillCore'
<1>1. UNCHANGED <<main, before, deleted, after, recovered, extant, report>>
    BY DEF Beside, drill, result
<1>2. extant \subseteq Ever
    BY DEF DrillCore
<1>3. RecoveryOK => RecoveryOK'
    <2> SUFFICES ASSUME RecoveryOK PROVE RecoveryOK'
        OBVIOUS
    <2>1. deleted \in Names /\ after \subseteq Names
        BY <1>2 DEF TypeOK, RecoveryOK, Ever
    <2>2. \A n \in after : pods'[n].node = pods[n].node
        BY <2>1 DEF RecoveryOK
    <2> QED BY <1>1, <2>1, <2>2 DEF RecoveryOK
<1>4. Existing' \cap extant \subseteq Existing \cap extant
    BY <1>2
<1> QED BY <1>1, <1>3, <1>4 DEF DrillCore

LEMMA ClusterKeepsDrill ==
    ASSUME TypeOK, DrillInv, ClusterStep
    PROVE  DrillInv'
<1>1. UNCHANGED Beside
    BY ClusterTypes
<1>2. main = "delete" => Live' = Live /\ Existing' \subseteq Existing
    BY ClusterKeeps DEF DrillInv, DrillCore, Existing, Ever
<1>3. DrillCore'
    BY <1>1, <1>2, ClusterKeeps, PodsKeepDrill DEF DrillInv, DrillCore
<1> QED BY <1>1, <1>2, <1>3 DEF DrillInv, Beside

LEMMA InventoryKeepsDrill ==
    ASSUME TypeOK, DrillCore, Inventory
    PROVE  DrillCore'
<1>1. /\ UNCHANGED <<pods, after, recovered, extant, report>> /\ before' = Existing
      /\ main = "inventory" /\ main' \in {"delete", "raised"}
    BY DEF Inventory, cluster, result
<1>2. ~recovered'
    BY <1>1 DEF DrillCore
<1>3. PodsOK' = PodsOK /\ Existing' = Existing /\ Ever' = Ever
    BY <1>1 DEF PodsOK, Existing, Ever
<1> QED BY <1>1, <1>2, <1>3 DEF DrillCore

LEMMA DeletePodKeepsDrill ==
    ASSUME TypeOK, DrillCore, DeletePod
    PROVE  DrillCore'
<1>1. /\ UNCHANGED <<before, deleted, after, recovered, report>> /\ extant' = Ever
      /\ main = "delete" /\ main' \in {"poll", "raised"}
      /\ main' = "poll" => deleted \in Existing
    BY DEF DeletePod, result, Ever
<1>2. ~recovered'
    BY <1>1 DEF DrillCore
<1>3. PodsOK' /\ Existing' = Existing /\ Ever' = Ever
    <2>1. CASE pods' = pods
        BY <2>1 DEF PodsOK, Existing, Ever, DrillCore
    <2>2. CASE deleted \in Existing /\ Change(deleted, [pods[deleted] EXCEPT !.life = "deleting"])
        <3>1. /\ \A n \in Names : pods'[n].node = pods[n].node /\ pods'[n].ready = pods[n].ready
              /\ pods'[deleted].life = "deleting"
              /\ \A n \in Names \ {deleted} : pods'[n] = pods[n]
            BY <2>2 DEF Change, TypeOK, Existing
        <3>2. Existing' = Existing /\ Ever' = Ever
            BY <2>2, <3>1 DEF Existing, Ever
        <3> QED BY <3>1, <3>2 DEF PodsOK, Existing, DrillCore
    <2> QED BY <2>1, <2>2 DEF DeletePod
<1>4. Existing \subseteq before /\ Existing \subseteq Ever
    BY <1>1 DEF DrillCore, Existing, Ever
<1> QED BY <1>1, <1>2, <1>3, <1>4 DEF DrillCore

LEMMA PollKeepsDrill ==
    ASSUME TypeOK, DrillCore, Poll
    PROVE  DrillCore'
<1>1. /\ UNCHANGED <<pods, before, deleted, extant, report>> /\ after' = ReadyPods
      /\ main = "poll" /\ main' \in {"settle", "poll"}
    BY DEF Poll, cluster, result
<1>2. recovered' <=> Recovered
    BY Zenon DEF Poll
<1>3. main' = "poll" => ~recovered'
    BY DEF Poll
<1>4. PodsOK' /\ Existing' = Existing /\ Ever' = Ever
    BY <1>1 DEF PodsOK, Existing, Ever, DrillCore
<1>5. ASSUME Recovered PROVE RecoveryOK'
    <2>1. /\ Cardinality(ReadyPods) = 2 /\ deleted \notin Existing
          /\ ReadyPods \ before # {}
        BY <1>5 DEF Recovered
    <2>2. ReadyPods \subseteq Existing
        BY DEF ReadyPods, Live, Existing
    <2>3. ReadyPods \cap extant \subseteq before
        BY <1>1, <2>2 DEF DrillCore
    <2>4. deleted \in extant /\ pods[deleted].life = "gone"
        <3>1. deleted \in Ever /\ deleted \in extant
            BY <1>1 DEF DrillCore
        <3> QED BY <2>1, <3>1 DEF Existing, Ever, TypeOK, Lives
    <2>5. \A n \in ReadyPods : pods[n].node # None
        BY DEF ReadyPods, Live, PodsOK, DrillCore
    <2>6. \A m, n \in ReadyPods : m # n => pods[m].node # pods[n].node
        BY <2>2, <2>5 DEF PodsOK, DrillCore
    <2> QED BY <1>1, <2>1, <2>3, <2>4, <2>5, <2>6 DEF RecoveryOK
<1> QED BY <1>1, <1>2, <1>3, <1>4, <1>5 DEF DrillCore

LEMMA ReportKeepsDrill ==
    ASSUME TypeOK, DrillCore, Report
    PROVE  DrillCore'
<1>1. /\ UNCHANGED <<pods, before, deleted, after, recovered, extant>>
      /\ main = "report" /\ main' \in {"passed", "failed"}
      /\ main' = "passed" => recovered
    BY DEF Report, cluster, drill
<1>2. recovered => report'.replacement \in after \ before
    <2>1. recovered => Replacement \subseteq after \ before
        BY DEF DrillCore, RecoveryOK, Replacement, First
    <2> QED BY <2>1 DEF Report
<1>3. /\ PodsOK' = PodsOK /\ Existing' = Existing /\ Ever' = Ever
      /\ RecoveryOK' = RecoveryOK
    BY <1>1 DEF PodsOK, Existing, Ever, RecoveryOK
<1> QED BY <1>1, <1>2, <1>3 DEF DrillCore

(* The drill's own steps, on whatever cluster.                              *)
LEMMA DrillKeepsCore ==
    ASSUME TypeOK, DrillCore, MainStep \/ TrafficStep \/ UNCHANGED vars
    PROVE  DrillCore'
<1>1. ASSUME UNCHANGED <<pods, drill, report>>
      PROVE  /\ PodsOK' = PodsOK /\ Existing' = Existing /\ Ever' = Ever /\ Live' = Live
             /\ RecoveryOK' = RecoveryOK
             /\ UNCHANGED <<before, deleted, after, recovered, extant, report>>
    BY <1>1 DEF drill, PodsOK, Existing, Ever, Live, RecoveryOK
<1>2. CASE GiveUp \/ CommandFails \/ Settle \/ Join \/ Sum
    <2>1. UNCHANGED <<pods, drill, report>>
        BY <1>2 DEF GiveUp, CommandFails, Settle, Join, Sum, cluster, result
    <2>2. /\ main' \notin {"inventory", "delete", "poll", "passed"}
          /\ main \in {"inventory", "delete"} => main' = "raised"
          /\ main = "raised" => main' = "raised"
        BY <1>2 DEF GiveUp, CommandFails, Settle, Join, Sum
    <2>3. main' # "raised" => main \notin {"inventory", "delete", "raised"}
        BY <1>2 DEF GiveUp, CommandFails, Settle, Join, Sum
    <2>4. Existing \cap extant \subseteq before
        <3>1. CASE main = "inventory"
            BY <3>1 DEF DrillCore
        <3> QED BY <3>1 DEF DrillCore
    <2> QED BY <1>1, <2>1, <2>2, <2>3, <2>4 DEF DrillCore
<1>3. CASE TrafficStep \/ UNCHANGED vars
    <2>1. UNCHANGED <<main, pods, drill, report>>
        BY <1>3 DEF TrafficStep, Send, Answered, CutOff, Leave, vars, cluster, result
    <2> QED BY <1>1, <2>1 DEF DrillCore
<1> QED BY <1>2, <1>3, InventoryKeepsDrill, DeletePodKeepsDrill, PollKeepsDrill,
        ReportKeepsDrill DEF MainStep

LEMMA DrillKept == TypeOK /\ DrillInv /\ [Next]_vars => DrillInv'
<1> SUFFICES ASSUME TypeOK, DrillInv, [Next]_vars PROVE DrillInv'
    OBVIOUS
<1>1. CASE MainStep \/ TrafficStep \/ UNCHANGED vars
    <2>1. DrillCore'
        BY <1>1, DrillKeepsCore DEF DrillInv
    <2>2. ASSUME main' = "delete" PROVE Cardinality(Live)' >= Replicas
        <3>1. main = "delete" \/ Cardinality(ReadyPods) = 2
            BY <1>1, <2>2 DEF MainStep, Inventory, DeletePod, Poll, GiveUp, CommandFails, Settle,
                Join, Sum, Report, TrafficStep, Send, Answered, CutOff, Leave, vars
        <3>2. pods' = pods
            BY <1>1, <2>2 DEF MainStep, Inventory, DeletePod, Poll, GiveUp, CommandFails, Settle,
                Join, Sum, Report, TrafficStep, Send, Answered, CutOff, Leave, vars, cluster
        <3>3. Live' = Live
            BY <3>2 DEF Live
        <3>4. ReadyPods \in SUBSET Live
            BY DEF ReadyPods
        <3>5. Cardinality(ReadyPods) <= Cardinality(Live) /\ Cardinality(Live) \in Nat
            BY <3>4, LiveFinite
        <3> QED BY <3>1, <3>3, <3>5 DEF DrillInv, Replicas
    <2> QED BY <2>1, <2>2 DEF DrillInv
<1> QED BY <1>1, ClusterKeepsDrill DEF Next

LEMMA InitDrill == Init => DrillInv
<1> SUFFICES ASSUME Init PROVE DrillInv
    OBVIOUS
<1>1. ASSUME NEW n \in Names
      PROVE  \/ pods[n] = [life |-> "unborn", node |-> None, ready |-> FALSE]
             \/ pods[n] \in [life : {"live", "deleting"}, node : Nodes, ready : BOOLEAN]
    BY <1>1, Zenon DEF Init
<1>2. ASSUME NEW n \in Names
      PROVE  /\ pods[n].ready => pods[n].node # None
             /\ pods[n].life = "unborn" => pods[n].node = None
    BY <1>1, NodesAssumption
<1>3. \A m, n \in Existing : m # n => pods[m].node # pods[n].node
    BY DEF Init
<1>4. PodsOK
    BY <1>2, <1>3 DEF PodsOK
<1> QED BY <1>4 DEF Init, DrillInv, DrillCore

(* Two pods on distinct nodes are two nodes.                                *)
LEMMA RecoveryHasTwoNodes ==
    ASSUME TypeOK, RecoveryOK
    PROVE  Cardinality(NodesOf(after)) = 2
<1> DEFINE place == [n \in after |-> pods[n].node]
<1>1. IsFiniteSet(after)
    BY NamesAssumption, FS_Subset DEF TypeOK
<1>2. place \in Bijection(after, NodesOf(after))
    BY DEF Bijection, Injection, Surjection, IsInjective, NodesOf, RecoveryOK
<1>3. ExistsBijection(after, NodesOf(after))
    BY <1>2 DEF ExistsBijection
<1> QED BY <1>1, <1>3, FS_Bijection DEF RecoveryOK

LEMMA CoreMeansCaused == TypeOK /\ DrillCore => RecoveryIsCaused
<1> SUFFICES ASSUME TypeOK, DrillCore, main = "passed"
             PROVE  /\ Cardinality(NodesOf(after)) = 2
                    /\ report.replacement \in after \ extant
                    /\ pods[deleted].life = "gone"
    BY DEF RecoveryIsCaused
<1>1. RecoveryOK /\ report.replacement \in after \ before
    BY DEF DrillCore
<1> QED BY <1>1, RecoveryHasTwoNodes DEF RecoveryOK

(* A drill that passes saw the recovery from its own deletion               *)
(* (verify-pod-recovery.py:84, 94-98, 152-159, 192).                        *)
THEOREM RecoveryIsCausedHolds == Spec => []RecoveryIsCaused
<1>1. TypeOK /\ DrillInv => RecoveryIsCaused
    BY CoreMeansCaused DEF DrillInv
<1> QED BY <1>1, InitTypes, InitDrill, TypeKept, DrillKept, PTL DEF Spec

-----------------------------------------------------------------------------
(* The rollout. *)

Pod == [life : Lives, node : Nodes \cup {None}, ready : BOOLEAN]

Drill == <<main, traffic, stop, drill, tally, result>>

LEMMA PodUnready ==
    ASSUME NEW p \in Pod
    PROVE  [p EXCEPT !.ready = FALSE] \in Pod
BY DEF Pod

LEMMA ChangedPods ==
    ASSUME TypeOK, NEW n \in Names, NEW pod \in Pod, Change(n, pod)
    PROVE  pods' \in [Names -> Pod]
BY DEF Change, TypeOK, Pod

LEMMA TypesOfPods ==
    ASSUME TypeOK, pods' \in [Names -> Pod], UNCHANGED Drill
    PROVE  TypeOK'
BY DEF TypeOK, Pod, Drill, drill, tally, result

LEMMA PairHasTwo == IsFiniteSet({1, 2}) /\ Cardinality({1, 2}) = 2
<1>1. IsFiniteSet({1}) /\ Cardinality({1}) = 1
    BY FS_EmptySet, FS_Singleton
<1>2. {1, 2} = {1} \cup {2} /\ 2 \notin {1}
    OBVIOUS
<1> QED BY <1>1, <1>2, FS_AddElement

LEMMA AllowedType == surplus \in 0..Replicas => Allowed \in 0..Replicas
BY DEF Allowed, Replicas, Surge

LEMMA CreateTypes ==
    ASSUME RolloutTypeOK, NEW n \in Names, Create(n)
    PROVE  /\ pods' \in [Names -> Pod] /\ surplus' \in 0..Replicas
           /\ revision' \in [Names -> Revisions]
<1>1. PICK rev \in Revisions : Born(n, rev)
    BY DEF Create, Revisions, RolloutTypeOK
<1>2. [pods[n] EXCEPT !.life = "live"] \in Pod
    BY DEF RolloutTypeOK, TypeOK, Pod, Lives
<1> QED BY <1>1, <1>2, ChangedPods DEF Born, RolloutTypeOK

LEMMA ScaleDownTypes ==
    ASSUME RolloutTypeOK, ScaleDown
    PROVE  /\ pods' \in [Names -> Pod] /\ surplus' \in 0..Replicas
           /\ revision' \in [Names -> Revisions]
<1>1. surplus' \in 0..Replicas /\ revision' = revision
    BY DEF ScaleDown, RolloutTypeOK, Replicas
<1>2. CASE pods' = pods
    BY <1>1, <1>2 DEF RolloutTypeOK, TypeOK, Pod
<1>3. ASSUME NEW n \in Others, Change(n, [pods[n] EXCEPT !.life = "deleting"])
      PROVE  pods' \in [Names -> Pod]
    <2>1. n \in Names /\ [pods[n] EXCEPT !.life = "deleting"] \in Pod
        BY DEF RolloutTypeOK, TypeOK, Pod, Lives, Others, Live
    <2> QED BY <1>3, <2>1, ChangedPods DEF RolloutTypeOK
<1>4. pods' = pods \/ \E n \in Others : Change(n, [pods[n] EXCEPT !.life = "deleting"])
    BY Zenon DEF ScaleDown
<1> QED BY <1>1, <1>2, <1>3, <1>4 DEF RolloutTypeOK

LEMMA KubernetesTypes ==
    ASSUME RolloutTypeOK, KubernetesStep
    PROVE  RolloutTypeOK'
<1>1. CASE (ScaleDown \/ \E n \in Names : Create(n))
           /\ UNCHANGED <<main, traffic, stop, drill, tally, result,
                          helm, installed, room, release, config>>
    <2>1. /\ pods' \in [Names -> Pod] /\ surplus' \in 0..Replicas
          /\ revision' \in [Names -> Revisions]
        BY <1>1, CreateTypes, ScaleDownTypes
    <2>2. TypeOK'
        BY <1>1, <2>1, TypesOfPods DEF Drill, RolloutTypeOK
    <2>3. UNCHANGED <<step, installed, schema, room, values, secret, target, attempts, config>>
        BY <1>1 DEF helm, release
    <2> QED BY <2>1, <2>2, <2>3 DEF RolloutTypeOK
<1>2. ASSUME NEW n \in Names, StartContainer(n)
      PROVE  RolloutTypeOK'
    <2>1. [pods[n] EXCEPT !.ready = FALSE] \in Pod
        <3>1. pods \in [Names -> Pod]
            BY Zenon DEF RolloutTypeOK, TypeOK, Pod
        <3>2. pods[n] \in Pod
            BY <3>1, Zenon
        <3> QED BY <3>2, PodUnready, Zenon
    <2>2. Change(n, [pods[n] EXCEPT !.ready = FALSE]) /\ UNCHANGED Drill
        BY <1>2, Zenon DEF StartContainer, Drill
    <2>3. TypeOK
        BY DEF RolloutTypeOK
    <2>4. pods' \in [Names -> Pod]
        BY <2>1, <2>2, <2>3, ChangedPods, Zenon
    <2>5. TypeOK'
        BY <2>2, <2>3, <2>4, TypesOfPods, Zenon
    <2> QED BY <1>2, <2>5 DEF StartContainer, RolloutTypeOK, helm, release, made
<1>3. CASE ClusterStep /\ UNCHANGED rolloutVars
    <2>1. TypeOK'
        BY <1>3, TypeKept DEF RolloutTypeOK, Next
    <2> QED BY <1>3, <2>1 DEF RolloutTypeOK, rolloutVars, helm, release, made
<1>4. \A n \in Names : Probed(n) => ClusterStep
    BY DEF Probed, ClusterStep
<1>5. \A n \in Names : PodGoes(n) \/ (\E node \in room : Schedule(n, node)) => ClusterStep
    BY DEF ClusterStep, RolloutTypeOK
<1> QED BY <1>1, <1>2, <1>3, <1>4, <1>5 DEF KubernetesStep

LEMMA HelmTypes ==
    ASSUME RolloutTypeOK, HelmStep
    PROVE  RolloutTypeOK'
<1> USE DEF RolloutTypeOK, HelmSteps, VerifySteps, Ends, Revisions, release
<1>1. UNCHANGED <<Drill, installed, room, revision, config>>
    BY DEF HelmStep, Drill
<1>2. ASSUME pods' \in [Names -> Pod] PROVE TypeOK'
    BY <1>1, <1>2, TypesOfPods
<1>3. pods' = pods => TypeOK'
    BY <1>2 DEF TypeOK, Pod
<1>4. CASE Render \/ MigrationDeadline \/ Rolled \/ RolledBack
    BY <1>1, <1>3, <1>4 DEF Render, MigrationDeadline, Rolled, RolledBack, BackoffLimit
<1>5. CASE MigrationPodFails
    <2>1. attempts' \in 0..BackoffLimit
        BY <1>5 DEF MigrationPodFails, BackoffLimit
    <2>2. schema' \in BOOLEAN
        BY <1>5, Zenon DEF MigrationPodFails
    <2> QED BY <1>1, <1>3, <1>5, <2>1, <2>2 DEF MigrationPodFails
<1>6. CASE Migrated
    BY <1>1, <1>3, <1>6 DEF Migrated, Replaced, Replicas, BackoffLimit
<1>7. CASE RollTimeout
    <2>1. pods' \in [Names -> Pod]
        <3>1. \A n \in Names : pods[n] \in Pod /\ [pods[n] EXCEPT !.life = "deleting"] \in Pod
            BY SMTT(40) DEF TypeOK, Pod, Lives
        <3>2. pods \in [Names -> Pod]
            BY DEF TypeOK, Pod
        <3> QED BY <1>7, <3>1, <3>2, Zenon DEF RollTimeout
    <2>2. surplus' \in 0..Replicas
        BY <1>7, AllowedType DEF RollTimeout, Replicas
    <2> QED BY <1>1, <1>2, <1>7, <2>1, <2>2 DEF RollTimeout
<1> QED BY <1>4, <1>5, <1>6, <1>7 DEF HelmStep

LEMMA RolloutTypeKept == RolloutTypeOK /\ [RolloutNext]_allVars => RolloutTypeOK'
<1> SUFFICES ASSUME RolloutTypeOK, [RolloutNext]_allVars PROVE RolloutTypeOK'
    OBVIOUS
<1>1. CASE VerifyStep
    <2>1. TypeOK'
        BY <1>1, TypeKept DEF VerifyStep, RolloutTypeOK
    <2>2. step' \in HelmSteps \cup VerifySteps \cup Ends
        BY <1>1 DEF VerifyStep, Check, VerifySteps, Ends
    <2> QED BY <1>1, <2>1, <2>2 DEF VerifyStep, RolloutTypeOK, release, made
<1>2. CASE DrillStep \/ UNCHANGED allVars
    <2>1. TypeOK'
        BY <1>2, TypeKept DEF DrillStep, RolloutTypeOK, allVars, Next
    <2> QED BY <1>2, <2>1 DEF DrillStep, RolloutTypeOK, allVars, rolloutVars, helm, release, made
<1> QED BY <1>1, <1>2, KubernetesTypes, HelmTypes DEF RolloutNext

LEMMA RolloutInitTypes == RolloutInit => RolloutTypeOK
<1> SUFFICES ASSUME RolloutInit PROVE RolloutTypeOK
    OBVIOUS
<1>1. TypeOK
    BY InitTypes DEF RolloutInit
<1>2. installed \in BOOLEAN /\ schema \in BOOLEAN
    BY Zenon DEF RolloutInit
<1> QED BY <1>1, <1>2 DEF RolloutInit, RolloutTypeOK, HelmSteps, Revisions, Replicas, BackoffLimit

(* Every variable of release, cluster and drill keeps its type, whatever is *)
(* released (deploy-challenge.sh, deployment.yaml, migration-job.yaml).     *)
THEOREM RolloutTypeCorrect == RolloutSpec => []RolloutTypeOK
BY RolloutInitTypes, RolloutTypeKept, PTL DEF RolloutSpec

-----------------------------------------------------------------------------
(* The migration. *)

HookSucceeded == schema = TRUE /\ Accepts(OfJob(values))

(* Nothing of the new release is anywhere before the hook has succeeded.    *)
MigrationInv ==
    \/ HookSucceeded
    \/ /\ \A n \in Names : revision[n] # "new"
       /\ secret # "new" /\ target # "new"
       /\ surplus = 0 /\ step # "roll"

LEMMA NoneLacking == ~(Cardinality(Others) < 0)
<1>1. Others \subseteq Names
    BY DEF Others, Live
<1>2. IsFiniteSet(Others)
    BY <1>1, NamesAssumption, FS_Subset
<1> QED BY <1>2, FS_CardinalityType

LEMMA MigrationKept ==
    RolloutTypeOK /\ MigrationInv /\ [RolloutNext]_allVars => MigrationInv'
<1> SUFFICES ASSUME RolloutTypeOK, MigrationInv, [RolloutNext]_allVars PROVE MigrationInv'
    OBVIOUS
<1> USE DEF MigrationInv
<1>1. values' = values /\ (schema = TRUE => schema' = TRUE)
    <2>1. CASE HelmStep
        <3>1. values' = values
            BY <2>1, Zenon DEF HelmStep, Render, MigrationPodFails, MigrationDeadline, Migrated,
                Rolled, RollTimeout, RolledBack
        <3>2. schema' = schema \/ schema' = TRUE
            <4>1. CASE MigrationPodFails
                BY <4>1, Zenon DEF MigrationPodFails
            <4> QED BY <2>1, <4>1, Zenon DEF HelmStep, Render, MigrationDeadline, Migrated,
                    Rolled, RollTimeout, RolledBack
        <3> QED BY <3>1, <3>2, Zenon
    <2>2. CASE KubernetesStep
        <3>1. UNCHANGED helm
            BY <2>2 DEF KubernetesStep, StartContainer, rolloutVars
        <3> QED BY <3>1, Zenon DEF helm
    <2>3. CASE VerifyStep \/ DrillStep \/ UNCHANGED allVars
        <3>1. UNCHANGED <<values, schema>>
            BY <2>3 DEF VerifyStep, DrillStep, allVars, rolloutVars, helm
        <3> QED BY <3>1, Zenon
    <2> QED BY <2>1, <2>2, <2>3 DEF RolloutNext
<1>2. CASE HookSucceeded
    BY <1>1, <1>2 DEF HookSucceeded
<1>3. CASE ~HookSucceeded
    <2>1. /\ \A n \in Names : revision[n] # "new"
          /\ secret # "new" /\ target # "new" /\ surplus = 0 /\ step # "roll"
        BY <1>3
    <2>2. ASSUME NEW n \in Names, Create(n), UNCHANGED <<helm, release>>
          PROVE  MigrationInv'
        <3>1. ~(Cardinality(Others) < surplus)
            BY <2>1, NoneLacking
        <3>2. Born(n, target)
            BY <2>2, <3>1 DEF Create
        <3> QED BY <2>1, <2>2, <3>2 DEF Born, helm, release, RolloutTypeOK
    <2>3. ~ScaleDown
        BY <2>1 DEF ScaleDown
    <2>4. CASE KubernetesStep
        BY <2>1, <2>2, <2>3, <2>4 DEF KubernetesStep, StartContainer, rolloutVars, helm, release, made
    <2>5. CASE Migrated /\ HelmStep
        <3>1. schema' = TRUE /\ Accepts(OfJob(values))
            BY <2>5 DEF Migrated
        <3> QED BY <1>1, <3>1, Zenon DEF HookSucceeded
    <2>6. CASE (Render \/ MigrationPodFails \/ MigrationDeadline) /\ HelmStep
        BY <2>1, <2>6 DEF Render, MigrationPodFails, MigrationDeadline, HelmStep, release
    <2>7. CASE RolledBack /\ HelmStep
        BY <2>1, <2>7 DEF RolledBack, HelmStep, release
    <2>8. ~Rolled /\ ~RollTimeout
        BY <2>1 DEF Rolled, RollTimeout
    <2>9. CASE VerifyStep
        BY <2>1, <2>9 DEF VerifyStep, Check, release, made
    <2>10. CASE DrillStep \/ UNCHANGED allVars
        BY <2>1, <2>10 DEF DrillStep, allVars, rolloutVars, helm, release, made
    <2> QED BY <2>4, <2>5, <2>6, <2>7, <2>8, <2>9, <2>10 DEF RolloutNext, HelmStep
<1> QED BY <1>2, <1>3

(* No pod of the new revision, and no Secret with its values, exists before *)
(* the hook succeeded with the credentials of the release                   *)
(* (migration-job.yaml:10-44, env.py:15-52).                                *)
THEOREM MigrationComesFirstHolds == RolloutSpec => []MigrationComesFirst
<1>1. RolloutInit => MigrationInv
    BY DEF RolloutInit, MigrationInv
<1>2. MigrationInv => MigrationComesFirst
    BY DEF MigrationInv, MigrationComesFirst, HookSucceeded
<1> QED BY <1>1, <1>2, RolloutInitTypes, RolloutTypeKept, MigrationKept, PTL DEF RolloutSpec

-----------------------------------------------------------------------------
(* A release that cannot come up. *)

Doomed == installed /\ (~Accepts(values) \/ Cardinality(room) = Replicas)

(* Until helm gives up, a new pod is refused by Settings or has no node, so *)
(* that no pod of it is Ready and nothing outweighs an old one; after that  *)
(* the old ReplicaSet is in force again. The scripts never come as far as   *)
(* the drill.                                                               *)
DoomedInv ==
    /\ \A i \in {1, 2} : pods[i].life = "live" /\ pods[i].node = i /\ revision[i] = "old"
    /\ main = "inventory"
    /\ step \notin VerifySteps \cup {"rejected", "verified"}
    /\ step = "roll" => target = "new" /\ secret = "new"
    /\ step # "roll" => target = "old"
    /\ step \in {"render", "migrate"} =>
          surplus = 0 /\ \A n \in Names : revision[n] # "new"
    /\ \A n \in Names : pods[n].life = "unborn" => ~pods[n].ready /\ config[n] = "none"
    /\ step = "roll" =>
          \A n \in Names : revision[n] = "new" => config[n] # "old" /\ ~pods[n].ready
    /\ Cardinality(room) = Replicas =>
          room = {1, 2} /\ \A n \in Names \ {1, 2} : pods[n].node = None

OldInv == Doomed => DoomedInv

LEMMA NoneReady ==
    ASSUME DoomedInv, step = "roll"
    PROVE  ReadyOf("new") = {} /\ Cardinality(ReadyOf("new")) = 0
BY FS_EmptySet DEF DoomedInv, ReadyOf, Of, Live

LEMMA DoomedStays ==
    ASSUME RolloutTypeOK, [RolloutNext]_allVars, Doomed'
    PROVE  Doomed /\ room' = room /\ installed' = installed /\ values' = values
<1>1. UNCHANGED <<installed, room, values>>
    <2>1. CASE HelmStep
        BY <2>1, Zenon DEF HelmStep, Render, MigrationPodFails, MigrationDeadline, Migrated,
            Rolled, RollTimeout, RolledBack
    <2>2. CASE KubernetesStep
        BY <2>2 DEF KubernetesStep, StartContainer, rolloutVars, helm
    <2>3. CASE VerifyStep \/ DrillStep \/ UNCHANGED allVars
        BY <2>3 DEF VerifyStep, DrillStep, allVars, rolloutVars, helm
    <2> QED BY <2>1, <2>2, <2>3 DEF RolloutNext
<1> QED BY <1>1, Zenon DEF Doomed

LEMMA CreateKeepsOld ==
    ASSUME RolloutTypeOK, Doomed, DoomedInv, NEW n \in Names, Create(n),
           UNCHANGED <<main, helm, installed, room, release, config>>
    PROVE  DoomedInv'
<1>1. PICK rev : Born(n, rev) /\ (step \in {"render", "migrate"} => rev # "new")
    <2>1. step \in {"render", "migrate"} => ~(Cardinality(Others) < surplus) /\ target = "old"
        BY NoneLacking DEF DoomedInv
    <2> QED BY <2>1 DEF Create
<1>2. pods[n].life = "unborn" /\ n \notin {1, 2} /\ ~pods[n].ready /\ config[n] = "none"
    BY <1>1 DEF Born, DoomedInv
<1>3. /\ \A m \in Names : pods'[m].node = pods[m].node /\ pods'[m].ready = pods[m].ready
      /\ \A m \in Names \ {n} : pods'[m] = pods[m] /\ revision'[m] = revision[m]
      /\ pods'[n].life = "live" /\ revision'[n] = rev /\ surplus' = surplus
    BY <1>1 DEF Born, Change, RolloutTypeOK, TypeOK
<1>4. UNCHANGED <<main, step, target, secret, room, config>>
    BY DEF helm, release
<1>5. \A i \in {1, 2} : pods'[i] = pods[i] /\ revision'[i] = revision[i]
    BY <1>2, <1>3, OldPodsAssumption
<1> QED BY <1>1, <1>2, <1>3, <1>4, <1>5 DEF DoomedInv

LEMMA ScaleDownKeepsOld ==
    ASSUME RolloutTypeOK, Doomed, DoomedInv, ScaleDown,
           UNCHANGED <<main, helm, installed, room, release, config>>
    PROVE  DoomedInv'
<1>1. step # "roll"
    <2>1. SUFFICES ASSUME step = "roll" PROVE FALSE
        OBVIOUS
    <2>2. surplus + 0 > Replicas
        BY <2>1, NoneReady DEF ScaleDown, Excess, DoomedInv
    <2> QED BY <2>2 DEF RolloutTypeOK, Replicas
<1>2. target = "old" /\ step \notin {"render", "migrate"}
    BY <1>1 DEF DoomedInv, ScaleDown
<1> DEFINE Kept ==
        /\ \A m \in Names : pods'[m].node = pods[m].node /\ pods'[m].ready = pods[m].ready
        /\ \A m \in Names : pods'[m].life = "unborn" => pods[m].life = "unborn"
        /\ \A i \in {1, 2} : pods'[i] = pods[i]
<1>3. Kept
    <2>1. CASE pods' = pods
        BY <2>1
    <2>2. ASSUME NEW n \in Others, Change(n, [pods[n] EXCEPT !.life = "deleting"])
          PROVE  Kept
        <3>1. n \in Names \ {1, 2}
            BY <1>2 DEF Others, Live, DoomedInv
        <3>2. /\ \A m \in Names \ {n} : pods'[m] = pods[m]
              /\ pods'[n] = [pods[n] EXCEPT !.life = "deleting"]
              /\ pods[n] \in [life : Lives, node : Nodes \cup {None}, ready : BOOLEAN]
            BY <2>2, <3>1 DEF Change, RolloutTypeOK, TypeOK
        <3> QED BY <3>1, <3>2, OldPodsAssumption
    <2>3. pods' = pods \/ \E n \in Others : Change(n, [pods[n] EXCEPT !.life = "deleting"])
        BY Zenon DEF ScaleDown
    <2> QED BY <2>1, <2>2, <2>3
<1>4. UNCHANGED <<main, step, target, secret, room, config, revision>>
    BY DEF helm, release, ScaleDown
<1> QED BY <1>1, <1>2, <1>3, <1>4 DEF DoomedInv

LEMMA PodKeepsOld ==
    ASSUME RolloutTypeOK, Doomed, DoomedInv, NEW n \in Names,
           \/ StartContainer(n)
           \/ (Probed(n) \/ PodGoes(n) \/ \E node \in room : Schedule(n, node))
              /\ UNCHANGED rolloutVars
    PROVE  DoomedInv'
<1>1. pods[n] \in [life : Lives, node : Nodes \cup {None}, ready : BOOLEAN]
    BY DEF RolloutTypeOK, TypeOK
<1>2. CASE StartContainer(n)
    <2>1. /\ \A m \in Names \ {n} : pods'[m] = pods[m] /\ config'[m] = config[m]
          /\ pods'[n] = [pods[n] EXCEPT !.ready = FALSE] /\ config'[n] = secret
          /\ pods[n].life = "live"
        BY <1>2 DEF StartContainer, Change, RolloutTypeOK, TypeOK, Live
    <2>2. UNCHANGED <<main, step, target, secret, room, revision, surplus>>
        BY <1>2 DEF StartContainer, helm, release, made
    <2>3. /\ \A m \in Names : pods'[m].node = pods[m].node /\ pods'[m].life = pods[m].life
          /\ \A m \in Names : pods'[m].ready => pods[m].ready
          /\ pods'[n].ready = FALSE
        BY <1>1, <2>1
    <2>4. step = "roll" => secret = "new"
        BY DEF DoomedInv
    <2>5. step = "roll" =>
            \A m \in Names : revision[m] = "new" => config'[m] # "old" /\ ~pods'[m].ready
        BY <2>1, <2>3, <2>4 DEF DoomedInv
    <2>6. \A m \in Names : pods'[m].life = "unborn" => ~pods'[m].ready /\ config'[m] = "none"
        BY <2>1, <2>3 DEF DoomedInv
    <2> QED BY <2>2, <2>3, <2>5, <2>6, OldPodsAssumption DEF DoomedInv
<1>3. CASE Probed(n) /\ UNCHANGED rolloutVars
    <2>1. /\ \A m \in Names \ {n} : pods'[m] = pods[m]
          /\ pods'[n] = [pods[n] EXCEPT !.ready = ~@]
          /\ n \in Existing /\ pods[n].node # None
          /\ pods'[n].ready => Sound(config[n])
        BY <1>3 DEF Probed, Probe, Change, RolloutTypeOK, TypeOK
    <2>2. UNCHANGED <<main, step, target, secret, room, revision, config, surplus>>
        BY <1>3 DEF Probed, Probe, rolloutVars, helm, release, made
    <2>3. step = "roll" /\ revision[n] = "new" => ~pods'[n].ready
        <3>1. SUFFICES ASSUME step = "roll", revision[n] = "new", pods'[n].ready PROVE FALSE
            OBVIOUS
        <3>2. CASE ~Accepts(values)
            BY <2>1, <3>1, <3>2 DEF Sound, DoomedInv
        <3>3. CASE Cardinality(room) = Replicas
            BY <2>1, <3>1, <3>3 DEF DoomedInv
        <3> QED BY <3>2, <3>3 DEF Doomed
    <2> QED BY <1>1, <2>1, <2>2, <2>3, OldPodsAssumption DEF DoomedInv, Existing
<1>4. CASE PodGoes(n) /\ UNCHANGED rolloutVars
    <2>1. /\ \A m \in Names \ {n} : pods'[m] = pods[m]
          /\ pods'[n] = [pods[n] EXCEPT !.life = "gone", !.ready = FALSE]
          /\ pods[n].life = "deleting"
        BY <1>4 DEF PodGoes, Change, RolloutTypeOK, TypeOK
    <2>2. UNCHANGED <<main, step, target, secret, room, revision, config, surplus>>
        BY <1>4 DEF PodGoes, rolloutVars, helm, release, made
    <2>3. /\ \A m \in Names : pods'[m].node = pods[m].node
          /\ \A m \in Names : pods'[m].ready => pods[m].ready
          /\ \A m \in Names : pods'[m].life = "unborn" => pods[m].life = "unborn"
          /\ pods'[n].ready = FALSE
        BY <1>1, <2>1, ZenonT(60)
    <2>4. n \notin {1, 2}
        BY <2>1 DEF DoomedInv
    <2>5. \A i \in {1, 2} : pods'[i] = pods[i]
        BY <2>1, <2>4, OldPodsAssumption
    <2> QED BY <2>2, <2>3, <2>5, OldPodsAssumption DEF DoomedInv
<1>5. CASE (\E node \in room : Schedule(n, node)) /\ UNCHANGED rolloutVars
    <2>1. PICK node \in room : Schedule(n, node)
        BY <1>5
    <2>2. /\ \A m \in Names \ {n} : pods'[m] = pods[m]
          /\ pods'[n] = [pods[n] EXCEPT !.node = node]
          /\ pods[n].node = None /\ \A m \in Existing : pods[m].node # node
        BY <2>1 DEF Schedule, Change, RolloutTypeOK, TypeOK
    <2>3. UNCHANGED <<main, step, target, secret, room, revision, config, surplus>>
        BY <1>5, <2>1 DEF Schedule, rolloutVars, helm, release, made
    <2>4. n \notin {1, 2} /\ Cardinality(room) # Replicas
        BY <2>2, OldPodsAssumption DEF DoomedInv, Existing, None
    <2> QED BY <1>1, <2>2, <2>3, <2>4, OldPodsAssumption DEF DoomedInv
<1> QED BY <1>2, <1>3, <1>4, <1>5

LEMMA HelmKeepsOld ==
    ASSUME RolloutTypeOK, Doomed, DoomedInv, HelmStep
    PROVE  DoomedInv'
<1>1. UNCHANGED <<main, room, revision, config, installed>> /\ installed
    BY DEF HelmStep, Doomed
<1>2. CASE Render \/ MigrationPodFails \/ MigrationDeadline \/ RolledBack
    <2>1. UNCHANGED <<pods, target, secret, surplus>>
        BY <1>2 DEF Render, MigrationPodFails, MigrationDeadline, RolledBack, release
    <2>2. /\ step' \in {"migrate", "failed", "restored"} /\ step # "roll"
          /\ step' = "migrate" => step \in {"render", "migrate"}
        BY <1>2 DEF Render, MigrationPodFails, MigrationDeadline, RolledBack
    <2> QED BY <1>1, <2>1, <2>2 DEF DoomedInv, VerifySteps
<1>3. CASE Migrated
    BY <1>1, <1>3 DEF Migrated, DoomedInv, VerifySteps
<1>4. ~Rolled
    BY NoneReady DEF Rolled, Replicas
<1>5. CASE RollTimeout
    <2>1. pods' = pods /\ step' = "rollback" /\ target' = "old"
        BY <1>1, <1>5 DEF RollTimeout
    <2> QED BY <1>1, <2>1 DEF DoomedInv, VerifySteps
<1> QED BY <1>2, <1>3, <1>4, <1>5 DEF HelmStep

LEMMA OldKept == RolloutTypeOK /\ OldInv /\ [RolloutNext]_allVars => OldInv'
<1> SUFFICES ASSUME RolloutTypeOK, OldInv, [RolloutNext]_allVars, Doomed' PROVE DoomedInv'
    BY DEF OldInv
<1>1. Doomed /\ DoomedInv
    BY DoomedStays DEF OldInv
<1>2. CASE KubernetesStep
    BY <1>1, <1>2, CreateKeepsOld, ScaleDownKeepsOld, PodKeepsOld DEF KubernetesStep
<1>3. ~VerifyStep /\ ~DrillStep
    BY <1>1 DEF VerifyStep, Check, DrillStep, DoomedInv, VerifySteps
<1>4. CASE UNCHANGED allVars
    BY <1>1, <1>4 DEF allVars, vars, cluster, rolloutVars, helm, release, made, DoomedInv
<1> QED BY <1>1, <1>2, <1>3, <1>4, HelmKeepsOld DEF RolloutNext

LEMMA InitOld == RolloutInit => OldInv
<1> SUFFICES ASSUME RolloutInit, Doomed PROVE DoomedInv
    BY DEF OldInv
<1>1. installed
    BY DEF Doomed
<1>2. \A i \in {1, 2} : pods[i].life = "live" /\ pods[i].node = i /\ revision[i] = "old"
    BY <1>1, OldPodsAssumption DEF RolloutInit, Replicas, Live
<1>3. \A n \in Names \ {1, 2} : pods[n] = [life |-> "unborn", node |-> None, ready |-> FALSE]
    BY NamesAssumption DEF RolloutInit, Replicas
<1>4. Cardinality(room) = Replicas => room = {1, 2}
    <2>1. {1, 2} \subseteq room /\ room \subseteq Nodes
        BY SpareAssumption DEF RolloutInit
    <2>2. IsFiniteSet(room)
        BY <2>1, PairHasTwo, SpareAssumption, FS_Union, FS_Subset
    <2> QED BY <2>1, <2>2, PairHasTwo, FS_Subset DEF Replicas
<1>5. \A n \in Names : pods[n].life = "unborn" => ~pods[n].ready /\ config[n] = "none"
    BY <1>2, <1>3 DEF RolloutInit, Live
<1>6. \A n \in Names : revision[n] # "new"
    BY DEF RolloutInit
<1> QED BY <1>1, <1>2, <1>3, <1>4, <1>5, <1>6 DEF RolloutInit, Init, DoomedInv, VerifySteps

(* For any values, names and nodes: a release that its pods refuse, or for  *)
(* which no node is free, costs the old release none of its pods            *)
(* (deployment.yaml:11-15, 41-48, deploy-challenge.sh:48-56).               *)
THEOREM OldPodsStayHolds == RolloutSpec => []OldPodsStay
<1>1. OldInv => OldPodsStay
    BY OldPodsAssumption DEF OldInv, Doomed, DoomedInv, OldPodsStay, Live
<1> QED BY <1>1, InitOld, OldKept, RolloutInitTypes, RolloutTypeKept, PTL DEF RolloutSpec

-----------------------------------------------------------------------------
(* What the verification sees. *)

Judged == VerifySteps \cup {"verified"}

(* The release is not on the cluster yet.                                   *)
Before ==
    /\ surplus = 0 /\ target # "new" /\ secret # "new"
    /\ \A n \in Names : revision[n] # "new"
    /\ installed => target = "old" /\ Live = {1, 2} /\ Of("old") = {1, 2}
    /\ ~installed => target = "none" /\ Live = {}

(* The other ReplicaSet has the pods it should have, so that it creates     *)
(* none, and a Ready pod of the new revision was started with its values.   *)
Rolling ==
    /\ target = "new" /\ secret = "new"
    /\ Cardinality(Others) = surplus
    /\ \A n \in Names : revision[n] = "new" =>
          /\ config[n] \in {"none", "new"}
          /\ pods[n].ready => config[n] = "new" /\ Accepts(values)

(* The new ReplicaSet is complete; its pods only lose their readiness.      *)
Complete ==
    /\ Accepts(values)
    /\ Cardinality(Of("new")) = Replicas
    /\ \A n \in Of("new") : config[n] = "new" /\ pods[n].node # None

ReleaseOK ==
    /\ PodsOK
    /\ \A n \in Names : pods[n].life = "unborn" => config[n] = "none"
    /\ step \in {"render", "migrate"} => Before
    /\ step \in {"roll"} \cup Judged => Rolling /\ Cardinality(Of("new")) <= Replicas
    /\ step \in Judged => Complete
    /\ step \in {"placed", "verified"} => Existing = Of("new")

(* helm and the verification are done when the drill has begun, and the     *)
(* release stays as they left it until the drill deletes a pod.             *)
ReleaseInv ==
    /\ main \in {"inventory", "delete"} => ReleaseOK
    /\ main # "inventory" => step \in {"deployed", "verified"}

LEMMA PodsFinite ==
    ASSUME NEW ns \in SUBSET Names
    PROVE  IsFiniteSet(ns) /\ Cardinality(ns) \in Nat
BY NamesAssumption, FS_Subset, FS_CardinalityType

LEMMA CreateKeepsRelease ==
    ASSUME RolloutTypeOK, ReleaseOK, NEW n \in Names, Create(n),
           UNCHANGED <<main, helm, installed, room, release, config>>
    PROVE  ReleaseOK'
<1>1. PICK rev : Born(n, rev) /\ (rev = target \/ Cardinality(Others) < surplus)
                 /\ (Cardinality(Others) < surplus
                     \/ (target # "none" /\ Cardinality(Of(target)) < Allowed))
    BY DEF Create
<1>2. UNCHANGED <<step, target, secret, values, config, surplus>>
    BY <1>1 DEF helm, release, Born
<1>3. /\ \A m \in Names : pods'[m].node = pods[m].node /\ pods'[m].ready = pods[m].ready
      /\ \A m \in Names \ {n} : pods'[m] = pods[m] /\ revision'[m] = revision[m]
      /\ pods[n].life = "unborn" /\ pods'[n].life = "live" /\ revision'[n] = rev
    BY <1>1 DEF Born, Change, RolloutTypeOK, TypeOK
<1>4. PodsOK' /\ \A m \in Names : pods'[m].life = "unborn" => config'[m] = "none"
    BY <1>2, <1>3 DEF ReleaseOK, PodsOK, Existing
<1>5. Allowed <= Replicas
    BY AllowedType DEF RolloutTypeOK, Replicas
<1>6. step \notin {"render", "migrate"}
    <2>1. SUFFICES ASSUME Before PROVE FALSE
        BY DEF ReleaseOK
    <2>2. ~(Cardinality(Others) < surplus)
        BY <2>1, NoneLacking DEF Before
    <2>3. target = "old" /\ Cardinality(Of(target)) = 2
        BY <1>1, <2>1, <2>2, PairHasTwo DEF Before, RolloutTypeOK
    <2> QED BY <1>1, <1>5, <2>2, <2>3, AllowedType DEF Replicas, RolloutTypeOK
<1>7. ASSUME step \in {"roll"} \cup Judged
      PROVE  step = "roll" /\ Rolling' /\ Cardinality(Of("new"))' <= Replicas
    <2>1. Rolling /\ Cardinality(Of("new")) <= Replicas
        BY <1>7 DEF ReleaseOK
    <2>2. Of("new") \subseteq Names /\ Others \subseteq Names
        BY DEF Of, Others, Live
    <2>3. ~(Cardinality(Others) < surplus)
        BY <2>1, <2>2, PodsFinite DEF Rolling
    <2>4. rev = "new" /\ Cardinality(Of("new")) < Replicas
        BY <1>1, <1>5, <2>1, <2>2, <2>3, PodsFinite, AllowedType
        DEF Rolling, Replicas, RolloutTypeOK
    <2>5. step = "roll"
        BY <1>7, <2>2, <2>4, PodsFinite DEF ReleaseOK, Complete, Replicas
    <2>6. Others' = Others
        BY <1>2, <1>3, <2>1, <2>4 DEF Others, Live, Rolling
    <2>7. Of("new")' = Of("new") \cup {n} /\ n \notin Of("new")
        BY <1>3, <2>4 DEF Of, Live
    <2>8. Cardinality(Of("new"))' <= Replicas
        BY <2>2, <2>4, <2>7, PodsFinite, FS_AddElement DEF Replicas
    <2>9. config[n] = "none" /\ ~pods[n].ready
        BY <1>3 DEF ReleaseOK, PodsOK
    <2> QED BY <1>2, <1>3, <2>1, <2>5, <2>6, <2>8, <2>9 DEF Rolling
<1> QED BY <1>2, <1>4, <1>6, <1>7 DEF ReleaseOK, Judged, VerifySteps

LEMMA ScaleDownKeepsRelease ==
    ASSUME RolloutTypeOK, ReleaseOK, ScaleDown,
           UNCHANGED <<main, helm, installed, room, release, config>>
    PROVE  ReleaseOK'
<1>1. UNCHANGED <<step, target, secret, values, config, revision>>
      /\ surplus > 0 /\ surplus' = surplus - 1
    BY DEF helm, release, ScaleDown
<1> DEFINE Kept ==
        /\ \A m \in Names : pods'[m].node = pods[m].node /\ pods'[m].ready = pods[m].ready
        /\ Existing' = Existing
        /\ \A m \in Names : pods'[m].life = "unborn" => pods[m].life = "unborn"
        /\ \/ Cardinality(Others) < surplus /\ pods' = pods
           \/ \E n \in Others : /\ \A m \in Names \ {n} : pods'[m] = pods[m]
                                /\ pods[n].life = "live" /\ pods'[n].life = "deleting"
<1>2. Kept
    <2>1. CASE Cardinality(Others) < surplus /\ UNCHANGED pods
        BY <2>1 DEF Existing
    <2>2. ASSUME NEW n \in Others, Change(n, [pods[n] EXCEPT !.life = "deleting"])
          PROVE  Kept
        <3>1. n \in Names /\ pods[n].life = "live"
            BY DEF Others, Live
        <3>2. /\ \A m \in Names \ {n} : pods'[m] = pods[m]
              /\ pods'[n] = [pods[n] EXCEPT !.life = "deleting"]
              /\ pods[n] \in [life : Lives, node : Nodes \cup {None}, ready : BOOLEAN]
            BY <2>2, <3>1 DEF Change, RolloutTypeOK, TypeOK
        <3>3. /\ pods'[n].node = pods[n].node /\ pods'[n].ready = pods[n].ready
              /\ pods'[n].life = "deleting"
            BY <3>2
        <3> QED BY <3>1, <3>2, <3>3 DEF Existing
    <2>3. \/ Cardinality(Others) < surplus /\ UNCHANGED pods
          \/ \E n \in Others : Change(n, [pods[n] EXCEPT !.life = "deleting"])
        BY Zenon DEF ScaleDown
    <2> QED BY <2>1, <2>2, <2>3
<1>3. PodsOK' /\ \A m \in Names : pods'[m].life = "unborn" => config'[m] = "none"
    <2>1. /\ \A m \in Names : pods'[m].node = pods[m].node /\ pods'[m].ready = pods[m].ready
          /\ Existing' = Existing /\ Existing \subseteq Names
          /\ \A m \in Names : pods'[m].life = "unborn" => pods[m].life = "unborn"
        BY <1>2 DEF Existing
    <2>2. PodsOK'
        BY <2>1 DEF ReleaseOK, PodsOK
    <2> QED BY <1>1, <2>1, <2>2 DEF ReleaseOK
<1>4. step \notin {"render", "migrate"}
    BY <1>1 DEF ReleaseOK, Before
<1>5. ASSUME step \in {"roll"} \cup Judged
      PROVE  Rolling' /\ Of("new")' = Of("new")
    <2>1. Rolling
        BY <1>5 DEF ReleaseOK
    <2>2. Others \subseteq Names
        BY DEF Others, Live
    <2>3. PICK n \in Others : /\ \A m \in Names \ {n} : pods'[m] = pods[m]
                              /\ pods[n].life = "live" /\ pods'[n].life = "deleting"
        BY <1>2, <2>1, <2>2, PodsFinite DEF Rolling
    <2>4. Others' = Others \ {n} /\ Of("new")' = Of("new")
        BY <1>1, <2>1, <2>3 DEF Others, Of, Live, Rolling
    <2>5. Cardinality(Others') = surplus'
        BY <1>1, <2>1, <2>2, <2>4, PodsFinite, FS_RemoveElement DEF Rolling
    <2> QED BY <1>1, <1>2, <2>1, <2>4, <2>5 DEF Rolling
<1>6. step \in Judged => Complete'
    <2> SUFFICES ASSUME step \in Judged, Complete, Of("new")' = Of("new") PROVE Complete'
        BY <1>5 DEF ReleaseOK
    <2>1. \A n \in Of("new") : pods'[n].node = pods[n].node
        BY <1>2 DEF Of, Live
    <2> QED BY <1>1, <2>1 DEF Complete
<1>7. Existing' = Existing
    BY <1>2
<1> QED BY <1>1, <1>3, <1>4, <1>5, <1>6, <1>7 DEF ReleaseOK, Judged, VerifySteps

LEMMA PodKeepsRelease ==
    ASSUME RolloutTypeOK, ReleaseOK, NEW n \in Names,
           \/ StartContainer(n)
           \/ (Probed(n) \/ PodGoes(n) \/ \E node \in room : Schedule(n, node))
              /\ UNCHANGED rolloutVars
    PROVE  ReleaseOK'
<1>1. pods[n] \in [life : Lives, node : Nodes \cup {None}, ready : BOOLEAN]
    BY DEF RolloutTypeOK, TypeOK
<1> DEFINE Kept ==
        /\ UNCHANGED <<step, target, secret, values, installed, revision, surplus>>
        /\ PodsOK'
        /\ \A m \in Names : pods'[m].life = "live" <=> pods[m].life = "live"
        /\ \A m \in Names : pods'[m].life = "unborn" <=> pods[m].life = "unborn"
        /\ \A m \in Names : pods[m].node # None => pods'[m].node = pods[m].node
        /\ Existing' \subseteq Existing
        /\ \A m \in Names : \/ config'[m] = config[m]
                            \/ config'[m] = secret /\ ~pods'[m].ready /\ pods[m].life # "unborn"
        /\ \A m \in Names : pods'[m].ready =>
              pods[m].ready \/ (config'[m] = config[m] /\ Sound(config[m]))
<1> HIDE DEF Kept
<1>2. ASSUME StartContainer(n)
      PROVE  Kept
    <2>1. /\ \A m \in Names \ {n} : pods'[m] = pods[m] /\ config'[m] = config[m]
          /\ pods'[n] = [pods[n] EXCEPT !.ready = FALSE] /\ config'[n] = secret
          /\ pods[n].life = "live"
        BY <1>2 DEF StartContainer, Change, RolloutTypeOK, TypeOK, Live
    <2>2. UNCHANGED <<step, target, secret, values, installed, revision, surplus>>
        BY <1>2 DEF StartContainer, helm, release, made
    <2>3. /\ \A m \in Names : pods'[m].node = pods[m].node /\ pods'[m].life = pods[m].life
          /\ \A m \in Names : pods'[m].ready => pods[m].ready
          /\ ~pods'[n].ready
        BY <1>1, <2>1
    <2>4. PodsOK' /\ Existing' = Existing
        BY <2>3 DEF ReleaseOK, PodsOK, Existing
    <2> QED BY <2>1, <2>2, <2>3, <2>4 DEF Kept
<1>3. ASSUME Probed(n) /\ UNCHANGED rolloutVars
      PROVE  Kept
    <2>1. /\ \A m \in Names \ {n} : pods'[m] = pods[m]
          /\ pods'[n] = [pods[n] EXCEPT !.ready = ~@]
          /\ n \in Existing /\ pods[n].node # None
          /\ pods'[n].ready => Sound(config[n])
        BY <1>3 DEF Probed, Probe, Change, RolloutTypeOK, TypeOK
    <2>2. UNCHANGED <<step, target, secret, values, installed, revision, config, surplus>>
        BY <1>3 DEF Probed, Probe, rolloutVars, helm, release, made
    <2>3. /\ \A m \in Names : pods'[m].node = pods[m].node /\ pods'[m].life = pods[m].life
          /\ \A m \in Names : pods'[m].ready => pods[m].ready \/ (m = n /\ Sound(config[n]))
        BY <1>1, <2>1
    <2>4. PodsOK' /\ Existing' = Existing
        BY <2>1, <2>3 DEF ReleaseOK, PodsOK, Existing
    <2>5. Sound(config[n]) => Sound(config'[n])
        BY <2>2
    <2> QED BY <2>2, <2>3, <2>4, <2>5 DEF Kept
<1>4. ASSUME PodGoes(n) /\ UNCHANGED rolloutVars
      PROVE  Kept
    <2>1. /\ \A m \in Names \ {n} : pods'[m] = pods[m]
          /\ pods'[n] = [pods[n] EXCEPT !.life = "gone", !.ready = FALSE]
          /\ pods[n].life = "deleting"
        BY <1>4 DEF PodGoes, Change, RolloutTypeOK, TypeOK
    <2>2. UNCHANGED <<step, target, secret, values, installed, revision, config, surplus>>
        BY <1>4 DEF PodGoes, rolloutVars, helm, release, made
    <2>3. /\ \A m \in Names : pods'[m].node = pods[m].node
          /\ \A m \in Names : pods'[m].ready => pods[m].ready
          /\ pods'[n].life = "gone"
        BY <1>1, <2>1
    <2>4. Existing' \subseteq Existing /\ Existing \subseteq Names
        BY <2>1, <2>3 DEF Existing
    <2>5. \A m \in Names : pods'[m].life = "unborn" => pods[m].life = "unborn"
        BY <2>1, <2>3
    <2>6. PodsOK'
        BY <2>3, <2>4, <2>5 DEF ReleaseOK, PodsOK
    <2>7. \A m \in Names : pods'[m].life = "live" <=> pods[m].life = "live"
        BY <2>1, <2>3
    <2>8. \A m \in Names : pods'[m].life = "unborn" <=> pods[m].life = "unborn"
        BY <2>1, <2>3
    <2> QED BY <2>2, <2>3, <2>4, <2>6, <2>7, <2>8 DEF Kept
<1>5. ASSUME (\E node \in room : Schedule(n, node)) /\ UNCHANGED rolloutVars
      PROVE  Kept
    <2>1. PICK node \in room : Schedule(n, node)
        BY <1>5
    <2>2. /\ \A m \in Names \ {n} : pods'[m] = pods[m]
          /\ pods'[n] = [pods[n] EXCEPT !.node = node]
          /\ pods[n].node = None
        BY <2>1 DEF Schedule, Change, RolloutTypeOK, TypeOK
    <2>3. UNCHANGED <<step, target, secret, values, installed, revision, config, surplus>>
        BY <1>5, <2>1 DEF Schedule, rolloutVars, helm, release, made
    <2>4. ClusterStep
        BY <2>1 DEF ClusterStep, RolloutTypeOK
    <2>5. PodsOK'
        BY <2>4, ClusterKeeps DEF ReleaseOK, RolloutTypeOK
    <2>6. \A m \in Names : pods'[m].life = pods[m].life /\ pods'[m].ready = pods[m].ready
        BY <1>1, <2>2
    <2>7. Existing' = Existing
        BY <2>6 DEF Existing
    <2> QED BY <2>2, <2>3, <2>5, <2>6, <2>7 DEF Kept
<1>6. Kept
    BY <1>2, <1>3, <1>4, <1>5
<1>7. Live' = Live /\ Others' = Others /\ Of("new")' = Of("new") /\ Of("old")' = Of("old")
    BY <1>6 DEF Kept, Live, Others, Of
<1>8. step \in {"render", "migrate"} => Before'
    BY <1>6, <1>7 DEF Kept, ReleaseOK, Before
<1>9. Rolling => Rolling'
    <2> SUFFICES ASSUME Rolling, NEW m \in Names, revision[m] = "new"
                 PROVE  /\ config'[m] \in {"none", "new"}
                        /\ pods'[m].ready => config'[m] = "new" /\ Accepts(values)
        BY <1>6, <1>7 DEF Kept, Rolling
    <2>1. config'[m] \in {"none", "new"}
        BY <1>6 DEF Kept, Rolling
    <2>2. CASE pods'[m].ready /\ pods[m].ready
        BY <1>6, <2>2 DEF Kept, Rolling
    <2>3. CASE pods'[m].ready /\ ~pods[m].ready
        BY <1>6, <2>1, <2>3 DEF Kept, Sound
    <2> QED BY <2>1, <2>2, <2>3
<1>10. Rolling /\ Complete => Complete'
    <2> SUFFICES ASSUME Rolling, Complete, NEW m \in Of("new")
                 PROVE  config'[m] = "new" /\ pods'[m].node # None
        BY <1>6, <1>7 DEF Kept, Complete
    <2>1. m \in Names
        BY DEF Of, Live
    <2> QED BY <1>6, <2>1 DEF Kept, Complete, Rolling
<1>11. Existing = Of("new") => Existing' = Of("new")'
    BY <1>6, <1>7 DEF Kept, Existing, Of, Live
<1>12. \A m \in Names : pods'[m].life = "unborn" => config'[m] = "none"
    BY <1>6 DEF Kept, ReleaseOK
<1>13. PodsOK' /\ step' = step
    BY <1>6 DEF Kept
<1> QED BY <1>7, <1>8, <1>9, <1>10, <1>11, <1>12, <1>13 DEF ReleaseOK, Judged

(* helm reports a release deployed when the new ReplicaSet is complete.     *)
LEMMA RolledIsComplete ==
    ASSUME RolloutTypeOK, ReleaseOK, Rolled
    PROVE  Complete
<1>1. Rolling /\ Cardinality(Of("new")) <= Replicas /\ Cardinality(ReadyOf("new")) = Replicas
    BY DEF Rolled, ReleaseOK
<1>2. Of("new") \in SUBSET Names /\ ReadyOf("new") \in SUBSET Of("new")
    BY DEF ReadyOf, Of, Live
<1>3. Of("new") = ReadyOf("new") /\ Cardinality(Of("new")) = Replicas
    BY <1>1, <1>2, PodsFinite, FS_Subset DEF Replicas
<1>4. Of("new") # {}
    BY <1>3, FS_EmptySet DEF Replicas
<1>5. \A n \in Of("new") : n \in Names /\ revision[n] = "new" /\ pods[n].ready
    BY <1>3 DEF ReadyOf, Of, Live
<1>6. \A n \in Of("new") : config[n] = "new" /\ Accepts(values) /\ pods[n].node # None
    BY <1>1, <1>5 DEF Rolling, ReleaseOK, PodsOK
<1> QED BY <1>3, <1>4, <1>6 DEF Complete

LEMMA HelmKeepsRelease ==
    ASSUME RolloutTypeOK, ReleaseOK, HelmStep
    PROVE  ReleaseOK'
<1>1. UNCHANGED <<main, room, revision, config, installed, values>>
    BY Zenon DEF HelmStep, Render, MigrationPodFails, MigrationDeadline, Migrated,
        Rolled, RollTimeout, RolledBack
<1>2. ASSUME pods' = pods
      PROVE  /\ PodsOK' /\ Live' = Live /\ Of("new")' = Of("new") /\ Of("old")' = Of("old")
             /\ \A n \in Names : pods'[n].life = "unborn" => config'[n] = "none"
    BY <1>1, <1>2 DEF ReleaseOK, PodsOK, Existing, Live, Of
<1>3. CASE Render \/ MigrationPodFails \/ MigrationDeadline \/ RolledBack
    <2>1. UNCHANGED <<pods, target, secret, surplus>>
        BY <1>3 DEF Render, MigrationPodFails, MigrationDeadline, RolledBack, release
    <2>2. /\ step' \in {"migrate", "failed", "restored"}
          /\ step' = "migrate" => step \in {"render", "migrate"}
        BY <1>3 DEF Render, MigrationPodFails, MigrationDeadline, RolledBack
    <2>3. Before => Before'
        BY <1>1, <1>2, <2>1 DEF Before
    <2> QED BY <1>2, <2>1, <2>2, <2>3 DEF ReleaseOK, Judged, VerifySteps
<1>4. CASE Migrated
    <2>1. /\ pods' = pods /\ target' = "new" /\ secret' = "new" /\ step' = "roll"
          /\ surplus' = Replaced /\ Before
        BY <1>4 DEF Migrated, ReleaseOK
    <2>2. Others' = Live /\ Of("new")' = {}
        BY <1>1, <2>1 DEF Others, Of, Live, Before
    <2>3. Cardinality(Live) = Replaced
        BY <2>1, PairHasTwo, FS_EmptySet DEF Before, Replaced, Replicas
    <2>4. Rolling'
        BY <1>1, <2>1, <2>2, <2>3 DEF Rolling, Before
    <2>5. Cardinality(Of("new"))' <= Replicas
        BY <2>2, FS_EmptySet DEF Replicas
    <2> QED BY <1>2, <2>1, <2>4, <2>5 DEF ReleaseOK, Judged, VerifySteps
<1>5. CASE Rolled
    <2>1. UNCHANGED <<pods, target, secret, surplus>> /\ step = "roll" /\ step' = "deployed"
        BY <1>5 DEF Rolled, release
    <2>2. Rolling' /\ Complete'
        BY <1>1, <1>2, <1>5, <2>1, RolledIsComplete DEF ReleaseOK, Rolling, Others, Complete, Live
    <2> QED BY <1>2, <2>1, <2>2 DEF ReleaseOK, Complete, Judged, VerifySteps
<1>6. CASE RollTimeout
    <2>1. step' \in {"rollback", "failed"}
        BY <1>6 DEF RollTimeout
    <2>2. CASE pods' = pods
        BY <1>2, <2>1, <2>2 DEF ReleaseOK, Judged, VerifySteps
    <2>3. CASE pods' = [n \in Names |->
                          IF n \in Live THEN [pods[n] EXCEPT !.life = "deleting"] ELSE pods[n]]
        <3>1. \A n \in Names : pods[n] \in [life : Lives, node : Nodes \cup {None}, ready : BOOLEAN]
            BY DEF RolloutTypeOK, TypeOK
        <3>2. \A n \in Names :
                /\ pods'[n].node = pods[n].node /\ pods'[n].ready = pods[n].ready
                /\ pods'[n].life = IF pods[n].life = "live" THEN "deleting" ELSE pods[n].life
            BY <2>3, <3>1 DEF Live
        <3>3. Existing' = Existing /\ Existing \subseteq Names
            BY <3>2 DEF Existing
        <3>4. \A n \in Names : pods'[n].life = "unborn" => pods[n].life = "unborn"
            BY <3>2
        <3>5. PodsOK'
            BY <3>2, <3>3, <3>4 DEF ReleaseOK, PodsOK
        <3> QED BY <1>1, <2>1, <3>4, <3>5 DEF ReleaseOK, Judged, VerifySteps
    <2> QED BY <1>6, <2>2, <2>3 DEF RollTimeout
<1> QED BY <1>3, <1>4, <1>5, <1>6 DEF HelmStep

(* The pods of the new ReplicaSet are on distinct nodes.                    *)
LEMMA CompleteIsOnTwoNodes ==
    ASSUME PodsOK, Complete
    PROVE  Cardinality(NodesOf(Of("new"))) = 2
<1> DEFINE place == [n \in Of("new") |-> pods[n].node]
<1>1. IsFiniteSet(Of("new"))
    BY PodsFinite DEF Of, Live
<1>2. Of("new") \subseteq Existing
    BY DEF Of, Live, Existing
<1>3. place \in Bijection(Of("new"), NodesOf(Of("new")))
    BY <1>2 DEF Bijection, Injection, Surjection, IsInjective, NodesOf, PodsOK, Complete
<1>4. ExistsBijection(Of("new"), NodesOf(Of("new")))
    BY <1>3 DEF ExistsBijection
<1> QED BY <1>1, <1>4, FS_Bijection DEF Complete, Replicas

(* Two nodes in all leave no room for a pod beside the two of the release.  *)
LEMMA PlacedIsAll ==
    ASSUME PodsOK, Complete, Placed
    PROVE  Existing = Of("new")
<1>1. Of("new") \subseteq Existing /\ Existing \in SUBSET Names
    BY DEF Of, Live, Existing
<1>2. NodesOf(Of("new")) \subseteq NodesOf(Existing)
    BY <1>1 DEF NodesOf
<1>3. IsFiniteSet(NodesOf(Existing))
    <2> DEFINE place == [n \in Existing |-> pods[n].node]
    <2>1. place \in Surjection(Existing, NodesOf(Existing))
        BY DEF Surjection, NodesOf
    <2> QED BY <1>1, <2>1, PodsFinite, FS_Surjection
<1>4. NodesOf(Of("new")) = NodesOf(Existing)
    BY <1>2, <1>3, CompleteIsOnTwoNodes, FS_Subset DEF Placed
<1>5. ASSUME NEW e \in Existing PROVE e \in Of("new")
    <2>1. PICK n \in Of("new") : pods[n].node = pods[e].node
        BY <1>4 DEF NodesOf
    <2>2. pods[n].node # None /\ n \in Existing
        BY <1>1 DEF Complete
    <2> QED BY <2>1, <2>2 DEF PodsOK
<1> QED BY <1>1, <1>5

LEMMA VerifyKeepsRelease ==
    ASSUME RolloutTypeOK, ReleaseOK, VerifyStep
    PROVE  ReleaseOK'
<1>1. UNCHANGED <<pods, values, installed, secret, target, surplus, revision, config>>
    BY DEF VerifyStep, vars, cluster, release, made
<1>2. /\ PodsOK' /\ Existing' = Existing /\ Of("new")' = Of("new")
      /\ Rolling => Rolling'
      /\ Complete => Complete'
      /\ \A n \in Names : pods'[n].life = "unborn" => config'[n] = "none"
    BY <1>1 DEF ReleaseOK, PodsOK, Existing, Of, Live, Rolling, Others, Complete
<1>3. step \in Judged /\ step' \in Judged \cup {"rejected"}
      /\ (step' = "placed" => Placed) /\ (step' = "verified" => step = "placed")
    BY DEF VerifyStep, Check, Judged, VerifySteps
<1>4. Complete /\ Rolling /\ Cardinality(Of("new")) <= Replicas /\ PodsOK
    BY <1>3 DEF ReleaseOK
<1>5. step' \in {"placed", "verified"} => Existing = Of("new")
    BY <1>3, <1>4, PlacedIsAll DEF ReleaseOK
<1> QED BY <1>2, <1>3, <1>4, <1>5 DEF ReleaseOK, Judged, VerifySteps

LEMMA KubernetesKeepsRelease ==
    ASSUME RolloutTypeOK, ReleaseOK, KubernetesStep
    PROVE  ReleaseOK'
BY CreateKeepsRelease, ScaleDownKeepsRelease, PodKeepsRelease, SMTT(40) DEF KubernetesStep

LEMMA KubernetesStays ==
    ASSUME KubernetesStep
    PROVE  UNCHANGED <<Drill, step, values, schema, secret, target>>
BY DEF KubernetesStep, StartContainer, Probed, Probe, PodGoes, Schedule, rolloutVars, helm, release,
       Drill

(* helm has ended before the drill begins. *)
LEMMA HelmBeforeDrill ==
    ASSUME ReleaseInv, HelmStep
    PROVE  main = "inventory" /\ main' = "inventory"
BY DEF ReleaseInv, HelmStep, Render, MigrationPodFails, MigrationDeadline, Migrated, Rolled,
       RollTimeout, RolledBack

LEMMA ReleaseKept == RolloutTypeOK /\ ReleaseInv /\ [RolloutNext]_allVars => ReleaseInv'
<1> SUFFICES ASSUME RolloutTypeOK, ReleaseInv, [RolloutNext]_allVars
             PROVE  ReleaseInv'
    OBVIOUS
<1>1. CASE KubernetesStep
    BY <1>1, KubernetesKeepsRelease, KubernetesStays DEF Drill, ReleaseInv
<1>2. CASE HelmStep
    BY <1>2, HelmKeepsRelease, HelmBeforeDrill DEF ReleaseInv
<1>3. CASE VerifyStep
    <2>1. main = "inventory" /\ main' = "inventory"
        BY <1>3 DEF VerifyStep, vars
    <2> QED BY <1>3, <2>1, VerifyKeepsRelease DEF ReleaseInv
<1>4. CASE DrillStep \/ UNCHANGED allVars
    <2>1. /\ UNCHANGED rolloutVars
          /\ main' \in {"inventory", "delete"} => main \in {"inventory", "delete"} /\ pods' = pods
        BY <1>4 DEF DrillStep, MainStep, Inventory, DeletePod, Poll, GiveUp, CommandFails, Settle,
               Join, Sum, Report, TrafficStep, Send, Answered, CutOff, Leave, cluster, allVars, vars
    <2>2. main' # "inventory" => step' \in {"deployed", "verified"}
        BY <1>4, <2>1 DEF DrillStep, ReleaseInv, rolloutVars, helm, allVars, vars
    <2>3. ASSUME main' \in {"inventory", "delete"} PROVE ReleaseOK'
        <3>1. UNCHANGED <<pods, step, installed, values, secret, target, surplus, revision, config>>
            BY <2>1, <2>3 DEF rolloutVars, helm, release, made
        <3>2. ReleaseOK
            BY <2>1, <2>3 DEF ReleaseInv
        <3>3. /\ PodsOK' = PodsOK /\ Existing' = Existing /\ Live' = Live /\ Others' = Others
              /\ Of("new")' = Of("new") /\ Of("old")' = Of("old")
            BY <3>1 DEF PodsOK, Existing, Live, Others, Of
        <3>4. Before' = Before /\ Rolling' = Rolling /\ Complete' = Complete
            BY <3>1, <3>3 DEF Before, Rolling, Complete
        <3> QED BY <3>1, <3>2, <3>3, <3>4 DEF ReleaseOK
    <2> QED BY <2>2, <2>3 DEF ReleaseInv
<1> QED BY <1>1, <1>2, <1>3, <1>4 DEF RolloutNext

LEMMA InitRelease == RolloutInit => ReleaseInv
<1> SUFFICES ASSUME RolloutInit PROVE ReleaseOK
    BY DEF ReleaseInv, RolloutInit, Init
<1>1. PodsOK
    BY InitDrill DEF RolloutInit, DrillInv, DrillCore
<1>2. installed => Live = {1, 2}
    <2> SUFFICES ASSUME installed PROVE Live = {1, 2}
        OBVIOUS
    <2>1. \A i \in {1, 2} : pods[i].life = "live"
        BY OldPodsAssumption DEF RolloutInit, Replicas
    <2>2. \A n \in Names \ {1, 2} : pods[n] = [life |-> "unborn", node |-> None, ready |-> FALSE]
        BY NamesAssumption DEF RolloutInit, Replicas
    <2> QED BY <2>1, <2>2, OldPodsAssumption DEF Live
<1>3. ~installed => Live = {}
    BY DEF RolloutInit, Live
<1>4. \A n \in Names : revision[n] # "new" /\ (pods[n].life = "unborn" => config[n] = "none")
    BY DEF RolloutInit, Live
<1>5. Of("old") = Live
    BY DEF RolloutInit, Of, Live
<1> QED BY <1>1, <1>2, <1>3, <1>4, <1>5
        DEF RolloutInit, ReleaseOK, Before, Judged, VerifySteps

(* For any values, names and nodes, what verify-challenge.sh has accepted   *)
(* are two pods of the release on two nodes, with its values, and no others *)
(* (verify-challenge.sh:54-69).                                             *)
THEOREM VerifiedIsRealHolds == RolloutSpec => []VerifiedIsReal
<1>1. ReleaseInv => VerifiedIsReal
    BY CompleteIsOnTwoNodes DEF ReleaseInv, ReleaseOK, Complete, Judged, Replicas, VerifiedIsReal
<1> QED BY <1>1, InitRelease, ReleaseKept, RolloutInitTypes, RolloutTypeKept, PTL DEF RolloutSpec

-----------------------------------------------------------------------------
(* The drill, on the pods that helm and the verification left.              *)

(* A complete ReplicaSet beside one that has what it should have makes no   *)
(* pod, though the rollout may still be scaling the other one down.         *)
LEMMA NoneCreated ==
    ASSUME RolloutTypeOK, ReleaseOK, step \in Judged, NEW n \in Names, Create(n)
    PROVE  FALSE
<1>1. Rolling /\ Complete
    BY DEF ReleaseOK
<1>2. Of("new") \subseteq Names /\ Others \subseteq Names
    BY DEF Of, Others, Live
<1>3. ~(Cardinality(Others) < surplus)
    BY <1>1, <1>2, PodsFinite DEF Rolling
<1>4. Cardinality(Of("new")) < Allowed
    BY <1>1, <1>3 DEF Create, Rolling
<1>5. Allowed <= Replicas /\ Allowed \in Int
    BY AllowedType DEF RolloutTypeOK, Replicas
<1> QED BY <1>1, <1>4, <1>5 DEF Complete, Replicas

(* The pods under a rollout keep what they keep under a settled Deployment. *)
LEMMA KubernetesKeeps ==
    ASSUME RolloutTypeOK, PodsOK, KubernetesStep
    PROVE  /\ PodsOK'
           /\ \A n \in Names : pods[n].node # None => pods'[n].node = pods[n].node
           /\ \A n \in Names : pods[n].life = "gone" => pods'[n].life = "gone"
           /\ Ever \subseteq Ever'
           /\ Existing' \cap Ever \subseteq Existing
           /\ (~\E n \in Names : Create(n)) => Existing' \subseteq Existing
<1> DEFINE Goal ==
        /\ PodsOK'
        /\ \A n \in Names : pods[n].node # None => pods'[n].node = pods[n].node
        /\ \A n \in Names : pods[n].life = "gone" => pods'[n].life = "gone"
        /\ Ever \subseteq Ever'
        /\ Existing' \cap Ever \subseteq Existing
<1>1. ASSUME NEW n \in Names, Create(n)
      PROVE  Goal
    <2>1. PICK rev : Born(n, rev)
        BY <1>1 DEF Create
    <2>2. /\ \A m \in Names : pods'[m].node = pods[m].node /\ pods'[m].ready = pods[m].ready
          /\ pods[n].life = "unborn" /\ pods'[n].life = "live"
          /\ \A m \in Names \ {n} : pods'[m] = pods[m]
        BY <2>1 DEF Born, Change, RolloutTypeOK, TypeOK
    <2> QED BY <2>2 DEF PodsOK, Existing, Ever
<1>2. ASSUME NEW n \in Names, NEW pod \in Pod, Change(n, pod),
             pod.node = pods[n].node, pod.ready => pods[n].ready,
             pods[n].life = "live", pod.life \in {"live", "deleting"}
      PROVE  Goal /\ Existing' = Existing
    <2>1. /\ \A m \in Names : pods'[m].node = pods[m].node
          /\ \A m \in Names : pods'[m].ready => pods[m].ready
          /\ pods'[n].life \in {"live", "deleting"}
          /\ \A m \in Names \ {n} : pods'[m] = pods[m]
        BY <1>2 DEF Change, RolloutTypeOK, TypeOK
    <2>2. Existing' = Existing /\ Ever' = Ever
        BY <1>2, <2>1 DEF Existing, Ever
    <2>3. \A m \in Names : (pods[m].life = "gone" => pods'[m].life = "gone")
                         /\ (pods'[m].life = "unborn" => pods[m].life = "unborn")
        BY <1>2, <2>1
    <2>4. PodsOK'
        BY <2>1, <2>2, <2>3 DEF PodsOK, Existing
    <2> QED BY <2>1, <2>2, <2>3, <2>4
<1>3. ASSUME ScaleDown
      PROVE  Goal /\ Existing' = Existing
    <2>1. CASE pods' = pods
        BY <2>1 DEF PodsOK, Existing, Ever
    <2>2. ASSUME NEW n \in Others, Change(n, [pods[n] EXCEPT !.life = "deleting"])
          PROVE  Goal /\ Existing' = Existing
        <3> DEFINE pod == [pods[n] EXCEPT !.life = "deleting"]
        <3>1. n \in Names /\ pods[n].life = "live" /\ pods[n] \in Pod
            BY DEF Others, Live, RolloutTypeOK, TypeOK, Pod
        <3>2. /\ pod \in Pod /\ pod.node = pods[n].node /\ pod.ready = pods[n].ready
              /\ pod.life = "deleting"
            BY <3>1 DEF Pod, Lives
        <3> HIDE DEF pod, Goal
        <3>3. Change(n, pod)
            BY <2>2 DEF pod
        <3> QED BY <1>2, <3>1, <3>2, <3>3
    <2>3. pods' = pods \/ \E n \in Others : Change(n, [pods[n] EXCEPT !.life = "deleting"])
        BY <1>3, Zenon DEF ScaleDown
    <2> QED BY <2>1, <2>2, <2>3
<1>4. ASSUME NEW n \in Names, StartContainer(n)
      PROVE  Goal /\ Existing' = Existing
    <2> DEFINE pod == [pods[n] EXCEPT !.ready = FALSE]
    <2>1. pods[n].life = "live" /\ pods[n] \in Pod
        BY <1>4 DEF StartContainer, Live, RolloutTypeOK, TypeOK, Pod
    <2>2. /\ pod \in Pod /\ pod.node = pods[n].node /\ pod.ready = FALSE
          /\ pod.life = "live"
        BY <2>1 DEF Pod, Lives
    <2>3. Change(n, [pods[n] EXCEPT !.ready = FALSE])
        BY <1>4, Zenon DEF StartContainer
    <2> HIDE DEF pod, Goal
    <2>4. Change(n, pod)
        BY <2>3 DEF pod
    <2> QED BY <1>2, <2>1, <2>2, <2>4
<1>5. ASSUME NEW n \in Names, Probed(n) \/ PodGoes(n) \/ \E node \in room : Schedule(n, node)
      PROVE  Goal /\ Existing' \subseteq Existing
    <2>1. Probe(n) \/ PodGoes(n) \/ \E node \in Nodes : Schedule(n, node)
        BY <1>5 DEF Probed, RolloutTypeOK
    <2>2. Goal
        BY <2>1, ClusterKeeps DEF ClusterStep, RolloutTypeOK
    <2>3. n \in Existing /\ \A m \in Names \ {n} : pods'[m] = pods[m]
        BY <2>1 DEF Probe, PodGoes, Schedule, Change, Existing, RolloutTypeOK, TypeOK
    <2> QED BY <2>2, <2>3 DEF Existing
<1> HIDE DEF Goal
<1>6. Goal /\ ((\E n \in Names : Create(n)) \/ Existing' \subseteq Existing)
    BY <1>1, <1>3, <1>4, <1>5 DEF KubernetesStep
<1> QED BY <1>6 DEF Goal

LEMMA RolloutKeepsDrill ==
    RolloutTypeOK /\ ReleaseInv /\ DrillCore /\ [RolloutNext]_allVars => DrillCore'
<1> SUFFICES ASSUME RolloutTypeOK, ReleaseInv, DrillCore, [RolloutNext]_allVars
             PROVE  DrillCore'
    OBVIOUS
<1>1. TypeOK /\ PodsOK
    BY DEF RolloutTypeOK, DrillCore
<1>2. CASE KubernetesStep
    <2>1. UNCHANGED Beside
        BY <1>2, KubernetesStays DEF Drill, Beside
    <2>2. main = "delete" => Existing' \subseteq Existing
        <3> SUFFICES ASSUME main = "delete" PROVE Existing' \subseteq Existing
            OBVIOUS
        <3>1. ReleaseOK /\ step \in Judged
            BY DEF ReleaseInv, Judged, VerifySteps
        <3>2. ~\E n \in Names : Create(n)
            BY <3>1, NoneCreated
        <3> QED BY <1>1, <1>2, <3>2, KubernetesKeeps
    <2> QED BY <1>1, <1>2, <2>1, <2>2, KubernetesKeeps, PodsKeepDrill
<1>3. CASE HelmStep
    <2>1. /\ main = "inventory" /\ main' = "inventory"
          /\ UNCHANGED <<before, deleted, after, recovered, extant, report>>
        BY <1>3, HelmBeforeDrill DEF HelmStep, drill, result
    <2>2. PodsOK'
        BY <1>3, <2>1, HelmKeepsRelease DEF ReleaseInv, ReleaseOK
    <2> QED BY <2>1, <2>2 DEF DrillCore
<1>4. CASE VerifyStep \/ DrillStep \/ UNCHANGED allVars
    <2>1. MainStep \/ TrafficStep \/ UNCHANGED vars
        BY <1>4 DEF VerifyStep, DrillStep, allVars
    <2> QED BY <1>1, <2>1, DrillKeepsCore
<1> QED BY <1>2, <1>3, <1>4 DEF RolloutNext

(* Also after a rollout the recovery a drill reports is of its own making:  *)
(* it never takes for the replacement a pod that the rollout made, nor for  *)
(* its deletion one of an old pod that is still going                       *)
(* (deploy-challenge.sh:54-56, verify-pod-recovery.py:94-98, 152-159).      *)
THEOREM RecoveryIsCausedInRollout == RolloutSpec => []RecoveryIsCaused
<1>1. RolloutInit => DrillCore
    BY InitDrill DEF RolloutInit, DrillInv
<1>2. RolloutTypeOK /\ DrillCore => RecoveryIsCaused
    BY CoreMeansCaused DEF RolloutTypeOK
<1> QED BY <1>1, <1>2, InitRelease, ReleaseKept, RolloutInitTypes, RolloutTypeKept,
        RolloutKeepsDrill, PTL DEF RolloutSpec

LEMMA RolloutKeepsTally ==
    RolloutTypeOK /\ TallyInv /\ [RolloutNext]_allVars => TallyInv'
<1> SUFFICES ASSUME RolloutTypeOK, TallyInv, [RolloutNext]_allVars PROVE TallyInv'
    OBVIOUS
<1>1. CASE KubernetesStep \/ HelmStep
    <2>1. UNCHANGED Beside
        BY <1>1, KubernetesStays DEF Drill, Beside, HelmStep
    <2> QED BY <2>1 DEF Beside, TallyInv, PassCountsEveryLookup, tally, result
<1>2. CASE VerifyStep \/ DrillStep \/ UNCHANGED allVars
    <2>1. [Next]_vars
        BY <1>2 DEF VerifyStep, DrillStep, allVars, Next
    <2> QED BY <2>1, TallyKept DEF RolloutTypeOK
<1> QED BY <1>1, <1>2 DEF RolloutNext

(* The drill's report is as exact when a release precedes it                *)
(* (verify-pod-recovery.py:116-133, 172-192).                               *)
THEOREM PassCountsEveryLookupInRollout == RolloutSpec => []PassCountsEveryLookup
<1>1. RolloutInit => TallyInv
    BY DEF RolloutInit, Init, TallyInv, PassCountsEveryLookup
<1>2. TallyInv => PassCountsEveryLookup
    BY DEF TallyInv
<1> QED BY <1>1, <1>2, RolloutInitTypes, RolloutTypeKept, RolloutKeepsTally, PTL DEF RolloutSpec

-----------------------------------------------------------------------------
(* How far the operation is from its end. *)

(* The commands helm and verify-challenge.sh may still end; the migration   *)
(* Job counts once for each attempt it has left.                            *)
ReleaseLeft ==
    CASE step = "render"    -> 9
      [] step = "migrate"   -> 8 - attempts
      [] step = "roll"      -> 5
      [] step = "rollback"  -> 4
      [] step = "deployed"  -> 3
      [] step = "available" -> 2
      [] step = "placed"    -> 1
      [] OTHER              -> 0

(* The steps the main thread of the drill may still take.                   *)
DrillLeft ==
    CASE main = "inventory" -> 7
      [] main = "delete"    -> 6
      [] main = "poll"      -> 5
      [] main = "settle"    -> 4
      [] main = "join"      -> 3
      [] main = "sum"       -> 2
      [] main = "report"    -> 1
      [] OTHER              -> 0

OperationLeft == ReleaseLeft + DrillLeft
OperationStays == UNCHANGED <<step, attempts, main>>

LEMMA ReleaseLeftIs ==
    /\ step = "render" => ReleaseLeft = 9
    /\ step = "migrate" => ReleaseLeft = 8 - attempts
    /\ step = "roll" => ReleaseLeft = 5
    /\ step = "rollback" => ReleaseLeft = 4
    /\ step = "deployed" => ReleaseLeft = 3
    /\ step = "available" => ReleaseLeft = 2
    /\ step = "placed" => ReleaseLeft = 1
    /\ step \in Ends => ReleaseLeft = 0
BY Zenon DEF ReleaseLeft, Ends

LEMMA DrillLeftIs ==
    /\ main = "inventory" => DrillLeft = 7
    /\ main = "delete" => DrillLeft = 6
    /\ main = "poll" => DrillLeft = 5
    /\ main = "settle" => DrillLeft = 4
    /\ main = "join" => DrillLeft = 3
    /\ main = "sum" => DrillLeft = 2
    /\ main = "report" => DrillLeft = 1
    /\ main \in Exits => DrillLeft = 0
BY Zenon DEF DrillLeft, Exits

LeftInv == ReleaseLeft \in 0..9 /\ DrillLeft \in 0..7

LEMMA LeftIsBounded == RolloutTypeOK => LeftInv
<1> SUFFICES ASSUME RolloutTypeOK PROVE LeftInv
    OBVIOUS
<1>1. attempts \in 0..2 /\ step \in HelmSteps \cup VerifySteps \cup Ends /\ main \in Steps \cup Exits
    BY DEF RolloutTypeOK, TypeOK, BackoffLimit
<1>2. ReleaseLeft \in {9, 8 - attempts, 5, 4, 3, 2, 1, 0}
    BY <1>1, ReleaseLeftIs DEF HelmSteps, VerifySteps
<1>3. DrillLeft \in {7, 6, 5, 4, 3, 2, 1, 0}
    BY <1>1, DrillLeftIs DEF Steps
<1> QED BY <1>1, <1>2, <1>3 DEF LeftInv

(* A command of helm or of verify-challenge.sh ends.                        *)
LEMMA ReleaseNears ==
    ASSUME RolloutTypeOK, RolloutTypeOK', HelmStep \/ VerifyStep
    PROVE  ReleaseLeft' < ReleaseLeft /\ main' = main
<1>1. main' = main
    BY DEF HelmStep, VerifyStep, vars
<1>2. attempts \in 0..2 /\ attempts' \in 0..2
    BY DEF RolloutTypeOK, BackoffLimit
<1>3. \/ step = "render" /\ step' \in {"failed", "migrate"}
      \/ step = "migrate" /\ step' = "migrate" /\ attempts' = attempts + 1
      \/ step = "migrate" /\ step' \in {"failed", "roll"}
      \/ step = "roll" /\ step' \in {"deployed", "rollback", "failed"}
      \/ step = "rollback" /\ step' \in {"failed", "restored"}
      \/ step = "deployed" /\ step' \in {"rejected", "available"}
      \/ step = "available" /\ step' \in {"rejected", "placed"}
      \/ step = "placed" /\ step' \in {"rejected", "verified"}
    BY DEF HelmStep, Render, MigrationPodFails, MigrationDeadline, Migrated, Rolled,
           RollTimeout, RolledBack, VerifyStep, Check
<1>4. /\ step' = "migrate" => ReleaseLeft' = 8 - attempts'
      /\ step' = "roll" => ReleaseLeft' = 5
      /\ step' = "rollback" => ReleaseLeft' = 4
      /\ step' = "deployed" => ReleaseLeft' = 3
      /\ step' = "available" => ReleaseLeft' = 2
      /\ step' = "placed" => ReleaseLeft' = 1
      /\ step' \in {"failed", "restored", "rejected", "verified"} => ReleaseLeft' = 0
    BY Zenon DEF ReleaseLeft
<1>5. CASE step = "migrate"
    BY <1>1, <1>2, <1>3, <1>4, <1>5, ReleaseLeftIs
<1>6. CASE step # "migrate"
    BY <1>1, <1>2, <1>3, <1>4, <1>6, ReleaseLeftIs
<1> QED BY <1>1, <1>5, <1>6

(* The main thread of the drill takes a step, or polls once more.           *)
LEMMA MainNears ==
    ASSUME RolloutTypeOK, MainStep
    PROVE  DrillLeft' < DrillLeft \/ main' = main
<1>1. \/ main' = main
      \/ main = "inventory" /\ main' \in {"delete", "raised"}
      \/ main = "delete" /\ main' \in {"poll", "raised"}
      \/ main = "poll" /\ main' \in {"settle", "raised"}
      \/ main = "settle" /\ main' = "join"
      \/ main = "join" /\ main' = "sum"
      \/ main = "sum" /\ main' = "report"
      \/ main = "report" /\ main' \in {"passed", "failed"}
    BY DEF MainStep, Inventory, DeletePod, Poll, GiveUp, CommandFails, Settle, Join, Sum, Report
<1>2. /\ main' = "delete" => DrillLeft' = 6
      /\ main' = "poll" => DrillLeft' = 5
      /\ main' = "settle" => DrillLeft' = 4
      /\ main' = "join" => DrillLeft' = 3
      /\ main' = "sum" => DrillLeft' = 2
      /\ main' = "report" => DrillLeft' = 1
      /\ main' \in {"passed", "failed", "raised"} => DrillLeft' = 0
    BY Zenon DEF DrillLeft
<1> QED BY <1>1, <1>2, DrillLeftIs

LEMMA SumNears ==
    ASSUME NEW a \in Int, NEW b \in Int, NEW c \in Int, a < b
    PROVE  a + c < b + c /\ c + a < c + b
OBVIOUS

LEMMA NextNears ==
    ASSUME RolloutTypeOK, RolloutTypeOK', [RolloutNext]_allVars
    PROVE  OperationStays \/ OperationLeft' < OperationLeft
<1>0. /\ ReleaseLeft \in Int /\ ReleaseLeft' \in Int
      /\ DrillLeft \in Int /\ DrillLeft' \in Int
    <2>1. RolloutTypeOK' => LeftInv'
        BY LeftIsBounded, PTL
    <2> QED BY <2>1, LeftIsBounded DEF LeftInv
<1>1. CASE HelmStep \/ VerifyStep
    <2>1. DrillLeft' = DrillLeft
        BY <1>1, ReleaseNears DEF DrillLeft
    <2>3. ReleaseLeft' < ReleaseLeft
        BY <1>1, ReleaseNears
    <2>4. ReleaseLeft' + DrillLeft < ReleaseLeft + DrillLeft
        BY <1>0, <2>3, SumNears
    <2> QED BY <2>1, <2>4, Zenon DEF OperationLeft
<1>2. CASE DrillStep
    <2>1. step' = step /\ attempts' = attempts
        BY <1>2 DEF DrillStep, rolloutVars, helm
    <2>2. ReleaseLeft' = ReleaseLeft
        BY <2>1 DEF ReleaseLeft
    <2>3. main' = main \/ DrillLeft' < DrillLeft
        BY <1>2, MainNears DEF DrillStep, TrafficStep, Send, Answered, CutOff, Leave
    <2>5. CASE main' = main
        BY <2>1, <2>5 DEF OperationStays
    <2>6. CASE DrillLeft' < DrillLeft
        <3>1. ReleaseLeft + DrillLeft' < ReleaseLeft + DrillLeft
            BY <1>0, <2>6, SumNears
        <3> QED BY <2>2, <3>1, Zenon DEF OperationLeft
    <2> QED BY <2>3, <2>5, <2>6
<1>3. CASE KubernetesStep \/ UNCHANGED allVars
    <2>1. CASE KubernetesStep
        BY <2>1 DEF KubernetesStep, OperationStays, StartContainer, Probed, Probe, PodGoes,
               Schedule, helm, rolloutVars
    <2>2. CASE UNCHANGED allVars
        BY <2>2 DEF allVars, vars, rolloutVars, helm, OperationStays
    <2> QED BY <1>3, <2>1, <2>2
<1> QED BY <1>1, <1>2, <1>3 DEF RolloutNext

(* What can be proved of OperationEnds without its fairness: at most        *)
(* sixteen commands of helm, of verify-challenge.sh and of the drill's main *)
(* thread come to something.  No retry of the Job, no rollback and nothing  *)
(* the cluster does takes the scripts back, so a run that does not end has  *)
(* a command that never returns, or polls for ever (deploy-challenge.sh:    *)
(* 54-56, migration-job.yaml:14-15, verify-pod-recovery.py:150, 166).       *)
THEOREM OperationIsBounded ==
    RolloutSpec => /\ [](OperationLeft \in 0..16)
                   /\ [][OperationLeft' < OperationLeft \/ OperationStays]_allVars
<1>1. RolloutTypeOK => OperationLeft \in 0..16
    BY LeftIsBounded DEF OperationLeft, LeftInv
<1>2. RolloutTypeOK /\ RolloutTypeOK' /\ [RolloutNext]_allVars
        => [OperationLeft' < OperationLeft \/ OperationStays]_allVars
    BY NextNears
<1> QED BY <1>1, <1>2, RolloutTypeCorrect, PTL DEF RolloutSpec
=============================================================================
