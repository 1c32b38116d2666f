----------------------------- MODULE PodRecovery -----------------------------
(***************************************************************************)
(* The pod recovery drill (deploy/scripts/verify-pod-recovery.py): its     *)
(* main thread deletes one of two Ready pods and polls the cluster until   *)
(* another is Ready, while a daemon thread sends lookups and tallies their *)
(* outcomes. The cluster is what Kubernetes makes of                       *)
(* templates/deployment.yaml. Time is left out: a deadline may pass        *)
(* whenever it is pending.                                                 *)
(***************************************************************************)
EXTENDS Integers, FiniteSets

CONSTANTS
    Names,        \* names of pods, numbered in the order of sorted()
    Nodes,        \* nodes of the cluster
    MaxLookups    \* bound on the lookups of the traffic thread

ASSUME NamesAssumption == IsFiniteSet(Names) /\ Names \subseteq Nat \ {0}
ASSUME LookupsAssumption == MaxLookups \in Nat

Replicas == 2
None == 0                                        \* no pod
ASSUME NodesAssumption == None \notin Nodes      \* and no node

Lives == {"unborn", "live", "deleting", "gone"}
Steps == {"inventory", "delete", "poll", "settle", "join", "sum", "report"}
Exits == {"passed", "failed", "raised"}

VARIABLES
    pods,         \* pods[n]: the pod of that name; a name is used once
    main,         \* where the main thread is, or how it ended
    traffic,      \* what the traffic thread does
    stop,         \* the event of that name
    before,       \* the names in the first inventory
    deleted,      \* the pod the drill deletes
    after,        \* the Ready pods in the last inventory
    recovered,
    codes,        \* status_codes, those that are not 200 as one
    failures,     \* the sum of the counter of that name
    unexpected,   \* unexpected_failures
    report,       \* the requests and the replacement_pod of the result
    answered,     \* history: lookups with an outcome
    extant,       \* history: the pods there were when one was deleted
    watched,      \* history: the traffic thread lived when recovery was seen
    late          \* history: the join timed out

cluster == <<pods>>
drill == <<before, deleted, after, recovered, extant, watched>>
tally == <<codes, failures, answered>>
result == <<unexpected, report, late>>
vars == <<cluster, main, traffic, stop, drill, tally, result>>

TypeOK ==
    /\ pods \in [Names -> [life : Lives, node : Nodes \cup {None}, ready : BOOLEAN]]
    /\ main \in Steps \cup Exits
    /\ traffic \in {"new", "waiting", "asking", "ended", "dead"}
    /\ stop \in BOOLEAN /\ recovered \in BOOLEAN /\ watched \in BOOLEAN /\ late \in BOOLEAN
    /\ before \subseteq Names /\ after \subseteq Names /\ extant \subseteq Names
    /\ deleted \in Names \cup {None}
    /\ codes \in [{"200", "other"} -> Nat]
    /\ failures \in Nat /\ unexpected \in Nat /\ answered \in Nat
    /\ report \in [requests : Nat, replacement : Names \cup {None}]

-----------------------------------------------------------------------------
(* The cluster. *)

Existing == {n \in Names : pods[n].life \in {"live", "deleting"}}
Live == {n \in Names : pods[n].life = "live"}

(* A Deployment at its replica count, or with some pods still to come, and  *)
(* perhaps pods that were deleted before the drill and are not gone yet.    *)
Init ==
    /\ pods \in [Names -> {[life |-> "unborn", node |-> None, ready |-> FALSE]} \cup
                          [life : {"live", "deleting"}, node : Nodes, ready : BOOLEAN]]
    /\ Cardinality(Live) <= Replicas
    /\ \A m, n \in Existing : m # n => pods[m].node # pods[n].node
    /\ \A n \in Names : pods[n].life = "unborn" => \A m \in Existing : m < n
    /\ main = "inventory" /\ traffic = "new" /\ stop = FALSE
    /\ before = {} /\ deleted = None /\ after = {} /\ recovered = FALSE
    /\ codes = [c \in {"200", "other"} |-> 0] /\ failures = 0 /\ answered = 0
    /\ unexpected = 0 /\ report = [requests |-> 0, replacement |-> None]
    /\ extant = {} /\ watched = FALSE /\ late = FALSE

Change(n, pod) == pods' = [pods EXCEPT ![n] = pod]

(* The ReplicaSet replaces a pod once it is being deleted.                  *)
CreatePod(n) ==
    /\ pods[n].life = "unborn" /\ Cardinality(Live) < Replicas
    /\ Change(n, [pods[n] EXCEPT !.life = "live"])
    /\ UNCHANGED <<main, traffic, stop, drill, tally, result>>

(* Required anti-affinity: a node has room while no other pod is on it.     *)
Schedule(n, node) ==
    /\ n \in Existing /\ pods[n].node = None
    /\ \A m \in Existing : pods[m].node # node
    /\ Change(n, [pods[n] EXCEPT !.node = node])
    /\ UNCHANGED <<main, traffic, stop, drill, tally, result>>

(* The readiness probe; a pod that is being deleted may stay Ready.         *)
Probe(n) ==
    /\ n \in Existing /\ pods[n].node # None
    /\ Change(n, [pods[n] EXCEPT !.ready = ~@])
    /\ UNCHANGED <<main, traffic, stop, drill, tally, result>>

PodGoes(n) ==
    /\ pods[n].life = "deleting"
    /\ Change(n, [pods[n] EXCEPT !.life = "gone", !.ready = FALSE])
    /\ UNCHANGED <<main, traffic, stop, drill, tally, result>>

-----------------------------------------------------------------------------
(* The main thread. *)

(* pod_inventory: Ready, and not marked for deletion.                       *)
ReadyPods == {n \in Live : pods[n].ready}

NodesOf(ns) == {pods[n].node : n \in ns}

First(ns) == {n \in ns : \A m \in ns : n <= m}

Inventory ==
    /\ main = "inventory"
    /\ before' = Existing
    /\ IF Cardinality(ReadyPods) = 2 /\ Cardinality(NodesOf(ReadyPods)) = 2
       THEN main' = "delete" /\ deleted' \in First(ReadyPods) /\ traffic' = "waiting"
       ELSE main' = "raised" /\ UNCHANGED <<deleted, traffic>>
    /\ UNCHANGED <<cluster, stop, after, recovered, extant, watched, tally, result>>

(* kubectl fails on a pod that is gone; deleting one twice does nothing.    *)
DeletePod ==
    /\ main = "delete"
    /\ IF deleted \in Existing
       THEN main' = "poll" /\ Change(deleted, [pods[deleted] EXCEPT !.life = "deleting"])
       ELSE main' = "raised" /\ UNCHANGED pods
    /\ extant' = {n \in Names : pods[n].life # "unborn"}
    /\ UNCHANGED <<traffic, stop, before, deleted, after, recovered, watched, tally, result>>

Recovered_AnyTwoReady ==
    /\ Cardinality(ReadyPods) = 2
    /\ deleted \notin Existing
Recovered ==
    /\ Cardinality(ReadyPods) = 2
    /\ deleted \notin Existing
    /\ ReadyPods \ before # {}

Poll ==
    /\ main = "poll"
    /\ after' = ReadyPods
    /\ recovered' = Recovered
    /\ main' = IF Recovered THEN "settle" ELSE "poll"
    /\ watched' = (traffic # "dead")
    /\ UNCHANGED <<cluster, traffic, stop, before, deleted, extant, tally, result>>

(* recovery_timeout.                                                        *)
GiveUp ==
    /\ main = "poll"
    /\ main' = "settle"
    /\ UNCHANGED <<cluster, traffic, stop, drill, tally, result>>

(* ssh or kubectl fails: an exception ends the process, its daemon too.     *)
CommandFails ==
    /\ main \in {"inventory", "delete", "poll"}
    /\ main' = "raised"
    /\ UNCHANGED <<cluster, traffic, stop, drill, tally, result>>

Settle ==
    /\ main = "settle"
    /\ main' = "join" /\ stop' = TRUE
    /\ UNCHANGED <<cluster, traffic, drill, tally, result>>

Join_NoTimeout ==
    /\ main = "join"
    /\ traffic \in {"ended", "dead"}
    /\ main' = "sum" /\ late' = FALSE
    /\ UNCHANGED <<cluster, traffic, stop, drill, tally, unexpected, report>>
Join ==
    /\ main = "join"
    /\ main' = "sum" /\ late' = (traffic \notin {"ended", "dead"})
    /\ UNCHANGED <<cluster, traffic, stop, drill, tally, unexpected, report>>

Sum ==
    /\ main = "sum"
    /\ main' = "report" /\ unexpected' = failures
    /\ UNCHANGED <<cluster, traffic, stop, drill, tally, report, late>>

Replacement == IF after \ before = {} THEN {None} ELSE First(after \ before)

Report ==
    /\ main = "report"
    /\ report' \in [requests : {codes["200"] + codes["other"] + unexpected},
                    replacement : Replacement]
    /\ main' = IF recovered /\ unexpected = 0 /\ Cardinality(after) = 2
               THEN "passed" ELSE "failed"
    /\ UNCHANGED <<cluster, traffic, stop, drill, tally, unexpected, late>>

-----------------------------------------------------------------------------
(* The traffic thread, a daemon: it ends with the process. *)

Running == main \notin Exits

Send ==
    /\ Running /\ traffic = "waiting" /\ ~stop /\ answered < MaxLookups
    /\ traffic' = "asking"
    /\ UNCHANGED <<cluster, main, stop, drill, tally, result>>

Ok ==
    /\ codes' = [codes EXCEPT !["200"] = @ + 1]
    /\ UNCHANGED failures

(* An answer that is not 200 is a status and a failure.                     *)
HttpError_StatusOnly ==
    /\ codes' = [codes EXCEPT !["other"] = @ + 1]
    /\ UNCHANGED failures
HttpError ==
    /\ codes' = [codes EXCEPT !["other"] = @ + 1]
    /\ failures' = failures + 1

NoAnswer_AsStatus ==
    /\ failures' = failures + 1
    /\ codes' = [c \in {"200", "other", "none"} |-> IF c = "none" THEN 1 ELSE codes[c]]
NoAnswer ==
    /\ failures' = failures + 1
    /\ UNCHANGED codes

Answered ==
    /\ Running /\ traffic = "asking"
    /\ Ok \/ HttpError \/ NoAnswer
    /\ answered' = answered + 1
    /\ traffic' = "waiting"
    /\ UNCHANGED <<cluster, main, stop, drill, result>>

(* A body cut off raises IncompleteRead, which no clause of the loop names. *)
CutOff ==
    /\ Running /\ traffic = "asking"
    /\ traffic' = "dead"
    /\ UNCHANGED <<cluster, main, stop, drill, tally, result>>

Leave ==
    /\ Running /\ traffic = "waiting" /\ stop
    /\ traffic' = "ended"
    /\ UNCHANGED <<cluster, main, stop, drill, tally, result>>

ClusterStep ==
    \E n \in Names :
       \/ CreatePod(n) \/ Probe(n) \/ PodGoes(n)
       \/ \E node \in Nodes : Schedule(n, node)

MainStep ==
    \/ Inventory \/ DeletePod \/ Poll \/ GiveUp \/ CommandFails
    \/ Settle \/ Join \/ Sum \/ Report

TrafficStep == Send \/ Answered \/ CutOff \/ Leave

Next == ClusterStep \/ MainStep \/ TrafficStep

Spec == Init /\ [][Next]_vars

-----------------------------------------------------------------------------
(* Properties. *)

(* A drill that passes saw a recovery of its own making: two pods Ready on  *)
(* distinct nodes, of which the replacement was created after the deletion, *)
(* whatever a rollout before the drill had left behind                      *)
(* (verify-pod-recovery.py:84, 94-98, 152-159, 192).                        *)
RecoveryIsCaused ==
    main = "passed" =>
        /\ Cardinality(NodesOf(after)) = 2
        /\ report.replacement \in after \ extant
        /\ pods[deleted].life = "gone"

(* The report of a drill that passes counts every lookup that had an        *)
(* outcome once, and all of them were answered 200, unless the join timed   *)
(* out on one (verify-pod-recovery.py:116-133, 172, 183, 192).              *)
PassCountsEveryLookup ==
    main = "passed" /\ ~late =>
        /\ report.requests = answered
        /\ codes["200"] = answered

(* "It deletes one application Pod and keeps cached POST lookups flowing    *)
(* until the replacement is Ready" (docs/sre-observability.md:70-71).       *)
LookupsFlowUntilReady == main = "passed" => watched
=============================================================================
