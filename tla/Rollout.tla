------------------------------- MODULE Rollout -------------------------------
(***************************************************************************)
(* A release of the chart from deploy-challenge.sh to the recovery drill:  *)
(* helm upgrade --install --atomic --wait renders the values, runs the     *)
(* Alembic hook, replaces the Secret and the Deployment and waits; the     *)
(* deployment controller replaces pods one by one; helm ends, or gives up  *)
(* and rolls back; verify-challenge.sh looks at what there is; and the     *)
(* drill of PodRecovery runs on what it verified, or on what helm left.    *)
(* The revision in force and the one before it are "new" and "old".        *)
(***************************************************************************)
EXTENDS PodRecovery, Settings

CONSTANTS
    Releases,     \* the values an operator may release
    Spare         \* the nodes of the replicas an upgrade finds are 1 and 2; others

ASSUME ReleasesAssumption == Releases \subseteq Values
ASSUME SpareAssumption ==
    IsFiniteSet(Spare) /\ Nodes = {1, 2} \cup Spare /\ Spare \cap {1, 2} = {}
ASSUME OldPodsAssumption == {1, 2} \subseteq Names

Surge == 1
BackoffLimit == 2

HelmSteps == {"render", "migrate", "roll", "rollback"}
VerifySteps == {"deployed", "available", "placed"}
Ends == {"failed", "restored", "rejected", "verified"}
Revisions == {"none", "old", "new"}

VARIABLES
    step,         \* where the operator's scripts are, or how they ended
    installed,    \* there is a release to upgrade
    room,         \* nodes that take pods; the others are cordoned or full
    values,       \* the values that are released
    secret,       \* the revision whose values the runtime Secret holds
    target,       \* the revision of the Deployment's template
    surplus,      \* spec.replicas of the ReplicaSet of the other revision
    schema,       \* the migrated table is in the database
    attempts,     \* pods of the migration Job under way that failed
    revision,     \* revision[n]: of the ReplicaSet that made pod n
    config        \* config[n]: of the Secret the container of n was started with

helm == <<step, values, attempts, schema>>
release == <<secret, target>>
made == <<surplus, revision>>
rolloutVars == <<helm, installed, room, release, made, config>>
allVars == <<vars, rolloutVars>>

RolloutTypeOK ==
    /\ TypeOK
    /\ step \in HelmSteps \cup VerifySteps \cup Ends
    /\ installed \in BOOLEAN /\ schema \in BOOLEAN
    /\ room \subseteq Nodes
    /\ values \in Releases
    /\ secret \in Revisions /\ target \in Revisions
    /\ surplus \in 0..Replicas /\ attempts \in 0..BackoffLimit
    /\ revision \in [Names -> Revisions] /\ config \in [Names -> Revisions]

(* An upgrade finds two pods, Ready or not; an installation finds none, and *)
(* perhaps the table of a release that was uninstalled.                     *)
RolloutInit ==
    /\ installed \in BOOLEAN
    /\ pods \in [Names -> [life : {"unborn", "live"}, node : {None, 1, 2}, ready : BOOLEAN]]
    /\ \A n \in Names :
          IF installed /\ n <= Replicas THEN pods[n].life = "live" /\ pods[n].node = n
          ELSE pods[n] = [life |-> "unborn", node |-> None, ready |-> FALSE]
    /\ Init
    /\ step = "render" /\ values \in Releases /\ attempts = 0
    /\ room \in {Nodes, Nodes \ Spare}
    /\ secret = IF installed THEN "old" ELSE "none"
    /\ target = secret
    /\ surplus = 0
    /\ schema \in {installed, TRUE}
    /\ revision = [n \in Names |-> IF n \in Live THEN "old" ELSE "none"]
    /\ config = revision

-----------------------------------------------------------------------------
(* Kubernetes. *)

Of(rev) == {n \in Live : revision[n] = rev}
Others == {n \in Live : revision[n] # target}
ReadyOf(rev) == {n \in Of(rev) : pods[n].ready}

(* The old values were accepted when they were released.                    *)
Sound(rev) == rev = "old" \/ (rev = "new" /\ Accepts(values))

Born(n, rev) ==
    /\ pods[n].life = "unborn" /\ \A m \in Names : m < n => pods[m].life # "unborn"
    /\ Change(n, [pods[n] EXCEPT !.life = "live"])
    /\ revision' = [revision EXCEPT ![n] = rev]
    /\ UNCHANGED surplus

(* Each ReplicaSet makes the pods it lacks; that of the target may have as  *)
(* many as maxSurge leaves room for.                                        *)
Allowed == IF Replicas + Surge - surplus < Replicas THEN Replicas + Surge - surplus ELSE Replicas
Create(n) ==
    \/ target # "none" /\ Cardinality(Of(target)) < Allowed /\ Born(n, target)
    \/ /\ Cardinality(Others) < surplus
       /\ Born(n, IF target = "new" THEN "old" ELSE "new")

(* maxUnavailable 0: the other ReplicaSet shrinks while the Ready pods of   *)
(* the target make up for it, first by a pod that is not Ready.             *)
Excess_MaxUnavailable1 == surplus + Cardinality(ReadyOf(target)) >= Replicas
Excess == surplus + Cardinality(ReadyOf(target)) > Replicas
ScaleDown ==
    /\ surplus > 0 /\ Excess
    /\ surplus' = surplus - 1
    /\ \/ Cardinality(Others) < surplus /\ UNCHANGED pods
       \/ \E n \in Others :
             /\ pods[n].ready => /\ Cardinality(ReadyPods) > Replicas
                                /\ \A m \in Others : pods[m].ready
             /\ Change(n, [pods[n] EXCEPT !.life = "deleting"])
    /\ UNCHANGED revision

(* A container starts, or starts again, with what the Secret holds then.    *)
StartContainer(n) ==
    /\ n \in Live /\ pods[n].node # None /\ secret # "none"
    /\ config[n] # secret
    /\ config' = [config EXCEPT ![n] = secret]
    /\ Change(n, [pods[n] EXCEPT !.ready = FALSE])
    /\ UNCHANGED <<main, traffic, stop, drill, tally, result, helm, installed, room, release, made>>

(* /health/ready answers 200 of a process that has started and sees the     *)
(* table.                                                                   *)
Probed(n) ==
    /\ Probe(n)
    /\ pods'[n].ready => Sound(config[n]) /\ schema

KubernetesStep ==
    \/ /\ ScaleDown \/ \E n \in Names : Create(n)
       /\ UNCHANGED <<main, traffic, stop, drill, tally, result, helm, installed, room, release, config>>
    \/ \E n \in Names :
        \/ StartContainer(n)
        \/ Probed(n) /\ UNCHANGED rolloutVars
        \/ PodGoes(n) /\ UNCHANGED rolloutVars
        \/ \E node \in room : Schedule(n, node) /\ UNCHANGED rolloutVars

-----------------------------------------------------------------------------
(* deploy-challenge.sh and helm. *)

(* A file is missing, the NodePort is taken, or a required value is empty.  *)
Render ==
    /\ step = "render"
    /\ step' \in {"failed"} \cup (IF Renders(values) THEN {"migrate"} ELSE {})
    /\ UNCHANGED <<values, attempts, schema, release, surplus, pods>>

(* spec.replicas of the ReplicaSet a new template replaces.                 *)
Replaced == IF installed THEN Replicas ELSE 0

(* alembic upgrade head, in one transaction, does nothing when the table is *)
(* there; a pod of the Job may fail before it or after its COMMIT.          *)
MigrationPodFails_Ignored ==
    /\ step = "migrate"
    /\ schema' \in {schema} \cup (IF Accepts(OfJob(values)) THEN {TRUE} ELSE {})
    /\ IF attempts = BackoffLimit
       THEN step' = "roll" /\ secret' = "new" /\ target' = "new" /\ surplus' = Replaced
            /\ attempts' = 0
       ELSE attempts' = attempts + 1 /\ UNCHANGED <<step, release, surplus>>
    /\ UNCHANGED <<values, pods>>
MigrationPodFails ==
    /\ step = "migrate"
    /\ schema' \in {schema} \cup (IF Accepts(OfJob(values)) THEN {TRUE} ELSE {})
    /\ IF attempts = BackoffLimit
       THEN step' = "failed" /\ attempts' = 0
       ELSE attempts' = attempts + 1 /\ UNCHANGED step
    /\ UNCHANGED <<values, release, surplus, pods>>

(* activeDeadlineSeconds.                                                   *)
MigrationDeadline ==
    /\ step = "migrate"
    /\ step' = "failed" /\ attempts' = 0
    /\ UNCHANGED <<values, schema, release, surplus, pods>>

(* The hook succeeded: the Secret is replaced in place, then the template.  *)
Migrated ==
    /\ step = "migrate" /\ Accepts(OfJob(values))
    /\ schema' = TRUE
    /\ step' = "roll" /\ secret' = "new" /\ target' = "new"
    /\ surplus' = Replaced /\ attempts' = 0
    /\ UNCHANGED <<values, pods>>

(* --wait: the ReplicaSet of the new template has its replicas Ready.       *)
Rolled ==
    /\ step = "roll" /\ Cardinality(ReadyOf("new")) = Replicas
    /\ step' = "deployed"
    /\ UNCHANGED <<values, attempts, schema, release, surplus, pods>>

(* --timeout 10m with --atomic: an upgrade is rolled back, a first          *)
(* installation uninstalled; neither undoes the migration.                  *)
RollTimeout ==
    /\ step = "roll"
    /\ IF installed
       THEN /\ step' = "rollback" /\ secret' = "old" /\ target' = "old"
            /\ surplus' = Allowed
            /\ UNCHANGED pods
       ELSE /\ step' = "failed" /\ secret' = "none" /\ target' = "none"
            /\ surplus' = 0
            /\ pods' = [n \in Names |->
                          IF n \in Live THEN [pods[n] EXCEPT !.life = "deleting"] ELSE pods[n]]
    /\ UNCHANGED <<values, attempts, schema>>

RolledBack ==
    /\ step = "rollback"
    /\ step' \in {"failed"} \cup (IF Cardinality(ReadyOf("old")) = Replicas THEN {"restored"} ELSE {})
    /\ UNCHANGED <<values, attempts, schema, release, surplus, pods>>

HelmStep ==
    /\ Render \/ MigrationPodFails \/ MigrationDeadline \/ Migrated
       \/ Rolled \/ RollTimeout \/ RolledBack
    /\ UNCHANGED <<main, traffic, stop, drill, tally, result, installed, room, revision, config>>

-----------------------------------------------------------------------------
(* verify-challenge.sh, each command at an instant of its own. *)

(* availableReplicas.                                                       *)
Available == Cardinality(ReadyPods) = 2

(* The items of `get pods` include pods that are being deleted.             *)
Placed_NodesOfReady ==
    LET items == {n \in Existing : pods[n].ready} IN
    Cardinality(items) = 2 /\ Cardinality(NodesOf(items)) = 2
Placed ==
    /\ Cardinality({n \in Existing : pods[n].ready}) = 2
    /\ Cardinality(NodesOf(Existing)) = 2

(* Endpoints; then /health/ready through every node, and the monitoring.    *)
Served == Cardinality(ReadyPods) = 2

(* A test that fails, like any command that does, ends the script.          *)
Check(from, test, to) ==
    /\ step = from
    /\ step' \in {"rejected"} \cup (IF test THEN {to} ELSE {})
VerifyStep ==
    /\ main = "inventory"
    /\ \/ Check("deployed", Available, "available")
       \/ Check("available", Placed, "placed")
       \/ Check("placed", Served, "verified")
    /\ UNCHANGED <<vars, values, attempts, schema, installed, room, release, made, config>>

(* The drill, on a release that was verified or that helm reported deployed. *)
DrillStep ==
    /\ main = "inventory" => step \in {"deployed", "verified"}
    /\ MainStep \/ TrafficStep
    /\ UNCHANGED rolloutVars

RolloutNext == KubernetesStep \/ HelmStep \/ VerifyStep \/ DrillStep

(* A script goes on, its commands end, and a deadline that is pending       *)
(* passes; nothing is assumed of the cluster or of the traffic thread.      *)
RolloutFairness ==
    /\ WF_allVars(HelmStep) /\ WF_allVars(VerifyStep)
    /\ WF_allVars(MainStep /\ DrillStep)
    /\ WF_allVars(GiveUp /\ DrillStep)

RolloutSpec == RolloutInit /\ [][RolloutNext]_allVars /\ RolloutFairness

-----------------------------------------------------------------------------
(* Properties. *)

(* "The Alembic hook must succeed before Helm creates or updates the        *)
(* application workload" (README.md:209): a pod of the new revision, on     *)
(* whatever path of retries the Job took, finds the table there and its     *)
(* credentials accepted (migration-job.yaml:10-44, env.py:15-52).           *)
MigrationComesFirst ==
    (\E n \in Names : revision[n] = "new") \/ secret = "new" =>
        schema /\ Accepts(OfJob(values))

(* A release that cannot come up costs no pod: with values that Settings    *)
(* refuses, or without a node for the surge pod, both pods of the old       *)
(* release live on through rollout, timeout and rollback                    *)
(* (deployment.yaml:11-15, 41-48, deploy-challenge.sh:48-56).               *)
OldPodsStay ==
    installed /\ (~Accepts(values) \/ Cardinality(room) = Replicas) => {1, 2} \subseteq Live

(* What verify-challenge.sh puts together from four instants is true: the   *)
(* pods there are, are two of the new revision on distinct nodes, and they  *)
(* run the new values; no old pod is left to serve or to be mistaken for a  *)
(* replica (verify-challenge.sh:54-69).                                     *)
VerifiedIsReal ==
    step = "verified" /\ main = "inventory" =>
        /\ Existing = Of("new")
        /\ Cardinality(Existing) = 2 /\ Cardinality(NodesOf(Existing)) = 2
        /\ \A n \in Existing : config[n] = "new" /\ Accepts(values)

(* The whole operation ends: no failing Job, no pod that is never Ready and *)
(* no node that never comes holds helm for ever, no lookup that hangs holds *)
(* the drill (deploy-challenge.sh:54-56, migration-job.yaml:14-15,          *)
(* verify-pod-recovery.py:150, 166).                                        *)
OperationEnds == <>(main \in Exits \/ step \in {"failed", "restored", "rejected"})
=============================================================================
