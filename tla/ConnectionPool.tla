---------------------------- MODULE ConnectionPool ----------------------------
(***************************************************************************)
(* The connection pool of one pod (database/engine.py), shared by lookups, *)
(* which check a connection out for the SELECT and again for the upsert,   *)
(* and by readiness checks, which run under asyncio.timeout (lifespan.py). *)
(* The pool itself is SQLAlchemy's: a queue of PoolSize records, and       *)
(* MaxOverflow more that are closed when they come back to a full queue.   *)
(* Time is left out: a timeout may fire whenever it is pending.            *)
(***************************************************************************)
EXTENDS Integers, FiniteSets

CONSTANTS
    Lookups,      \* tasks that run IPLookupService.lookup
    Checks,       \* tasks that run the readiness check
    PoolSize,     \* database_pool_size
    MaxOverflow   \* database_max_overflow

Tasks == Lookups \cup Checks

ASSUME TaskAssumption == IsFiniteSet(Tasks) /\ Lookups \cap Checks = {}
ASSUME PoolAssumption == PoolSize \in Nat \ {0} /\ MaxOverflow \in Nat

Capacity == PoolSize + MaxOverflow

DbStates == {"down", "no table", "ready"}
Statements == {"read", "upsert", "check"}
Opening == {"opening", "reopening"}           \* a new record, one of the queue
Causes == {"timeout", "refused"}              \* of an error while PostgreSQL is up
Positions == {"none", "waiting", "held", "broken"} \cup Opening
Verdicts == {"none", "done", "ready", "schema unavailable", "database unavailable"}

VARIABLES
    db,        \* PostgreSQL and its schema
    live,      \* queued records with a working connection
    dead,      \* queued records without one
    total,     \* PoolSize + QueuePool._overflow
    at,        \* at[t]: where task t is
    conn,      \* conn[t]: what it has of a connection
    verdict,   \* verdict[t]: how it ended
    seen,      \* history: what the database was while t ran, and what ended t
    serving    \* the lifespan has not ended

pool == <<live, dead, total>>
vars == <<db, pool, at, conn, verdict, seen, serving>>

TypeOK ==
    /\ db \in DbStates
    /\ live \in Nat /\ dead \in Nat /\ total \in Int
    /\ at \in [Tasks -> {"idle", "provider", "ended"} \cup Statements]
    /\ conn \in [Tasks -> Positions]
    /\ verdict \in [Tasks -> Verdicts]
    /\ seen \in [Tasks -> SUBSET (DbStates \cup Causes)]
    /\ serving \in BOOLEAN

Init ==
    /\ db \in DbStates
    /\ live = 0 /\ dead = 0 /\ total = 0
    /\ at = [t \in Tasks |-> "idle"]
    /\ conn = [t \in Tasks |-> "none"]
    /\ verdict = [t \in Tasks |-> "none"]
    /\ seen = [t \in Tasks |-> {}]
    /\ serving = TRUE

-----------------------------------------------------------------------------
(* The pool. *)

(* pool_pre_ping: a queued connection that no longer works is replaced.     *)
Pinged_Unchecked == "broken"
Pinged == "reopening"

TakeQueued(t) ==
    \/ /\ live > 0
       /\ live' = live - 1
       /\ conn' = [conn EXCEPT ![t] = "held"]
       /\ UNCHANGED <<dead, total>>
    \/ /\ dead > 0
       /\ dead' = dead - 1
       /\ conn' = [conn EXCEPT ![t] = Pinged]
       /\ UNCHANGED <<live, total>>

OpenAnother(t) ==
    /\ live + dead = 0 /\ total < Capacity
    /\ total' = total + 1
    /\ conn' = [conn EXCEPT ![t] = "opening"]
    /\ UNCHANGED <<live, dead>>

Checkout(t) ==
    \/ TakeQueued(t)
    \/ OpenAnother(t)
    \/ /\ live + dead = 0 /\ total >= Capacity
       /\ conn' = [conn EXCEPT ![t] = "waiting"]
       /\ UNCHANGED pool

(* A record comes back with its connection, without one, or never had one.  *)
GiveBack(t, fate) ==
    /\ conn' = [conn EXCEPT ![t] = "none"]
    /\ IF fate = "closed" \/ live + dead >= PoolSize
       THEN total' = total - 1 /\ UNCHANGED <<live, dead>>
       ELSE /\ live' = IF fate = "live" THEN live + 1 ELSE live
            /\ dead' = IF fate = "dead" THEN dead + 1 ELSE dead
            /\ UNCHANGED total

FateOf(t) ==
    IF conn[t] = "held" THEN "live" ELSE IF conn[t] = "opening" THEN "closed" ELSE "dead"

-----------------------------------------------------------------------------
(* Tasks. *)

GoTo(t, where) == at' = [at EXCEPT ![t] = where]

End(t, how) ==
    /\ GoTo(t, "ended")
    /\ verdict' = [verdict EXCEPT ![t] = how]

Start(t, where) ==
    /\ serving /\ at[t] = "idle"
    /\ GoTo(t, where)
    /\ Checkout(t)
    /\ seen' = [seen EXCEPT ![t] = {db}]
    /\ UNCHANGED <<db, verdict, serving>>

LookupArrives(t) == t \in Lookups /\ Start(t, "read")
CheckArrives(t) == t \in Checks /\ Start(t, "check")

(* A waiter takes what came back, if no newcomer was faster.                *)
WakeUp(t) ==
    /\ conn[t] = "waiting"
    /\ TakeQueued(t)
    /\ UNCHANGED <<db, at, verdict, seen, serving>>

(* pool_timeout: the waiter opens a connection if there is room by now.     *)
PoolTimesOut(t) ==
    /\ conn[t] = "waiting" /\ live + dead = 0
    /\ IF total < Capacity
       THEN OpenAnother(t) /\ UNCHANGED <<at, verdict, seen>>
       ELSE /\ conn' = [conn EXCEPT ![t] = "none"]
            /\ End(t, "database unavailable")
            /\ seen' = [seen EXCEPT ![t] = @ \cup {"timeout"}]
            /\ UNCHANGED pool
    /\ UNCHANGED <<db, serving>>

Opens(t) ==
    /\ conn[t] \in Opening /\ db # "down"
    /\ conn' = [conn EXCEPT ![t] = "held"]
    /\ UNCHANGED <<db, pool, at, verdict, seen, serving>>

(* Nobody listens, PostgreSQL refuses (too many clients, starting up), or   *)
(* connect_timeout ends the attempt.                                        *)
OpenFails(t) ==
    /\ conn[t] \in Opening
    /\ GiveBack(t, FateOf(t))
    /\ End(t, "database unavailable")
    /\ \E why \in IF db = "down" THEN {db} ELSE Causes : seen' = [seen EXCEPT ![t] = @ \cup {why}]
    /\ UNCHANGED <<db, serving>>

(* The SELECT of a lookup answers; a hit ends it, a miss asks the provider. *)
ReadAnswers(t) ==
    /\ at[t] = "read" /\ conn[t] = "held" /\ db = "ready"
    /\ GiveBack(t, "live")
    /\ \/ End(t, "done")
       \/ GoTo(t, "provider") /\ UNCHANGED verdict
    /\ UNCHANGED <<db, seen, serving>>

ProviderAnswers(t) ==
    /\ at[t] = "provider"
    /\ GoTo(t, "upsert")
    /\ Checkout(t)
    /\ UNCHANGED <<db, verdict, seen, serving>>

ProviderFails(t) ==
    /\ at[t] = "provider"
    /\ End(t, "done")
    /\ UNCHANGED <<db, pool, conn, seen, serving>>

UpsertAnswers(t) ==
    /\ at[t] = "upsert" /\ conn[t] = "held" /\ db = "ready"
    /\ GiveBack(t, "live")
    /\ End(t, "done")
    /\ UNCHANGED <<db, seen, serving>>

(* A statement fails, on a connection lost before or for want of the table; *)
(* for a lookup, either is an unavailable database.                         *)
Refused(t) == conn[t] = "broken" \/ (conn[t] = "held" /\ db = "no table")

StatementFails_KeepsSession(t) ==
    /\ t \in Lookups /\ Refused(t)
    /\ conn' = [conn EXCEPT ![t] = "none"]
    /\ End(t, "database unavailable")
    /\ UNCHANGED <<db, pool, seen, serving>>
StatementFails(t) ==
    /\ t \in Lookups /\ Refused(t)
    /\ GiveBack(t, FateOf(t))
    /\ End(t, "database unavailable")
    /\ UNCHANGED <<db, seen, serving>>

CheckPasses(t) ==
    /\ at[t] = "check" /\ conn[t] = "held" /\ db = "ready"
    /\ GiveBack(t, "live")
    /\ End(t, "ready")
    /\ UNCHANGED <<db, seen, serving>>

(* Any other error of a statement, which every caller takes for an          *)
(* unavailable database: PostgreSQL rejects it and the connection lives on  *)
(* (an address with a zone, a missing grant, a cancelled statement), or the *)
(* connection is lost in use.                                               *)
StatementRejected(t) ==
    /\ conn[t] = "held"
    /\ \E fate \in {"live", "dead"} : GiveBack(t, fate)
    /\ End(t, "database unavailable")
    /\ seen' = [seen EXCEPT ![t] = @ \cup {"refused"}]
    /\ UNCHANGED <<db, serving>>

(* The sqlstate of an undefined table or schema is told from the rest.      *)
Classified_ByTypeOnly(t) == "database unavailable"
Classified(t) == IF conn[t] = "held" THEN "schema unavailable" ELSE "database unavailable"

CheckFails(t) ==
    /\ at[t] = "check" /\ Refused(t)
    /\ GiveBack(t, FateOf(t))
    /\ End(t, Classified(t))
    /\ UNCHANGED <<db, seen, serving>>

(* asyncio.timeout cancels the check where it waits; a connection that was  *)
(* in use is invalidated.                                                   *)
OnTimeout_Uncaught == "TimeoutError"
OnTimeout == "database unavailable"

CheckTimesOut_BeforeExecute(t) ==
    /\ at[t] = "check" /\ conn[t] \in {"waiting"} \cup Opening
    /\ IF conn[t] = "waiting"
       THEN conn' = [conn EXCEPT ![t] = "none"] /\ UNCHANGED pool
       ELSE GiveBack(t, IF conn[t] = "opening" THEN "closed" ELSE "dead")
    /\ End(t, OnTimeout)
    /\ seen' = [seen EXCEPT ![t] = @ \cup {"timeout"}]
    /\ UNCHANGED <<db, serving>>
CheckTimesOut(t) ==
    /\ at[t] = "check"
    /\ IF conn[t] = "waiting"
       THEN conn' = [conn EXCEPT ![t] = "none"] /\ UNCHANGED pool
       ELSE GiveBack(t, IF conn[t] = "opening" THEN "closed" ELSE "dead")
    /\ End(t, OnTimeout)
    /\ seen' = [seen EXCEPT ![t] = @ \cup {"timeout"}]
    /\ UNCHANGED <<db, serving>>

InFlight == {t \in Tasks : at[t] \in Statements \cup {"provider"}}

(* PostgreSQL stops or comes back, the table is migrated in or out.  When   *)
(* it stops, every open connection is lost.                                 *)
DbChanges(new) ==
    /\ new # db /\ db' = new
    /\ seen' = [t \in Tasks |-> IF t \in InFlight THEN seen[t] \cup {new} ELSE seen[t]]
    /\ IF new = "down"
       THEN /\ live' = 0 /\ dead' = live + dead
            /\ conn' = [t \in Tasks |-> IF conn[t] = "held" THEN "broken" ELSE conn[t]]
       ELSE UNCHANGED <<live, dead, conn>>
    /\ UNCHANGED <<total, at, verdict, serving>>

(* A queued connection is lost while PostgreSQL runs, or given up by the    *)
(* pool, which does so with all older ones when it finds a lost one.        *)
QueuedIsLost ==
    /\ live > 0
    /\ live' = live - 1 /\ dead' = dead + 1
    /\ UNCHANGED <<db, total, at, conn, verdict, seen, serving>>

(* uvicorn waits for its requests, then the lifespan disposes of the pool.  *)
Shutdown ==
    /\ serving /\ InFlight = {}
    /\ serving' = FALSE
    /\ live' = 0 /\ dead' = 0 /\ total' = total - (live + dead)
    /\ UNCHANGED <<db, at, conn, verdict, seen>>

Next ==
    \/ \E t \in Tasks :
          \/ LookupArrives(t) \/ CheckArrives(t)
          \/ WakeUp(t) \/ PoolTimesOut(t) \/ Opens(t) \/ OpenFails(t)
          \/ ReadAnswers(t) \/ ProviderAnswers(t) \/ ProviderFails(t)
          \/ UpsertAnswers(t) \/ StatementFails(t) \/ StatementRejected(t)
          \/ CheckPasses(t) \/ CheckFails(t) \/ CheckTimesOut(t)
    \/ \E new \in DbStates : DbChanges(new)
    \/ QueuedIsLost \/ Shutdown

(* The timer of a check fires; nothing else is sure to happen.              *)
Fairness == \A t \in Checks : WF_vars(CheckTimesOut(t))

Spec == Init /\ [][Next]_vars
FairSpec == Spec /\ Fairness

-----------------------------------------------------------------------------
(* Properties. *)

Using == {t \in Tasks : conn[t] \in {"held", "broken"} \cup Opening}

(* Every connection the pool counts is queued or in use by a statement, on  *)
(* whichever path a session or a check is left, cancelled in the middle of  *)
(* an open included; no task has one while it waits for the provider, the   *)
(* bounds of the pool hold, and a stopped pod has none (engine.py:9-17,     *)
(* ip_lookup_repository.py:35, 81, lifespan.py:77-88).                      *)
NoConnectionIsLost ==
    /\ total = live + dead + Cardinality(Using)
    /\ total <= Capacity /\ live + dead <= PoolSize
    /\ \A t \in Tasks : conn[t] # "none" => at[t] \in Statements
    /\ serving \/ total = 0

(* A connection that died in the queue is no one's failure: pool_pre_ping   *)
(* finds it out before the statement.  A lookup or a check that ends with   *)
(* an error of the database has one of these causes, all met while it ran:  *)
(* PostgreSQL was down or without the table, a timeout (connect_timeout, a  *)
(* full pool, the check's own), or PostgreSQL refused the connection or the *)
(* statement, or lost it in use; a refusal may be about the address looked  *)
(* up, and the database then is fine (engine.py:15,                         *)
(* ip_lookup_repository.py:39-41, 83-85, lifespan.py:89-95).                *)
FailuresHaveACause ==
    \A t \in Tasks :
        verdict[t] \in {"database unavailable", "schema unavailable"} =>
            seen[t] \cap ({"down", "no table"} \cup Causes) # {}

(* The three answers of the readiness check: "ready" and "schema            *)
(* unavailable" name a state the database was in while the check ran, and   *)
(* a missing table is never reported as an unavailable database unless the  *)
(* check also timed out, was refused or met PostgreSQL down                 *)
(* (lifespan.py:84-97, health.py:25-54).                                    *)
ReadinessIsTruthful ==
    \A t \in Checks :
        /\ verdict[t] = "ready" => "ready" \in seen[t]
        /\ verdict[t] = "schema unavailable" => "no table" \in seen[t]
        /\ verdict[t] = "database unavailable" => seen[t] \cap ({"down"} \cup Causes) # {}

(* A check ends whatever the pool and PostgreSQL do, or fail to do          *)
(* (lifespan.py:87).                                                        *)
EveryCheckEnds == \A t \in Checks : at[t] = "check" ~> at[t] = "ended"
=============================================================================
