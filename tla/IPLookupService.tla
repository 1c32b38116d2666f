--------------------------- MODULE IPLookupService ---------------------------
(***************************************************************************)
(* The cache-aside lookup of src/ip_country_api/services and repositories: *)
(* several pods serve lookups concurrently, each lookup an asyncio task    *)
(* that reads PostgreSQL, asks the GeoIP provider on a miss and upserts    *)
(* the answer.  One action is one stretch of code between two awaits, or   *)
(* one step of PostgreSQL or of the provider.                              *)
(*                                                                         *)
(* Time is the true time; a clock reading is any value within MaxSkew of   *)
(* it, on each reading anew (datetime.now(UTC) of different hosts).  A row *)
(* keeps the columns a lookup reads back; provider, created_at and         *)
(* updated_at are never read by a decision and are left out.               *)
(***************************************************************************)
EXTENDS Integers, FiniteSets

CONSTANTS
    Requests,   \* lookups the clients submit
    Pods,       \* application processes
    Inputs,     \* the strings a client may send
    IPs,        \* normalized addresses
    Parse,      \* ipaddress.ip_address(value.strip()): Inputs -> IPs or Malformed
    Malformed,  \* ip_address raised ValueError
    Public,     \* addresses none of the exclusions of validate_public_ip hits
    Storable,   \* addresses PostgreSQL's INET type can represent
    Countries,  \* country code and name, one value
    NoRow,      \* no such row, no CacheRecord yet
    NoAnswer,   \* the provider has not answered this lookup
    TTL,        \* geoip_cache_ttl_seconds
    MaxSkew,    \* bound on the error of a clock reading
    MaxTime     \* bound of the explored time

Row == [country : Countries, fetched : Int, expires : Int]
Answer == [country : Countries, at : Nat]

ASSUME ParseAssumption == Parse \in [Inputs -> IPs \cup {Malformed}]
ASSUME AddressAssumption ==
    Malformed \notin IPs /\ Public \subseteq IPs /\ Storable \subseteq IPs
ASSUME CountryAssumption == {"none", "refused"} \cap Countries = {}
ASSUME NoneAssumption == NoRow \notin Row /\ NoAnswer \notin Answer
ASSUME TimeAssumption == TTL \in Nat \ {0} /\ MaxSkew \in Nat /\ MaxTime \in Nat

ProviderErrors ==
    {"PROVIDER_TIMEOUT", "PROVIDER_UNAVAILABLE", "PROVIDER_INVALID_RESPONSE",
     "PROVIDER_AUTHENTICATION_FAILED", "PROVIDER_RATE_LIMITED", "INTERNAL_ERROR"}
Successes == {"database", "provider"}
Outcomes == {"none", "lost", "INVALID_IP", "NON_PUBLIC_IP", "DATABASE_UNAVAILABLE"}
                \cup Successes \cup ProviderErrors
Stages == {"idle", "reading", "selected", "asking", "upserting", "committing", "done"}
Missed == {"asking", "upserting", "committing"}   \* past a read that was no hit

Series == {"lookup_database_success", "lookup_provider_success", "lookup_provider_error",
           "db_read", "db_read_error", "db_upsert", "db_upsert_error"}

VARIABLES
    now,       \* true time
    up,        \* up[p]: pod p is running
    cache,     \* cache[i]: the row of ip_lookup_cache, or NoRow
    writes,    \* upserts PostgreSQL has received and neither committed nor aborted
    written,   \* lookups whose transaction committed
    metrics,   \* metrics[p]: p's Prometheus counters, in its memory
    pc,        \* pc[r]: the await lookup r is suspended at
    pod,       \* pod[r]: the pod that runs r
    ip,        \* ip[r]: the local `ip`
    asOf,      \* asOf[r]: the local `now` of lookup(), while it is needed
    row,       \* row[r]: the row in hand: `cached`, then `record`, then LookupResult
    outcome,   \* outcome[r]: the source of the LookupResult, or the code of the error
    arrived,   \* history: true time at which r was submitted
    answer     \* history: what the provider told r, and when

task == <<pc, pod, ip, asOf, row, outcome, arrived, answer>>
db == <<cache, writes, written>>
vars == <<now, up, db, metrics, task>>

TypeOK ==
    /\ now \in 0..MaxTime
    /\ up \in [Pods -> BOOLEAN]
    /\ cache \in [IPs -> Row \cup {NoRow}]
    /\ writes \subseteq [by : Requests, row : Row \cup {NoRow}]
    /\ written \subseteq Requests
    /\ metrics \in [Pods -> [Series -> Nat]]
    /\ pc \in [Requests -> Stages]
    /\ pod \in [Requests -> Pods]
    /\ ip \in [Requests -> IPs \cup {Malformed}]
    /\ asOf \in [Requests -> Int]
    /\ row \in [Requests -> Row \cup {NoRow}]
    /\ outcome \in [Requests -> Outcomes]
    /\ arrived \in [Requests -> 0..MaxTime]
    /\ answer \in [Requests -> Answer \cup {NoAnswer}]

Init ==
    /\ now = 0
    /\ up = [p \in Pods |-> TRUE]
    /\ cache = [i \in IPs |-> NoRow]
    /\ writes = {}
    /\ written = {}
    /\ metrics = [p \in Pods |-> [s \in Series |-> 0]]
    /\ pc = [r \in Requests |-> "idle"]
    /\ pod \in [Requests -> Pods]
    /\ ip = [r \in Requests |-> Malformed]
    /\ asOf = [r \in Requests |-> 0]
    /\ row = [r \in Requests |-> NoRow]
    /\ outcome = [r \in Requests |-> "none"]
    /\ arrived = [r \in Requests |-> 0]
    /\ answer = [r \in Requests |-> NoAnswer]

-----------------------------------------------------------------------------
(* The rules the handlers apply, each with the slip a change could make. *)

(* A clock reading: datetime.now(UTC) on some host. *)
ClockReading == (now - MaxSkew)..(now + MaxSkew)

(* `cached is not None and cached.expires_at > now` *)
Hit_Inclusive(cached, clock) == cached # NoRow /\ cached.expires >= clock
Hit_Any(cached, clock) == cached # NoRow
Hit(cached, clock) == cached # NoRow /\ cached.expires > clock

(* CacheRecord(...) of a fresh answer. *)
NewRecord(country, clock) ==
    [country |-> country, fetched |-> clock, expires |-> clock + TTL]

(* INSERT ... ON CONFLICT (ip_address) DO UPDATE SET ...: the row it leaves. *)
Upserted_KeepsFetchedAt(old, new) ==
    IF old = NoRow THEN new ELSE [new EXCEPT !.fetched = old.fetched]
Upserted(old, new) == new

(* `async with ... session.begin()` is left only after COMMIT returned. *)
Acknowledged_OnExecute(r) == r \in written \/ \E w \in writes : w.by = r
Acknowledged(r) == r \in written

(* The counters a failed upsert, and a failed read, bump. *)
UpsertFailureSeries_NoLookup == {"db_upsert", "db_upsert_error"}
UpsertFailureSeries_NoError == {"db_upsert", "lookup_provider_error"}
UpsertFailureSeries == {"db_upsert", "db_upsert_error", "lookup_provider_error"}
ReadFailureSeries == {"db_read", "db_read_error"}

Bump(r, series) ==
    metrics' = [metrics EXCEPT ![pod[r]] =
                  [s \in Series |-> @[s] + IF s \in series THEN 1 ELSE 0]]

GoTo(r, stage) == pc' = [pc EXCEPT ![r] = stage]
Hold(r, got) == row' = [row EXCEPT ![r] = got]
Forget(r) == asOf' = [asOf EXCEPT ![r] = 0]

(* lookup() is left with an error, or with the row of its LookupResult. *)
Finish(r, how, got) ==
    /\ GoTo(r, "done")
    /\ outcome' = [outcome EXCEPT ![r] = how]
    /\ Hold(r, got)
    /\ Forget(r)
Fail_Unmapped(r, error) == Finish(r, "EXCEPTION", NoRow)
Fail(r, error) == Finish(r, error, NoRow)

-----------------------------------------------------------------------------
(* lookup(), from one await to the next. *)

Arrive(r, i) ==
    /\ pc[r] = "idle" /\ up[pod[r]]
    /\ ip' = [ip EXCEPT ![r] = i]
    /\ arrived' = [arrived EXCEPT ![r] = now]

(* validate_public_ip raises before anything is read. *)
RejectInput(r, input) ==
    LET i == Parse[input] IN
    /\ Arrive(r, i)
    /\ i \notin Public
    /\ Fail(r, IF i = Malformed THEN "INVALID_IP" ELSE "NON_PUBLIC_IP")
    /\ UNCHANGED <<now, up, db, metrics, pod, answer>>

(* The clock is read here, before the await of repository.get. *)
StartLookup(r, input) ==
    LET i == Parse[input] IN
    /\ Arrive(r, i)
    /\ i \in Public
    /\ \E t \in ClockReading : asOf' = [asOf EXCEPT ![r] = t]
    /\ GoTo(r, "reading")
    /\ UNCHANGED <<now, up, db, metrics, pod, row, outcome, answer>>

(* PostgreSQL evaluates the SELECT. *)
DbSelect(r) ==
    /\ pc[r] = "reading"
    /\ ip[r] \in Storable
    /\ Hold(r, cache[ip[r]])
    /\ GoTo(r, "selected")
    /\ UNCHANGED <<now, up, db, metrics, pod, ip, asOf, outcome, arrived, answer>>

(* An address that is no INET value is a DataError, like any other failure. *)
DbRejects(r) ==
    /\ pc[r] = "reading"
    /\ ip[r] \notin Storable
    /\ Bump(r, ReadFailureSeries)
    /\ Fail(r, "DATABASE_UNAVAILABLE")
    /\ UNCHANGED <<now, up, db, pod, ip, arrived, answer>>

(* No connection, or one that broke before or after the SELECT ran. *)
ReadFails(r) ==
    /\ pc[r] \in {"reading", "selected"}
    /\ Bump(r, ReadFailureSeries)
    /\ Fail(r, "DATABASE_UNAVAILABLE")
    /\ UNCHANGED <<now, up, db, pod, ip, arrived, answer>>

ReadHit(r) ==
    /\ pc[r] = "selected"
    /\ Hit(row[r], asOf[r])
    /\ Bump(r, {"db_read", "lookup_database_success"})
    /\ Finish(r, "database", row[r])
    /\ UNCHANGED <<now, up, db, pod, ip, arrived, answer>>

ReadMiss(r) ==
    /\ pc[r] = "selected"
    /\ ~Hit(row[r], asOf[r])
    /\ Bump(r, {"db_read"})
    /\ GoTo(r, "asking")
    /\ Hold(r, NoRow)
    /\ Forget(r)
    /\ UNCHANGED <<now, up, db, pod, ip, outcome, arrived, answer>>

(* provider.lookup returns: the clock is read again and the record built. *)
ProviderAnswers(r) ==
    /\ pc[r] = "asking"
    /\ \E c \in Countries, t \in ClockReading :
          /\ answer' = [answer EXCEPT ![r] = [country |-> c, at |-> now]]
          /\ Hold(r, NewRecord(c, t))
    /\ GoTo(r, "upserting")
    /\ UNCHANGED <<now, up, db, metrics, pod, ip, asOf, outcome, arrived>>

ProviderFails(r) ==
    /\ pc[r] = "asking"
    /\ Bump(r, {"lookup_provider_error"})
    /\ \E e \in ProviderErrors : Fail(r, e)
    /\ UNCHANGED <<now, up, db, pod, ip, arrived, answer>>

(* The transaction reaches PostgreSQL. *)
SendUpsert(r) ==
    /\ pc[r] = "upserting"
    /\ writes' = writes \cup {[by |-> r, row |-> row[r]]}
    /\ GoTo(r, "committing")
    /\ UNCHANGED <<now, up, cache, written, metrics, pod, ip, asOf, row, outcome, arrived, answer>>

UpsertReturns(r) ==
    /\ pc[r] = "committing"
    /\ Acknowledged(r)
    /\ Bump(r, {"db_upsert", "lookup_provider_success"})
    /\ Finish(r, "provider", row[r])
    /\ UNCHANGED <<now, up, db, pod, ip, arrived, answer>>

(* No connection, an aborted transaction, or a connection that broke while  *)
(* the transaction's fate was open: PostgreSQL may still commit it.         *)
UpsertFails_OnlyUnsent(r) ==
    /\ pc[r] = "upserting"
    /\ Bump(r, UpsertFailureSeries)
    /\ Fail(r, "DATABASE_UNAVAILABLE")
    /\ UNCHANGED <<now, up, db, pod, ip, arrived, answer>>
UpsertFails(r) ==
    /\ pc[r] \in {"upserting", "committing"}
    /\ Bump(r, UpsertFailureSeries)
    /\ Fail(r, "DATABASE_UNAVAILABLE")
    /\ UNCHANGED <<now, up, db, pod, ip, arrived, answer>>

-----------------------------------------------------------------------------
(* PostgreSQL, the pods, and time. *)

DbCommit(w) ==
    /\ cache' = [cache EXCEPT ![ip[w.by]] = Upserted(@, w.row)]
    /\ writes' = writes \ {w}
    /\ written' = written \cup {w.by}
    /\ UNCHANGED <<now, up, metrics, task>>

DbAbort(w) ==
    /\ writes' = writes \ {w}
    /\ UNCHANGED <<now, up, cache, written, metrics, task>>

(* A killed pod loses its tasks and its counters, not what it sent. *)
Crash(p) ==
    LET lost == {r \in Requests : pod[r] = p /\ pc[r] \notin {"idle", "done"}} IN
    /\ up[p]
    /\ up' = [up EXCEPT ![p] = FALSE]
    /\ metrics' = [metrics EXCEPT ![p] = [s \in Series |-> 0]]
    /\ pc' = [r \in Requests |-> IF r \in lost THEN "done" ELSE pc[r]]
    /\ outcome' = [r \in Requests |-> IF r \in lost THEN "lost" ELSE outcome[r]]
    /\ row' = [r \in Requests |-> IF r \in lost THEN NoRow ELSE row[r]]
    /\ asOf' = [r \in Requests |-> IF r \in lost THEN 0 ELSE asOf[r]]
    /\ UNCHANGED <<now, db, pod, ip, arrived, answer>>

Restart(p) ==
    /\ ~up[p]
    /\ up' = [up EXCEPT ![p] = TRUE]
    /\ UNCHANGED <<now, db, metrics, task>>

Tick ==
    /\ now < MaxTime
    /\ now' = now + 1
    /\ UNCHANGED <<up, db, metrics, task>>

ConnectionFails(r) == ReadFails(r) \/ UpsertFails(r)

Serve(r) ==
    \/ \E input \in Inputs : RejectInput(r, input) \/ StartLookup(r, input)
    \/ DbSelect(r) \/ DbRejects(r) \/ ReadHit(r) \/ ReadMiss(r)
    \/ ProviderAnswers(r) \/ ProviderFails(r)
    \/ SendUpsert(r) \/ UpsertReturns(r)

Next ==
    \/ \E r \in Requests : Serve(r) \/ ConnectionFails(r)
    \/ \E w \in writes : DbCommit(w) \/ DbAbort(w)
    \/ \E p \in Pods : Crash(p) \/ Restart(p)
    \/ Tick

Spec == Init /\ [][Next]_vars

-----------------------------------------------------------------------------
(* Properties. *)

(* got is the record one answer of the provider for the address makes.      *)
Matches(got, a) ==
    /\ got.country = a.country
    /\ got.fetched \in (a.at - MaxSkew)..(a.at + MaxSkew)
    /\ got.expires = got.fetched + TTL

Told(q, i, got) == ip[q] = i /\ answer[q] # NoAnswer /\ Matches(got, answer[q])

(* Every row in the table and every successful reply is, in all its fields, *)
(* one answer the provider really gave for that address, however concurrent *)
(* upserts, lost connections and crashes interleave: no conflict update     *)
(* leaves a row with the country of one answer and the dates of another     *)
(* (ip_lookup_repository.py:69-79, ip_lookup_service.py:37-44 and 66-73).   *)
NoTornRow ==
    /\ \A i \in IPs : cache[i] # NoRow => \E q \in Requests : Told(q, i, cache[i])
    /\ \A r \in Requests :
          outcome[r] \in Successes => \E q \in Requests : Told(q, ip[r], row[r])

(* Read with the true clock, a database reply was learnt less than          *)
(* TTL + 2*MaxSkew before its client asked, and a provider reply after:     *)
(* the writer's clock made expires_at and the reader's judges it            *)
(* (ip_lookup_service.py:32-34, 50, 57).                                    *)
ReplyIsRecent ==
    \A r \in Requests :
        /\ outcome[r] = "database" =>
              \E q \in Requests : /\ Told(q, ip[r], row[r])
                                  /\ arrived[r] < answer[q].at + TTL + 2 * MaxSkew
        /\ outcome[r] = "provider" =>
              Told(r, ip[r], row[r]) /\ arrived[r] <= answer[r].at

(* A client that has a country can rely on the table holding a row for the  *)
(* address, through every crash after the reply: UpsertReturns waits for    *)
(* the COMMIT (ip_lookup_repository.py:81-82, ip_lookup_service.py:59-64).  *)
ReplyIsKept ==
    \A r \in Requests : outcome[r] \in Successes => cache[ip[r]] # NoRow

InFlight(p, stages) == Cardinality({r \in Requests : pod[r] = p /\ pc[r] \in stages})

(* "A miss is observable as an attempted provider-source lookup"            *)
(* (ip_lookup_service.py:46): on every pod the reads that returned a row or *)
(* none are the database hits, the provider lookups that ended, and the     *)
(* misses still in flight; none is dropped by an error path.                *)
MissesAreObservable ==
    \A p \in Pods :
        metrics[p]["db_read"] - metrics[p]["db_read_error"] =
            metrics[p]["lookup_database_success"] + metrics[p]["lookup_provider_success"]
                + metrics[p]["lookup_provider_error"] + InFlight(p, Missed)

(* The upsert counters tell apart what the lookup counters lump together:   *)
(* an upsert that did not fail is a provider success, and one that did is   *)
(* among the provider errors (ip_lookup_service.py:59-64,                   *)
(* ip_lookup_repository.py:83-87).                                          *)
UpsertsAreObservable ==
    \A p \in Pods :
        /\ metrics[p]["db_upsert"] =
              metrics[p]["lookup_provider_success"] + metrics[p]["db_upsert_error"]
        /\ metrics[p]["db_upsert_error"] <= metrics[p]["lookup_provider_error"]

-----------------------------------------------------------------------------
(* The inductive invariant behind NoTornRow, ReplyIsRecent and ReplyIsKept. *)

Known(i, got) == \E q \in Requests : Told(q, i, got)
Kept(i) == i \in IPs /\ cache[i] # NoRow

TaskInv(r) ==
    /\ pc[r] = "idle" => ip[r] = Malformed
    /\ pc[r] # "idle" => arrived[r] <= now
    /\ pc[r] # "done" => outcome[r] = "none"
    /\ pc[r] \notin {"idle", "done"} => ip[r] \in Public
    /\ pc[r] \in {"idle", "reading", "selected", "asking"} => answer[r] = NoAnswer
    /\ pc[r] \in {"reading", "selected"} => arrived[r] <= asOf[r] + MaxSkew
    /\ pc[r] = "selected" /\ row[r] # NoRow => Known(ip[r], row[r]) /\ Kept(ip[r])
    /\ pc[r] \in {"upserting", "committing"} =>
          row[r] # NoRow /\ Told(r, ip[r], row[r]) /\ arrived[r] <= answer[r].at
    /\ r \in written => answer[r] # NoAnswer /\ Kept(ip[r])
    /\ outcome[r] \in Successes => Known(ip[r], row[r]) /\ Kept(ip[r])
    /\ outcome[r] = "database" =>
          \E q \in Requests : /\ Told(q, ip[r], row[r])
                              /\ arrived[r] < answer[q].at + TTL + 2 * MaxSkew
    /\ outcome[r] = "provider" => Told(r, ip[r], row[r]) /\ arrived[r] <= answer[r].at

RowInv(i) == cache[i] # NoRow => Known(i, cache[i])
WriteInv(w) == w.row # NoRow /\ ip[w.by] \in IPs /\ Told(w.by, ip[w.by], w.row)

(* What an in-flight lookup, a row and an unfinished transaction carry at   *)
(* every await is already one answer of the provider for the right address, *)
(* so whichever of them lands next leaves table and replies as promised.    *)
LookupInv ==
    /\ \A r \in Requests : TaskInv(r)
    /\ \A i \in IPs : RowInv(i)
    /\ \A w \in writes : WriteInv(w)

-----------------------------------------------------------------------------
(* What the clients see, in the terms of LookupPromise. *)

Asked == [r \in Requests |->
            IF ip[r] \in Public THEN {[about |-> ip[r], at |-> arrived[r]]} ELSE {}]
Facts == {[about |-> ip[q], country |-> answer[q].country, at |-> answer[q].at] :
            q \in {q \in Requests : answer[q] # NoAnswer}}
KeptIPs == {i \in IPs : cache[i] # NoRow}
Verdicts == [r \in Requests |->
               IF outcome[r] \in Successes THEN row[r].country
               ELSE IF outcome[r] = "none" THEN "none" ELSE "refused"]

Promise == INSTANCE LookupPromise WITH
    Clients <- Requests, Addresses <- Public, Window <- TTL + 2 * MaxSkew,
    time <- now, asked <- Asked, known <- Facts, kept <- KeptIPs, verdict <- Verdicts

(* The whole service keeps the promise: every step is a step of the         *)
(* abstract specification or invisible to it.                               *)
KeepsPromise == Promise!PromiseSpec
=============================================================================
