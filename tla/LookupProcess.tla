---------------------------- MODULE LookupProcess ----------------------------
(***************************************************************************)
(* One application process: the lookup service of IPLookupService awaiting *)
(* the GeoIP provider of IPinfoProvider, call c of the provider being the  *)
(* one lookup c makes.  The service suspends in provider.lookup and goes   *)
(* on in the step in which the provider's coroutine returns or raises, so  *)
(* what IPLookupService leaves to chance (which answer comes, and that one *)
(* comes at all) is here what retries, statuses and bodies lead to.        *)
(***************************************************************************)
EXTENDS IPinfoProvider

CONSTANTS
    Process,    \* the pod
    Inputs, IPs, Parse, Malformed, Public, Storable, Countries, NoRow, NoAnswer,
    TTL, MaxSkew, MaxTime

VARIABLES
    now, up, cache, writes, written, metrics,
    await,      \* pc of IPLookupService
    pod, ip, asOf, row, outcome, arrived, answer

Lookup == INSTANCE IPLookupService WITH
    Requests <- Calls, Pods <- {Process}, pc <- await

(* What IPLookupService assumes of its constants. *)
ASSUME LookupAssumption ==
    /\ Parse \in [Inputs -> IPs \cup {Malformed}]
    /\ Malformed \notin IPs /\ Public \subseteq IPs /\ Storable \subseteq IPs
    /\ {"none", "refused"} \cap Countries = {}
    /\ NoRow \notin Lookup!Row /\ NoAnswer \notin Lookup!Answer
    /\ TTL \in Nat \ {0} /\ MaxSkew \in Nat /\ MaxTime \in Nat

lookupVars == <<now, up, cache, writes, written, metrics, await,
                pod, ip, asOf, row, outcome, arrived, answer>>
processVars == <<vars, lookupVars>>

ProcessInit == Init /\ Lookup!Init

-----------------------------------------------------------------------------
(* A step of the service, or of PostgreSQL, that leaves the provider alone. *)
Aside(step) == step /\ UNCHANGED vars

(* A miss: the coroutine of provider.lookup runs up to its first await; the  *)
(* fake provider has none.                                                  *)
Ask(c) ==
    /\ Lookup!ReadMiss(c)
    /\ Begin(c) \/ (setting = "fake" /\ UNCHANGED vars)

(* Between two attempts nothing of the service runs for this lookup.        *)
Attempting(c) ==
    /\ WakeUp(c) \/ \E a \in Attempt : RetryLater(c, a)
    /\ UNCHANGED lookupVars

(* provider.lookup returns a country, or raises what lookup() re-raises.    *)
Returns(c) ==
    IF result'[c] = "success" THEN Lookup!ProviderAnswers(c)
    ELSE Lookup!ProviderFails(c) /\ outcome'[c] = result'[c]

ProviderEnds(c) ==
    /\ await[c] = "asking"
    /\ FakeLookup(c) \/ \E a \in Attempt : Conclude(c, a)
    /\ Returns(c)

(* The provider's calls and counters live in the process. *)
Crash ==
    /\ Lookup!Crash(Process)
    /\ pc' = [c \in Calls |-> "idle"]
    /\ log' = [c \in Calls |-> << >>]
    /\ result' = [c \in Calls |-> "none"]
    /\ requests' = [x \in {"success", "error"} |-> 0]
    /\ errors' = [t \in ErrorTypes |-> 0]
    /\ UNCHANGED setting

ProcessNext ==
    \/ \E c \in Calls :
          \/ Ask(c) \/ Attempting(c) \/ ProviderEnds(c)
          \/ \E input \in Inputs :
                Aside(Lookup!RejectInput(c, input) \/ Lookup!StartLookup(c, input))
          \/ Aside(Lookup!DbSelect(c) \/ Lookup!DbRejects(c) \/ Lookup!ReadHit(c)
                   \/ Lookup!SendUpsert(c) \/ Lookup!UpsertReturns(c)
                   \/ Lookup!ConnectionFails(c))
    \/ \E w \in writes : Aside(Lookup!DbCommit(w) \/ Lookup!DbAbort(w))
    \/ Crash \/ Aside(Lookup!Restart(Process)) \/ Aside(Lookup!Tick)

(* Only httpx and asyncio are sure to go on: a request ends (its timeouts   *)
(* bound the connect and each read, so a body that trickles for ever is     *)
(* assumed away) and a sleep ends.  Nothing is assumed of PostgreSQL or of  *)
(* the connection to it: no statement has a timeout, so both the SELECT and *)
(* the upsert may stay without an answer.                                   *)
ProcessFairness ==
    \A c \in Calls :
        /\ WF_processVars(WakeUp(c) /\ UNCHANGED lookupVars)
        /\ WF_processVars(ProviderEnds(c) \/ (UNCHANGED lookupVars /\ \E a \in Attempt : RetryLater(c, a)))

ProcessSpec == ProcessInit /\ [][ProcessNext]_processVars /\ ProcessFairness

-----------------------------------------------------------------------------
(* Properties. *)

(* Where the repository awaits PostgreSQL.                                  *)
InSelect == {"reading", "selected"}
InUpsert == {"upserting", "committing"}

(* A lookup that was submitted ends, with a reply, an error or the loss of  *)
(* its process, or is for ever in one and the same await of the repository. *)
(* That happens: the statements have no timeout                             *)
(* (ip_lookup_repository.py:35, 81).  Nothing else holds a lookup back, not *)
(* the provider, its retries and their sleeps, nor the way from one await   *)
(* to the next (ip_lookup_service.py:27-81, ipinfo.py:66-102).              *)
OnlyPostgresHoldsALookup ==
    \A c \in Calls :
        await[c] # "idle" ~>
            (await[c] = "done" \/ [](await[c] \in InSelect) \/ [](await[c] \in InUpsert))

(* The provider's counter and the service's tell one story, so the evidence *)
(* gate "The provider count must not increase during cached traffic"        *)
(* (docs/performance-validation.md:28) can be read off either: calls that   *)
(* succeeded are the provider lookups, the upserts that failed and those    *)
(* still on their way; calls that failed are the other provider errors.     *)
(* (ip_lookup_service.py:46-81, ipinfo.py:83-93, fake.py:25-31)             *)
CountersAgree ==
    LET count == metrics[Process] IN
    /\ requests["success"] = count["lookup_provider_success"] + count["db_upsert_error"]
                                + Lookup!InFlight(Process, {"upserting", "committing"})
    /\ requests["error"] + count["db_upsert_error"] = count["lookup_provider_error"]
=============================================================================
