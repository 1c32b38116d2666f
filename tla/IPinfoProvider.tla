---------------------------- MODULE IPinfoProvider ----------------------------
(***************************************************************************)
(* The GeoIP provider adapters of src/ip_country_api/providers: concurrent *)
(* calls of one process to the IPinfo Lite API with bounded retries, or to *)
(* the fixtures of the fake provider, and the counters they share.  An     *)
(* action runs from one await (an HTTP request, a backoff sleep) to the    *)
(* next.  How long a backoff lasts is left out.                            *)
(***************************************************************************)
EXTENDS Integers, Sequences, FiniteSets

CONSTANTS
    Calls,       \* invocations of lookup()
    MaxRetries,  \* geoip_provider_max_retries
    Statuses     \* HTTP status codes the provider may answer with

ASSUME RetriesAssumption == MaxRetries \in Nat
ASSUME StatusAssumption == Statuses \subseteq 200..599

(* How client.get can end without a response. *)
TimedOut == 0     \* httpx.TimeoutException
Broken == 1       \* an httpx.TransportError, or any other httpx.RequestError
Garbled == 2      \* httpx.DecodingError, a RequestError too: the body cannot be decoded
NoResponse == {TimedOut, Broken, Garbled}

(* What response.json() and the response model make of the body: a country, *)
(* a ValueError, or an exception no clause of lookup() catches (the         *)
(* RecursionError of a body nested too deeply).                             *)
Bodies == {"usable", "unusable", "hostile"}
Attempt ==
    [status : {s \in Statuses : s < 400}, body : Bodies]
      \cup [status : {s \in Statuses : s >= 400} \cup NoResponse, body : {"unread"}]

ErrorTypes == {"timeout", "unavailable", "authentication", "rate_limited",
               "invalid_response", "fixture_not_found"}
Errors == {"PROVIDER_TIMEOUT", "PROVIDER_UNAVAILABLE", "PROVIDER_AUTHENTICATION_FAILED",
           "PROVIDER_RATE_LIMITED", "PROVIDER_INVALID_RESPONSE", "INTERNAL_ERROR"}

VARIABLES
    setting,   \* geoip_provider: "ipinfo" or "fake"
    pc,        \* pc[c]: the await call c is suspended at
    log,       \* log[c]: what c's HTTP attempts came to, in order
    result,    \* result[c]: "success", or the code of the error raised
    requests,  \* ip_country_provider_requests_total by result
    errors     \* ip_country_provider_errors_total by error_type

vars == <<setting, pc, log, result, requests, errors>>

TypeOK ==
    /\ setting \in {"ipinfo", "fake"}
    /\ pc \in [Calls -> {"idle", "requesting", "sleeping", "done"}]
    /\ log \in [Calls -> Seq(Attempt)]
    /\ result \in [Calls -> {"none", "success"} \cup Errors]
    /\ requests \in [{"success", "error"} -> Nat]
    /\ errors \in [ErrorTypes -> Nat]

Init ==
    /\ setting \in {"ipinfo", "fake"}
    /\ pc = [c \in Calls |-> "idle"]
    /\ log = [c \in Calls |-> << >>]
    /\ result = [c \in Calls |-> "none"]
    /\ requests = [x \in {"success", "error"} |-> 0]
    /\ errors = [t \in ErrorTypes |-> 0]

-----------------------------------------------------------------------------
(* The rules of lookup() and _request(). *)

(* The exceptions tenacity retries. *)
Retryable(a) == a.status \in NoResponse \/ a.status >= 500

(* stop_after_attempt(max_retries + 1), asked after the n-th attempt.       *)
Exhausted_OneEarly(n) == n >= MaxRetries
Exhausted(n) == n >= MaxRetries + 1

(* What _parse makes of the body of a response below 400. *)
Parsed(body) ==
    IF body = "usable" THEN "success"
    ELSE IF body = "unusable" THEN "PROVIDER_INVALID_RESPONSE" ELSE "INTERNAL_ERROR"

(* How lookup() ends if attempt a is its last one. *)
Verdict(a) ==
    IF a.status = TimedOut THEN "PROVIDER_TIMEOUT"
    ELSE IF a.status \in NoResponse \/ a.status >= 500 THEN "PROVIDER_UNAVAILABLE"
    ELSE IF a.status \in {401, 403} THEN "PROVIDER_AUTHENTICATION_FAILED"
    ELSE IF a.status = 429 THEN "PROVIDER_RATE_LIMITED"
    ELSE IF a.status >= 400 THEN "PROVIDER_INVALID_RESPONSE"
    ELSE Parsed(a.body)

(* reraise=True raises the exception of the attempt made last. *)
Deciding_First(c, a) == IF log[c] = << >> THEN a ELSE log[c][1]
Deciding(c, a) == a

(* The error_type a raised error is counted under: none if nothing caught it. *)
TypesOf(e) ==
    CASE e = "PROVIDER_TIMEOUT"               -> {"timeout"}
      [] e = "PROVIDER_UNAVAILABLE"           -> {"unavailable"}
      [] e = "PROVIDER_AUTHENTICATION_FAILED" -> {"authentication"}
      [] e = "PROVIDER_RATE_LIMITED"          -> {"rate_limited"}
      [] e = "PROVIDER_INVALID_RESPONSE"      -> {"invalid_response"}
      [] OTHER                                -> {}

(* What a retried attempt counts: _request raises before any counter.       *)
RetryTypes_Counted == {"unavailable"}
RetryTypes == {}

Count(types) == errors' = [t \in ErrorTypes |-> errors[t] + IF t \in types THEN 1 ELSE 0]

(* The `finally` of lookup(): provider_request(name, result, ...). *)
Finish(c, how) ==
    LET kind == IF how = "success" THEN "success" ELSE "error" IN
    /\ pc' = [pc EXCEPT ![c] = "done"]
    /\ result' = [result EXCEPT ![c] = how]
    /\ requests' = [requests EXCEPT ![kind] = @ + 1]

-----------------------------------------------------------------------------
(* IPinfoLiteProvider.lookup *)

Begin(c) ==
    /\ setting = "ipinfo" /\ pc[c] = "idle"
    /\ pc' = [pc EXCEPT ![c] = "requesting"]
    /\ UNCHANGED <<setting, log, result, requests, errors>>

AttemptEnds_Unread(c, a) ==
    /\ pc[c] = "requesting"
    /\ log' = [log EXCEPT ![c] = Append(@, [a EXCEPT !.body = "unread"])]
AttemptEnds(c, a) ==
    /\ pc[c] = "requesting"
    /\ log' = [log EXCEPT ![c] = Append(@, a)]

(* A retryable failure with attempts left: tenacity sleeps. *)
RetryLater(c, a) ==
    /\ AttemptEnds(c, a)
    /\ Retryable(a) /\ ~Exhausted(Len(log[c]) + 1)
    /\ pc' = [pc EXCEPT ![c] = "sleeping"]
    /\ Count(RetryTypes)
    /\ UNCHANGED <<setting, result, requests>>

Conclude(c, a) ==
    LET how == Verdict(Deciding(c, a)) IN
    /\ AttemptEnds(c, a)
    /\ ~Retryable(a) \/ Exhausted(Len(log[c]) + 1)
    /\ Finish(c, how)
    /\ Count(TypesOf(how))
    /\ UNCHANGED setting

WakeUp_Alone(c) ==
    /\ pc[c] = "sleeping"
    /\ \A d \in Calls \ {c} : pc[d] # "sleeping"
    /\ pc' = [pc EXCEPT ![c] = "requesting"]
    /\ UNCHANGED <<setting, log, result, requests, errors>>
WakeUp(c) ==
    /\ pc[c] = "sleeping"
    /\ pc' = [pc EXCEPT ![c] = "requesting"]
    /\ UNCHANGED <<setting, log, result, requests, errors>>

(* FakeGeoIPProvider.lookup never awaits: the address has a fixture or not. *)
FakeLookup(c) ==
    /\ setting = "fake" /\ pc[c] = "idle"
    /\ \/ Finish(c, "success") /\ Count({})
       \/ Finish(c, "PROVIDER_INVALID_RESPONSE") /\ Count({"fixture_not_found"})
    /\ UNCHANGED <<setting, log>>

Next ==
    \E c \in Calls :
        \/ Begin(c) \/ WakeUp(c) \/ FakeLookup(c)
        \/ \E a \in Attempt : RetryLater(c, a) \/ Conclude(c, a)

Spec == Init /\ [][Next]_vars

-----------------------------------------------------------------------------
(* Properties. *)

Ended(c) == log[c] # << >> /\ pc[c] = "done"
LastOf(c) == log[c][Len(log[c])]
Transient(a) == a.status \in NoResponse \cup 500..599

(* "retries unavailability with a strict bound" and "retries timeout with a *)
(* strict bound" (tests/unit/test_provider.py:75, 90), for any mix of       *)
(* outcomes: only a transient failure is followed by another attempt, a     *)
(* call makes at most MaxRetries + 1, and it gives a transient failure up   *)
(* only after all of them (ipinfo.py:68-73).                                *)
RetriesAreStrict ==
    \A c \in Calls :
        /\ \A k \in 1..(Len(log[c]) - 1) : Transient(log[c][k])
        /\ Len(log[c]) <= MaxRetries + 1
        /\ Ended(c) /\ Transient(LastOf(c)) => Len(log[c]) = MaxRetries + 1
        /\ pc[c] = "sleeping" => Len(log[c]) <= MaxRetries

(* Whatever was retried before leaves no trace: two calls whose last        *)
(* attempts are alike end alike, and a call succeeds only with a usable     *)
(* body of a response below 400 (ipinfo.py:72, 76-91).                      *)
LastAttemptDecides ==
    /\ \A c, d \in Calls : Ended(c) /\ Ended(d) /\ LastOf(c) = LastOf(d)
                              => result[c] = result[d]
    /\ \A c \in Calls : Ended(c) /\ result[c] = "success"
                           => LastOf(c).status \in 200..399 /\ LastOf(c).body = "usable"

(* The handler of lookup() maps httpx.DecodingError to invalid_response     *)
(* (ipinfo.py:89-91), "The country provider returned an unusable response." *)
(* (domain/errors.py:51): a call given up on a body that cannot be decoded  *)
(* ends with that error.                                                    *)
UndecodableIsInvalid ==
    \A c \in Calls : Ended(c) /\ LastOf(c).status = Garbled
                        => result[c] = "PROVIDER_INVALID_RESPONSE"

EndedWith(R) == {c \in Calls : result[c] \in R}
AllErrors ==
    errors["timeout"] + errors["unavailable"] + errors["authentication"]
      + errors["rate_limited"] + errors["invalid_response"] + errors["fixture_not_found"]

(* However calls and retries interleave, every finished call is in exactly  *)
(* one series of provider_requests, and every failed one in exactly one of  *)
(* provider_errors, save one that ended in an uncaught exception, which is  *)
(* in none (ipinfo.py:83-93, 105-115, fake.py:25-31).                       *)
EachCallIsCountedOnce ==
    /\ requests["success"] = Cardinality(EndedWith({"success"}))
    /\ requests["error"] = Cardinality(EndedWith(Errors))
    /\ AllErrors = Cardinality(EndedWith(Errors \ {"INTERNAL_ERROR"}))
=============================================================================
