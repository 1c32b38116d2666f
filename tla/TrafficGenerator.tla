--------------------------- MODULE TrafficGenerator ---------------------------
(***************************************************************************)
(* generate-observability-traffic.py against one process of HttpApi: a     *)
(* thread pool sends numbered requests, each thread waits for its answer   *)
(* or gives up, and the main thread collects the results in order and      *)
(* decides on the exit status.  The server goes on with a request whose    *)
(* client gave up.  Latencies, percentiles, the printed summary and a      *)
(* second --base-url are left out; --cached-ip is a public address.        *)
(***************************************************************************)
EXTENDS HttpApi, FiniteSetsExt

CONSTANTS
    Generated,   \* the requests of the generator that are modelled
    Slices,      \* the indexes they can have in range(--requests)
    Concurrency  \* --concurrency

ASSUME GeneratorAssumption ==
    /\ Generated \subseteq Requests
    /\ Slices \subseteq [Generated -> Nat]
    /\ Concurrency \in Nat \ {0}

VARIABLES
    number,  \* number[r]: the index of the request
    future,  \* future[r]: its future
    result,  \* result[r]: the status in its Result, 0 after a transport failure
    exit     \* the main thread, or the exit status of the program

genVars == <<number, future, result, exit>>
allVars == <<vars, genVars>>

Ends == {"ok", "failed", "traceback"}

GeneratorTypeOK ==
    /\ TypeOK
    /\ number \in Slices
    /\ future \in [Generated -> {"pending", "asking", "returned", "raised", "cancelled"}]
    /\ result \in [Generated -> Statuses \cup {0}]
    /\ exit \in {"collecting", "draining"} \cup Ends

(* request_for: what a request asks for, by its index, and what it expects. *)
Bucket(r) == number[r] % 100
Category(r) ==
    CASE Bucket(r) < 85 -> "cached_lookup"
      [] Bucket(r) \in 85..94 -> "root"
      [] Bucket(r) \in 95..97 -> "health"
      [] OTHER -> "expected_4xx"
PathOf(r) ==
    CASE Category(r) = "root" -> "index"
      [] Category(r) = "health" -> IF number[r] % 2 = 1 THEN "live" ELSE "ready"
      [] OTHER -> "lookups"
Expected(r) == IF Category(r) = "expected_4xx" THEN {400, 422} ELSE {200}

GeneratorInit ==
    /\ Init
    /\ number \in Slices
    /\ \A r \in Generated : path[r] = PathOf(r)
    /\ future = [r \in Generated |-> "pending"]
    /\ result = [r \in Generated |-> 0]
    /\ exit = "collecting"

-----------------------------------------------------------------------------
(* The server.  A well-formed request of the generator has no X-Request-ID, *)
(* may only be refused for its Host, and its address decides which errors a *)
(* lookup can raise.                                                        *)
Possible(r) ==
    CASE stage[r] = "idle" -> future[r] # "pending" /\ future[r] # "cancelled" /\ id'[r] = r
      [] stage[r] = "inner" ->
            \/ status'[r] = 400 /\ route'[r] = "unmatched"
            \/ status'[r] = 200 /\ route'[r] # "unmatched"
            \/ stage'[r] = "endpoint"
      [] stage[r] = "endpoint" ->
            CASE Category(r) = "expected_4xx" -> code'[r] \in {"INVALID_IP", "INTERNAL_ERROR"}
              [] OTHER -> code'[r] \notin {"INVALID_IP", "NON_PUBLIC_IP"}
      [] OTHER -> TRUE

Server(r) ==
    /\ Serve(r)
    /\ r \in Generated => Possible(r)
    /\ UNCHANGED genVars

Finish(r, how, s) ==
    /\ future[r] = "asking"
    /\ future' = [future EXCEPT ![r] = how]
    /\ result' = [result EXCEPT ![r] = s]
    /\ UNCHANGED <<vars, number, exit>>

(* A free thread takes the oldest pending future. *)
Take(r) ==
    /\ future[r] = "pending"
    /\ Cardinality({q \in Generated : future[q] = "asking"}) < Concurrency
    /\ \A q \in Generated : future[q] = "pending" => number[r] <= number[q]
    /\ future' = [future EXCEPT ![r] = "asking"]
    /\ UNCHANGED <<vars, number, result, exit>>

(* The answer has left the server: urlopen returns or raises an HTTPError.  *)
Sent_BeforeObserve(r) == stage[r] \in {"outer", "done"}
Sent(r) == stage[r] = "done"
GetAnswer(r) == Sent(r) /\ Finish(r, "returned", status[r])

(* A refused or broken connection, or no answer within --timeout. *)
GetNothing_Connecting(r) == stage[r] = "idle" /\ Finish(r, "returned", 0)
GetNothing(r) == Finish(r, "returned", 0)

(* The body of an answer is cut off: IncompleteRead is none of the errors   *)
(* execute catches, and the body of an HTTPError is read in its handler.    *)
BodyBreaks(r) == Sent(r) /\ Finish(r, "raised", 0)

(* executor.map collects the results in order.  The first exception cancels *)
(* what is pending; the pool's __exit__ waits for the rest.                 *)
CollectException ==
    /\ exit = "collecting"
    /\ \E r \in Generated :
          /\ future[r] = "raised"
          /\ \A q \in Generated : number[q] < number[r] => future[q] = "returned"
    /\ exit' = "draining"
    /\ future' = [r \in Generated |-> IF future[r] = "pending" THEN "cancelled" ELSE future[r]]
    /\ UNCHANGED <<vars, number, result>>

Drain ==
    /\ exit = "draining"
    /\ \A r \in Generated : future[r] # "asking"
    /\ exit' = "traceback"
    /\ UNCHANGED <<vars, number, future, result>>

(* main's unexpected, and its return; --output-json may not be writable.    *)
Unexpected_Refused == {r \in Generated : result[r] # 0 /\ result[r] \notin Expected(r)}
Unexpected == {r \in Generated : result[r] \notin Expected(r)}
Summarise ==
    /\ exit = "collecting"
    /\ \A r \in Generated : future[r] = "returned"
    /\ exit' \in {IF Unexpected = {} THEN "ok" ELSE "failed", "traceback"}
    /\ UNCHANGED <<vars, number, future, result>>

Threads ==
    \/ \E r \in Generated : Take(r) \/ GetAnswer(r) \/ GetNothing(r) \/ BodyBreaks(r)
    \/ CollectException \/ Drain \/ Summarise

GeneratorNext == (\E r \in Requests : Server(r)) \/ Threads

(* Sockets have a timeout and threads run; nothing is asked of the server.  *)
GeneratorSpec == GeneratorInit /\ [][GeneratorNext]_allVars /\ WF_allVars(Threads)

-----------------------------------------------------------------------------
(* Properties. *)

(* "exits non-zero for any unexpected status or transport failure"          *)
(* (docs/performance-validation.md:24): exit status 0 means that the server *)
(* itself answered every request, with a status its category expects,       *)
(* whatever was given up, cancelled or answered late in between.            *)
NoFalsePass ==
    exit = "ok" =>
        \A r \in Generated : stage[r] = "done" /\ status[r] \in Expected(r)

(* What the generator reports can be read off the dashboards it populates:  *)
(* at every moment a status the clients have seen is in                     *)
(* ip_country_http_requests_total at least as often (main.py:60-67), except *)
(* the 500 that no handler made; the other way round does not hold, as a    *)
(* request that was given up is counted too.                                *)
DashboardsShowTheTraffic ==
    \A x \in {"/api/v1/lookups", "/"} \X (Statuses \ {500}) :
        Cardinality({r \in Generated : route[r] = x[1] /\ result[r] = x[2]}) <= metered[x]

(* The generator ends even when the server never answers (execute's timeout *)
(* and the shutdown of the pool).                                           *)
GeneratorEnds == <>(exit \in Ends)
=============================================================================
