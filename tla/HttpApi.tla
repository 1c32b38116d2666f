------------------------------- MODULE HttpApi -------------------------------
(***************************************************************************)
(* The HTTP layer of one process (main.py, api/*.py, request_context.py):  *)
(* concurrent requests through the middleware stack                        *)
(*    ServerErrorMiddleware > request_observability > CORS > TrustedHost   *)
(*      > ExceptionMiddleware > router > endpoint                          *)
(* each in an asyncio task with its own request_id_context.  Durations,    *)
(* response bodies other than the error envelope and the log text are left *)
(* out.                                                                    *)
(***************************************************************************)
EXTENDS Integers, FiniteSets

CONSTANTS
    Requests,
    Paths,       \* what the requests ask for, by the name of the endpoint
    Trace,       \* a well-formed X-Request-ID, which several clients may send
    NoId         \* no id: not assigned yet, or no such header or field

ASSUME PathsAssumption ==
    Paths \subseteq {"lookups", "index", "file", "nowhere", "live", "ready", "metrics"}

(* The path of the APIRoute the router finds.  A page of the generated docs, *)
(* a static file ("file") and an unknown path ("nowhere") have none.        *)
RouteOf == [lookups |-> "/api/v1/lookups", index |-> "/", live |-> "/health/live",
            ready |-> "/health/ready", metrics |-> "/metrics"]
Route_RawPath(p) == p
Route(p) == IF p \in DOMAIN RouteOf THEN RouteOf[p] ELSE "unmatched"
Excluded_MetricsOnly == {"metrics"}
Excluded == {"metrics", "live", "ready"}

(* domain/errors.py: the AppErrors a lookup raises, with their status.      *)
StatusOf == [NON_PUBLIC_IP |-> 422, INVALID_IP |-> 422, DATABASE_UNAVAILABLE |-> 503,
             PROVIDER_TIMEOUT |-> 504, PROVIDER_UNAVAILABLE |-> 503,
             PROVIDER_AUTHENTICATION_FAILED |-> 503, PROVIDER_RATE_LIMITED |-> 503,
             PROVIDER_INVALID_RESPONSE |-> 502]
AppErrors == DOMAIN StatusOf

Statuses == {200, 400, 404, 405, 422, 500, 502, 503, 504}
Routes == {"/api/v1/lookups", "/", "/health/live", "/health/ready", "/metrics", "unmatched"}
Ids == Requests \cup {Trace, "unknown", NoId}

VARIABLES
    stage,     \* stage[r]: where the request is
    path,      \* path[r]
    route,     \* route[r]: path of request.scope["route"], "unmatched" before the router
    id,        \* id[r]: request_id of request_observability
    context,   \* context[r]: request_id_context in the task that serves r
    status,    \* status[r]: the status of the response, 0 before there is one
    code,      \* code[r]: the code of the error envelope, or "none"
    envelope,  \* envelope[r]: its request_id
    echoed,    \* echoed[r]: the X-Request-ID of the response
    metered    \* ip_country_http_requests_total by route and status

vars == <<stage, path, route, id, context, status, code, envelope, echoed, metered>>

TypeOK ==
    /\ stage \in [Requests -> {"idle", "inner", "endpoint", "outer", "done"}]
    /\ path \in [Requests -> Paths]
    /\ route \in [Requests -> Routes]
    /\ id \in [Requests -> Ids]
    /\ context \in [Requests -> Ids]
    /\ status \in [Requests -> Statuses \cup {0}]
    /\ code \in [Requests -> AppErrors \cup {"none", "INTERNAL_ERROR"}]
    /\ envelope \in [Requests -> Ids]
    /\ echoed \in [Requests -> Ids]
    /\ metered \in [Routes \X Statuses -> Nat]

Init ==
    /\ stage = [r \in Requests |-> "idle"]
    /\ path \in [Requests -> Paths]
    /\ route = [r \in Requests |-> "unmatched"]
    /\ id = [r \in Requests |-> NoId]
    /\ context = [r \in Requests |-> "unknown"]
    /\ status = [r \in Requests |-> 0]
    /\ code = [r \in Requests |-> "none"]
    /\ envelope = [r \in Requests |-> NoId]
    /\ echoed = [r \in Requests |-> NoId]
    /\ metered = [x \in Routes \X Statuses |-> 0]

-----------------------------------------------------------------------------
At(r, from, to) == stage[r] = from /\ stage' = [stage EXCEPT ![r] = to]
Respond(r, s) == status' = [status EXCEPT ![r] = s]
Match(r) == route' = [route EXCEPT ![r] = Route(path[r])]

(* request_id_context.set: a ContextVar belongs to the task that sets it.   *)
SetContext_Global(r, i) == context' = [q \in Requests |-> i]
SetContext(r, i) == context' = [context EXCEPT ![r] = i]

(* _envelope, called by an exception handler in the task of r.              *)
Envelope(r, error) ==
    /\ code' = [code EXCEPT ![r] = error]
    /\ envelope' = [envelope EXCEPT ![r] = context[r]]

(* request_observability up to call_next: a well-formed X-Request-ID is     *)
(* kept, anything else is replaced by a fresh uuid.                         *)
Receive(r) ==
    /\ At(r, "idle", "inner")
    /\ \E i \in {Trace, r} : id' = [id EXCEPT ![r] = i] /\ SetContext(r, i)
    /\ UNCHANGED <<path, route, status, code, envelope, echoed, metered>>

(* CORS answers a preflight, TrustedHost refuses a Host, before any routing. *)
AnswerEarly(r) ==
    /\ At(r, "inner", "outer")
    /\ \E s \in {200, 400} : Respond(r, s)
    /\ UNCHANGED <<path, route, id, context, code, envelope, echoed, metered>>

(* An endpoint without an await, a file, a body that cannot be read, a       *)
(* wrong method, or no route.                                               *)
ServePlain(r) ==
    /\ At(r, "inner", "outer")
    /\ Match(r)
    /\ \/ path[r] \notin {"lookups", "ready", "nowhere"} /\ Respond(r, 200)
       \/ path[r] = "lookups" /\ Respond(r, 400)
       \/ path[r] # "nowhere" /\ Respond(r, 405)
       \/ path[r] \in {"nowhere", "file"} /\ Respond(r, 404)
    /\ UNCHANGED <<path, id, context, code, envelope, echoed, metered>>

(* The body is no LookupRequest: validation_error_handler. *)
RejectBody(r) ==
    /\ At(r, "inner", "outer")
    /\ path[r] = "lookups"
    /\ Match(r)
    /\ Respond(r, 422)
    /\ Envelope(r, "INVALID_IP")
    /\ UNCHANGED <<path, id, context, echoed, metered>>

(* The endpoint awaits service.lookup or the readiness check. *)
EnterEndpoint(r) ==
    /\ At(r, "inner", "endpoint")
    /\ path[r] \in {"lookups", "ready"}
    /\ Match(r)
    /\ UNCHANGED <<path, id, context, status, code, envelope, echoed, metered>>

(* ready() answers 503 itself when the check raises. *)
EndpointReturns(r) ==
    /\ At(r, "endpoint", "outer")
    /\ Respond(r, 200) \/ (path[r] = "ready" /\ Respond(r, 503))
    /\ UNCHANGED <<path, route, id, context, code, envelope, echoed, metered>>

(* app_error_handler, inside request_observability. *)
LookupRaises(r, error) ==
    /\ At(r, "endpoint", "outer")
    /\ path[r] = "lookups"
    /\ Respond(r, StatusOf[error])
    /\ Envelope(r, error)
    /\ UNCHANGED <<path, route, id, context, echoed, metered>>

(* Any other exception leaves request_observability, whose finally resets   *)
(* the context, and becomes a response only in ServerErrorMiddleware, by    *)
(* unexpected_error_handler.                                                *)
EndpointBreaks(r) ==
    /\ At(r, "endpoint", "done")
    /\ Respond(r, 500)
    /\ SetContext(r, "unknown")
    /\ code' = [code EXCEPT ![r] = "INTERNAL_ERROR"]
    /\ envelope' = [envelope EXCEPT ![r] = "unknown"]
    /\ UNCHANGED <<path, route, id, echoed, metered>>

(* request_observability after call_next. *)
Observe(r) ==
    /\ At(r, "outer", "done")
    /\ SetContext(r, "unknown")
    /\ echoed' = [echoed EXCEPT ![r] = id[r]]
    /\ metered' = [x \in Routes \X Statuses |->
                     metered[x] + IF path[r] \notin Excluded /\ x = <<route[r], status[r]>>
                                    THEN 1 ELSE 0]
    /\ UNCHANGED <<path, route, id, status, code, envelope>>

Serve(r) ==
    \/ Receive(r) \/ AnswerEarly(r) \/ ServePlain(r) \/ RejectBody(r) \/ EnterEndpoint(r)
    \/ EndpointReturns(r) \/ EndpointBreaks(r) \/ Observe(r)
    \/ \E error \in AppErrors : LookupRaises(r, error)

Next == \E r \in Requests : Serve(r)

Spec == Init /\ [][Next]_vars

-----------------------------------------------------------------------------
(* Properties. *)

Answered == {r \in Requests : stage[r] = "done"}

(* Although requests interleave at every await, the envelope of an AppError *)
(* or of a refused body and the X-Request-ID header name the request they   *)
(* answer, so a client can quote the id of the log line                     *)
(* (main.py:52-60, api/errors.py:12-25).                                    *)
EnvelopeNamesItsRequest ==
    \A r \in Requests :
        /\ code[r] \notin {"none", "INTERNAL_ERROR"} => envelope[r] = id[r]
        /\ r \in Answered /\ code[r] # "INTERNAL_ERROR" => echoed[r] = id[r]

(* Every response but that of an unexpected exception is counted exactly    *)
(* once under its route and status, and probes and scrapes never are        *)
(* (main.py:60-67, docs/sre-observability.md:34).                           *)
HandledResponsesAreMetered ==
    \A x \in Routes \X Statuses :
        metered[x] = Cardinality({r \in Answered :
                        /\ path[r] \in {"lookups", "index", "file", "nowhere"}
                        /\ code[r] # "INTERNAL_ERROR"
                        /\ x = <<route[r], status[r]>>})

(* "Availability bad events: HTTP 5xx responses for                         *)
(* route="/api/v1/lookups"" (docs/sre-observability.md:31): every 5xx a     *)
(* lookup client receives is in the counter the availability SLO divides.   *)
ServerErrorsAreBadEvents ==
    \A s \in {500, 502, 503, 504} :
        metered[<<"/api/v1/lookups", s>>] =
            Cardinality({r \in Answered : route[r] = "/api/v1/lookups" /\ status[r] = s})
=============================================================================
