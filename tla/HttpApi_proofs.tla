---------------------------- MODULE HttpApi_proofs ----------------------------
(***************************************************************************)
(* Theorems about HttpApi for every set of requests and of paths.          *)
(***************************************************************************)
EXTENDS HttpApi, FiniteSetTheorems, TLAPS

(* While a request is inside the middleware its task's context is its id.   *)
RequestInv(r) ==
    /\ stage[r] \in {"inner", "endpoint", "outer"} => context[r] = id[r]
    /\ stage[r] \in {"idle", "inner", "endpoint"} => code[r] = "none"
    /\ stage[r] = "outer" => code[r] # "INTERNAL_ERROR"
    /\ code[r] \notin {"none", "INTERNAL_ERROR"} => envelope[r] = id[r]
    /\ stage[r] = "done" /\ code[r] # "INTERNAL_ERROR" => echoed[r] = id[r]

HttpInv == TypeOK /\ \A r \in Requests : RequestInv(r)

(* The counter against the responses it stands for; there are finitely many *)
(* of them however many requests may come.                                  *)
Counted(x) == {r \in Answered :
                  /\ path[r] \in {"lookups", "index", "file", "nowhere"}
                  /\ code[r] # "INTERNAL_ERROR"
                  /\ x = <<route[r], status[r]>>}
CountInv ==
    /\ IsFiniteSet(Answered)
    /\ \A x \in Routes \X Statuses : metered[x] = Cardinality(Counted(x))

(* The series a response belongs to tells what was asked and who answered.  *)
SeriesInv ==
    \A r \in Requests :
        /\ route[r] \in {"unmatched", Route(path[r])}
        /\ code[r] = "INTERNAL_ERROR" => status[r] = 500 /\ stage[r] = "done"

-----------------------------------------------------------------------------
LEMMA StatusType ==
    ASSUME NEW error \in AppErrors
    PROVE  StatusOf[error] \in {422, 502, 503, 504}
BY DEF AppErrors, StatusOf

LEMMA RouteType ==
    ASSUME NEW p
    PROVE  Route(p) \in Routes
BY DEF Route, RouteOf, Routes

(* A step touches one request, and keeps that request's invariant.          *)
LEMMA OneRequestStep ==
    ASSUME HttpInv, TypeOK', NEW r \in Requests, RequestInv(r)',
           \A q \in Requests \ {r} :
              /\ stage'[q] = stage[q] /\ id'[q] = id[q] /\ context'[q] = context[q]
              /\ code'[q] = code[q] /\ envelope'[q] = envelope[q] /\ echoed'[q] = echoed[q]
    PROVE  HttpInv'
<1>1. ASSUME NEW q \in Requests \ {r} PROVE RequestInv(q)'
    BY <1>1 DEF HttpInv, RequestInv
<1> QED BY <1>1 DEF HttpInv

LEMMA ReceiveKeeps ==
    ASSUME HttpInv, NEW r \in Requests, Receive(r)
    PROVE  HttpInv'
<1>1. TypeOK'
    BY DEF HttpInv, TypeOK, Receive, At, SetContext, Ids
<1>2. RequestInv(r)'
    BY DEF HttpInv, TypeOK, RequestInv, Receive, At, SetContext
<1> QED BY <1>1, <1>2, OneRequestStep DEF HttpInv, TypeOK, Receive, At, SetContext

(* The router and the endpoints decide on a status and no envelope.         *)
LEMMA PlainKeeps ==
    ASSUME HttpInv, NEW r \in Requests,
           AnswerEarly(r) \/ ServePlain(r) \/ EnterEndpoint(r) \/ EndpointReturns(r)
    PROVE  HttpInv'
<1>1. TypeOK'
    BY RouteType, SMTT(40) DEF HttpInv, TypeOK, AnswerEarly, ServePlain, EnterEndpoint, EndpointReturns,
                     At, Respond, Match, Statuses
<1>2. RequestInv(r)'
    BY DEF HttpInv, TypeOK, RequestInv, AnswerEarly, ServePlain, EnterEndpoint,
           EndpointReturns, At
<1> QED BY <1>1, <1>2, OneRequestStep
        DEF HttpInv, TypeOK, AnswerEarly, ServePlain, EnterEndpoint, EndpointReturns, At

LEMMA ErrorKeeps ==
    ASSUME HttpInv, NEW r \in Requests,
           RejectBody(r) \/ \E error \in AppErrors : LookupRaises(r, error)
    PROVE  HttpInv'
<1>1. PICK error \in AppErrors, s \in {422, 502, 503, 504} :
          /\ Respond(r, s) /\ Envelope(r, error)
          /\ stage' = [stage EXCEPT ![r] = "outer"] /\ stage[r] \in {"inner", "endpoint"}
          /\ route' \in [Requests -> Routes]
          /\ UNCHANGED <<path, id, context, echoed, metered>>
    <2>1. CASE RejectBody(r)
        <3>1. "INVALID_IP" \in AppErrors
            BY DEF AppErrors, StatusOf
        <3> QED BY <2>1, <3>1, RouteType DEF RejectBody, At, Match, HttpInv, TypeOK
    <2>2. CASE \E error \in AppErrors : LookupRaises(r, error)
        BY <2>2, StatusType DEF LookupRaises, At, HttpInv, TypeOK
    <2> QED BY <2>1, <2>2
<1>2. TypeOK'
    BY <1>1 DEF HttpInv, TypeOK, Respond, Envelope, Statuses
<1>3. code'[r] = error /\ error # "INTERNAL_ERROR"
    BY <1>1 DEF HttpInv, TypeOK, Envelope, AppErrors, StatusOf
<1>4. RequestInv(r)'
    BY <1>1, <1>3 DEF HttpInv, TypeOK, RequestInv, Envelope
<1> QED BY <1>1, <1>2, <1>4, OneRequestStep DEF HttpInv, TypeOK, Envelope

LEMMA BreakKeeps ==
    ASSUME HttpInv, NEW r \in Requests, EndpointBreaks(r)
    PROVE  HttpInv'
<1>1. TypeOK'
    BY DEF HttpInv, TypeOK, EndpointBreaks, At, Respond, SetContext, Statuses, Ids
<1>2. RequestInv(r)'
    BY DEF HttpInv, TypeOK, RequestInv, EndpointBreaks, At
<1> QED BY <1>1, <1>2, OneRequestStep DEF HttpInv, TypeOK, EndpointBreaks, At, SetContext

LEMMA ObserveKeeps ==
    ASSUME HttpInv, NEW r \in Requests, Observe(r)
    PROVE  HttpInv'
<1>1. metered' \in [Routes \X Statuses -> Nat]
    BY DEF HttpInv, TypeOK, Observe
<1>2. TypeOK'
    BY <1>1 DEF HttpInv, TypeOK, Observe, At, SetContext, Ids
<1>3. RequestInv(r)'
    BY DEF HttpInv, TypeOK, RequestInv, Observe, At
<1> QED BY <1>2, <1>3, OneRequestStep DEF HttpInv, TypeOK, Observe, At, SetContext

LEMMA InitHttp == Init => HttpInv
BY DEF Init, HttpInv, TypeOK, RequestInv, Routes, Ids

LEMMA NextHttp == HttpInv /\ [Next]_vars => HttpInv'
<1>1. ASSUME HttpInv, UNCHANGED vars PROVE HttpInv'
    BY <1>1 DEF vars, HttpInv, TypeOK, RequestInv
<1> QED BY <1>1, ReceiveKeeps, PlainKeeps, ErrorKeeps, BreakKeeps, ObserveKeeps DEF Next, Serve

-----------------------------------------------------------------------------
(* The counter. *)

(* A request is served by one task, which ends with its answer: what it was *)
(* answered with stays, and only the request of the step can join them.     *)
LEMMA AnswersStay ==
    ASSUME HttpInv, NEW r \in Requests, Serve(r)
    PROVE  /\ stage[r] # "done"
           /\ path' = path
           /\ \A q \in Requests \ {r} :
                 /\ stage'[q] = stage[q] /\ route'[q] = route[q]
                 /\ status'[q] = status[q] /\ code'[q] = code[q]
<1>1. stage[r] # "done" /\ path' = path
    BY DEF Serve, Receive, AnswerEarly, ServePlain, RejectBody, EnterEndpoint,
           EndpointReturns, EndpointBreaks, Observe, LookupRaises, At
<1> SUFFICES ASSUME NEW q \in Requests \ {r}
             PROVE  /\ stage'[q] = stage[q] /\ route'[q] = route[q]
                    /\ status'[q] = status[q] /\ code'[q] = code[q]
    BY <1>1
<1>2. stage'[q] = stage[q]
    BY DEF HttpInv, TypeOK, Serve, Receive, AnswerEarly, ServePlain, RejectBody, EnterEndpoint,
           EndpointReturns, EndpointBreaks, Observe, LookupRaises, At
<1>3. route'[q] = route[q]
    BY DEF HttpInv, TypeOK, Serve, Receive, AnswerEarly, ServePlain, RejectBody, EnterEndpoint,
           EndpointReturns, EndpointBreaks, Observe, LookupRaises, Match
<1>4. status'[q] = status[q]
    BY DEF HttpInv, TypeOK, Serve, Receive, AnswerEarly, ServePlain, RejectBody, EnterEndpoint,
           EndpointReturns, EndpointBreaks, Observe, LookupRaises, Respond
<1>5. code'[q] = code[q]
    BY DEF HttpInv, TypeOK, Serve, Receive, AnswerEarly, ServePlain, RejectBody, EnterEndpoint,
           EndpointReturns, EndpointBreaks, Observe, LookupRaises, Envelope
<1> QED BY <1>2, <1>3, <1>4, <1>5

(* A step inside the middleware or the application answers nothing yet.     *)
LEMMA InnerStepCounts ==
    ASSUME HttpInv, CountInv, NEW r \in Requests, Serve(r), stage'[r] # "done",
           metered' = metered
    PROVE  CountInv'
<1>1. Answered' = Answered
    BY AnswersStay DEF Answered
<1>2. ASSUME NEW x PROVE Counted(x)' = Counted(x)
    BY <1>1, AnswersStay DEF Counted, Answered
<1> QED BY <1>1, <1>2 DEF CountInv

(* An answer is one more, and no answer is counted under two series.        *)
LEMMA AnswerCounts ==
    ASSUME HttpInv, CountInv, NEW r \in Requests, Serve(r), stage'[r] = "done",
           \A x \in Routes \X Statuses :
              metered'[x] = metered[x] + IF /\ path'[r] \in {"lookups", "index", "file", "nowhere"}
                                            /\ code'[r] # "INTERNAL_ERROR"
                                            /\ x = <<route'[r], status'[r]>> THEN 1 ELSE 0
    PROVE  CountInv'
<1>1. Answered' = Answered \cup {r} /\ r \notin Answered
    BY AnswersStay DEF Answered
<1>2. IsFiniteSet(Answered')
    BY <1>1, FS_AddElement DEF CountInv
<1>3. ASSUME NEW x \in Routes \X Statuses
      PROVE  metered'[x] = Cardinality(Counted(x)')
    <2>1. IsFiniteSet(Counted(x)) /\ r \notin Counted(x)
        BY <1>1, FS_Subset DEF Counted, CountInv
    <2>2. metered[x] = Cardinality(Counted(x)) /\ metered[x] \in Nat
        BY DEF CountInv, HttpInv, TypeOK
    <2>3. CASE /\ path'[r] \in {"lookups", "index", "file", "nowhere"}
               /\ code'[r] # "INTERNAL_ERROR"
               /\ x = <<route'[r], status'[r]>>
        <3>1. Counted(x)' = Counted(x) \cup {r}
            BY <1>1, <2>3, AnswersStay DEF Counted, Answered
        <3> QED BY <2>1, <2>2, <2>3, <3>1, FS_AddElement
    <2>4. CASE ~ /\ path'[r] \in {"lookups", "index", "file", "nowhere"}
                 /\ code'[r] # "INTERNAL_ERROR"
                 /\ x = <<route'[r], status'[r]>>
        <3>1. Counted(x)' = Counted(x)
            BY <1>1, <2>4, AnswersStay DEF Counted, Answered
        <3> QED BY <2>2, <2>4, <3>1
    <2> QED BY <2>3, <2>4
<1> QED BY <1>2, <1>3 DEF CountInv

LEMMA ServeCounts ==
    ASSUME HttpInv, CountInv, NEW r \in Requests, Serve(r)
    PROVE  CountInv'
<1>1. CASE EndpointBreaks(r)
    <2>1. code'[r] = "INTERNAL_ERROR" /\ metered' = metered /\ stage'[r] = "done"
        BY <1>1 DEF EndpointBreaks, At, HttpInv, TypeOK
    <2>2. \A x \in Routes \X Statuses : metered[x] \in Nat
        BY DEF HttpInv, TypeOK
    <2> QED BY <2>1, <2>2, AnswerCounts
<1>2. CASE Observe(r)
    <2>1. /\ stage'[r] = "done" /\ route'[r] = route[r] /\ status'[r] = status[r]
          /\ path'[r] = path[r] /\ code'[r] = code[r] /\ code[r] # "INTERNAL_ERROR"
        BY <1>2 DEF Observe, At, HttpInv, TypeOK, RequestInv
    <2>2. path[r] \notin Excluded <=> path[r] \in {"lookups", "index", "file", "nowhere"}
        BY PathsAssumption DEF HttpInv, TypeOK, Excluded
    <2>3. \A x \in Routes \X Statuses :
             metered'[x] = metered[x] + IF path[r] \notin Excluded /\ x = <<route[r], status[r]>>
                                          THEN 1 ELSE 0
        BY <1>2 DEF Observe
    <2> QED BY <2>1, <2>2, <2>3, AnswerCounts
<1>3. CASE ~ EndpointBreaks(r) /\ ~ Observe(r)
    <2>1. metered' = metered /\ stage'[r] # "done"
        BY <1>3 DEF HttpInv, TypeOK, Serve, Receive, AnswerEarly, ServePlain, RejectBody,
               EnterEndpoint, EndpointReturns, LookupRaises, At
    <2> QED BY <2>1, InnerStepCounts
<1> QED BY <1>1, <1>2, <1>3

LEMMA SeriesStay ==
    ASSUME HttpInv, SeriesInv, NEW r \in Requests, Serve(r)
    PROVE  SeriesInv'
<1>1. route'[r] \in {"unmatched", Route(path[r])}
    BY DEF HttpInv, TypeOK, SeriesInv, Serve, Receive, AnswerEarly, ServePlain, RejectBody,
           EnterEndpoint, EndpointReturns, EndpointBreaks, Observe, LookupRaises, Match
<1>2. code'[r] = "INTERNAL_ERROR" => status'[r] = 500 /\ stage'[r] = "done"
    <2>1. code[r] # "INTERNAL_ERROR"
        BY AnswersStay DEF SeriesInv
    <2>2. \A error \in AppErrors \cup {"INVALID_IP"} : error # "INTERNAL_ERROR"
        BY DEF AppErrors, StatusOf
    <2>3. CASE EndpointBreaks(r)
        BY <2>3 DEF HttpInv, TypeOK, EndpointBreaks, Respond, At
    <2>4. CASE ~ EndpointBreaks(r)
        BY <2>1, <2>2, <2>4 DEF HttpInv, TypeOK, Serve, Receive, AnswerEarly, ServePlain,
               RejectBody, EnterEndpoint, EndpointReturns, Observe, LookupRaises, Envelope
    <2> QED BY <2>3, <2>4
<1> QED BY <1>1, <1>2, AnswersStay DEF SeriesInv, HttpInv, TypeOK

LEMMA InitCounts == Init => CountInv /\ SeriesInv
<1> SUFFICES ASSUME Init PROVE CountInv /\ SeriesInv
    OBVIOUS
<1>1. Answered = {}
    BY DEF Init, Answered
<1>2. \A x : Counted(x) = {}
    BY <1>1 DEF Counted
<1>3. SeriesInv
    BY DEF Init, SeriesInv
<1> QED BY <1>1, <1>2, <1>3, FS_EmptySet DEF Init, CountInv

LEMMA NextCounts == HttpInv /\ CountInv /\ SeriesInv /\ [Next]_vars => CountInv' /\ SeriesInv'
<1>1. ASSUME CountInv, SeriesInv, UNCHANGED vars PROVE CountInv' /\ SeriesInv'
    BY <1>1 DEF vars, CountInv, Counted, Answered, SeriesInv
<1> QED BY <1>1, ServeCounts, SeriesStay DEF Next

-----------------------------------------------------------------------------
(* The theorems. *)

(* Every status and route is one the metrics know a series for.             *)
THEOREM TypeCorrect == Spec => []TypeOK
<1>1. HttpInv => TypeOK
    BY DEF HttpInv
<1> QED BY <1>1, InitHttp, NextHttp, PTL DEF Spec

(* However many requests interleave, the envelope and the X-Request-ID of   *)
(* a response name the request it answers (main.py:52-60).                  *)
THEOREM EnvelopeNamesItsRequestHolds == Spec => []EnvelopeNamesItsRequest
<1>1. HttpInv => EnvelopeNamesItsRequest
    BY DEF HttpInv, RequestInv, EnvelopeNamesItsRequest, Answered
<1> QED BY <1>1, InitHttp, NextHttp, PTL DEF Spec

(* Whatever interleaves, every response but that of an unexpected exception *)
(* is counted once under the route and the status it was sent with, and     *)
(* probes and scrapes never are (main.py:60-67).                            *)
THEOREM HandledResponsesAreMeteredHolds == Spec => []HandledResponsesAreMetered
<1>1. CountInv => HandledResponsesAreMetered
    BY DEF CountInv, Counted, HandledResponsesAreMetered
<1> QED BY <1>1, InitHttp, NextHttp, InitCounts, NextCounts, PTL DEF Spec
=============================================================================
