------------------------ MODULE TrafficGenerator_proofs ------------------------
(***************************************************************************)
(* Theorems about TrafficGenerator for every set of requests, every slice  *)
(* of indexes and every --concurrency.                                     *)
(***************************************************************************)
EXTENDS TrafficGenerator, HttpApi_proofs

(* A result other than 0 is the status the server has answered with, and    *)
(* the verdict was reached with all results in.                             *)
ResultsAreAnswers ==
    /\ \A r \in Generated : result[r] # 0 => stage[r] = "done" /\ status[r] = result[r]
    /\ exit = "ok" =>
          \A r \in Generated : future[r] = "returned" /\ result[r] \in Expected(r)

TrafficInv == HttpInv /\ GeneratorTypeOK /\ ResultsAreAnswers

-----------------------------------------------------------------------------
LEMMA InitTraffic == GeneratorInit => TrafficInv
<1> SUFFICES ASSUME GeneratorInit PROVE TrafficInv
    OBVIOUS
<1>1. HttpInv /\ TypeOK
    BY InitHttp DEF GeneratorInit, HttpInv
<1>2. GeneratorTypeOK
    BY <1>1 DEF GeneratorInit, GeneratorTypeOK
<1>3. ResultsAreAnswers
    BY DEF GeneratorInit, ResultsAreAnswers
<1> QED BY <1>1, <1>2, <1>3 DEF TrafficInv

(* The server keeps its own invariant, and never takes back an answer.      *)
LEMMA ServerKeeps ==
    ASSUME TrafficInv, NEW q \in Requests, Server(q)
    PROVE  TrafficInv'
<1>1. HttpInv' /\ TypeOK'
    BY NextHttp DEF TrafficInv, Server, Next, HttpInv
<1>2. GeneratorTypeOK'
    BY <1>1 DEF TrafficInv, GeneratorTypeOK, Server, genVars
<1>3. ASSUME NEW r \in Generated, result[r] # 0
      PROVE  stage'[r] = "done" /\ status'[r] = result[r]
    <2>1. r \in Requests /\ stage[r] = "done" /\ status[r] = result[r]
        BY <1>3, GeneratorAssumption DEF TrafficInv, ResultsAreAnswers
    <2>2. stage[q] # "done"
        BY DEF Server, Serve, Receive, AnswerEarly, ServePlain, RejectBody, EnterEndpoint,
               EndpointReturns, EndpointBreaks, Observe, LookupRaises, At
    <2>3. stage'[r] = stage[r]
        BY <2>1, <2>2 DEF TrafficInv, HttpInv, TypeOK, Server, Serve, Receive, AnswerEarly,
               ServePlain, RejectBody, EnterEndpoint, EndpointReturns, EndpointBreaks, Observe,
               LookupRaises, At
    <2>4. status'[r] = status[r]
        BY <2>1, <2>2 DEF TrafficInv, HttpInv, TypeOK, Server, Serve, Receive, AnswerEarly,
               ServePlain, RejectBody, EnterEndpoint, EndpointReturns, EndpointBreaks, Observe,
               LookupRaises, Respond
    <2> QED BY <2>1, <2>3, <2>4
<1>4. ResultsAreAnswers'
    BY <1>3 DEF TrafficInv, ResultsAreAnswers, Server, genVars, Expected, Category, Bucket
<1> QED BY <1>1, <1>2, <1>4 DEF TrafficInv

LEMMA FinishKeeps ==
    ASSUME TrafficInv, NEW r \in Generated, NEW how \in {"returned", "raised"}, NEW s,
           s = 0 \/ (stage[r] = "done" /\ s = status[r]), Finish(r, how, s)
    PROVE  TrafficInv'
<1>1. HttpInv'
    BY NextHttp DEF TrafficInv, Finish, vars
<1>2. s \in Statuses \cup {0}
    BY GeneratorAssumption DEF TrafficInv, HttpInv, TypeOK
<1>3. GeneratorTypeOK'
    BY <1>1, <1>2 DEF TrafficInv, HttpInv, GeneratorTypeOK, Finish
<1>4. exit # "ok"
    BY DEF Finish, TrafficInv, ResultsAreAnswers
<1>5. ResultsAreAnswers'
    BY <1>4 DEF Finish, TrafficInv, GeneratorTypeOK, ResultsAreAnswers, vars
<1> QED BY <1>1, <1>3, <1>5 DEF TrafficInv

(* The main thread and the queue leave results alone.                       *)
LEMMA MainKeeps ==
    ASSUME TrafficInv, (\E r \in Generated : Take(r)) \/ CollectException \/ Drain
    PROVE  TrafficInv'
<1>1. HttpInv'
    BY NextHttp DEF TrafficInv, Take, CollectException, Drain, vars
<1>2. GeneratorTypeOK'
    BY <1>1 DEF TrafficInv, HttpInv, GeneratorTypeOK, Take, CollectException, Drain, Ends
<1>3. exit' # "ok"
    BY DEF TrafficInv, ResultsAreAnswers, Take, CollectException, Drain
<1>4. ResultsAreAnswers'
    BY <1>3 DEF TrafficInv, ResultsAreAnswers, Take, CollectException, Drain, vars
<1> QED BY <1>1, <1>2, <1>4 DEF TrafficInv

LEMMA SummariseKeeps ==
    ASSUME TrafficInv, Summarise
    PROVE  TrafficInv'
<1>1. HttpInv'
    BY NextHttp DEF TrafficInv, Summarise, vars
<1>2. GeneratorTypeOK'
    BY <1>1 DEF TrafficInv, HttpInv, GeneratorTypeOK, Summarise, Ends
<1>3. ASSUME exit' = "ok", NEW r \in Generated PROVE result[r] \in Expected(r)
    BY <1>3 DEF Summarise, Unexpected
<1>4. ResultsAreAnswers'
    BY <1>3 DEF TrafficInv, ResultsAreAnswers, Summarise, vars, Expected, Category, Bucket
<1> QED BY <1>1, <1>2, <1>4 DEF TrafficInv

LEMMA NextTraffic == TrafficInv /\ [GeneratorNext]_allVars => TrafficInv'
<1> SUFFICES ASSUME TrafficInv, [GeneratorNext]_allVars PROVE TrafficInv'
    OBVIOUS
<1>1. ASSUME UNCHANGED allVars PROVE TrafficInv'
    <2>1. UNCHANGED vars /\ UNCHANGED genVars
        BY <1>1 DEF allVars
    <2>2. HttpInv'
        BY <2>1, NextHttp DEF TrafficInv
    <2>3. GeneratorTypeOK' /\ ResultsAreAnswers'
        BY <2>1, <2>2 DEF TrafficInv, HttpInv, GeneratorTypeOK, ResultsAreAnswers, vars, genVars,
               Expected, Category, Bucket
    <2> QED BY <2>2, <2>3 DEF TrafficInv
<1>2. ASSUME NEW r \in Generated, GetAnswer(r) \/ GetNothing(r) \/ BodyBreaks(r)
      PROVE  TrafficInv'
    BY <1>2, FinishKeeps DEF GetAnswer, GetNothing, BodyBreaks, Sent
<1> QED BY <1>1, <1>2, ServerKeeps, MainKeeps, SummariseKeeps DEF GeneratorNext, Threads

-----------------------------------------------------------------------------
(* The theorems. *)

(* The clients only add order to the server's steps: with the generator in  *)
(* front of it the process is still one of HttpApi, so what holds of every  *)
(* behaviour of HttpApi holds of it (main.py:45-76).                        *)
THEOREM GeneratorImplementsHttpApi == GeneratorSpec => Spec
<1>1. GeneratorInit => Init
    BY DEF GeneratorInit
<1>2. [GeneratorNext]_allVars => [Next]_vars
    <2>1. ASSUME NEW r \in Requests, Server(r) PROVE Next
        BY <2>1 DEF Server, Next
    <2>2. Threads => UNCHANGED vars
        BY DEF Threads, Take, GetAnswer, GetNothing, BodyBreaks, Finish, CollectException,
               Drain, Summarise
    <2> QED BY <2>1, <2>2 DEF GeneratorNext, allVars
<1> QED BY <1>1, <1>2, PTL DEF GeneratorSpec, Spec

(* Indexes, futures, results and the exit status keep their types           *)
(* (generate-observability-traffic.py:77-166).                              *)
THEOREM GeneratorTypeCorrect == GeneratorSpec => []GeneratorTypeOK
<1>1. TrafficInv => GeneratorTypeOK
    BY DEF TrafficInv
<1> QED BY <1>1, InitTraffic, NextTraffic, PTL DEF GeneratorSpec

(* Whatever is given up, cut off, cancelled or answered late, exit status 0 *)
(* means that the server has answered every request with an expected status *)
(* (generate-observability-traffic.py:113-160).                             *)
THEOREM NoFalsePassHolds == GeneratorSpec => []NoFalsePass
<1>1. TrafficInv => NoFalsePass
    <2> SUFFICES ASSUME TrafficInv, exit = "ok", NEW r \in Generated
                 PROVE  stage[r] = "done" /\ status[r] \in Expected(r)
        BY DEF NoFalsePass
    <2>1. 0 \notin Expected(r)
        BY DEF Expected
    <2> QED BY <2>1 DEF TrafficInv, ResultsAreAnswers
<1> QED BY <1>1, InitTraffic, NextTraffic, PTL DEF GeneratorSpec

(* The counter of HttpApi and the series its responses belong to, kept by   *)
(* the generator as it takes only steps of HttpApi.                         *)
LEMMA GeneratorCounts == GeneratorSpec => [](CountInv /\ SeriesInv)
<1>1. Spec => [](CountInv /\ SeriesInv)
    BY InitHttp, NextHttp, InitCounts, NextCounts, PTL DEF Spec
<1> QED BY <1>1, GeneratorImplementsHttpApi, PTL

(* At every moment the dashboards show at least what the clients have seen  *)
(* (main.py:60-67, generate-observability-traffic.py:77-110).               *)
THEOREM DashboardsShowTheTrafficHolds == GeneratorSpec => []DashboardsShowTheTraffic
<1>1. TrafficInv /\ CountInv /\ SeriesInv => DashboardsShowTheTraffic
    <2> SUFFICES ASSUME TrafficInv, CountInv, SeriesInv,
                        NEW x \in {"/api/v1/lookups", "/"} \X (Statuses \ {500})
                 PROVE  Cardinality({r \in Generated : route[r] = x[1] /\ result[r] = x[2]})
                            <= metered[x]
        BY DEF DashboardsShowTheTraffic
    <2> DEFINE Seen == {r \in Generated : route[r] = x[1] /\ result[r] = x[2]}
    <2>1. x \in Routes \X Statuses /\ x[2] # 0 /\ x[2] # 500 /\ x[1] # "unmatched"
          /\ x = <<x[1], x[2]>>
        BY DEF Routes, Statuses
    <2>2. ASSUME NEW r \in Seen PROVE r \in Counted(x)
        <3>1. r \in Requests /\ stage[r] = "done" /\ status[r] = x[2] /\ route[r] = x[1]
            BY <2>1, GeneratorAssumption DEF TrafficInv, ResultsAreAnswers
        <3>2. code[r] # "INTERNAL_ERROR"
            BY <2>1, <3>1 DEF SeriesInv
        <3>3. path[r] \in {"lookups", "index"}
            BY <2>1, <3>1 DEF SeriesInv, Route, RouteOf
        <3> QED BY <2>1, <3>1, <3>2, <3>3 DEF Counted, Answered
    <2>3. IsFiniteSet(Counted(x))
        BY FS_Subset DEF Counted, CountInv
    <2>4. Cardinality(Seen) <= Cardinality(Counted(x))
        BY <2>2, <2>3, FS_Subset
    <2> QED BY <2>1, <2>4 DEF CountInv
<1> QED BY <1>1, InitTraffic, NextTraffic, GeneratorCounts, PTL DEF GeneratorSpec

-----------------------------------------------------------------------------
(* How far the generator is from its end. *)

FutureLeft(r) ==
    CASE future[r] = "pending" -> 2
      [] future[r] = "asking"  -> 1
      [] OTHER                 -> 0
ExitLeft ==
    CASE exit = "collecting" -> 2
      [] exit = "draining"   -> 1
      [] OTHER               -> 0

(* A future that is settled keeps its result; none goes back to the queue;  *)
(* the main thread, once it has an exit status, keeps that.                 *)
OnlyForwards ==
    /\ ExitLeft' <= ExitLeft /\ (ExitLeft = 0 => exit' = exit)
    /\ \A r \in Generated :
          /\ FutureLeft(r)' <= FutureLeft(r)
          /\ FutureLeft(r) = 0 => future'[r] = future[r] /\ result'[r] = result[r]
(* A step of the program, and not of the server, settles something.         *)
Advances ==
    \/ UNCHANGED genVars
    \/ ExitLeft' < ExitLeft
    \/ \E r \in Generated : FutureLeft(r)' < FutureLeft(r)

LEMMA LeftOfFuture ==
    ASSUME NEW r \in Generated
    PROVE  /\ future[r] = "pending" => FutureLeft(r) = 2
           /\ future[r] = "asking" => FutureLeft(r) = 1
           /\ future[r] \in {"returned", "raised", "cancelled"} => FutureLeft(r) = 0
           /\ future'[r] = "pending" => FutureLeft(r)' = 2
           /\ future'[r] = "asking" => FutureLeft(r)' = 1
           /\ future'[r] \in {"returned", "raised", "cancelled"} => FutureLeft(r)' = 0
BY Zenon DEF FutureLeft

LEMMA LeftOfExit ==
    /\ exit = "collecting" => ExitLeft = 2
    /\ exit = "draining" => ExitLeft = 1
    /\ exit \in Ends => ExitLeft = 0
    /\ exit' = "collecting" => ExitLeft' = 2
    /\ exit' = "draining" => ExitLeft' = 1
    /\ exit' \in Ends => ExitLeft' = 0
BY Zenon DEF ExitLeft, Ends

LEMMA FuturesOf ==
    ASSUME GeneratorTypeOK, NEW r \in Generated
    PROVE  future[r] \in {"pending", "asking", "returned", "raised", "cancelled"}
BY DEF GeneratorTypeOK

(* A future goes on, and nothing else changes.                              *)
LEMMA FutureAdvances ==
    ASSUME GeneratorTypeOK, NEW r \in Generated, exit' = exit,
           \/ future[r] = "pending" /\ future' = [future EXCEPT ![r] = "asking"]
           \/ future[r] = "asking" /\ \E how \in {"returned", "raised"} :
                                          future' = [future EXCEPT ![r] = how],
           \A q \in Generated \ {r} : result'[q] = result[q]
    PROVE  OnlyForwards /\ Advances
<1>1. \A q \in Generated \ {r} : future'[q] = future[q]
    BY DEF GeneratorTypeOK
<1>2. \/ future[r] = "pending" /\ future'[r] = "asking"
      \/ future[r] = "asking" /\ future'[r] \in {"returned", "raised"}
    BY DEF GeneratorTypeOK
<1>3. FutureLeft(r)' < FutureLeft(r) /\ FutureLeft(r) # 0
    BY <1>2, LeftOfFuture
<1>4. \A q \in Generated \ {r} : FutureLeft(q)' = FutureLeft(q) /\ FutureLeft(q) \in {0, 1, 2}
    BY <1>1, FuturesOf, LeftOfFuture
<1>5. FutureLeft(r) \in {1, 2} /\ FutureLeft(r)' \in {0, 1}
    BY <1>2, LeftOfFuture
<1>6. ExitLeft' = ExitLeft /\ ExitLeft \in {0, 1, 2}
    BY LeftOfExit DEF GeneratorTypeOK
<1>7. ASSUME NEW q \in Generated
      PROVE  /\ FutureLeft(q)' <= FutureLeft(q)
             /\ FutureLeft(q) = 0 => future'[q] = future[q] /\ result'[q] = result[q]
    BY <1>1, <1>3, <1>4, <1>5
<1> QED BY <1>3, <1>6, <1>7 DEF OnlyForwards, Advances

(* The main thread goes on, cancelling futures or leaving them.             *)
LEMMA MainAdvances ==
    ASSUME GeneratorTypeOK, CollectException \/ Drain \/ Summarise
    PROVE  OnlyForwards /\ Advances
<1>1. \/ exit = "collecting" /\ exit' \in {"draining"} \cup Ends
      \/ exit = "draining" /\ exit' \in Ends
    <2>1. Summarise => exit = "collecting" /\ exit' \in {"ok", "failed", "traceback"}
        BY DEF Summarise
    <2> QED BY <2>1 DEF CollectException, Drain, Ends
<1>2. result' = result
    BY DEF CollectException, Drain, Summarise
<1>3. ASSUME NEW q \in Generated
      PROVE  future'[q] = future[q] \/ (future[q] = "pending" /\ future'[q] = "cancelled")
    BY DEF CollectException, Drain, Summarise
<1>4. ExitLeft' < ExitLeft /\ ExitLeft \in {1, 2} /\ ExitLeft' \in {0, 1}
    BY <1>1, LeftOfExit
<1>5. ASSUME NEW q \in Generated
      PROVE  /\ FutureLeft(q)' <= FutureLeft(q)
             /\ FutureLeft(q) = 0 => future'[q] = future[q]
    <2>1. CASE future'[q] = future[q]
        BY <2>1, FuturesOf, LeftOfFuture
    <2>2. CASE future[q] = "pending" /\ future'[q] = "cancelled"
        BY <2>2, LeftOfFuture
    <2> QED BY <1>3, <2>1, <2>2
<1> QED BY <1>2, <1>4, <1>5 DEF OnlyForwards, Advances

LEMMA NextAdvances ==
    ASSUME GeneratorTypeOK, [GeneratorNext]_allVars
    PROVE  OnlyForwards /\ Advances
<1>1. ASSUME UNCHANGED genVars PROVE OnlyForwards /\ Advances
    <2>1. ExitLeft' = ExitLeft /\ ExitLeft \in {0, 1, 2} /\ exit' = exit
        BY <1>1, LeftOfExit DEF genVars, GeneratorTypeOK
    <2>2. ASSUME NEW q \in Generated
          PROVE  /\ FutureLeft(q)' = FutureLeft(q) /\ FutureLeft(q) \in {0, 1, 2}
                 /\ future'[q] = future[q] /\ result'[q] = result[q]
        BY <1>1, FuturesOf, LeftOfFuture DEF genVars
    <2>3. ASSUME NEW q \in Generated PROVE FutureLeft(q)' <= FutureLeft(q)
        BY <2>2
    <2> QED BY <1>1, <2>1, <2>2, <2>3 DEF OnlyForwards, Advances
<1>2. ASSUME NEW r \in Generated, Take(r) PROVE OnlyForwards /\ Advances
    <2>1. future[r] = "pending" /\ future' = [future EXCEPT ![r] = "asking"]
          /\ exit' = exit /\ result' = result
        BY <1>2 DEF Take
    <2> QED BY <2>1, FutureAdvances
<1>3. ASSUME NEW r \in Generated, GetAnswer(r) \/ GetNothing(r) \/ BodyBreaks(r)
      PROVE  OnlyForwards /\ Advances
    <2>1. PICK how \in {"returned", "raised"} : \E s : Finish(r, how, s)
        BY <1>3 DEF GetAnswer, GetNothing, BodyBreaks
    <2>2. /\ future[r] = "asking" /\ future' = [future EXCEPT ![r] = how] /\ exit' = exit
          /\ \A q \in Generated \ {r} : result'[q] = result[q]
        BY <2>1 DEF Finish, GeneratorTypeOK
    <2> QED BY <2>2, FutureAdvances
<1>4. ASSUME NEW r \in Requests, Server(r) PROVE UNCHANGED genVars
    BY <1>4 DEF Server
<1>5. UNCHANGED allVars => UNCHANGED genVars
    BY DEF allVars
<1> QED BY <1>1, <1>2, <1>3, <1>4, <1>5, MainAdvances DEF GeneratorNext, Threads

(* What can be proved of GeneratorEnds without its fairness: every step of  *)
(* the program brings a future or the main thread nearer to its end, at     *)
(* most two steps for each, and none takes back a result, a cancellation or *)
(* an exit status, however late the server answers                          *)
(* (generate-observability-traffic.py:77-160).                              *)
THEOREM GeneratorGoesForwards == GeneratorSpec => [][OnlyForwards /\ Advances]_allVars
<1>1. GeneratorTypeOK /\ [GeneratorNext]_allVars => [OnlyForwards /\ Advances]_allVars
    BY NextAdvances
<1> QED BY <1>1, GeneratorTypeCorrect, PTL DEF GeneratorSpec
=============================================================================
