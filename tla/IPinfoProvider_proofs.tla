------------------------ MODULE IPinfoProvider_proofs ------------------------
(***************************************************************************)
(* Theorems about IPinfoProvider, alone and in the process of              *)
(* LookupProcess, for every set of calls, every retry bound, every set of  *)
(* HTTP statuses and all constants of the lookup service.                  *)
(***************************************************************************)
EXTENDS LookupProcess, FiniteSetTheorems, TLAPS

(* What holds of a call's attempts at every await. *)
CallInv(c) ==
    /\ pc[c] = "idle" => log[c] = << >>
    /\ pc[c] \in {"requesting", "sleeping"} =>
          /\ Len(log[c]) <= MaxRetries
          /\ \A k \in 1..Len(log[c]) : Transient(log[c][k])
    /\ pc[c] = "done" =>
          /\ Len(log[c]) <= MaxRetries + 1
          /\ \A k \in 1..(Len(log[c]) - 1) : Transient(log[c][k])
    /\ Ended(c) =>
          /\ Transient(LastOf(c)) => Len(log[c]) = MaxRetries + 1
          /\ result[c] = Verdict(LastOf(c))

RetryInv == TypeOK /\ \A c \in Calls : CallInv(c)

(* A call is counted when it ends, and so many have ended that the counters *)
(* can be numbers: finitely many, whatever Calls is.                        *)
TallyInv ==
    /\ \A c \in Calls : pc[c] # "done" => result[c] = "none"
    /\ IsFiniteSet(EndedWith({"success"} \cup Errors))
    /\ EachCallIsCountedOnce

-----------------------------------------------------------------------------
(* The rules. *)

LEMMA StatusField ==
    ASSUME NEW S, NEW B, NEW a \in [status : S, body : B]
    PROVE  a.status \in S
OBVIOUS

LEMMA AttemptStatus ==
    ASSUME NEW a \in Attempt
    PROVE  a.status \in NoResponse \cup 200..599
<1>1. \/ a \in [status : {s \in Statuses : s < 400}, body : Bodies]
      \/ a \in [status : {s \in Statuses : s >= 400} \cup NoResponse, body : {"unread"}]
    BY Zenon DEF Attempt
<1>2. a.status \in {s \in Statuses : s < 400} \cup {s \in Statuses : s >= 400} \cup NoResponse
    BY <1>1, StatusField, Zenon
<1>3. a.status \in Statuses \cup NoResponse
    BY <1>2, Zenon
<1> DEFINE Responses == 200..599
<1>4. Statuses \subseteq Responses
    BY StatusAssumption
<1> HIDE DEF Responses
<1>5. a.status \in Responses \cup NoResponse
    BY <1>3, <1>4, Zenon
<1> QED BY <1>5 DEF Responses

LEMMA RetryableIsTransient ==
    ASSUME NEW a \in Attempt
    PROVE  Retryable(a) <=> Transient(a)
<1>1. a.status \in NoResponse \cup 200..599
    BY AttemptStatus
<1> QED BY <1>1 DEF Retryable, Transient, NoResponse, TimedOut, Broken, Garbled

LEMMA VerdictType ==
    ASSUME NEW a \in Attempt
    PROVE  Verdict(a) \in {"success"} \cup Errors
<1>1. a.status \in NoResponse \cup 200..599
    BY AttemptStatus
<1>2. CASE a.status \in NoResponse \cup 400..599
    BY <1>2 DEF Verdict, Errors, NoResponse, TimedOut, Broken, Garbled
<1>3. CASE a.status \in 200..399
    <2>1. a.body \in Bodies
        BY <1>3 DEF Attempt, NoResponse, TimedOut, Broken, Garbled
    <2> QED BY <1>3, <2>1 DEF Verdict, Parsed, Errors, Bodies, NoResponse, TimedOut, Broken, Garbled
<1> QED BY <1>1, <1>2, <1>3

LEMMA VerdictOfSuccess ==
    ASSUME NEW a \in Attempt, Verdict(a) = "success"
    PROVE  a.status \in 200..399 /\ a.body = "usable"
<1>1. a.status \in NoResponse \cup 200..599
    BY AttemptStatus
<1>2. a.status \in 200..399
    BY <1>1 DEF Verdict, NoResponse, TimedOut, Broken, Garbled
<1>3. a.body \in Bodies
    BY <1>2 DEF Attempt, NoResponse, TimedOut, Broken, Garbled
<1> QED BY <1>2, <1>3 DEF Verdict, Parsed, Bodies, NoResponse, TimedOut, Broken, Garbled

LEMMA CountType ==
    ASSUME TypeOK, NEW types, Count(types)
    PROVE  errors' \in [ErrorTypes -> Nat]
BY DEF TypeOK, Count

LEMMA FinishType ==
    ASSUME TypeOK, NEW c \in Calls, NEW how \in {"success"} \cup Errors, Finish(c, how)
    PROVE  /\ pc' \in [Calls -> {"idle", "requesting", "sleeping", "done"}]
           /\ result' \in [Calls -> {"none", "success"} \cup Errors]
           /\ requests' \in [{"success", "error"} -> Nat]
BY DEF TypeOK, Finish

-----------------------------------------------------------------------------
(* A step touches one call, and keeps that call's invariant. *)

LEMMA OneCallStep ==
    ASSUME RetryInv, TypeOK', NEW c \in Calls, CallInv(c)',
           \A d \in Calls \ {c} : pc'[d] = pc[d] /\ log'[d] = log[d] /\ result'[d] = result[d]
    PROVE  RetryInv'
<1>1. ASSUME NEW d \in Calls \ {c} PROVE CallInv(d)'
    BY <1>1 DEF RetryInv, CallInv, Ended, LastOf
<1> QED BY <1>1 DEF RetryInv

LEMMA BeginKeeps ==
    ASSUME RetryInv, NEW c \in Calls, Begin(c) \/ WakeUp(c)
    PROVE  RetryInv'
<1>1. TypeOK /\ TypeOK'
    BY DEF RetryInv, TypeOK, Begin, WakeUp
<1>2. pc'[c] = "requesting" /\ log'[c] = log[c] /\ pc[c] \in {"idle", "sleeping"}
    BY <1>1 DEF Begin, WakeUp, TypeOK
<1>3. Len(log[c]) <= MaxRetries /\ \A k \in 1..Len(log[c]) : Transient(log[c][k])
    BY <1>2, RetriesAssumption DEF RetryInv, CallInv
<1>4. CallInv(c)'
    BY <1>2, <1>3 DEF CallInv, Ended
<1> QED BY <1>1, <1>4, OneCallStep DEF Begin, WakeUp, TypeOK

LEMMA AttemptLog ==
    ASSUME RetryInv, NEW c \in Calls, NEW a \in Attempt, AttemptEnds(c, a)
    PROVE  /\ log' \in [Calls -> Seq(Attempt)]
           /\ Len(log'[c]) = Len(log[c]) + 1 /\ log'[c] # << >>
           /\ log'[c][Len(log'[c])] = a
           /\ \A k \in 1..(Len(log'[c]) - 1) : Transient(log'[c][k])
           /\ Len(log[c]) \in Nat /\ Len(log[c]) <= MaxRetries
           /\ \A d \in Calls \ {c} : log'[d] = log[d]
<1>1. log[c] \in Seq(Attempt) /\ log'[c] = Append(log[c], a)
    BY DEF RetryInv, TypeOK, AttemptEnds
<1>2. Len(log[c]) <= MaxRetries /\ \A k \in 1..Len(log[c]) : Transient(log[c][k])
    BY DEF RetryInv, CallInv, AttemptEnds
<1>3. \A k \in 1..Len(log[c]) : log'[c][k] = log[c][k]
    BY <1>1
<1>4. Len(log'[c]) = Len(log[c]) + 1 /\ log'[c][Len(log[c]) + 1] = a
    BY <1>1
<1>5. log' \in [Calls -> Seq(Attempt)]
    BY <1>1 DEF RetryInv, TypeOK, AttemptEnds
<1>6. \A d \in Calls \ {c} : log'[d] = log[d]
    BY DEF RetryInv, TypeOK, AttemptEnds
<1> QED BY <1>1, <1>2, <1>3, <1>4, <1>5, <1>6

LEMMA RetryKeeps ==
    ASSUME RetryInv, NEW c \in Calls, NEW a \in Attempt, RetryLater(c, a)
    PROVE  RetryInv'
<1>1. AttemptEnds(c, a)
    BY DEF RetryLater
<1>2. Transient(a)
    BY RetryableIsTransient DEF RetryLater
<1>3. TypeOK'
    BY <1>1, AttemptLog, CountType DEF RetryLater, RetryInv, TypeOK
<1>4. pc'[c] = "sleeping" /\ Len(log'[c]) <= MaxRetries
    BY <1>1, AttemptLog, RetriesAssumption DEF RetryLater, Exhausted, RetryInv, TypeOK
<1>5. \A k \in 1..Len(log'[c]) : Transient(log'[c][k])
    <2>1. ASSUME NEW k \in 1..Len(log'[c]) PROVE Transient(log'[c][k])
        <3>1. CASE k = Len(log'[c])
            BY <1>1, <1>2, <3>1, AttemptLog
        <3>2. CASE k # Len(log'[c])
            BY <1>1, <3>2, AttemptLog
        <3> QED BY <3>1, <3>2
    <2> QED BY <2>1
<1>6. CallInv(c)'
    BY <1>4, <1>5 DEF CallInv, Ended, Transient
<1>7. \A d \in Calls \ {c} : pc'[d] = pc[d] /\ log'[d] = log[d] /\ result'[d] = result[d]
    BY <1>1, AttemptLog DEF RetryLater, RetryInv, TypeOK
<1> QED BY <1>3, <1>6, <1>7, OneCallStep

LEMMA ConcludeKeeps ==
    ASSUME RetryInv, NEW c \in Calls, NEW a \in Attempt, Conclude(c, a)
    PROVE  RetryInv'
<1>1. /\ AttemptEnds(c, a) /\ Finish(c, Verdict(a)) /\ Count(TypesOf(Verdict(a)))
      /\ ~Retryable(a) \/ Exhausted(Len(log[c]) + 1)
      /\ setting' = setting /\ TypeOK
    BY DEF Conclude, Deciding, RetryInv
<1>2. TypeOK'
    BY <1>1, AttemptLog, CountType, FinishType, VerdictType DEF TypeOK
<1>3. pc'[c] = "done" /\ result'[c] = Verdict(a)
    BY <1>1 DEF Finish, TypeOK
<1>4. Transient(a) => Len(log'[c]) = MaxRetries + 1
    BY <1>1, AttemptLog, RetryableIsTransient, RetriesAssumption DEF Exhausted
<1>5. Len(log'[c]) <= MaxRetries + 1
    BY <1>1, AttemptLog, RetriesAssumption
<1>6. CallInv(c)'
    BY <1>1, <1>3, <1>4, <1>5, AttemptLog DEF CallInv, Ended, LastOf
<1>7. \A d \in Calls \ {c} : pc'[d] = pc[d] /\ log'[d] = log[d] /\ result'[d] = result[d]
    BY <1>1, AttemptLog DEF Finish, TypeOK
<1> QED BY <1>2, <1>6, <1>7, OneCallStep

LEMMA FakeKeeps ==
    ASSUME RetryInv, NEW c \in Calls, FakeLookup(c)
    PROVE  RetryInv'
<1>1. PICK how \in {"success"} \cup Errors : Finish(c, how)
    BY DEF FakeLookup, Errors
<1>2. errors' \in [ErrorTypes -> Nat]
    BY CountType DEF FakeLookup, RetryInv
<1>3. TypeOK'
    BY <1>1, <1>2, FinishType DEF FakeLookup, RetryInv, TypeOK
<1>4. log[c] = << >> /\ log'[c] = << >> /\ pc'[c] = "done"
    BY <1>1 DEF FakeLookup, RetryInv, CallInv, Finish, TypeOK
<1>5. CallInv(c)'
    BY <1>4, RetriesAssumption DEF CallInv, Ended
<1>6. \A d \in Calls \ {c} : pc'[d] = pc[d] /\ log'[d] = log[d] /\ result'[d] = result[d]
    BY <1>1 DEF FakeLookup, Finish, RetryInv, TypeOK
<1> QED BY <1>3, <1>5, <1>6, OneCallStep

LEMMA InitRetry == Init => RetryInv
BY RetriesAssumption DEF Init, RetryInv, TypeOK, CallInv, Ended

LEMMA NextRetry == RetryInv /\ [Next]_vars => RetryInv'
<1>1. ASSUME RetryInv, UNCHANGED vars PROVE RetryInv'
    BY <1>1 DEF vars, RetryInv, TypeOK, CallInv, Ended, LastOf
<1> QED BY <1>1, BeginKeeps, RetryKeeps, ConcludeKeeps, FakeKeeps DEF Next

-----------------------------------------------------------------------------
(* The counters. *)

(* A call that ends joins those that ended the same way, and no others.     *)
LEMMA EndedGrows ==
    ASSUME TypeOK, TallyInv, NEW c \in Calls, pc[c] # "done",
           NEW how \in {"success"} \cup Errors, Finish(c, how),
           NEW R \in SUBSET ({"success"} \cup Errors)
    PROVE  /\ IsFiniteSet(EndedWith(R)) /\ Cardinality(EndedWith(R)) \in Nat
           /\ IsFiniteSet(EndedWith(R)')
           /\ Cardinality(EndedWith(R)') = Cardinality(EndedWith(R)) + IF how \in R THEN 1 ELSE 0
<1>1. IsFiniteSet(EndedWith(R))
    <2>1. EndedWith(R) \subseteq EndedWith({"success"} \cup Errors)
        BY DEF EndedWith
    <2> QED BY <2>1, FS_Subset DEF TallyInv
<1>2. c \notin EndedWith(R)
    BY DEF TallyInv, EndedWith, Errors
<1>3. EndedWith(R)' = IF how \in R THEN EndedWith(R) \cup {c} ELSE EndedWith(R)
    BY <1>2 DEF Finish, EndedWith, TypeOK
<1> QED BY <1>1, <1>2, <1>3, FS_AddElement, FS_CardinalityType

LEMMA SumGrows ==
    ASSUME TypeOK, NEW types, types = {} \/ \E t \in ErrorTypes : types = {t}, Count(types)
    PROVE  AllErrors' = AllErrors + IF types = {} THEN 0 ELSE 1
<1>1. \A t \in ErrorTypes :
          errors[t] \in Nat /\ errors'[t] = errors[t] + IF t \in types THEN 1 ELSE 0
    BY DEF TypeOK, Count
<1>2. CASE types = {}
    BY <1>1, <1>2 DEF ErrorTypes, AllErrors
<1>3. ASSUME NEW t \in ErrorTypes, types = {t}
      PROVE  AllErrors' = AllErrors + 1
    BY <1>1, <1>3 DEF ErrorTypes, AllErrors
<1> QED BY <1>2, <1>3

(* Every way for a call to end: one request, and one error if it is one.    *)
LEMMA EndCounts ==
    ASSUME TypeOK, TallyInv, NEW c \in Calls, pc[c] # "done",
           NEW how \in {"success"} \cup Errors, Finish(c, how), NEW types, Count(types),
           types = {} \/ \E t \in ErrorTypes : types = {t},
           types = {} <=> how \in {"success", "INTERNAL_ERROR"}
    PROVE  TallyInv'
<1> DEFINE failed == Errors \ {"INTERNAL_ERROR"}
<1>1. "success" \notin Errors /\ failed \in SUBSET ({"success"} \cup Errors)
    BY DEF Errors
<1>2. /\ requests'["success"] = requests["success"] + IF how = "success" THEN 1 ELSE 0
      /\ requests'["error"] = requests["error"] + IF how = "success" THEN 0 ELSE 1
    BY DEF TypeOK, Finish
<1>3. requests'["success"] = Cardinality(EndedWith({"success"})')
    BY <1>2, EndedGrows DEF TallyInv, EachCallIsCountedOnce
<1>4. requests'["error"] = Cardinality(EndedWith(Errors)')
    BY <1>1, <1>2, EndedGrows DEF TallyInv, EachCallIsCountedOnce
<1>5. AllErrors' = Cardinality(EndedWith(failed)')
    <2>1. AllErrors' = AllErrors + IF types = {} THEN 0 ELSE 1
        BY SumGrows
    <2>2. AllErrors = Cardinality(EndedWith(failed))
        BY DEF TallyInv, EachCallIsCountedOnce
    <2>3. types = {} <=> how \notin failed
        BY <1>1
    <2> HIDE DEF failed
    <2> QED BY <1>1, <2>1, <2>2, <2>3, EndedGrows
<1>6. \A d \in Calls : pc'[d] # "done" => result'[d] = "none"
    BY DEF TallyInv, Finish, TypeOK
<1>7. IsFiniteSet(EndedWith({"success"} \cup Errors)')
    BY EndedGrows
<1> QED BY <1>3, <1>4, <1>5, <1>6, <1>7 DEF TallyInv, EachCallIsCountedOnce

LEMMA NextTally == RetryInv /\ TallyInv /\ [Next]_vars => TallyInv'
<1> SUFFICES ASSUME RetryInv, TallyInv, [Next]_vars PROVE TallyInv'
    OBVIOUS
<1>1. TypeOK
    BY DEF RetryInv
<1>2. ASSUME result' = result, requests' = requests, errors' = errors,
             \A c \in Calls : pc[c] = "done" => pc'[c] = "done"
      PROVE  TallyInv'
    BY <1>2 DEF TallyInv, EachCallIsCountedOnce, EndedWith, AllErrors, TypeOK
<1>3. ASSUME UNCHANGED vars PROVE TallyInv'
    BY <1>2, <1>3 DEF vars
<1>4. ASSUME NEW c \in Calls, Begin(c) \/ WakeUp(c) PROVE TallyInv'
    BY <1>1, <1>2, <1>4 DEF Begin, WakeUp, TypeOK
<1>5. ASSUME NEW c \in Calls, NEW a \in Attempt, RetryLater(c, a) PROVE TallyInv'
    <2>1. errors' = errors
        BY <1>1, <1>5 DEF RetryLater, Count, RetryTypes, TypeOK
    <2> QED BY <1>1, <1>2, <1>5, <2>1 DEF RetryLater, AttemptEnds, TypeOK
<1>6. ASSUME NEW c \in Calls, NEW a \in Attempt, Conclude(c, a) PROVE TallyInv'
    <2> DEFINE how == Verdict(a)
    <2>1. pc[c] # "done" /\ Finish(c, how) /\ Count(TypesOf(how))
        BY <1>6 DEF Conclude, AttemptEnds, Deciding
    <2>2. how \in {"success"} \cup Errors
        BY VerdictType
    <2> HIDE DEF how
    <2>3. TypesOf(how) = {} \/ \E t \in ErrorTypes : TypesOf(how) = {t}
        BY <2>2 DEF TypesOf, Errors, ErrorTypes
    <2>4. TypesOf(how) = {} <=> how \in {"success", "INTERNAL_ERROR"}
        BY <2>2 DEF TypesOf, Errors
    <2> QED BY <1>1, <2>1, <2>2, <2>3, <2>4, EndCounts
<1>7. ASSUME NEW c \in Calls, FakeLookup(c) PROVE TallyInv'
    <2>1. pc[c] # "done"
        BY <1>7 DEF FakeLookup
    <2>2. CASE Finish(c, "success") /\ Count({})
        BY <1>1, <2>1, <2>2, EndCounts
    <2>3. CASE Finish(c, "PROVIDER_INVALID_RESPONSE") /\ Count({"fixture_not_found"})
        <3>1. "PROVIDER_INVALID_RESPONSE" \in Errors /\ "fixture_not_found" \in ErrorTypes
            BY DEF Errors, ErrorTypes
        <3> QED BY <1>1, <2>1, <2>3, <3>1, EndCounts
    <2> QED BY <1>7, <2>2, <2>3 DEF FakeLookup
<1> QED BY <1>3, <1>4, <1>5, <1>6, <1>7 DEF Next

LEMMA InitTally == Init => TallyInv
<1> SUFFICES ASSUME Init PROVE TallyInv
    OBVIOUS
<1>1. \A R \in SUBSET ({"success"} \cup Errors) : EndedWith(R) = {}
    BY DEF Init, EndedWith, Errors
<1>2. AllErrors = 0
    BY DEF Init, AllErrors, ErrorTypes
<1> QED BY <1>1, <1>2, FS_EmptySet DEF Init, TallyInv, EachCallIsCountedOnce

-----------------------------------------------------------------------------
(* The theorems. *)

(* Calls, attempts and counters keep their types. *)
THEOREM TypeCorrect == Spec => []TypeOK
<1>1. RetryInv => TypeOK
    BY DEF RetryInv
<1> QED BY <1>1, InitRetry, NextRetry, PTL DEF Spec

LEMMA RetryInvIsStrict == RetryInv => RetriesAreStrict
<1>1. ASSUME RetryInv, NEW c \in Calls
      PROVE  /\ \A k \in 1..(Len(log[c]) - 1) : Transient(log[c][k])
             /\ Len(log[c]) <= MaxRetries + 1
             /\ Ended(c) /\ Transient(LastOf(c)) => Len(log[c]) = MaxRetries + 1
             /\ pc[c] = "sleeping" => Len(log[c]) <= MaxRetries
    <2>1. CallInv(c) /\ Len(log[c]) \in Nat
          /\ pc[c] \in {"idle", "requesting", "sleeping", "done"}
        BY <1>1 DEF RetryInv, TypeOK
    <2> QED BY <2>1, RetriesAssumption DEF CallInv
<1> QED BY <1>1 DEF RetriesAreStrict

LEMMA RetryInvDecides == RetryInv => LastAttemptDecides
<1>1. ASSUME RetryInv, NEW c \in Calls, Ended(c)
      PROVE  result[c] = Verdict(LastOf(c)) /\ LastOf(c) \in Attempt
    <2>1. log[c] \in Seq(Attempt) /\ log[c] # << >>
        BY <1>1 DEF RetryInv, TypeOK, Ended
    <2>2. Len(log[c]) \in 1..Len(log[c])
        BY <2>1
    <2> QED BY <1>1, <2>1, <2>2 DEF RetryInv, CallInv, LastOf
<1> QED BY <1>1, VerdictOfSuccess DEF LastAttemptDecides

(* Only transient failures are retried, at most MaxRetries times, and none  *)
(* is reported before the retries are used up, whatever the provider sends. *)
THEOREM RetriesAreStrictHolds == Spec => []RetriesAreStrict
BY InitRetry, NextRetry, RetryInvIsStrict, PTL DEF Spec

(* The last attempt alone decides how a call ends. *)
THEOREM LastAttemptDecidesHolds == Spec => []LastAttemptDecides
BY InitRetry, NextRetry, RetryInvDecides, PTL DEF Spec

(* However calls and retries interleave, every finished call is counted     *)
(* once, as a success or an error, and every error under one type, save one *)
(* that nothing caught (ipinfo.py:83-93, 105-115, fake.py:25-31).           *)
THEOREM EachCallIsCountedOnceHolds == Spec => []EachCallIsCountedOnce
<1>1. TallyInv => EachCallIsCountedOnce
    BY DEF TallyInv
<1> QED BY <1>1, InitRetry, NextRetry, InitTally, NextTally, PTL DEF Spec

-----------------------------------------------------------------------------
(* The process of LookupProcess.  Service is the same instance of           *)
(* IPLookupService as Lookup, with the theorems about it.                   *)

Service == INSTANCE IPLookupService_proofs WITH
    Requests <- Calls, Pods <- {Process}, pc <- await

LEMMA ServiceAssumptions ==
    /\ Parse \in [Inputs -> IPs \cup {Malformed}]
    /\ Malformed \notin IPs /\ Public \subseteq IPs /\ Storable \subseteq IPs
    /\ {"none", "refused"} \cap Countries = {}
    /\ NoRow \notin Service!Row /\ NoAnswer \notin Service!Answer
    /\ TTL \in Nat \ {0} /\ MaxSkew \in Nat /\ MaxTime \in Nat
BY LookupAssumption
DEF Lookup!Row, Service!Row, Lookup!Answer, Service!Answer

LEMMA SameInit == Lookup!Init <=> Service!Init
BY DEF Lookup!Init, Service!Init, Lookup!Series, Service!Series

LEMMA SameNext == Lookup!Next <=> Service!Next
BY DEF Lookup!Next, Service!Next, Lookup!Serve, Service!Serve, Lookup!ConnectionFails,
    Service!ConnectionFails, Lookup!RejectInput, Service!RejectInput, Lookup!StartLookup,
    Service!StartLookup, Lookup!Arrive, Service!Arrive, Lookup!Fail, Service!Fail,
    Lookup!Finish, Service!Finish, Lookup!GoTo, Service!GoTo, Lookup!Hold, Service!Hold,
    Lookup!Forget, Service!Forget, Lookup!Bump, Service!Bump, Lookup!DbSelect,
    Service!DbSelect, Lookup!DbRejects, Service!DbRejects, Lookup!ReadFails,
    Service!ReadFails, Lookup!ReadHit, Service!ReadHit, Lookup!ReadMiss, Service!ReadMiss,
    Lookup!ProviderAnswers, Service!ProviderAnswers, Lookup!ProviderFails,
    Service!ProviderFails, Lookup!SendUpsert, Service!SendUpsert, Lookup!UpsertReturns,
    Service!UpsertReturns, Lookup!UpsertFails, Service!UpsertFails, Lookup!DbCommit,
    Service!DbCommit, Lookup!DbAbort, Service!DbAbort, Lookup!Crash, Service!Crash,
    Lookup!Restart, Service!Restart, Lookup!Tick, Service!Tick, Lookup!db, Service!db,
    Lookup!task, Service!task, Lookup!ClockReading, Service!ClockReading, Lookup!Hit,
    Service!Hit, Lookup!NewRecord, Service!NewRecord, Lookup!Upserted, Service!Upserted,
    Lookup!Acknowledged, Service!Acknowledged, Lookup!UpsertFailureSeries,
    Service!UpsertFailureSeries, Lookup!ReadFailureSeries, Service!ReadFailureSeries,
    Lookup!Series, Service!Series, Lookup!ProviderErrors, Service!ProviderErrors

LEMMA SameTypes == Lookup!TypeOK <=> Service!TypeOK
BY DEF Lookup!TypeOK, Service!TypeOK, Lookup!Series, Service!Series, Lookup!Stages,
    Service!Stages, Lookup!Row, Service!Row, Lookup!Answer, Service!Answer, Lookup!Outcomes,
    Service!Outcomes, Lookup!Successes, Service!Successes, Lookup!ProviderErrors,
    Service!ProviderErrors

(* Every step of the process is one of the service, or one between two      *)
(* attempts that the service does not see.                                  *)
LEMMA ProcessStepsTheService == [ProcessNext]_processVars => [Lookup!Next]_(Lookup!vars)
<1>1. lookupVars' = lookupVars => Lookup!vars' = Lookup!vars
    BY DEF lookupVars, Lookup!vars, Lookup!db, Lookup!task
<1>2. ASSUME NEW c \in Calls, Ask(c) \/ ProviderEnds(c) PROVE Lookup!Next
    BY <1>2 DEF Ask, ProviderEnds, Returns, Lookup!Next, Lookup!Serve
<1>3. ASSUME NEW c \in Calls, Attempting(c) PROVE Lookup!vars' = Lookup!vars
    BY <1>1, <1>3 DEF Attempting
<1>4. ASSUME NEW c \in Calls, NEW input \in Inputs,
             Aside(Lookup!RejectInput(c, input) \/ Lookup!StartLookup(c, input))
      PROVE  Lookup!Next
    BY <1>4 DEF Aside, Lookup!Next, Lookup!Serve
<1>5. ASSUME NEW c \in Calls,
             Aside(Lookup!DbSelect(c) \/ Lookup!DbRejects(c) \/ Lookup!ReadHit(c)
                   \/ Lookup!SendUpsert(c) \/ Lookup!UpsertReturns(c)
                   \/ Lookup!ConnectionFails(c))
      PROVE  Lookup!Next
    BY <1>5 DEF Aside, Lookup!Next, Lookup!Serve
<1>6. ASSUME NEW w \in writes, Aside(Lookup!DbCommit(w) \/ Lookup!DbAbort(w))
      PROVE  Lookup!Next
    BY <1>6 DEF Aside, Lookup!Next
<1>7. ASSUME Crash \/ Aside(Lookup!Restart(Process)) \/ Aside(Lookup!Tick)
      PROVE  Lookup!Next
    BY <1>7 DEF Aside, Crash, Lookup!Next
<1> QED BY <1>1, <1>2, <1>3, <1>4, <1>5, <1>6, <1>7 DEF ProcessNext, processVars

(* The process is a service whose provider really is asked: whatever        *)
(* retries, statuses and bodies lead to is an answer or an error that       *)
(* IPLookupService allows (ip_lookup_service.py:46-81, ipinfo.py:66-102).   *)
THEOREM ProcessImplementsService == ProcessSpec => Lookup!Spec
<1>1. ProcessInit => Lookup!Init
    BY DEF ProcessInit
<1> QED BY <1>1, ProcessStepsTheService, PTL DEF ProcessSpec, Lookup!Spec

LEMMA ServiceSpec == ProcessSpec => Service!Spec
<1>1. [Lookup!Next]_(Lookup!vars) => [Service!Next]_(Service!vars)
    BY SameNext
    DEF Lookup!vars, Service!vars, Lookup!db, Service!db, Lookup!task, Service!task
<1> QED BY <1>1, ProcessImplementsService, SameInit, PTL DEF Lookup!Spec, Service!Spec

(* Hence the process keeps the promise of LookupPromise, and its lookups    *)
(* and counters have the properties of the service.                         *)
THEOREM ProcessKeepsPromise == ProcessSpec => Lookup!KeepsPromise
<1>1. Service!Spec => Service!KeepsPromise
    BY ServiceAssumptions, Service!ServiceKeepsPromise
<1>2. Service!KeepsPromise <=> Lookup!KeepsPromise
    BY DEF Lookup!KeepsPromise, Service!KeepsPromise, Lookup!Promise!PromiseSpec,
        Service!Promise!PromiseSpec, Lookup!Promise!PromiseInit, Service!Promise!PromiseInit,
        Lookup!Promise!PromiseNext, Service!Promise!PromiseNext, Lookup!Promise!PromiseVars,
        Service!Promise!PromiseVars, Lookup!Promise!Ask, Service!Promise!Ask,
        Lookup!Promise!Learn, Service!Promise!Learn, Lookup!Promise!Keep, Service!Promise!Keep,
        Lookup!Promise!Reply, Service!Promise!Reply, Lookup!Promise!Refuse,
        Service!Promise!Refuse, Lookup!Promise!Pass, Service!Promise!Pass,
        Lookup!Promise!NoVerdict, Service!Promise!NoVerdict, Lookup!Promise!Refused,
        Service!Promise!Refused, Lookup!Asked, Service!Asked, Lookup!Facts, Service!Facts,
        Lookup!KeptIPs, Service!KeptIPs, Lookup!Verdicts, Service!Verdicts, Lookup!Successes,
        Service!Successes
<1> QED BY <1>1, <1>2, ServiceSpec

-----------------------------------------------------------------------------
(* The provider in the process.  A crash is the only step that is none of   *)
(* IPinfoProvider's; it forgets calls and counters alike.                   *)

LEMMA NextProvider ==
    ASSUME RetryInv, TallyInv, [ProcessNext]_processVars
    PROVE  RetryInv' /\ TallyInv'
<1>1. CASE Crash
    <2>1. setting' \in {"ipinfo", "fake"}
        BY <1>1 DEF Crash, RetryInv, TypeOK
    <2>2. Init'
        BY <1>1, <2>1 DEF Crash, Init
    <2>3. Init' => RetryInv' /\ TallyInv'
        BY InitRetry, InitTally, PTL
    <2> QED BY <2>2, <2>3
<1>2. CASE ~Crash
    <2>1. ASSUME NEW c \in Calls, Ask(c) \/ Attempting(c) \/ ProviderEnds(c)
          PROVE  [Next]_vars
        BY <2>1 DEF Ask, Attempting, ProviderEnds, Next
    <2>2. [Next]_vars
        BY <1>2, <2>1 DEF ProcessNext, processVars, Aside
    <2> QED BY <2>2, NextRetry, NextTally
<1> QED BY <1>1, <1>2

(* Every step of the process, the crash included, is one the provider's two *)
(* invariants survive (ipinfo.py:66-115).                                   *)
THEOREM ProviderInProcess == ProcessSpec => [](RetryInv /\ TallyInv)
<1>1. ProcessInit => RetryInv /\ TallyInv
    BY InitRetry, InitTally DEF ProcessInit
<1> QED BY <1>1, NextProvider, PTL DEF ProcessSpec

-----------------------------------------------------------------------------
(* The two sets of counters. *)

(* FiniteSets is instantiated with each module that extends it.             *)
LEMMA SameInFlight ==
    ASSUME NEW stages
    PROVE  /\ Lookup!InFlight(Process, stages) = Service!InFlight(Process, stages)
           /\ Lookup!InFlight(Process, stages)' = Service!InFlight(Process, stages)'
BY DEF Lookup!InFlight, Service!InFlight, Lookup!Cardinality, Service!Cardinality,
       Lookup!IsFiniteSet, Service!IsFiniteSet

OnTheirWay == Service!Flying(Process, {"upserting", "committing"})
AgreeInv == CountersAgree /\ Service!IsFiniteSet(OnTheirWay)

(* A step of lookup c that goes to `stage`, bumps the series S and makes    *)
(* the provider count `won` successes and `lost` errors, with both sides    *)
(* of the equations moved alike.                                            *)
LEMMA AgreeStep ==
    ASSUME Service!TypeOK, TypeOK, AgreeInv, NEW c \in Calls, NEW stage \in Service!Stages,
           Service!GoTo(c, stage), pod' = pod, NEW S \in SUBSET Service!Series,
           \/ Service!Bump(c, S)
           \/ S = {} /\ metrics' = metrics,
           NEW won \in {0, 1}, NEW lost \in {0, 1},
           requests'["success"] = requests["success"] + won,
           requests'["error"] = requests["error"] + lost,
           won = (IF "lookup_provider_success" \in S THEN 1 ELSE 0)
                   + (IF "db_upsert_error" \in S THEN 1 ELSE 0)
                   + (IF stage \in {"upserting", "committing"} THEN 1 ELSE 0)
                   - (IF await[c] \in {"upserting", "committing"} THEN 1 ELSE 0),
           lost + (IF "db_upsert_error" \in S THEN 1 ELSE 0)
             = (IF "lookup_provider_error" \in S THEN 1 ELSE 0)
    PROVE  AgreeInv'
<1> DEFINE U == {"upserting", "committing"}
<1>1. pod[c] = Process /\ Process \in {Process}
    BY DEF Service!TypeOK
<1>2. /\ Service!IsFiniteSet(Service!Flying(Process, U)') /\ Service!InFlight(Process, U) \in Nat
      /\ Service!InFlight(Process, U)' = Service!InFlight(Process, U)
            + (IF stage \in U THEN 1 ELSE 0) - (IF await[c] \in U THEN 1 ELSE 0)
    BY <1>1, ServiceAssumptions, Service!FlyingMoves DEF AgreeInv, OnTheirWay
<1>3. \A s \in Service!Series :
          /\ metrics[Process][s] \in Nat
          /\ metrics'[Process][s] = metrics[Process][s] + IF s \in S THEN 1 ELSE 0
    <2>1. CASE Service!Bump(c, S)
        BY <1>1, <2>1, ServiceAssumptions, Service!BumpCounts
    <2>2. CASE S = {} /\ metrics' = metrics
        BY <2>2 DEF Service!TypeOK
    <2> QED BY <2>1, <2>2
<1>4. /\ Lookup!InFlight(Process, U) = Service!InFlight(Process, U)
      /\ Lookup!InFlight(Process, U)' = Service!InFlight(Process, U)'
    BY SameInFlight
<1>5. requests["success"] \in Nat /\ requests["error"] \in Nat
    BY DEF TypeOK
<1>6. /\ requests["success"] = metrics[Process]["lookup_provider_success"]
             + metrics[Process]["db_upsert_error"] + Lookup!InFlight(Process, U)
      /\ requests["error"] + metrics[Process]["db_upsert_error"]
             = metrics[Process]["lookup_provider_error"]
    BY DEF AgreeInv, CountersAgree
<1> HIDE DEF U
<1>7. requests'["success"] = metrics'[Process]["lookup_provider_success"]
             + metrics'[Process]["db_upsert_error"] + Lookup!InFlight(Process, U)'
    BY <1>2, <1>3, <1>4, <1>5, <1>6 DEF Service!Series, U
<1>8. requests'["error"] + metrics'[Process]["db_upsert_error"]
             = metrics'[Process]["lookup_provider_error"]
    BY <1>3, <1>5, <1>6 DEF Service!Series
<1> QED BY <1>2, <1>7, <1>8 DEF AgreeInv, CountersAgree, OnTheirWay, U

(* Nothing is counted and no lookup comes to its upsert, or leaves it.      *)
LEMMA AgreeStays ==
    ASSUME AgreeInv, metrics' = metrics, requests' = requests, pod' = pod,
           \A c \in Calls : await'[c] \in {"upserting", "committing"}
                              <=> await[c] \in {"upserting", "committing"}
    PROVE  AgreeInv'
<1>1. OnTheirWay' = OnTheirWay
    BY DEF OnTheirWay, Service!Flying
<1>2. Service!InFlight(Process, {"upserting", "committing"})'
        = Service!InFlight(Process, {"upserting", "committing"})
    BY <1>1 DEF Service!InFlight, Service!Flying, OnTheirWay
<1> QED BY <1>1, <1>2, SameInFlight DEF AgreeInv, CountersAgree

LEMMA NothingOnItsWay ==
    ASSUME Service!Flying(Process, {"upserting", "committing"}) = {}
    PROVE  /\ Service!IsFiniteSet(OnTheirWay)
           /\ Lookup!InFlight(Process, {"upserting", "committing"}) = 0
<1>1. Service!IsFiniteSet({}) /\ Service!Cardinality({}) = 0
    BY ServiceAssumptions, Service!FS_EmptySet
<1>2. Service!InFlight(Process, {"upserting", "committing"}) = 0
    BY <1>1 DEF Service!InFlight, Service!Flying
<1> QED BY <1>1, <1>2, SameInFlight DEF OnTheirWay

LEMMA InitAgrees == ProcessInit => AgreeInv
<1> SUFFICES ASSUME ProcessInit PROVE AgreeInv
    OBVIOUS
<1>1. Service!Flying(Process, {"upserting", "committing"}) = {}
    BY DEF ProcessInit, Lookup!Init, Service!Flying
<1>2. /\ \A s \in Lookup!Series : metrics[Process][s] = 0
      /\ requests["success"] = 0 /\ requests["error"] = 0
    BY DEF ProcessInit, Lookup!Init, Init
<1> QED BY <1>1, <1>2, NothingOnItsWay DEF AgreeInv, CountersAgree, Lookup!Series

LEMMA CrashAgrees ==
    ASSUME Service!TypeOK, AgreeInv, Crash
    PROVE  AgreeInv'
<1>1. Service!Flying(Process, {"upserting", "committing"})' = {}
    BY DEF Crash, Lookup!Crash, Service!Flying
<1>2. Service!IsFiniteSet({}) /\ Service!Cardinality({}) = 0
    BY ServiceAssumptions, Service!FS_EmptySet
<1>3. Service!InFlight(Process, {"upserting", "committing"})' = 0
    BY <1>1, <1>2 DEF Service!InFlight, Service!Flying
<1>4. /\ \A s \in Lookup!Series : metrics'[Process][s] = 0
      /\ requests'["success"] = 0 /\ requests'["error"] = 0
    BY DEF Crash, Lookup!Crash, Service!TypeOK
<1>5. Service!IsFiniteSet(OnTheirWay')
    BY <1>1, <1>2 DEF OnTheirWay
<1> QED BY <1>3, <1>4, <1>5, SameInFlight DEF AgreeInv, CountersAgree, Lookup!Series

(* provider.lookup returns or raises, and the service counts what follows.  *)
LEMMA ProviderEndAgrees ==
    ASSUME Service!TypeOK, TypeOK, AgreeInv, NEW c \in Calls, ProviderEnds(c)
    PROVE  AgreeInv'
<1>1. PICK how \in {"success"} \cup Errors : Finish(c, how)
    <2>1. ASSUME NEW a \in Attempt, Conclude(c, a)
          PROVE  Finish(c, Verdict(a)) /\ Verdict(a) \in {"success"} \cup Errors
        BY <2>1, VerdictType DEF Conclude, Deciding
    <2>2. ASSUME FakeLookup(c)
          PROVE  Finish(c, "success") \/ Finish(c, "PROVIDER_INVALID_RESPONSE")
        BY <2>2 DEF FakeLookup
    <2> QED BY <2>1, <2>2 DEF ProviderEnds, Errors
<1>2. /\ result'[c] = how /\ "success" \notin Errors
      /\ requests'["success"] = requests["success"] + IF how = "success" THEN 1 ELSE 0
      /\ requests'["error"] = requests["error"] + IF how = "success" THEN 0 ELSE 1
    BY <1>1 DEF Finish, TypeOK, Errors
<1>3. await[c] = "asking"
    BY DEF ProviderEnds
<1>4. CASE how = "success"
    <2>1. Service!GoTo(c, "upserting") /\ pod' = pod /\ metrics' = metrics
        BY <1>2, <1>4 DEF ProviderEnds, Returns, Lookup!ProviderAnswers, Lookup!GoTo, Service!GoTo
    <2>2. "upserting" \in Service!Stages /\ {} \in SUBSET Service!Series
        BY DEF Service!Stages
    <2>3. /\ requests'["success"] = requests["success"] + 1
          /\ requests'["error"] = requests["error"] + 0
        BY <1>2, <1>4
    <2>4. 1 = (IF "lookup_provider_success" \in {} THEN 1 ELSE 0)
                + (IF "db_upsert_error" \in {} THEN 1 ELSE 0)
                + (IF "upserting" \in {"upserting", "committing"} THEN 1 ELSE 0)
                - (IF await[c] \in {"upserting", "committing"} THEN 1 ELSE 0)
        BY <1>3
    <2>5. 0 + (IF "db_upsert_error" \in {} THEN 1 ELSE 0)
            = (IF "lookup_provider_error" \in {} THEN 1 ELSE 0)
        OBVIOUS
    <2> QED BY <2>1, <2>2, <2>3, <2>4, <2>5, AgreeStep
<1>5. CASE how # "success"
    <2>1. /\ Service!GoTo(c, "done") /\ pod' = pod
          /\ Service!Bump(c, {"lookup_provider_error"})
        BY <1>2, <1>5 DEF ProviderEnds, Returns, Lookup!ProviderFails, Lookup!Fail,
               Lookup!Finish, Lookup!GoTo, Service!GoTo, Lookup!Bump, Service!Bump,
               Lookup!Series, Service!Series
    <2>2. "done" \in Service!Stages /\ {"lookup_provider_error"} \in SUBSET Service!Series
        BY DEF Service!Stages, Service!Series
    <2> QED BY <1>2, <1>3, <1>5, <2>1, <2>2, AgreeStep
<1> QED BY <1>4, <1>5

(* A step of the service that leaves the provider alone and counts.         *)
LEMMA AsideAgrees ==
    ASSUME Service!TypeOK, TypeOK, AgreeInv, NEW c \in Calls, requests' = requests,
           \/ \E input \in Inputs : Service!RejectInput(c, input) \/ Service!StartLookup(c, input)
           \/ Service!DbSelect(c) \/ Service!DbRejects(c) \/ Service!ReadHit(c)
           \/ Service!ReadMiss(c) \/ Service!SendUpsert(c) \/ Service!UpsertReturns(c)
           \/ Service!ConnectionFails(c)
    PROVE  AgreeInv'
<1> USE DEF Service!Stages, Service!Series
<1>1. /\ requests' = requests
      /\ requests'["success"] = requests["success"] + 0
      /\ requests'["error"] = requests["error"] + 0
    BY DEF TypeOK
<1>2. ASSUME NEW input \in Inputs,
             Service!RejectInput(c, input) \/ Service!StartLookup(c, input)
      PROVE  AgreeInv'
    BY <1>1, <1>2, AgreeStays
    DEF Service!RejectInput, Service!StartLookup, Service!Arrive, Service!Fail, Service!Finish,
        Service!GoTo, Service!TypeOK
<1>3. CASE Service!DbSelect(c) \/ Service!SendUpsert(c)
    BY <1>1, <1>3, AgreeStays
    DEF Service!DbSelect, Service!SendUpsert, Service!GoTo, Service!TypeOK
<1>4. CASE Service!DbRejects(c) \/ Service!ReadFails(c)
    <2>1. /\ Service!GoTo(c, "done") /\ pod' = pod /\ await[c] \in {"reading", "selected"}
          /\ Service!Bump(c, {"db_read", "db_read_error"})
        BY <1>4 DEF Service!DbRejects, Service!ReadFails, Service!Fail, Service!Finish,
               Service!ReadFailureSeries
    <2> QED BY <1>1, <2>1, AgreeStep
<1>5. CASE Service!ReadHit(c)
    <2>1. /\ Service!GoTo(c, "done") /\ pod' = pod /\ await[c] = "selected"
          /\ Service!Bump(c, {"db_read", "lookup_database_success"})
        BY <1>5 DEF Service!ReadHit, Service!Finish
    <2> QED BY <1>1, <2>1, AgreeStep
<1>6. CASE Service!ReadMiss(c)
    <2>1. /\ Service!GoTo(c, "asking") /\ pod' = pod /\ await[c] = "selected"
          /\ Service!Bump(c, {"db_read"})
        BY <1>6 DEF Service!ReadMiss
    <2> QED BY <1>1, <2>1, AgreeStep
<1>7. CASE Service!UpsertReturns(c)
    <2>1. /\ Service!GoTo(c, "done") /\ pod' = pod /\ await[c] = "committing"
          /\ Service!Bump(c, {"db_upsert", "lookup_provider_success"})
        BY <1>7 DEF Service!UpsertReturns, Service!Finish
    <2> QED BY <1>1, <2>1, AgreeStep
<1>8. CASE Service!UpsertFails(c)
    <2>1. /\ Service!GoTo(c, "done") /\ pod' = pod /\ await[c] \in {"upserting", "committing"}
          /\ Service!Bump(c, {"db_upsert", "db_upsert_error", "lookup_provider_error"})
        BY <1>8 DEF Service!UpsertFails, Service!Fail, Service!Finish,
               Service!UpsertFailureSeries
    <2> QED BY <1>1, <2>1, AgreeStep
<1> QED BY <1>2, <1>3, <1>4, <1>5, <1>6, <1>7, <1>8 DEF Service!ConnectionFails

LEMMA SameSteps ==
    ASSUME NEW c, NEW input
    PROVE  /\ Lookup!RejectInput(c, input) <=> Service!RejectInput(c, input)
           /\ Lookup!StartLookup(c, input) <=> Service!StartLookup(c, input)
           /\ Lookup!DbSelect(c) <=> Service!DbSelect(c)
           /\ Lookup!DbRejects(c) <=> Service!DbRejects(c)
           /\ Lookup!ReadHit(c) <=> Service!ReadHit(c)
           /\ Lookup!ReadMiss(c) <=> Service!ReadMiss(c)
           /\ Lookup!SendUpsert(c) <=> Service!SendUpsert(c)
           /\ Lookup!UpsertReturns(c) <=> Service!UpsertReturns(c)
           /\ Lookup!ConnectionFails(c) <=> Service!ConnectionFails(c)
BY DEF Lookup!RejectInput, Service!RejectInput, Lookup!StartLookup, Service!StartLookup,
    Lookup!DbSelect, Service!DbSelect, Lookup!DbRejects, Service!DbRejects, Lookup!ReadHit,
    Service!ReadHit, Lookup!ReadMiss, Service!ReadMiss, Lookup!SendUpsert,
    Service!SendUpsert, Lookup!UpsertReturns, Service!UpsertReturns, Lookup!ConnectionFails,
    Service!ConnectionFails, Lookup!ReadFails, Service!ReadFails, Lookup!UpsertFails,
    Service!UpsertFails, Lookup!Arrive, Service!Arrive, Lookup!Fail, Service!Fail,
    Lookup!Finish, Service!Finish, Lookup!GoTo, Service!GoTo, Lookup!Hold, Service!Hold,
    Lookup!Forget, Service!Forget, Lookup!Bump, Service!Bump, Lookup!db, Service!db,
    Lookup!ClockReading, Service!ClockReading, Lookup!Hit, Service!Hit, Lookup!Acknowledged,
    Service!Acknowledged, Lookup!UpsertFailureSeries, Service!UpsertFailureSeries,
    Lookup!ReadFailureSeries, Service!ReadFailureSeries, Lookup!Series, Service!Series

LEMMA NextAgrees ==
    ASSUME Service!TypeOK, TypeOK, AgreeInv, [ProcessNext]_processVars
    PROVE  AgreeInv'
<1>1. ASSUME requests' = requests, UNCHANGED <<metrics, await, pod>> PROVE AgreeInv'
    BY <1>1, AgreeStays
<1>2. ASSUME NEW c \in Calls, Ask(c) PROVE AgreeInv'
    <2>1. requests' = requests /\ Service!ReadMiss(c)
        BY <1>2, SameSteps DEF Ask, Begin, vars
    <2> QED BY <2>1, AsideAgrees
<1>3. ASSUME NEW c \in Calls, Attempting(c) PROVE AgreeInv'
    BY <1>1, <1>3 DEF Attempting, WakeUp, RetryLater, lookupVars
<1>4. ASSUME NEW c \in Calls, NEW input \in Inputs,
             Aside(Lookup!RejectInput(c, input) \/ Lookup!StartLookup(c, input))
      PROVE  AgreeInv'
    BY <1>4, SameSteps, AsideAgrees DEF Aside, vars
<1>5. ASSUME NEW c \in Calls,
             Aside(Lookup!DbSelect(c) \/ Lookup!DbRejects(c) \/ Lookup!ReadHit(c)
                   \/ Lookup!SendUpsert(c) \/ Lookup!UpsertReturns(c)
                   \/ Lookup!ConnectionFails(c))
      PROVE  AgreeInv'
    BY <1>5, SameSteps, AsideAgrees DEF Aside, vars
<1>6. ASSUME NEW w \in writes, Aside(Lookup!DbCommit(w) \/ Lookup!DbAbort(w))
      PROVE  AgreeInv'
    BY <1>1, <1>6 DEF Aside, vars, Lookup!DbCommit, Lookup!DbAbort, Lookup!task
<1>7. ASSUME Aside(Lookup!Restart(Process)) \/ Aside(Lookup!Tick) PROVE AgreeInv'
    BY <1>1, <1>7 DEF Aside, vars, Lookup!Restart, Lookup!Tick, Lookup!task
<1>8. ASSUME UNCHANGED processVars PROVE AgreeInv'
    BY <1>1, <1>8 DEF processVars, vars, lookupVars
<1> QED BY <1>2, <1>3, <1>4, <1>5, <1>6, <1>7, <1>8, ProviderEndAgrees, CrashAgrees DEF ProcessNext

-----------------------------------------------------------------------------
(* The theorems about the process. *)

LEMMA ServiceTypes == ProcessSpec => []Service!TypeOK
<1>1. Service!Spec => []Service!TypeOK
    BY ServiceAssumptions, Service!TypeCorrect
<1> QED BY <1>1, ServiceSpec, PTL

(* The restart of a process forgets its calls and its counters together, so *)
(* retries and counts stay as strict as those of a provider never           *)
(* interrupted (ipinfo.py:66-115).                                          *)
THEOREM ProviderHoldsInProcess ==
    ProcessSpec => [](TypeOK /\ RetriesAreStrict /\ LastAttemptDecides /\ EachCallIsCountedOnce)
<1>1. RetryInv /\ TallyInv => TypeOK /\ EachCallIsCountedOnce
    BY DEF RetryInv, TallyInv
<1> QED BY <1>1, RetryInvIsStrict, RetryInvDecides, ProviderInProcess, PTL

(* Between any two awaits the provider's counters and the service's tell    *)
(* one story: no path through retries, errors, upserts and crashes counts   *)
(* a call on one side only (ip_lookup_service.py:46-81, ipinfo.py:83-93).   *)
THEOREM CountersAgreeHolds == ProcessSpec => []CountersAgree
<1>1. AgreeInv => CountersAgree
    BY DEF AgreeInv
<1>2. RetryInv => TypeOK
    BY DEF RetryInv
<1> QED BY <1>1, <1>2, InitAgrees, NextAgrees, ServiceTypes, ProviderInProcess, PTL DEF ProcessSpec

-----------------------------------------------------------------------------
(* How far a lookup is from its end. *)

(* The awaits lookup c may still pass through; two for each attempt it has  *)
(* left, which is followed by a sleep.                                      *)
StepsLeft(c) ==
    CASE await[c] = "idle"       -> 2 * MaxRetries + 6
      [] await[c] = "reading"    -> 2 * MaxRetries + 5
      [] await[c] = "selected"   -> 2 * MaxRetries + 4
      [] await[c] = "asking"     -> 2 * (MaxRetries - Len(log[c]))
                                      + (IF pc[c] = "sleeping" THEN 4 ELSE 3)
      [] await[c] = "upserting"  -> 2
      [] await[c] = "committing" -> 1
      [] OTHER                   -> 0

(* A lookup asks exactly while its call is under way. *)
AskingInv ==
    \A c \in Calls :
        /\ await[c] = "asking" =>
              pc[c] \in (IF setting = "fake" THEN {"idle"} ELSE {"requesting", "sleeping"})
        /\ await[c] \in {"idle", "reading", "selected"} => pc[c] = "idle"
        /\ pc[c] \in {"requesting", "sleeping"} => await[c] = "asking"

Stays(c) == UNCHANGED <<await[c], pc[c], log[c]>>
Nears(c) == StepsLeft(c)' < StepsLeft(c)
Over(c) == await[c] = "done" /\ await'[c] = "done"

StagesOK == await \in [Calls -> Service!Stages]

LEMMA StepsInStages ==
    ASSUME NEW c \in Calls
    PROVE  /\ await[c] = "idle" => StepsLeft(c) = 2 * MaxRetries + 6
           /\ await[c] = "reading" => StepsLeft(c) = 2 * MaxRetries + 5
           /\ await[c] = "selected" => StepsLeft(c) = 2 * MaxRetries + 4
           /\ await[c] = "asking" =>
                 StepsLeft(c) = 2 * (MaxRetries - Len(log[c]))
                                  + (IF pc[c] = "sleeping" THEN 4 ELSE 3)
           /\ await[c] = "upserting" => StepsLeft(c) = 2
           /\ await[c] = "committing" => StepsLeft(c) = 1
           /\ await[c] = "done" => StepsLeft(c) = 0
BY Zenon DEF StepsLeft

LEMMA StepsInNextStages ==
    ASSUME NEW c \in Calls
    PROVE  /\ await'[c] = "reading" => StepsLeft(c)' = 2 * MaxRetries + 5
           /\ await'[c] = "selected" => StepsLeft(c)' = 2 * MaxRetries + 4
           /\ await'[c] = "asking" =>
                 StepsLeft(c)' = 2 * (MaxRetries - Len(log'[c]))
                                   + (IF pc'[c] = "sleeping" THEN 4 ELSE 3)
           /\ await'[c] = "upserting" => StepsLeft(c)' = 2
           /\ await'[c] = "committing" => StepsLeft(c)' = 1
           /\ await'[c] = "done" => StepsLeft(c)' = 0
BY Zenon DEF StepsLeft

LEMMA StepsAreFew ==
    ASSUME RetryInv, AskingInv, StagesOK, NEW c \in Calls
    PROVE  StepsLeft(c) \in 0..(2 * MaxRetries + 6) /\ (await[c] # "done" => StepsLeft(c) > 0)
<1>1. Len(log[c]) \in Nat /\ MaxRetries \in Nat
    BY RetriesAssumption DEF RetryInv, TypeOK
<1>2. pc[c] = "idle" => log[c] = << >>
    BY DEF RetryInv, CallInv
<1>3. pc[c] \in {"requesting", "sleeping"} => Len(log[c]) <= MaxRetries
    BY DEF RetryInv, CallInv
<1>4. await[c] = "asking" => pc[c] \in {"idle", "requesting", "sleeping"}
    BY Zenon DEF AskingInv
<1>5. await[c] = "asking" => Len(log[c]) <= MaxRetries
    BY <1>1, <1>2, <1>3, <1>4
<1>6. await[c] \in {"idle", "reading", "selected", "asking", "upserting", "committing", "done"}
    BY DEF StagesOK, Service!Stages
<1>7. CASE await[c] = "asking"
    <2>1. PICK n \in {3, 4} : StepsLeft(c) = 2 * (MaxRetries - Len(log[c])) + n
        BY <1>7, StepsInStages
    <2> QED BY <1>1, <1>5, <1>7, <2>1
<1>8. CASE await[c] # "asking"
    <2>1. \/ await[c] \in {"idle", "reading", "selected"}
             /\ StepsLeft(c) \in {2 * MaxRetries + 6, 2 * MaxRetries + 5, 2 * MaxRetries + 4}
          \/ await[c] \in {"upserting", "committing"} /\ StepsLeft(c) \in {1, 2}
          \/ await[c] = "done" /\ StepsLeft(c) = 0
        BY <1>6, <1>8, StepsInStages, Zenon
    <2> QED BY <1>1, <2>1
<1> QED BY <1>7, <1>8

(* The stretches of code of lookup c that leave the provider alone, but for *)
(* the miss: where they begin and where they end.                           *)
Ways == {<<"idle", "done">>, <<"idle", "reading">>, <<"reading", "selected">>,
         <<"reading", "done">>, <<"selected", "done">>, <<"upserting", "committing">>,
         <<"upserting", "done">>, <<"committing", "done">>}

LEMMA AsideGoes ==
    ASSUME StagesOK, NEW c \in Calls,
           \/ \E input \in Inputs : Lookup!RejectInput(c, input) \/ Lookup!StartLookup(c, input)
           \/ Lookup!DbSelect(c) \/ Lookup!DbRejects(c) \/ Lookup!ReadHit(c)
           \/ Lookup!SendUpsert(c) \/ Lookup!UpsertReturns(c) \/ Lookup!ConnectionFails(c)
    PROVE  <<await[c], await'[c]>> \in Ways /\ \A d \in Calls \ {c} : await'[d] = await[d]
<1>1. PICK way \in Ways : await[c] = way[1] /\ await' = [await EXCEPT ![c] = way[2]]
    BY DEF Ways, Lookup!RejectInput, Lookup!StartLookup, Lookup!Arrive, Lookup!DbSelect,
           Lookup!DbRejects, Lookup!ReadHit, Lookup!SendUpsert, Lookup!UpsertReturns,
           Lookup!ConnectionFails, Lookup!ReadFails, Lookup!UpsertFails, Lookup!Fail,
           Lookup!Finish, Lookup!GoTo
<1>2. way = <<way[1], way[2]>>
    BY DEF Ways
<1> QED BY <1>1, <1>2 DEF StagesOK

LEMMA AsideNears ==
    ASSUME RetryInv, AskingInv, StagesOK, NEW c \in Calls, UNCHANGED vars,
           <<await[c], await'[c]>> \in Ways, \A d \in Calls \ {c} : await'[d] = await[d]
    PROVE  AskingInv' /\ \A d \in Calls : Stays(d) \/ Nears(d)
<1>1. UNCHANGED <<pc, log, setting>>
    BY DEF vars
<1>2. MaxRetries \in Nat
    BY RetriesAssumption
<1>3. Nears(c)
    <2>1. \/ await[c] = "idle" /\ await'[c] \in {"reading", "done"}
          \/ await[c] = "reading" /\ await'[c] \in {"selected", "done"}
          \/ await[c] = "selected" /\ await'[c] = "done"
          \/ await[c] = "upserting" /\ await'[c] \in {"committing", "done"}
          \/ await[c] = "committing" /\ await'[c] = "done"
        BY DEF Ways
    <2>2. CASE await[c] = "idle" /\ await'[c] \in {"reading", "done"}
        <3>1. StepsLeft(c) = 2 * MaxRetries + 6 /\ StepsLeft(c)' \in {2 * MaxRetries + 5, 0}
            BY <2>2, StepsInStages, StepsInNextStages
        <3> QED BY <1>2, <3>1 DEF Nears
    <2>3. CASE await[c] = "reading" /\ await'[c] \in {"selected", "done"}
        <3>1. StepsLeft(c) = 2 * MaxRetries + 5 /\ StepsLeft(c)' \in {2 * MaxRetries + 4, 0}
            BY <2>3, StepsInStages, StepsInNextStages
        <3> QED BY <1>2, <3>1 DEF Nears
    <2>4. CASE await[c] = "selected" /\ await'[c] = "done"
        <3>1. StepsLeft(c) = 2 * MaxRetries + 4 /\ StepsLeft(c)' = 0
            BY <2>4, StepsInStages, StepsInNextStages
        <3> QED BY <1>2, <3>1 DEF Nears
    <2>5. CASE await[c] = "upserting" /\ await'[c] \in {"committing", "done"}
        <3>1. StepsLeft(c) = 2 /\ StepsLeft(c)' \in {1, 0}
            BY <2>5, StepsInStages, StepsInNextStages
        <3> QED BY <3>1 DEF Nears
    <2>6. CASE await[c] = "committing" /\ await'[c] = "done"
        <3>1. StepsLeft(c) = 1 /\ StepsLeft(c)' = 0
            BY <2>6, StepsInStages, StepsInNextStages
        <3> QED BY <3>1 DEF Nears
    <2> QED BY <2>1, <2>2, <2>3, <2>4, <2>5, <2>6
<1>4. \A d \in Calls \ {c} : Stays(d)
    BY <1>1 DEF Stays
<1>5. await'[c] \in {"done", "reading", "selected", "committing"} /\ await[c] # "asking"
    BY DEF Ways
<1>6. await'[c] \in {"reading", "selected"} => await[c] \in {"idle", "reading"}
    BY DEF Ways
<1>7. ASSUME NEW d \in Calls
      PROVE  /\ await'[d] = "asking" => d # c
             /\ await'[d] \in {"idle", "reading", "selected"} =>
                   d # c \/ await[d] \in {"idle", "reading"}
             /\ await[d] = "asking" => await'[d] = "asking"
    BY <1>5, <1>6
<1>8. AskingInv'
    BY <1>1, <1>7 DEF AskingInv
<1> QED BY <1>3, <1>4, <1>8

LEMMA AskNears ==
    ASSUME RetryInv, AskingInv, StagesOK, NEW c \in Calls, Ask(c)
    PROVE  AskingInv' /\ \A d \in Calls : Stays(d) \/ Nears(d)
<1>1. await[c] = "selected" /\ await' = [await EXCEPT ![c] = "asking"]
    BY DEF Ask, Lookup!ReadMiss, Lookup!GoTo
<1>2. await'[c] = "asking" /\ \A d \in Calls \ {c} : await'[d] = await[d]
    BY <1>1 DEF StagesOK
<1>3. pc[c] = "idle" /\ log[c] = << >>
    BY <1>1 DEF AskingInv, RetryInv, CallInv
<1>4. /\ UNCHANGED <<setting, log>>
      /\ pc'[c] = (IF setting = "fake" THEN "idle" ELSE "requesting")
      /\ \A d \in Calls \ {c} : pc'[d] = pc[d]
    BY <1>3 DEF Ask, Begin, vars, RetryInv, TypeOK
<1>5. Nears(c)
    <2>1. StepsLeft(c) = 2 * MaxRetries + 4
        BY <1>1, StepsInStages
    <2>2. log'[c] = << >> /\ pc'[c] # "sleeping"
        BY <1>3, <1>4
    <2>3. StepsLeft(c)' = 2 * (MaxRetries - 0) + 3
        BY <1>2, <2>2, StepsInNextStages
    <2> QED BY <2>1, <2>3, RetriesAssumption DEF Nears
<1>6. \A d \in Calls \ {c} : Stays(d)
    BY <1>2, <1>4 DEF Stays
<1>7. AskingInv'
    BY <1>2, <1>4 DEF AskingInv
<1> QED BY <1>5, <1>6, <1>7

LEMMA AttemptingNears ==
    ASSUME RetryInv, AskingInv, StagesOK, NEW c \in Calls, Attempting(c)
    PROVE  AskingInv' /\ \A d \in Calls : Stays(d) \/ Nears(d)
<1>1. await' = await
    BY DEF Attempting, lookupVars
<1>2. /\ setting' = setting /\ pc[c] \in {"requesting", "sleeping"}
      /\ \A d \in Calls \ {c} : pc'[d] = pc[d] /\ log'[d] = log[d]
      /\ \/ pc[c] = "sleeping" /\ pc'[c] = "requesting" /\ log'[c] = log[c]
         \/ /\ pc[c] = "requesting" /\ pc'[c] = "sleeping"
            /\ Len(log'[c]) = Len(log[c]) + 1
    BY DEF Attempting, WakeUp, RetryLater, AttemptEnds, RetryInv, TypeOK
<1>3. await[c] = "asking"
    BY <1>2 DEF AskingInv
<1>4. Nears(c)
    <2>1. StepsLeft(c) = 2 * (MaxRetries - Len(log[c])) + (IF pc[c] = "sleeping" THEN 4 ELSE 3)
        BY <1>3, StepsInStages
    <2>2. StepsLeft(c)' = 2 * (MaxRetries - Len(log'[c])) + (IF pc'[c] = "sleeping" THEN 4 ELSE 3)
        BY <1>1, <1>3, StepsInNextStages
    <2>3. Len(log[c]) \in Nat /\ MaxRetries \in Nat
        BY RetriesAssumption DEF RetryInv, TypeOK
    <2>4. CASE pc[c] = "sleeping" /\ pc'[c] = "requesting" /\ log'[c] = log[c]
        BY <2>1, <2>2, <2>3, <2>4 DEF Nears
    <2>5. CASE pc[c] = "requesting" /\ pc'[c] = "sleeping" /\ Len(log'[c]) = Len(log[c]) + 1
        BY <2>1, <2>2, <2>3, <2>5 DEF Nears
    <2> QED BY <1>2, <2>4, <2>5
<1>5. \A d \in Calls \ {c} : Stays(d)
    BY <1>1, <1>2 DEF Stays
<1>6. setting # "fake" /\ pc'[c] \in {"requesting", "sleeping"}
    BY <1>2, <1>3 DEF AskingInv
<1>7. AskingInv'
    BY <1>1, <1>2, <1>3, <1>6 DEF AskingInv
<1> QED BY <1>4, <1>5, <1>7

LEMMA EndNears ==
    ASSUME RetryInv, AskingInv, StagesOK, NEW c \in Calls, ProviderEnds(c)
    PROVE  AskingInv' /\ \A d \in Calls : Stays(d) \/ Nears(d)
<1>1. PICK how \in {"success"} \cup Errors : Finish(c, how)
    <2>1. ASSUME NEW a \in Attempt, Conclude(c, a)
          PROVE  Finish(c, Verdict(a)) /\ Verdict(a) \in {"success"} \cup Errors
        BY <2>1, VerdictType DEF Conclude, Deciding
    <2>2. ASSUME FakeLookup(c)
          PROVE  Finish(c, "success") \/ Finish(c, "PROVIDER_INVALID_RESPONSE")
        BY <2>2 DEF FakeLookup
    <2> QED BY <2>1, <2>2 DEF ProviderEnds, Errors
<1>2. pc'[c] = "done" /\ \A d \in Calls \ {c} : pc'[d] = pc[d]
    BY <1>1 DEF Finish, RetryInv, TypeOK
<1>3. setting' = setting /\ \A d \in Calls \ {c} : log'[d] = log[d]
    BY DEF ProviderEnds, FakeLookup, Conclude, AttemptEnds, RetryInv, TypeOK
<1>4. await[c] = "asking"
    BY DEF ProviderEnds
<1>5. PICK stage \in {"upserting", "done"} : await' = [await EXCEPT ![c] = stage]
    BY DEF ProviderEnds, Returns, Lookup!ProviderAnswers, Lookup!ProviderFails, Lookup!Fail,
           Lookup!Finish, Lookup!GoTo
<1>6. await'[c] = stage /\ \A d \in Calls \ {c} : await'[d] = await[d]
    BY <1>5 DEF StagesOK
<1>7. Nears(c)
    <2>1. StepsLeft(c) = 2 * (MaxRetries - Len(log[c])) + (IF pc[c] = "sleeping" THEN 4 ELSE 3)
        BY <1>4, StepsInStages
    <2>2. StepsLeft(c)' \in {0, 2}
        BY <1>6, StepsInNextStages
    <2>3. pc[c] \in {"idle", "requesting", "sleeping"}
        BY <1>4, Zenon DEF AskingInv
    <2>4. Len(log[c]) \in Nat /\ MaxRetries \in Nat /\ Len(log[c]) <= MaxRetries
        <3>1. log[c] \in Seq(Attempt)
            BY DEF RetryInv, TypeOK
        <3>2. pc[c] = "idle" => log[c] = << >>
            BY DEF RetryInv, CallInv
        <3>3. pc[c] \in {"requesting", "sleeping"} => Len(log[c]) <= MaxRetries
            BY DEF RetryInv, CallInv
        <3> QED BY <2>3, <3>1, <3>2, <3>3, RetriesAssumption
    <2>5. PICK n \in {3, 4} : StepsLeft(c) = 2 * (MaxRetries - Len(log[c])) + n
        BY <2>1
    <2> QED BY <2>2, <2>4, <2>5 DEF Nears
<1>8. \A d \in Calls \ {c} : Stays(d)
    BY <1>2, <1>3, <1>6 DEF Stays
<1>9. AskingInv'
    BY <1>2, <1>3, <1>6 DEF AskingInv
<1> QED BY <1>7, <1>8, <1>9

LEMMA CrashNears ==
    ASSUME RetryInv, AskingInv, StagesOK, Service!TypeOK, Crash
    PROVE  AskingInv' /\ \A d \in Calls : Stays(d) \/ Nears(d) \/ Over(d)
<1>1. ASSUME NEW d \in Calls
      PROVE  /\ pc'[d] = "idle" /\ log'[d] = << >>
             /\ await'[d] = (IF await[d] = "idle" THEN "idle" ELSE "done")
    <2>1. pod[d] = Process
        BY DEF Service!TypeOK
    <2> QED BY <2>1 DEF Crash, Lookup!Crash
<1>2. ASSUME NEW d \in Calls
      PROVE  Stays(d) \/ Nears(d) \/ Over(d)
    <2>1. CASE await[d] = "idle"
        <3>1. pc[d] = "idle" /\ log[d] = << >>
            BY <2>1 DEF AskingInv, RetryInv, CallInv
        <3> QED BY <1>1, <2>1, <3>1 DEF Stays
    <2>2. CASE await[d] = "done"
        BY <1>1, <2>2 DEF Over
    <2>3. CASE await[d] \notin {"idle", "done"}
        <3>1. StepsLeft(d)' = 0
            BY <1>1, <2>3, StepsInNextStages
        <3>2. StepsLeft(d) \in Nat /\ StepsLeft(d) > 0
            BY <2>3, StepsAreFew, RetriesAssumption
        <3> QED BY <3>1, <3>2 DEF Nears
    <2> QED BY <2>1, <2>2, <2>3
<1>3. AskingInv'
    BY <1>1 DEF AskingInv
<1> QED BY <1>2, <1>3

LEMMA NextNears ==
    ASSUME RetryInv, AskingInv, Service!TypeOK, [ProcessNext]_processVars
    PROVE  AskingInv' /\ \A d \in Calls : Stays(d) \/ Nears(d) \/ Over(d)
<1>1. StagesOK
    BY DEF StagesOK, Service!TypeOK
<1>2. ASSUME UNCHANGED <<setting, pc, log, await>>
      PROVE  AskingInv' /\ \A d \in Calls : Stays(d)
    BY <1>2 DEF AskingInv, Stays
<1>3. ASSUME NEW c \in Calls, NEW input \in Inputs,
             Aside(Lookup!RejectInput(c, input) \/ Lookup!StartLookup(c, input))
      PROVE  AskingInv' /\ \A d \in Calls : Stays(d) \/ Nears(d)
    <2>1. UNCHANGED vars
        BY <1>3 DEF Aside
    <2>2. <<await[c], await'[c]>> \in Ways /\ \A d \in Calls \ {c} : await'[d] = await[d]
        BY <1>1, <1>3, AsideGoes DEF Aside
    <2> QED BY <1>1, <2>1, <2>2, AsideNears
<1>4. ASSUME NEW c \in Calls,
             Aside(Lookup!DbSelect(c) \/ Lookup!DbRejects(c) \/ Lookup!ReadHit(c)
                   \/ Lookup!SendUpsert(c) \/ Lookup!UpsertReturns(c)
                   \/ Lookup!ConnectionFails(c))
      PROVE  AskingInv' /\ \A d \in Calls : Stays(d) \/ Nears(d)
    <2>1. UNCHANGED vars
        BY <1>4 DEF Aside
    <2>2. <<await[c], await'[c]>> \in Ways /\ \A d \in Calls \ {c} : await'[d] = await[d]
        BY <1>1, <1>4, AsideGoes DEF Aside
    <2> QED BY <1>1, <2>1, <2>2, AsideNears
<1>5. ASSUME NEW w \in writes, Aside(Lookup!DbCommit(w) \/ Lookup!DbAbort(w))
      PROVE  UNCHANGED <<setting, pc, log, await>>
    BY <1>5 DEF Aside, vars, Lookup!DbCommit, Lookup!DbAbort, Lookup!task
<1>6. ASSUME Aside(Lookup!Restart(Process)) \/ Aside(Lookup!Tick)
      PROVE  UNCHANGED <<setting, pc, log, await>>
    BY <1>6 DEF Aside, vars, Lookup!Restart, Lookup!Tick, Lookup!task
<1>7. ASSUME UNCHANGED processVars PROVE UNCHANGED <<setting, pc, log, await>>
    BY <1>7 DEF processVars, vars, lookupVars
<1> QED BY <1>1, <1>2, <1>3, <1>4, <1>5, <1>6, <1>7, AskNears, AttemptingNears, EndNears,
           CrashNears DEF ProcessNext

(* What can be proved of OnlyPostgresHoldsALookup without its fairness: a   *)
(* lookup is a bounded number of awaits from its end, every step that moves *)
(* it brings it nearer, and none takes it back.  Neither retries nor crashes nor the  *)
(* other lookups can keep one going in circles (ip_lookup_service.py:27-81, *)
(* ipinfo.py:66-102).                                                       *)
THEOREM LookupsAreBounded ==
    ProcessSpec =>
        /\ [](\A c \in Calls : StepsLeft(c) \in 0..(2 * MaxRetries + 6)
                                 /\ (StepsLeft(c) = 0 <=> await[c] = "done"))
        /\ [][\A c \in Calls : Stays(c) \/ Nears(c) \/ Over(c)]_processVars
<1>1. ProcessInit => AskingInv
    BY DEF ProcessInit, Init, Lookup!Init, AskingInv
<1>2. ProcessSpec => [](AskingInv /\ RetryInv /\ Service!TypeOK)
    BY <1>1, NextNears, ProviderInProcess, ServiceTypes, PTL DEF ProcessSpec
<1>3. ASSUME AskingInv, RetryInv, Service!TypeOK
      PROVE  \A c \in Calls : StepsLeft(c) \in 0..(2 * MaxRetries + 6)
                                /\ (StepsLeft(c) = 0 <=> await[c] = "done")
    <2>1. StagesOK
        BY <1>3 DEF StagesOK, Service!TypeOK
    <2> QED BY <1>3, <2>1, StepsAreFew, StepsInStages
<1>4. ASSUME AskingInv, RetryInv, Service!TypeOK, [ProcessNext]_processVars
      PROVE  [\A c \in Calls : Stays(c) \/ Nears(c) \/ Over(c)]_processVars
    BY <1>4, NextNears
<1> QED BY <1>2, <1>3, <1>4, PTL DEF ProcessSpec
=============================================================================
