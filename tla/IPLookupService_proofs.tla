------------------------ MODULE IPLookupService_proofs ------------------------
(***************************************************************************)
(* Theorems about IPLookupService for every set of requests, pods and      *)
(* addresses, every TTL and every clock error.                             *)
(***************************************************************************)
EXTENDS IPLookupService, FiniteSetTheorems, TLAPS

USE DEF Stages, Series

-----------------------------------------------------------------------------
(* Types of the helpers. *)

LEMMA BumpType ==
    ASSUME TypeOK, NEW r \in Requests, NEW S, Bump(r, S)
    PROVE  metrics' \in [Pods -> [Series -> Nat]]
BY DEF TypeOK, Bump

LEMMA FinishType ==
    ASSUME TypeOK, NEW r \in Requests, NEW how \in Outcomes,
           NEW got \in Row \cup {NoRow}, Finish(r, how, got)
    PROVE  /\ pc' \in [Requests -> Stages]
           /\ outcome' \in [Requests -> Outcomes]
           /\ row' \in [Requests -> Row \cup {NoRow}]
           /\ asOf' \in [Requests -> Int]
BY DEF TypeOK, Finish, GoTo, Hold, Forget

LEMMA NewRecordType ==
    ASSUME TypeOK, NEW c \in Countries, NEW t \in ClockReading
    PROVE  NewRecord(c, t) \in Row
BY TimeAssumption DEF TypeOK, ClockReading, NewRecord, Row

-----------------------------------------------------------------------------
(* Type correctness. *)

LEMMA InitType == Init => TypeOK
BY TimeAssumption DEF Init, TypeOK, Outcomes

LEMMA ArriveType ==
    ASSUME TypeOK, NEW r \in Requests, NEW input \in Inputs, Arrive(r, Parse[input])
    PROVE  /\ ip' \in [Requests -> IPs \cup {Malformed}]
           /\ arrived' \in [Requests -> 0..MaxTime]
BY ParseAssumption DEF TypeOK, Arrive

LEMMA NextType == TypeOK /\ [Next]_vars => TypeOK'
<1> SUFFICES ASSUME TypeOK, [Next]_vars PROVE TypeOK'
    OBVIOUS
<1>1. ASSUME NEW r \in Requests, NEW input \in Inputs, RejectInput(r, input)
      PROVE  TypeOK'
    <2> DEFINE i == Parse[input]
    <2>1. PICK e \in Outcomes : Finish(r, e, NoRow)
        BY <1>1 DEF RejectInput, Fail, Outcomes
    <2>2. Arrive(r, i)
        BY <1>1 DEF RejectInput
    <2> QED BY <1>1, <2>1, <2>2, FinishType, ArriveType DEF RejectInput, TypeOK, db
<1>2. ASSUME NEW r \in Requests, NEW input \in Inputs, StartLookup(r, input)
      PROVE  TypeOK'
    <2>1. /\ ip' \in [Requests -> IPs \cup {Malformed}]
          /\ arrived' \in [Requests -> 0..MaxTime]
        BY <1>2, ArriveType DEF StartLookup
    <2>2. PICK t \in ClockReading : asOf' = [asOf EXCEPT ![r] = t]
        BY <1>2 DEF StartLookup
    <2>3. t \in Int
        BY TimeAssumption DEF TypeOK, ClockReading
    <2> QED BY <1>2, <2>1, <2>2, <2>3 DEF StartLookup, GoTo, TypeOK, db
<1>3. ASSUME NEW r \in Requests, DbSelect(r) PROVE TypeOK'
    <2>1. ip[r] \in IPs
        BY <1>3, AddressAssumption DEF DbSelect
    <2> QED BY <1>3, <2>1 DEF DbSelect, GoTo, Hold, TypeOK, db
<1>4. ASSUME NEW r \in Requests, DbRejects(r) \/ ReadFails(r) \/ UpsertFails(r)
      PROVE  TypeOK'
    <2>1. Finish(r, "DATABASE_UNAVAILABLE", NoRow)
        BY <1>4 DEF DbRejects, ReadFails, UpsertFails, Fail
    <2>2. metrics' \in [Pods -> [Series -> Nat]]
        BY <1>4, BumpType DEF DbRejects, ReadFails, UpsertFails
    <2> QED BY <1>4, <2>1, <2>2, FinishType
            DEF DbRejects, ReadFails, UpsertFails, Outcomes, TypeOK, db
<1>5. ASSUME NEW r \in Requests, ReadHit(r) PROVE TypeOK'
    <2>1. metrics' \in [Pods -> [Series -> Nat]]
        BY <1>5, BumpType DEF ReadHit
    <2>2. Finish(r, "database", row[r]) /\ row[r] \in Row \cup {NoRow}
        BY <1>5 DEF ReadHit, TypeOK
    <2> QED BY <1>5, <2>1, <2>2, FinishType DEF ReadHit, Outcomes, Successes, TypeOK, db
<1>6. ASSUME NEW r \in Requests, ReadMiss(r) PROVE TypeOK'
    <2>1. metrics' \in [Pods -> [Series -> Nat]]
        BY <1>6, BumpType DEF ReadMiss
    <2> QED BY <1>6, <2>1 DEF ReadMiss, GoTo, Hold, Forget, TypeOK, db
<1>7. ASSUME NEW r \in Requests, ProviderAnswers(r) PROVE TypeOK'
    <2>1. PICK c \in Countries, t \in ClockReading :
              /\ answer' = [answer EXCEPT ![r] = [country |-> c, at |-> now]]
              /\ row' = [row EXCEPT ![r] = NewRecord(c, t)]
        BY <1>7 DEF ProviderAnswers, Hold
    <2>2. [country |-> c, at |-> now] \in Answer
        BY DEF TypeOK, Answer
    <2>3. NewRecord(c, t) \in Row
        BY NewRecordType
    <2> QED BY <1>7, <2>1, <2>2, <2>3 DEF ProviderAnswers, GoTo, TypeOK, db
<1>8. ASSUME NEW r \in Requests, ProviderFails(r) PROVE TypeOK'
    <2>1. metrics' \in [Pods -> [Series -> Nat]]
        BY <1>8, BumpType DEF ProviderFails
    <2>2. PICK e \in Outcomes : Finish(r, e, NoRow)
        BY <1>8 DEF ProviderFails, Fail, Outcomes
    <2> QED BY <1>8, <2>1, <2>2, FinishType DEF ProviderFails, TypeOK, db
<1>9. ASSUME NEW r \in Requests, SendUpsert(r) PROVE TypeOK'
    <2>1. [by |-> r, row |-> row[r]] \in [by : Requests, row : Row \cup {NoRow}]
        BY DEF TypeOK
    <2> QED BY <1>9, <2>1 DEF SendUpsert, GoTo, TypeOK
<1>10. ASSUME NEW r \in Requests, UpsertReturns(r) PROVE TypeOK'
    <2>1. metrics' \in [Pods -> [Series -> Nat]]
        BY <1>10, BumpType DEF UpsertReturns
    <2>2. Finish(r, "provider", row[r]) /\ row[r] \in Row \cup {NoRow}
        BY <1>10 DEF UpsertReturns, TypeOK
    <2> QED BY <1>10, <2>1, <2>2, FinishType
            DEF UpsertReturns, Outcomes, Successes, TypeOK, db
<1>11. ASSUME NEW w \in writes, DbCommit(w) PROVE TypeOK'
    <2>1. w.by \in Requests /\ w.row \in Row \cup {NoRow}
        BY DEF TypeOK
    <2>2. cache' = [cache EXCEPT ![ip[w.by]] = w.row]
        BY <1>11 DEF DbCommit, Upserted
    <2> QED BY <1>11, <2>1, <2>2 DEF DbCommit, TypeOK, task
<1>12. ASSUME NEW w \in writes, DbAbort(w) PROVE TypeOK'
    BY <1>12 DEF DbAbort, TypeOK, task
<1>13. ASSUME NEW p \in Pods, Crash(p) PROVE TypeOK'
    <2>1. "lost" \in Outcomes /\ "done" \in Stages
        BY DEF Outcomes
    <2>2. /\ pc' \in [Requests -> Stages]
          /\ outcome' \in [Requests -> Outcomes]
        BY <1>13, <2>1 DEF Crash, TypeOK
    <2>3. /\ row' \in [Requests -> Row \cup {NoRow}]
          /\ asOf' \in [Requests -> Int]
        BY <1>13 DEF Crash, TypeOK
    <2> QED BY <1>13, <2>2, <2>3 DEF Crash, TypeOK, db
<1>14. ASSUME NEW p \in Pods, Restart(p) PROVE TypeOK'
    BY <1>14 DEF Restart, TypeOK, db, task
<1>15. ASSUME Tick PROVE TypeOK'
    BY <1>15, TimeAssumption DEF Tick, TypeOK, db, task
<1>16. ASSUME UNCHANGED vars PROVE TypeOK'
    BY <1>16 DEF vars, db, task, TypeOK
<1> QED
    BY <1>1, <1>2, <1>3, <1>4, <1>5, <1>6, <1>7, <1>8, <1>9, <1>10, <1>11, <1>12,
       <1>13, <1>14, <1>15, <1>16
    DEF Next, Serve, ConnectionFails

(* Every variable keeps its type in every execution: every handler and      *)
(* every step of the database writes values of the declared shape.          *)
THEOREM TypeCorrect == Spec => []TypeOK
BY InitType, NextType, PTL DEF Spec

-----------------------------------------------------------------------------
(* What no step undoes: an answer once given, a row once written.           *)

LEMMA AnswerStays ==
    ASSUME TypeOK, LookupInv, [Next]_vars, NEW q \in Requests, answer[q] # NoAnswer
    PROVE  answer'[q] = answer[q] /\ ip'[q] = ip[q] /\ arrived'[q] = arrived[q]
<1>1. pc[q] \notin {"idle", "asking"}
    BY DEF LookupInv, TaskInv
<1>2. ASSUME NEW r \in Requests, NEW input \in Inputs,
             RejectInput(r, input) \/ StartLookup(r, input)
      PROVE  answer'[q] = answer[q] /\ ip'[q] = ip[q] /\ arrived'[q] = arrived[q]
    <2>1. r # q
        BY <1>1, <1>2 DEF RejectInput, StartLookup, Arrive
    <2> QED BY <1>2, <2>1 DEF RejectInput, StartLookup, Arrive, TypeOK
<1>3. ASSUME NEW r \in Requests, ProviderAnswers(r)
      PROVE  answer'[q] = answer[q] /\ ip'[q] = ip[q] /\ arrived'[q] = arrived[q]
    BY <1>1, <1>3 DEF ProviderAnswers, TypeOK
<1>4. CASE UNCHANGED <<ip, arrived, answer>>
    BY <1>4
<1> QED
    BY <1>2, <1>3, <1>4
    DEF Next, Serve, ConnectionFails, DbSelect, DbRejects, ReadHit, ReadMiss, ReadFails,
        ProviderFails, SendUpsert, UpsertReturns, UpsertFails, DbCommit, DbAbort, Crash,
        Restart, Tick, vars, task

LEMMA ToldStays ==
    ASSUME TypeOK, LookupInv, [Next]_vars
    PROVE  /\ \A q \in Requests : \A i, got : Told(q, i, got) => Told(q, i, got)'
           /\ \A i, got : Known(i, got) => Known(i, got)'
<1>1. ASSUME NEW q \in Requests, NEW i, NEW got, Told(q, i, got) PROVE Told(q, i, got)'
    BY <1>1, AnswerStays DEF Told, Matches
<1> QED BY <1>1 DEF Known

LEMMA KeptStays ==
    ASSUME TypeOK, LookupInv, [Next]_vars, NEW i, Kept(i)
    PROVE  Kept(i)'
<1>1. ASSUME NEW w \in writes, DbCommit(w) PROVE Kept(i)'
    <2>1. w.row # NoRow
        BY DEF LookupInv, WriteInv
    <2> QED BY <1>1, <2>1 DEF DbCommit, Upserted, Kept, TypeOK
<1>2. CASE UNCHANGED cache
    BY <1>2 DEF Kept
<1> QED
    BY <1>1, <1>2
    DEF Next, Serve, ConnectionFails, RejectInput, StartLookup, DbSelect, DbRejects, ReadHit,
        ReadMiss, ReadFails, ProviderAnswers, ProviderFails, SendUpsert, UpsertReturns,
        UpsertFails, DbAbort, Crash, Restart, Tick, vars, db

(* A lookup the step does not touch keeps its part of the invariant.        *)
LEMMA TaskFrame ==
    ASSUME TypeOK, TypeOK', LookupInv, [Next]_vars, NEW r \in Requests,
           pc'[r] = pc[r], outcome'[r] = outcome[r], row'[r] = row[r], ip'[r] = ip[r],
           asOf'[r] = asOf[r], arrived'[r] = arrived[r], answer'[r] = answer[r],
           r \in written' => r \in written, now <= now'
    PROVE  TaskInv(r)'
<1>1. TaskInv(r)
    BY DEF LookupInv
<1>2. \A i : Kept(i) => Kept(i)'
    BY KeptStays
<1>3. /\ \A q \in Requests : \A i, got : Told(q, i, got) => Told(q, i, got)'
      /\ \A i, got : Known(i, got) => Known(i, got)'
    BY ToldStays
<1>4. \A q \in Requests : \A i, got : Told(q, i, got) => answer'[q].at = answer[q].at
    BY AnswerStays DEF Told
<1>5. pc'[r] # "idle" => arrived'[r] <= now'
    BY <1>1 DEF TaskInv, TypeOK
<1>6. /\ pc'[r] = "selected" /\ row'[r] # NoRow => Known(ip[r], row[r])' /\ Kept(ip[r])'
      /\ r \in written' => answer'[r] # NoAnswer /\ Kept(ip[r])'
      /\ outcome'[r] \in Successes => Known(ip[r], row[r])' /\ Kept(ip[r])'
    BY <1>1, <1>2, <1>3 DEF TaskInv, Known, Told, Kept
<1>7. /\ pc'[r] \in {"upserting", "committing"} =>
             row'[r] # NoRow /\ Told(r, ip[r], row[r])' /\ arrived'[r] <= answer'[r].at
      /\ outcome'[r] = "provider" => Told(r, ip[r], row[r])' /\ arrived'[r] <= answer'[r].at
    BY <1>1, <1>3 DEF TaskInv, Told
<1>8. outcome'[r] = "database" =>
         \E q \in Requests : /\ Told(q, ip[r], row[r])'
                             /\ arrived'[r] < answer'[q].at + TTL + 2 * MaxSkew
    <2>1. SUFFICES ASSUME outcome'[r] = "database"
                   PROVE  \E q \in Requests :
                             /\ Told(q, ip[r], row[r])'
                             /\ arrived'[r] < answer'[q].at + TTL + 2 * MaxSkew
        OBVIOUS
    <2>2. PICK q \in Requests : /\ Told(q, ip[r], row[r])
                                /\ arrived[r] < answer[q].at + TTL + 2 * MaxSkew
        BY <1>1, <2>1 DEF TaskInv
    <2>3. Told(q, ip[r], row[r])'
        BY <1>3, <2>2 DEF Told
    <2> QED BY <1>4, <2>2, <2>3
<1> QED BY <1>1, <1>5, <1>6, <1>7, <1>8 DEF TaskInv

LEMMA RowFrame ==
    ASSUME TypeOK, LookupInv, [Next]_vars, NEW i \in IPs, cache'[i] = cache[i]
    PROVE  RowInv(i)'
BY ToldStays DEF LookupInv, RowInv, Known

LEMMA WriteFrame ==
    ASSUME TypeOK, LookupInv, [Next]_vars, NEW w \in writes
    PROVE  WriteInv(w)'
<1>1. w.by \in Requests /\ WriteInv(w)
    BY DEF TypeOK, LookupInv
<1>2. Told(w.by, ip[w.by], w.row) /\ answer[w.by] # NoAnswer
    BY <1>1 DEF WriteInv, Told
<1>3. ip'[w.by] = ip[w.by] /\ answer'[w.by] = answer[w.by]
    BY <1>1, <1>2, AnswerStays
<1> QED BY <1>1, <1>3 DEF WriteInv, Told

(* A step of one lookup: the others, the table and the transactions that    *)
(* were already open keep their part, so the lookup's own part is left.     *)
LEMMA TaskStep ==
    ASSUME TypeOK, TypeOK', LookupInv, [Next]_vars, NEW r \in Requests,
           \A q \in Requests \ {r} :
              /\ pc'[q] = pc[q] /\ outcome'[q] = outcome[q] /\ row'[q] = row[q]
              /\ ip'[q] = ip[q] /\ asOf'[q] = asOf[q] /\ arrived'[q] = arrived[q]
              /\ answer'[q] = answer[q],
           UNCHANGED <<now, cache, written>>,
           \A w \in writes' : w \in writes \/ WriteInv(w)',
           TaskInv(r)'
    PROVE  LookupInv'
<1>1. ASSUME NEW q \in Requests PROVE TaskInv(q)'
    <2>1. CASE q = r
        BY <2>1
    <2>2. CASE q # r
        BY <2>2, TaskFrame DEF TypeOK
    <2> QED BY <2>1, <2>2
<1>2. \A i \in IPs : RowInv(i)'
    BY RowFrame
<1>3. \A w \in writes' : WriteInv(w)'
    BY WriteFrame
<1> QED BY <1>1, <1>2, <1>3 DEF LookupInv

-----------------------------------------------------------------------------
(* The steps of a lookup. *)

LEMMA ArrivalKeeps ==
    ASSUME TypeOK, TypeOK', LookupInv, [Next]_vars, NEW r \in Requests, NEW input \in Inputs,
           RejectInput(r, input) \/ StartLookup(r, input)
    PROVE  LookupInv'
<1>1. TaskInv(r) /\ pc[r] = "idle" /\ answer[r] = NoAnswer /\ outcome[r] = "none"
    BY DEF LookupInv, TaskInv, RejectInput, StartLookup, Arrive
<1>2. arrived'[r] = now /\ now' = now /\ answer'[r] = NoAnswer /\ written' = written
    BY <1>1 DEF RejectInput, StartLookup, Arrive, TypeOK, db
<1>3. r \notin written'
    BY <1>1, <1>2 DEF TaskInv
<1>4. TaskInv(r)'
    <2>1. CASE RejectInput(r, input)
        <3>1. pc'[r] = "done" /\ outcome'[r] \in {"INVALID_IP", "NON_PUBLIC_IP"}
            BY <2>1 DEF RejectInput, Fail, Finish, GoTo, TypeOK
        <3> QED BY <1>2, <1>3, <3>1 DEF TaskInv, Successes, TypeOK
    <2>2. CASE StartLookup(r, input)
        <3>1. pc'[r] = "reading" /\ outcome'[r] = "none" /\ ip'[r] \in Public
            BY <1>1, <2>2 DEF StartLookup, Arrive, GoTo, TypeOK
        <3>2. arrived'[r] <= asOf'[r] + MaxSkew
            <4>1. PICK t \in ClockReading : asOf' = [asOf EXCEPT ![r] = t]
                BY <2>2 DEF StartLookup
            <4> QED BY <1>2, <4>1, TimeAssumption DEF ClockReading, TypeOK
        <3> QED BY <1>2, <1>3, <3>1, <3>2 DEF TaskInv, Successes, TypeOK
    <2> QED BY <2>1, <2>2
<1>5. \A q \in Requests \ {r} :
          /\ pc'[q] = pc[q] /\ outcome'[q] = outcome[q] /\ row'[q] = row[q]
          /\ ip'[q] = ip[q] /\ asOf'[q] = asOf[q] /\ arrived'[q] = arrived[q]
          /\ answer'[q] = answer[q]
    BY DEF RejectInput, StartLookup, Arrive, Fail, Finish, GoTo, Hold, Forget, TypeOK
<1>6. UNCHANGED <<now, cache, written, writes>>
    BY DEF RejectInput, StartLookup, db
<1> QED BY <1>4, <1>5, <1>6, TaskStep

LEMMA FailureKeeps ==
    ASSUME TypeOK, TypeOK', LookupInv, [Next]_vars, NEW r \in Requests,
           pc[r] \notin {"idle", "done"}, NEW e \in Outcomes \ Successes, Fail(r, e),
           UNCHANGED <<now, db, pod, ip, arrived, answer>>
    PROVE  LookupInv'
<1>1. TaskInv(r)
    BY DEF LookupInv
<1>2. pc'[r] = "done" /\ outcome'[r] = e /\ e \notin Successes
    BY DEF Fail, Finish, GoTo, TypeOK
<1>3. TaskInv(r)'
    BY <1>1, <1>2 DEF TaskInv, Kept, Successes, TypeOK, db
<1>4. \A q \in Requests \ {r} :
          pc'[q] = pc[q] /\ outcome'[q] = outcome[q] /\ row'[q] = row[q] /\ asOf'[q] = asOf[q]
    BY DEF Fail, Finish, GoTo, Hold, Forget, TypeOK
<1> QED BY <1>3, <1>4, TaskStep DEF db

LEMMA SelectKeeps ==
    ASSUME TypeOK, TypeOK', LookupInv, [Next]_vars, NEW r \in Requests, DbSelect(r)
    PROVE  LookupInv'
<1>1. TaskInv(r) /\ pc[r] = "reading" /\ ip[r] \in IPs /\ RowInv(ip[r])
    BY AddressAssumption DEF LookupInv, DbSelect
<1>2. pc'[r] = "selected" /\ row'[r] = cache[ip[r]]
    BY <1>1 DEF DbSelect, GoTo, Hold, TypeOK
<1>3. row'[r] # NoRow => Known(ip[r], row[r])' /\ Kept(ip[r])'
    BY <1>1, <1>2 DEF RowInv, Known, Told, Kept, DbSelect, db
<1>4. TaskInv(r)'
    BY <1>1, <1>2, <1>3 DEF TaskInv, DbSelect, Kept, Successes, db
<1>5. \A q \in Requests \ {r} : pc'[q] = pc[q] /\ row'[q] = row[q]
    BY DEF DbSelect, GoTo, Hold, TypeOK
<1> QED BY <1>4, <1>5, TaskStep DEF DbSelect, db

(* The hit: what the SELECT saw was learnt at most TTL + MaxSkew before the *)
(* clock reading, which is at most MaxSkew behind the arrival.              *)
LEMMA HitKeeps ==
    ASSUME TypeOK, TypeOK', LookupInv, [Next]_vars, NEW r \in Requests, ReadHit(r)
    PROVE  LookupInv'
<1>1. TaskInv(r) /\ pc[r] = "selected" /\ row[r] # NoRow /\ row[r].expires > asOf[r]
    BY DEF LookupInv, ReadHit, Hit
<1>2. pc'[r] = "done" /\ outcome'[r] = "database" /\ row'[r] = row[r]
    BY DEF ReadHit, Finish, GoTo, Hold, TypeOK
<1>3. Kept(ip[r])' /\ Known(ip[r], row[r])'
    BY <1>1, <1>2 DEF TaskInv, Kept, Known, Told, ReadHit, db
<1>4. \E q \in Requests : /\ Told(q, ip[r], row[r])'
                          /\ arrived'[r] < answer'[q].at + TTL + 2 * MaxSkew
    <2>1. PICK q \in Requests : Told(q, ip[r], row[r])
        BY <1>1 DEF TaskInv, Known
    <2>2. /\ answer[q].at \in Nat /\ asOf[r] \in Int /\ arrived[r] \in Nat
          /\ row[r].fetched \in Int
        BY <1>1, <2>1 DEF TypeOK, Told, Row, Answer
    <2>3. row[r].fetched <= answer[q].at + MaxSkew /\ row[r].expires = row[r].fetched + TTL
        BY <2>1, <2>2, TimeAssumption DEF Told, Matches
    <2>4. arrived[r] <= asOf[r] + MaxSkew
        BY <1>1 DEF TaskInv
    <2>5. arrived[r] < answer[q].at + TTL + 2 * MaxSkew
        BY <1>1, <2>2, <2>3, <2>4, TimeAssumption
    <2> QED BY <1>2, <2>1, <2>5 DEF Told, ReadHit
<1>5. TaskInv(r)'
    BY <1>1, <1>2, <1>3, <1>4 DEF TaskInv, ReadHit, Successes, db
<1>6. \A q \in Requests \ {r} :
          pc'[q] = pc[q] /\ outcome'[q] = outcome[q] /\ row'[q] = row[q] /\ asOf'[q] = asOf[q]
    BY DEF ReadHit, Finish, GoTo, Hold, Forget, TypeOK
<1> QED BY <1>5, <1>6, TaskStep DEF ReadHit, db

LEMMA MissKeeps ==
    ASSUME TypeOK, TypeOK', LookupInv, [Next]_vars, NEW r \in Requests, ReadMiss(r)
    PROVE  LookupInv'
<1>1. TaskInv(r) /\ pc[r] = "selected" /\ pc'[r] = "asking"
    BY DEF LookupInv, ReadMiss, GoTo, TypeOK
<1>2. TaskInv(r)'
    BY <1>1 DEF TaskInv, Kept, Successes, ReadMiss, db
<1>3. \A q \in Requests \ {r} : pc'[q] = pc[q] /\ row'[q] = row[q] /\ asOf'[q] = asOf[q]
    BY DEF ReadMiss, GoTo, Hold, Forget, TypeOK
<1> QED BY <1>2, <1>3, TaskStep DEF ReadMiss, db

LEMMA ProviderAnswerKeeps ==
    ASSUME TypeOK, TypeOK', LookupInv, [Next]_vars, NEW r \in Requests, ProviderAnswers(r)
    PROVE  LookupInv'
<1>1. TaskInv(r) /\ pc[r] = "asking" /\ pc'[r] = "upserting"
    BY DEF LookupInv, ProviderAnswers, GoTo, TypeOK
<1>2. PICK c \in Countries, t \in ClockReading :
          /\ answer' = [answer EXCEPT ![r] = [country |-> c, at |-> now]]
          /\ row' = [row EXCEPT ![r] = NewRecord(c, t)]
    BY DEF ProviderAnswers, Hold
<1>3. /\ answer'[r] = [country |-> c, at |-> now] /\ row'[r] = NewRecord(c, t)
      /\ answer'[r] # NoAnswer /\ row'[r] # NoRow
    <2>1. NewRecord(c, t) \in Row /\ [country |-> c, at |-> now] \in Answer
        BY NewRecordType DEF TypeOK, Answer
    <2> QED BY <1>2, <2>1, NoneAssumption DEF TypeOK
<1>4. Told(r, ip[r], row[r])'
    BY <1>3, TimeAssumption
    DEF Told, Matches, NewRecord, ClockReading, ProviderAnswers, TypeOK
<1>5. r \notin written'
    BY <1>1 DEF TaskInv, ProviderAnswers, db
<1>6. TaskInv(r)'
    BY <1>1, <1>3, <1>4, <1>5 DEF TaskInv, ProviderAnswers, Successes
<1>7. \A q \in Requests \ {r} :
          pc'[q] = pc[q] /\ row'[q] = row[q] /\ answer'[q] = answer[q]
    BY <1>2 DEF ProviderAnswers, GoTo, TypeOK
<1> QED BY <1>6, <1>7, TaskStep DEF ProviderAnswers, db

LEMMA SendKeeps ==
    ASSUME TypeOK, TypeOK', LookupInv, [Next]_vars, NEW r \in Requests, SendUpsert(r)
    PROVE  LookupInv'
<1>1. TaskInv(r) /\ pc[r] = "upserting" /\ pc'[r] = "committing"
    BY DEF LookupInv, SendUpsert, GoTo, TypeOK
<1>2. TaskInv(r)'
    BY <1>1 DEF TaskInv, Told, Kept, Successes, SendUpsert
<1>3. \A w \in writes' : w \in writes \/ WriteInv(w)'
    BY <1>1, AddressAssumption DEF TaskInv, WriteInv, Told, SendUpsert
<1>4. \A q \in Requests \ {r} : pc'[q] = pc[q]
    BY DEF SendUpsert, GoTo, TypeOK
<1> QED BY <1>2, <1>3, <1>4, TaskStep DEF SendUpsert

LEMMA ReturnKeeps ==
    ASSUME TypeOK, TypeOK', LookupInv, [Next]_vars, NEW r \in Requests, UpsertReturns(r)
    PROVE  LookupInv'
<1>1. TaskInv(r) /\ pc[r] = "committing" /\ r \in written
    BY DEF LookupInv, UpsertReturns, Acknowledged
<1>2. pc'[r] = "done" /\ outcome'[r] = "provider" /\ row'[r] = row[r]
    BY DEF UpsertReturns, Finish, GoTo, Hold, TypeOK
<1>3. Told(r, ip[r], row[r])' /\ Known(ip[r], row[r])' /\ Kept(ip[r])'
    BY <1>1, <1>2 DEF TaskInv, Told, Known, Kept, UpsertReturns, db
<1>4. TaskInv(r)'
    BY <1>1, <1>2, <1>3 DEF TaskInv, UpsertReturns, Successes, db
<1>5. \A q \in Requests \ {r} :
          pc'[q] = pc[q] /\ outcome'[q] = outcome[q] /\ row'[q] = row[q] /\ asOf'[q] = asOf[q]
    BY DEF UpsertReturns, Finish, GoTo, Hold, Forget, TypeOK
<1> QED BY <1>4, <1>5, TaskStep DEF UpsertReturns, db

-----------------------------------------------------------------------------
(* The steps of the database and of the pods. *)

LEMMA CommitKeeps ==
    ASSUME TypeOK, TypeOK', LookupInv, [Next]_vars, NEW w \in writes, DbCommit(w)
    PROVE  LookupInv'
<1>1. w.by \in Requests /\ WriteInv(w)
    BY DEF TypeOK, LookupInv
<1>2. cache' = [cache EXCEPT ![ip[w.by]] = w.row] /\ UNCHANGED task
    BY DEF DbCommit, Upserted
<1>3. ASSUME NEW i \in IPs PROVE RowInv(i)'
    <2>1. CASE i = ip[w.by]
        BY <1>1, <1>2, <2>1 DEF RowInv, Known, Told, WriteInv, TypeOK, task
    <2>2. CASE i # ip[w.by]
        BY <1>2, <2>2, RowFrame DEF TypeOK
    <2> QED BY <2>1, <2>2
<1>4. ASSUME NEW q \in Requests PROVE TaskInv(q)'
    <2>1. CASE q # w.by
        BY <1>2, <2>1, TaskFrame DEF DbCommit, task, TypeOK
    <2>2. CASE q = w.by
        <3>1. TaskInv(q) /\ answer[q] # NoAnswer
            BY <1>1, <2>2 DEF LookupInv, WriteInv, Told
        <3>2. Kept(ip[q])'
            BY <1>1, <1>2, <2>2 DEF WriteInv, Kept, TypeOK, task
        <3>3. /\ Known(ip[q], row[q]) => Known(ip[q], row[q])'
              /\ \A s \in Requests : Told(s, ip[q], row[q]) => Told(s, ip[q], row[q])'
            BY <1>2 DEF Known, Told, task
        <3> QED BY <1>2, <3>1, <3>2, <3>3 DEF TaskInv, DbCommit, task
    <2> QED BY <2>1, <2>2
<1>5. \A x \in writes' : WriteInv(x)'
    BY WriteFrame DEF DbCommit
<1> QED BY <1>3, <1>4, <1>5 DEF LookupInv

(* Steps that leave every lookup and row alone. *)
LEMMA QuietKeeps ==
    ASSUME TypeOK, TypeOK', LookupInv, [Next]_vars,
           UNCHANGED <<cache, written, task>>, writes' \subseteq writes, now <= now'
    PROVE  LookupInv'
<1>1. \A q \in Requests : TaskInv(q)'
    BY TaskFrame DEF task
<1>2. \A i \in IPs : RowInv(i)'
    BY RowFrame
<1>3. \A w \in writes' : WriteInv(w)'
    BY WriteFrame
<1> QED BY <1>1, <1>2, <1>3 DEF LookupInv

LEMMA CrashKeeps ==
    ASSUME TypeOK, TypeOK', LookupInv, [Next]_vars, NEW p \in Pods, Crash(p)
    PROVE  LookupInv'
<1> DEFINE lost == {r \in Requests : pod[r] = p /\ pc[r] \notin {"idle", "done"}}
<1>1. UNCHANGED <<now, cache, writes, written, pod, ip, arrived, answer>>
    BY DEF Crash, db
<1>2. ASSUME NEW q \in Requests PROVE TaskInv(q)'
    <2>1. CASE q \in lost
        <3>1. pc'[q] = "done" /\ outcome'[q] = "lost" /\ TaskInv(q) /\ pc[q] # "idle"
            BY <2>1 DEF Crash, LookupInv
        <3> QED BY <1>1, <3>1 DEF TaskInv, Kept, Successes
    <2>2. CASE q \notin lost
        <3>1. /\ pc'[q] = pc[q] /\ outcome'[q] = outcome[q]
              /\ row'[q] = row[q] /\ asOf'[q] = asOf[q]
            BY <2>2 DEF Crash
        <3> QED BY <1>1, <3>1, TaskFrame DEF TypeOK
    <2> QED BY <2>1, <2>2
<1>3. \A i \in IPs : RowInv(i)'
    BY <1>1, RowFrame
<1>4. \A w \in writes' : WriteInv(w)'
    BY <1>1, WriteFrame
<1> QED BY <1>2, <1>3, <1>4 DEF LookupInv

LEMMA InitKeeps == Init => LookupInv
BY DEF Init, LookupInv, TaskInv, RowInv, Successes

LEMMA NextKeeps == TypeOK /\ TypeOK' /\ LookupInv /\ [Next]_vars => LookupInv'
<1> SUFFICES ASSUME TypeOK, TypeOK', LookupInv, [Next]_vars PROVE LookupInv'
    OBVIOUS
<1>1. ASSUME NEW r \in Requests, Serve(r) PROVE LookupInv'
    <2>1. ASSUME DbRejects(r) \/ ProviderFails(r) PROVE LookupInv'
        <3>1. PICK e \in Outcomes \ Successes : Fail(r, e)
            BY <2>1 DEF DbRejects, ProviderFails, Outcomes, Successes, ProviderErrors
        <3> QED BY <2>1, <3>1, FailureKeeps DEF DbRejects, ProviderFails
    <2> QED BY <1>1, <2>1, ArrivalKeeps, SelectKeeps, HitKeeps, MissKeeps,
               ProviderAnswerKeeps, SendKeeps, ReturnKeeps DEF Serve
<1>2. ASSUME NEW r \in Requests, ConnectionFails(r) PROVE LookupInv'
    <2>1. "DATABASE_UNAVAILABLE" \in Outcomes \ Successes
        BY DEF Outcomes, Successes
    <2> QED BY <1>2, <2>1, FailureKeeps DEF ConnectionFails, ReadFails, UpsertFails
<1>3. ASSUME NEW w \in writes, DbAbort(w) PROVE LookupInv'
    BY <1>3, QuietKeeps DEF DbAbort, TypeOK
<1>4. ASSUME NEW p \in Pods, Restart(p) PROVE LookupInv'
    BY <1>4, QuietKeeps DEF Restart, TypeOK, db
<1>5. CASE Tick \/ UNCHANGED vars
    BY <1>5, QuietKeeps DEF Tick, vars, TypeOK, db
<1> QED BY <1>1, <1>2, <1>3, <1>4, <1>5, CommitKeeps, CrashKeeps DEF Next

-----------------------------------------------------------------------------
(* The theorems. *)

(* The inductive invariant: whatever a lookup holds when it awaits, a row   *)
(* and an unfinished transaction is one answer for the right address.       *)
THEOREM LookupInvariant == Spec => []LookupInv
BY InitType, NextType, InitKeeps, NextKeeps, PTL DEF Spec

(* However upserts, lost connections and crashes interleave, no row and no  *)
(* reply mixes two answers or belongs to another address.                   *)
THEOREM NoTornRowHolds == Spec => []NoTornRow
<1>1. LookupInv => NoTornRow
    BY DEF LookupInv, TaskInv, RowInv, Known, NoTornRow
<1> QED BY <1>1, LookupInvariant, PTL

(* Whatever the clocks of the pods show within MaxSkew, a reply from the    *)
(* table was learnt less than TTL + 2*MaxSkew before its client asked.      *)
THEOREM ReplyIsRecentHolds == Spec => []ReplyIsRecent
<1>1. LookupInv => ReplyIsRecent
    BY DEF LookupInv, TaskInv, ReplyIsRecent
<1> QED BY <1>1, LookupInvariant, PTL

(* A client that was given a country finds its address in the table ever    *)
(* after, although pods crash and later upserts fail.                       *)
THEOREM ReplyIsKeptHolds == Spec => []ReplyIsKept
<1>1. LookupInv => ReplyIsKept
    BY DEF LookupInv, TaskInv, Kept, ReplyIsKept
<1> QED BY <1>1, LookupInvariant, PTL

-----------------------------------------------------------------------------
(* The counters of a pod against the lookups it has in hand.  A pod counts  *)
(* a miss when it goes on to the provider and again when that lookup ends,  *)
(* so the equations hold at every await only with what is in between; that  *)
(* is finite as every lookup enters alone and a crash leaves none.          *)

Flying(p, stages) == {r \in Requests : pod[r] = p /\ pc[r] \in stages}

MeterInv ==
    /\ \A p \in Pods : IsFiniteSet(Flying(p, Missed))
    /\ MissesAreObservable
    /\ UpsertsAreObservable

(* The lookup r moves from one await to another.                            *)
LEMMA FlyingMoves ==
    ASSUME TypeOK, NEW r \in Requests, NEW stage \in Stages, GoTo(r, stage), pod' = pod,
           NEW p \in Pods, NEW stages, IsFiniteSet(Flying(p, stages))
    PROVE  /\ IsFiniteSet(Flying(p, stages)')
           /\ InFlight(p, stages) \in Nat
           /\ InFlight(p, stages)' = InFlight(p, stages)
                + (IF p = pod[r] /\ stage \in stages THEN 1 ELSE 0)
                - (IF p = pod[r] /\ pc[r] \in stages THEN 1 ELSE 0)
<1> DEFINE before == Flying(p, stages)
           after == Flying(p, stages)'
<1>1. InFlight(p, stages) = Cardinality(before) /\ InFlight(p, stages)' = Cardinality(after)
    BY DEF InFlight, Flying
<1>2. r \in before <=> p = pod[r] /\ pc[r] \in stages
    BY DEF Flying
<1>3. after = IF p = pod[r] /\ stage \in stages THEN before \cup {r} ELSE before \ {r}
    BY DEF Flying, GoTo, TypeOK
<1>4. IsFiniteSet(before)
    OBVIOUS
<1> HIDE DEF before, after
<1>5. Cardinality(before) \in Nat /\ (r \in before => Cardinality(before) # 0)
    BY <1>4, FS_CardinalityType, FS_EmptySet
<1>6. /\ IsFiniteSet(before \cup {r})
      /\ Cardinality(before \cup {r}) = IF r \in before THEN Cardinality(before)
                                                      ELSE Cardinality(before) + 1
    BY <1>4, FS_AddElement
<1>7. /\ IsFiniteSet(before \ {r})
      /\ Cardinality(before \ {r}) = IF r \in before THEN Cardinality(before) - 1
                                                    ELSE Cardinality(before)
    BY <1>4, FS_RemoveElement
<1>8. IsFiniteSet(after)
    BY <1>3, <1>6, <1>7
<1>9. CASE p = pod[r] /\ stage \in stages
    <2>1. after = before \cup {r}
        BY <1>3, <1>9
    <2> QED BY <1>1, <1>2, <1>5, <1>6, <1>8, <1>9, <2>1 DEF after
<1>10. CASE ~(p = pod[r] /\ stage \in stages)
    <2>1. after = before \ {r}
        BY <1>3, <1>10
    <2> QED BY <1>1, <1>2, <1>5, <1>7, <1>8, <1>10, <2>1 DEF after
<1> QED BY <1>9, <1>10

LEMMA BumpCounts ==
    ASSUME TypeOK, NEW r \in Requests, NEW S, Bump(r, S), NEW p \in Pods, NEW s \in Series
    PROVE  /\ metrics[p][s] \in Nat
           /\ metrics'[p][s] = metrics[p][s] + IF p = pod[r] /\ s \in S THEN 1 ELSE 0
BY DEF TypeOK, Bump

(* The balance of a step: what it counts is what it moves in or out of      *)
(* flight.                                                                  *)
LEMMA BalancedStep ==
    ASSUME TypeOK, MeterInv, NEW r \in Requests, NEW stage \in Stages, GoTo(r, stage),
           pod' = pod, NEW S \in SUBSET Series, Bump(r, S),
           (IF "db_read" \in S THEN 1 ELSE 0) - (IF "db_read_error" \in S THEN 1 ELSE 0)
             = (IF "lookup_database_success" \in S THEN 1 ELSE 0)
                 + (IF "lookup_provider_success" \in S THEN 1 ELSE 0)
                 + (IF "lookup_provider_error" \in S THEN 1 ELSE 0)
                 + (IF stage \in Missed THEN 1 ELSE 0) - (IF pc[r] \in Missed THEN 1 ELSE 0),
           (IF "db_upsert" \in S THEN 1 ELSE 0)
             = (IF "lookup_provider_success" \in S THEN 1 ELSE 0)
                 + (IF "db_upsert_error" \in S THEN 1 ELSE 0),
           "db_upsert_error" \in S => "lookup_provider_error" \in S
    PROVE  MeterInv'
<1> SUFFICES ASSUME NEW p \in Pods
             PROVE  /\ IsFiniteSet(Flying(p, Missed)')
                    /\ metrics'[p]["db_read"] - metrics'[p]["db_read_error"] =
                          metrics'[p]["lookup_database_success"]
                            + metrics'[p]["lookup_provider_success"]
                            + metrics'[p]["lookup_provider_error"] + InFlight(p, Missed)'
                    /\ metrics'[p]["db_upsert"] =
                          metrics'[p]["lookup_provider_success"] + metrics'[p]["db_upsert_error"]
                    /\ metrics'[p]["db_upsert_error"] <= metrics'[p]["lookup_provider_error"]
    BY DEF MeterInv, MissesAreObservable, UpsertsAreObservable
<1>1. /\ IsFiniteSet(Flying(p, Missed)') /\ InFlight(p, Missed) \in Nat
      /\ InFlight(p, Missed)' = InFlight(p, Missed)
            + (IF p = pod[r] /\ stage \in Missed THEN 1 ELSE 0)
            - (IF p = pod[r] /\ pc[r] \in Missed THEN 1 ELSE 0)
    BY FlyingMoves DEF MeterInv
<1>2. \A s \in Series :
          /\ metrics[p][s] \in Nat
          /\ metrics'[p][s] = metrics[p][s] + IF p = pod[r] /\ s \in S THEN 1 ELSE 0
    BY BumpCounts
<1>3. /\ metrics[p]["db_read"] - metrics[p]["db_read_error"] =
            metrics[p]["lookup_database_success"] + metrics[p]["lookup_provider_success"]
              + metrics[p]["lookup_provider_error"] + InFlight(p, Missed)
      /\ metrics[p]["db_upsert"] =
            metrics[p]["lookup_provider_success"] + metrics[p]["db_upsert_error"]
      /\ metrics[p]["db_upsert_error"] <= metrics[p]["lookup_provider_error"]
    BY DEF MeterInv, MissesAreObservable, UpsertsAreObservable
<1>4. CASE p = pod[r]
    BY <1>1, <1>2, <1>3, <1>4
<1>5. CASE p # pod[r]
    BY <1>1, <1>2, <1>3, <1>5
<1> QED BY <1>4, <1>5

(* A step that counts nothing and moves no lookup past its read or to its   *)
(* end.                                                                     *)
LEMMA UncountedStep ==
    ASSUME MeterInv, metrics' = metrics, pod' = pod,
           \A r \in Requests : pc'[r] \in Missed <=> pc[r] \in Missed
    PROVE  MeterInv'
<1>1. \A p \in Pods : Flying(p, Missed)' = Flying(p, Missed)
    BY DEF Flying
<1>2. \A p \in Pods : InFlight(p, Missed)' = InFlight(p, Missed)
    BY <1>1 DEF InFlight, Flying
<1> QED BY <1>1, <1>2 DEF MeterInv, MissesAreObservable, UpsertsAreObservable

LEMMA ServeMeters ==
    ASSUME TypeOK, MeterInv, NEW r \in Requests, Serve(r) \/ ConnectionFails(r)
    PROVE  MeterInv'
<1>1. ASSUME NEW input \in Inputs, RejectInput(r, input) \/ StartLookup(r, input)
      PROVE  MeterInv'
    BY <1>1, UncountedStep
    DEF RejectInput, StartLookup, Arrive, Fail, Finish, GoTo, TypeOK, Missed
<1>2. CASE DbSelect(r) \/ ProviderAnswers(r) \/ SendUpsert(r)
    BY <1>2, UncountedStep DEF DbSelect, ProviderAnswers, SendUpsert, GoTo, TypeOK, Missed
<1>3. CASE DbRejects(r) \/ ReadFails(r)
    <2>1. GoTo(r, "done") /\ Bump(r, ReadFailureSeries) /\ pc[r] \notin Missed /\ pod' = pod
        BY <1>3 DEF DbRejects, ReadFails, Fail, Finish, Missed
    <2>2. ReadFailureSeries \in SUBSET Series /\ "done" \notin Missed
        BY DEF ReadFailureSeries, Missed
    <2> QED BY <2>1, <2>2, BalancedStep DEF ReadFailureSeries
<1>4. CASE ReadHit(r)
    <2>1. /\ GoTo(r, "done") /\ Bump(r, {"db_read", "lookup_database_success"})
          /\ pc[r] \notin Missed /\ "done" \notin Missed /\ pod' = pod
        BY <1>4 DEF ReadHit, Finish, Missed
    <2> QED BY <2>1, BalancedStep
<1>5. CASE ReadMiss(r)
    <2>1. /\ GoTo(r, "asking") /\ Bump(r, {"db_read"})
          /\ pc[r] \notin Missed /\ "asking" \in Missed /\ pod' = pod
        BY <1>5 DEF ReadMiss, Missed
    <2> QED BY <2>1, BalancedStep
<1>6. CASE ProviderFails(r)
    <2>1. /\ GoTo(r, "done") /\ Bump(r, {"lookup_provider_error"})
          /\ pc[r] \in Missed /\ "done" \notin Missed /\ pod' = pod
        BY <1>6 DEF ProviderFails, Fail, Finish, Missed
    <2> QED BY <2>1, BalancedStep
<1>7. CASE UpsertReturns(r)
    <2>1. /\ GoTo(r, "done") /\ Bump(r, {"db_upsert", "lookup_provider_success"})
          /\ pc[r] \in Missed /\ "done" \notin Missed /\ pod' = pod
        BY <1>7 DEF UpsertReturns, Finish, Missed
    <2> QED BY <2>1, BalancedStep
<1>8. CASE UpsertFails(r)
    <2>1. /\ GoTo(r, "done") /\ Bump(r, UpsertFailureSeries)
          /\ pc[r] \in Missed /\ "done" \notin Missed /\ pod' = pod
        BY <1>8 DEF UpsertFails, Fail, Finish, Missed
    <2>2. UpsertFailureSeries \in SUBSET Series
        BY DEF UpsertFailureSeries
    <2> QED BY <2>1, <2>2, BalancedStep DEF UpsertFailureSeries
<1> QED BY <1>1, <1>2, <1>3, <1>4, <1>5, <1>6, <1>7, <1>8 DEF Serve, ConnectionFails

(* A killed pod starts over with its counters at zero and nothing in hand.  *)
LEMMA CrashMeters ==
    ASSUME TypeOK, MeterInv, NEW dead \in Pods, Crash(dead)
    PROVE  MeterInv'
<1>1. Flying(dead, Missed)' = {}
    BY DEF Crash, Flying, Missed
<1>2. ASSUME NEW p \in Pods \ {dead}
      PROVE  Flying(p, Missed)' = Flying(p, Missed) /\ metrics'[p] = metrics[p]
    BY DEF Crash, Flying, TypeOK
<1>3. \A p \in Pods : InFlight(p, Missed) = Cardinality(Flying(p, Missed))
                       /\ InFlight(p, Missed)' = Cardinality(Flying(p, Missed)')
    BY DEF InFlight, Flying
<1>4. \A s \in Series : metrics'[dead][s] = 0
    BY DEF Crash, TypeOK
<1>5. /\ IsFiniteSet(Flying(dead, Missed)') /\ InFlight(dead, Missed)' = 0
    BY <1>1, <1>3, FS_EmptySet
<1>6. \A p \in Pods : IsFiniteSet(Flying(p, Missed)')
    BY <1>2, <1>5 DEF MeterInv
<1>7. ASSUME NEW p \in Pods \ {dead} PROVE InFlight(p, Missed)' = InFlight(p, Missed)
    BY <1>2, <1>3
<1>8. MissesAreObservable'
    BY <1>2, <1>4, <1>5, <1>7 DEF MeterInv, MissesAreObservable
<1>9. UpsertsAreObservable'
    BY <1>2, <1>4 DEF MeterInv, UpsertsAreObservable
<1> QED BY <1>6, <1>8, <1>9 DEF MeterInv

LEMMA NextMeters == TypeOK /\ MeterInv /\ [Next]_vars => MeterInv'
<1> SUFFICES ASSUME TypeOK, MeterInv, [Next]_vars PROVE MeterInv'
    OBVIOUS
<1>1. CASE UNCHANGED <<metrics, pod, pc>>
    BY <1>1, UncountedStep
<1> QED BY <1>1, ServeMeters, CrashMeters DEF Next, DbCommit, DbAbort, Restart, Tick, vars, task

LEMMA InitMeters == Init => MeterInv
<1> SUFFICES ASSUME Init PROVE MeterInv
    OBVIOUS
<1>1. \A p \in Pods : Flying(p, Missed) = {} /\ InFlight(p, Missed) = Cardinality(Flying(p, Missed))
    BY DEF Init, Flying, Missed, InFlight
<1>2. \A p \in Pods : IsFiniteSet(Flying(p, Missed)) /\ InFlight(p, Missed) = 0
    BY <1>1, FS_EmptySet
<1>3. \A p \in Pods, s \in Series : metrics[p][s] = 0
    BY DEF Init
<1>4. MissesAreObservable /\ UpsertsAreObservable
    BY <1>2, <1>3 DEF MissesAreObservable, UpsertsAreObservable
<1> QED BY <1>2, <1>4 DEF MeterInv

(* Each pod's counters and the lookups it has in flight at each stage       *)
(* change together (ip_lookup_service.py:46-81).                            *)
THEOREM MeterInvariant == Spec => []MeterInv
BY InitType, NextType, InitMeters, NextMeters, PTL DEF Spec

(* On every pod, between any two awaits and across crashes, each read that  *)
(* was no hit is one provider lookup, ended or in flight                    *)
(* (ip_lookup_service.py:46).                                               *)
THEOREM MissesAreObservableHolds == Spec => []MissesAreObservable
<1>1. MeterInv => MissesAreObservable
    BY DEF MeterInv
<1> QED BY <1>1, MeterInvariant, PTL

(* The upsert counters split the provider lookups the way the code means    *)
(* them to (ip_lookup_service.py:59-64, ip_lookup_repository.py:83-87).     *)
THEOREM UpsertsAreObservableHolds == Spec => []UpsertsAreObservable
<1>1. MeterInv => UpsertsAreObservable
    BY DEF MeterInv
<1> QED BY <1>1, MeterInvariant, PTL

-----------------------------------------------------------------------------
(* Refinement: each step is a step of LookupPromise or leaves it alone.     *)

LEMMA FactOf ==
    ASSUME NEW q \in Requests, answer[q] # NoAnswer
    PROVE  [about |-> ip[q], country |-> answer[q].country, at |-> answer[q].at] \in Facts
BY DEF Facts

LEMMA FactsStay ==
    ASSUME TypeOK, LookupInv, [Next]_vars,
           \A q \in Requests : answer'[q] # NoAnswer => answer[q] # NoAnswer
    PROVE  Facts' = Facts
<1>1. \A q \in Requests : answer[q] # NoAnswer => answer'[q] = answer[q] /\ ip'[q] = ip[q]
    BY AnswerStays
<1> QED BY <1>1 DEF Facts

LEMMA RefuseStep ==
    ASSUME TypeOK, LookupInv, [Next]_vars,
           NEW C \in SUBSET {r \in Requests : outcome[r] = "none"},
           \A r \in C : outcome'[r] \notin Successes \cup {"none"},
           \A r \in Requests \ C : outcome'[r] = outcome[r] /\ row'[r] = row[r],
           now' = now, cache' = cache, answer' = answer, Asked' = Asked
    PROVE  Promise!Refuse
<1>1. Facts' = Facts /\ KeptIPs' = KeptIPs
    BY FactsStay DEF KeptIPs
<1>2. \A r \in C : Verdicts[r] = "none"
    BY DEF Verdicts, Successes
<1>3. ASSUME NEW r \in Requests
      PROVE  (IF outcome'[r] \in Successes THEN row'[r].country
                 ELSE IF outcome'[r] = "none" THEN "none" ELSE "refused")
              = IF r \in C THEN "refused" ELSE Verdicts[r]
    BY <1>3 DEF Verdicts
<1>4. Verdicts' = [r \in Requests |-> IF r \in C THEN "refused" ELSE Verdicts[r]]
    BY <1>3 DEF Verdicts
<1>5. C \in SUBSET {r \in Requests : Verdicts[r] = "none"}
    BY <1>2
<1> QED BY <1>1, <1>4, <1>5 DEF Promise!Refuse, Promise!NoVerdict, Promise!Refused

LEMMA ReplyStep ==
    ASSUME TypeOK, LookupInv, [Next]_vars, NEW r \in Requests,
           outcome[r] = "none", outcome'[r] \in Successes, ip[r] \in Public,
           \A s \in Requests \ {r} : outcome'[s] = outcome[s] /\ row'[s] = row[s],
           NEW q \in Requests, Told(q, ip[r], row'[r]),
           arrived[r] < answer[q].at + TTL + 2 * MaxSkew, Kept(ip[r]),
           UNCHANGED <<now, cache, ip, arrived, answer>>
    PROVE  Promise!Reply(r)
<1> DEFINE fact == [about |-> ip[q], country |-> answer[q].country, at |-> answer[q].at]
           ask == [about |-> ip[r], at |-> arrived[r]]
<1>1. Facts' = Facts /\ KeptIPs' = KeptIPs /\ Asked' = Asked
    BY FactsStay DEF KeptIPs, Asked
<1>2. fact \in Facts /\ fact.about = ask.about /\ row'[r].country = fact.country
    BY FactOf DEF Told, Matches
<1>3. ask \in Asked[r] /\ ask.about \in KeptIPs
    BY DEF Asked, Kept, KeptIPs
<1>4. ask.at < fact.at + (TTL + 2 * MaxSkew)
    <2>1. answer[q].at \in Nat /\ arrived[r] \in Nat
        BY DEF Told, TypeOK, Answer
    <2> QED BY <2>1, TimeAssumption
<1>5. Verdicts[r] = "none" /\ Verdicts' = [Verdicts EXCEPT ![r] = fact.country]
    BY <1>2 DEF Verdicts, Successes
<1> HIDE DEF fact, ask
<1> QED BY <1>1, <1>2, <1>3, <1>4, <1>5 DEF Promise!Reply, Promise!NoVerdict

(* Steps whose only trace a client could see is none. *)
LEMMA HiddenStep ==
    ASSUME TypeOK, LookupInv, [Next]_vars,
           UNCHANGED <<now, cache, ip, arrived, answer, outcome>>,
           \A r \in Requests : outcome[r] \in Successes => row'[r] = row[r]
    PROVE  UNCHANGED Promise!PromiseVars
<1>1. Facts' = Facts /\ KeptIPs' = KeptIPs /\ Asked' = Asked
    BY FactsStay DEF KeptIPs, Asked
<1>2. Verdicts' = Verdicts
    BY DEF Verdicts
<1> QED BY <1>1, <1>2 DEF Promise!PromiseVars

LEMMA FailureRefuses ==
    ASSUME TypeOK, LookupInv, [Next]_vars, NEW r \in Requests, pc[r] # "done",
           NEW e, e \notin Successes \cup {"none"}, Fail(r, e),
           now' = now, cache' = cache, answer' = answer, Asked' = Asked
    PROVE  Promise!Refuse
<1>1. outcome[r] = "none" /\ outcome'[r] = e
    BY DEF LookupInv, TaskInv, Fail, Finish, TypeOK
<1>2. \A q \in Requests \ {r} : outcome'[q] = outcome[q] /\ row'[q] = row[q]
    BY DEF Fail, Finish, Hold, TypeOK
<1>3. {r} \in SUBSET {q \in Requests : outcome[q] = "none"}
    BY <1>1
<1> QED BY <1>1, <1>2, <1>3, RefuseStep

LEMMA ArrivalRefines ==
    ASSUME TypeOK, LookupInv, [Next]_vars, NEW r \in Requests, NEW input \in Inputs,
           RejectInput(r, input) \/ StartLookup(r, input)
    PROVE  Promise!PromiseNext
<1> DEFINE i == Parse[input]
<1>1. /\ pc[r] = "idle" /\ outcome[r] = "none" /\ ip[r] = Malformed
      /\ ip' = [ip EXCEPT ![r] = i] /\ arrived' = [arrived EXCEPT ![r] = now]
      /\ UNCHANGED <<now, cache, answer>>
    BY DEF RejectInput, StartLookup, Arrive, LookupInv, TaskInv, db
<1>2. Asked[r] = {} /\ Malformed \notin Public
    BY <1>1, AddressAssumption DEF Asked
<1>3. CASE RejectInput(r, input)
    <2>1. Asked' = Asked
        BY <1>1, <1>2, <1>3 DEF Asked, RejectInput, TypeOK
    <2>2. PICK e : e \notin Successes \cup {"none"} /\ Fail(r, e)
        BY <1>3 DEF RejectInput, Successes
    <2> QED BY <1>1, <2>1, <2>2, FailureRefuses DEF Promise!PromiseNext
<1>4. CASE StartLookup(r, input)
    <2>1. Asked' = [Asked EXCEPT ![r] = {[about |-> i, at |-> now]}] /\ i \in Public
        BY <1>1, <1>4 DEF Asked, StartLookup, TypeOK
    <2>2. UNCHANGED <<row, outcome>>
        BY <1>4 DEF StartLookup
    <2>3. Facts' = Facts /\ KeptIPs' = KeptIPs /\ Verdicts' = Verdicts
        BY <1>1, <2>2, FactsStay DEF KeptIPs, Verdicts
    <2>4. Verdicts[r] = "none"
        BY <1>1 DEF Verdicts, Successes
    <2> QED BY <1>1, <1>2, <2>1, <2>3, <2>4
            DEF Promise!PromiseNext, Promise!Ask, Promise!NoVerdict
<1> QED BY <1>3, <1>4

LEMMA HitReplies ==
    ASSUME TypeOK, TypeOK', LookupInv, LookupInv', [Next]_vars, NEW r \in Requests, ReadHit(r)
    PROVE  Promise!Reply(r)
<1>1. /\ outcome[r] = "none" /\ ip[r] \in Public /\ Kept(ip[r])
      /\ UNCHANGED <<now, cache, ip, arrived, answer>>
    BY DEF ReadHit, Hit, LookupInv, TaskInv, db
<1>2. outcome'[r] = "database" /\ TaskInv(r)'
    BY DEF ReadHit, Finish, TypeOK, LookupInv
<1>3. PICK q \in Requests : /\ Told(q, ip[r], row'[r])
                            /\ arrived[r] < answer[q].at + TTL + 2 * MaxSkew
    BY <1>1, <1>2 DEF TaskInv, Told
<1>4. \A s \in Requests \ {r} : outcome'[s] = outcome[s] /\ row'[s] = row[s]
    BY DEF ReadHit, Finish, Hold, TypeOK
<1> QED BY <1>1, <1>2, <1>3, <1>4, ReplyStep DEF Successes

LEMMA UpsertReplies ==
    ASSUME TypeOK, TypeOK', LookupInv, LookupInv', [Next]_vars, NEW r \in Requests,
           UpsertReturns(r)
    PROVE  Promise!Reply(r)
<1>1. /\ outcome[r] = "none" /\ ip[r] \in Public /\ Kept(ip[r])
      /\ UNCHANGED <<now, cache, ip, arrived, answer>>
    BY DEF UpsertReturns, Acknowledged, LookupInv, TaskInv, db
<1>2. outcome'[r] = "provider" /\ TaskInv(r)'
    BY DEF UpsertReturns, Finish, TypeOK, LookupInv
<1>3. Told(r, ip[r], row'[r]) /\ arrived[r] <= answer[r].at
    BY <1>1, <1>2 DEF TaskInv, Told
<1>4. arrived[r] < answer[r].at + TTL + 2 * MaxSkew
    <2>1. answer[r].at \in Nat /\ arrived[r] \in Nat
        BY <1>3 DEF Told, TypeOK, Answer
    <2> QED BY <1>3, <2>1, TimeAssumption
<1>5. \A s \in Requests \ {r} : outcome'[s] = outcome[s] /\ row'[s] = row[s]
    BY DEF UpsertReturns, Finish, Hold, TypeOK
<1> QED BY <1>1, <1>2, <1>3, <1>4, <1>5, ReplyStep DEF Successes

LEMMA ProviderAnswerLearns ==
    ASSUME TypeOK, LookupInv, [Next]_vars, NEW r \in Requests, ProviderAnswers(r)
    PROVE  Promise!Learn(r)
<1>1. /\ pc[r] = "asking" /\ ip[r] \in Public /\ outcome[r] = "none" /\ answer[r] = NoAnswer
      /\ UNCHANGED <<now, cache, ip, arrived, outcome>>
    BY DEF ProviderAnswers, LookupInv, TaskInv, db
<1>2. PICK c \in Countries : answer' = [answer EXCEPT ![r] = [country |-> c, at |-> now]]
    BY DEF ProviderAnswers
<1> DEFINE new == [about |-> ip[r], country |-> c, at |-> now]
<1>3. Facts' = Facts \cup {new}
    <2>1. [country |-> c, at |-> now] # NoAnswer
        BY NoneAssumption DEF Answer, TypeOK
    <2>2. \A q \in Requests : q # r => answer'[q] = answer[q] /\ ip'[q] = ip[q]
        BY <1>1, <1>2 DEF TypeOK
    <2>3. answer'[r] = [country |-> c, at |-> now] /\ ip'[r] = ip[r]
        BY <1>1, <1>2 DEF TypeOK
    <2> QED BY <1>1, <2>1, <2>2, <2>3 DEF Facts
<1>4. Asked' = Asked /\ KeptIPs' = KeptIPs
    BY <1>1 DEF Asked, KeptIPs
<1>5. Verdicts[r] = "none" /\ Verdicts' = Verdicts
    <2>1. \A q \in Requests : outcome[q] \in Successes => row'[q] = row[q]
        BY <1>1 DEF ProviderAnswers, Hold, Successes, TypeOK
    <2> QED BY <1>1, <2>1 DEF Verdicts, Successes
<1>6. [about |-> ip[r], at |-> arrived[r]] \in Asked[r]
    BY <1>1 DEF Asked
<1> QED BY <1>1, <1>3, <1>4, <1>5, <1>6 DEF Promise!Learn, Promise!NoVerdict

LEMMA CommitKeepsPromise ==
    ASSUME TypeOK, LookupInv, [Next]_vars, NEW w \in writes, DbCommit(w)
    PROVE  Promise!Keep
<1>1. w.by \in Requests /\ WriteInv(w) /\ answer[w.by] # NoAnswer
    BY DEF TypeOK, LookupInv, WriteInv, Told
<1>2. cache' = [cache EXCEPT ![ip[w.by]] = w.row] /\ UNCHANGED <<now, task>>
    BY DEF DbCommit, Upserted
<1>3. KeptIPs' = KeptIPs \cup {ip[w.by]}
    BY <1>1, <1>2 DEF KeptIPs, WriteInv, TypeOK
<1>4. Facts' = Facts /\ Asked' = Asked /\ Verdicts' = Verdicts
    BY <1>2 DEF Facts, Asked, Verdicts, task
<1>5. \E fact \in Facts : fact.about = ip[w.by]
    BY <1>1, FactOf
<1> QED BY <1>2, <1>3, <1>4, <1>5 DEF Promise!Keep

LEMMA CrashRefuses ==
    ASSUME TypeOK, LookupInv, [Next]_vars, NEW p \in Pods, Crash(p)
    PROVE  Promise!Refuse
<1> DEFINE lost == {r \in Requests : pod[r] = p /\ pc[r] \notin {"idle", "done"}}
<1>1. UNCHANGED <<now, cache, ip, arrived, answer>>
    BY DEF Crash, db
<1>2. \A r \in lost : outcome[r] = "none" /\ outcome'[r] = "lost"
    BY DEF LookupInv, TaskInv, Crash
<1>3. \A r \in Requests \ lost : outcome'[r] = outcome[r] /\ row'[r] = row[r]
    BY DEF Crash
<1>4. Asked' = Asked
    BY <1>1 DEF Asked
<1>5. lost \in SUBSET {r \in Requests : outcome[r] = "none"}
    BY <1>2
<1>6. "lost" \notin Successes \cup {"none"}
    BY DEF Successes
<1> HIDE DEF lost
<1> QED BY <1>1, <1>2, <1>3, <1>4, <1>5, <1>6, RefuseStep

LEMMA InitRefines == Init => Promise!PromiseInit
BY AddressAssumption
   DEF Init, Promise!PromiseInit, Promise!NoVerdict, Asked, Facts, KeptIPs, Verdicts, Successes

LEMMA NextRefines ==
    ASSUME TypeOK, TypeOK', LookupInv, LookupInv', [Next]_vars
    PROVE  [Promise!PromiseNext]_(Promise!PromiseVars)
<1>1. ASSUME NEW r \in Requests, DbRejects(r) \/ ReadFails(r) \/ ProviderFails(r)
                                  \/ UpsertFails(r)
      PROVE  Promise!Refuse
    <2>1. pc[r] # "done" /\ UNCHANGED <<now, cache, ip, arrived, answer>>
        BY <1>1 DEF DbRejects, ReadFails, ProviderFails, UpsertFails, db
    <2>2. PICK e : e \notin Successes \cup {"none"} /\ Fail(r, e)
        BY <1>1 DEF DbRejects, ReadFails, ProviderFails, UpsertFails, ProviderErrors, Successes
    <2>3. Asked' = Asked
        BY <2>1 DEF Asked
    <2> QED BY <2>1, <2>2, <2>3, FailureRefuses
<1>2. ASSUME NEW r \in Requests, DbSelect(r) \/ ReadMiss(r) \/ SendUpsert(r)
      PROVE  UNCHANGED Promise!PromiseVars
    <2>1. /\ UNCHANGED <<now, cache, ip, arrived, answer, outcome>>
          /\ pc[r] # "done" /\ (row' = row \/ \E got : Hold(r, got))
        BY <1>2 DEF DbSelect, ReadMiss, SendUpsert, db
    <2>2. \A q \in Requests : outcome[q] \in Successes => row'[q] = row[q]
        BY <2>1 DEF LookupInv, TaskInv, Successes, Hold, TypeOK
    <2> QED BY <2>1, <2>2, HiddenStep
<1>3. ASSUME NEW w \in writes, DbAbort(w) PROVE UNCHANGED Promise!PromiseVars
    BY <1>3, HiddenStep DEF DbAbort, task
<1>4. ASSUME NEW p \in Pods, Restart(p) PROVE UNCHANGED Promise!PromiseVars
    BY <1>4, HiddenStep DEF Restart, db, task
<1>5. ASSUME UNCHANGED vars PROVE UNCHANGED Promise!PromiseVars
    BY <1>5, HiddenStep DEF vars, db, task
<1>6. ASSUME Tick PROVE Promise!Pass
    BY <1>6 DEF Tick, Promise!Pass, db, task, Asked, Facts, KeptIPs, Verdicts
<1>7. CASE UNCHANGED vars
    BY <1>5, <1>7
<1>8. CASE Next
    BY <1>1, <1>2, <1>3, <1>4, <1>6, <1>8, ArrivalRefines, HitReplies, UpsertReplies,
       ProviderAnswerLearns, CommitKeepsPromise, CrashRefuses
    DEF Next, Serve, ConnectionFails, Promise!PromiseNext
<1> QED BY <1>7, <1>8

(* The pods, the table and the clocks together do what LookupPromise says:  *)
(* every country given is one the provider gave, recent and kept.           *)
THEOREM ServiceKeepsPromise == Spec => KeepsPromise
BY InitType, NextType, InitKeeps, NextKeeps, InitRefines, NextRefines, PTL
DEF Spec, KeepsPromise, Promise!PromiseSpec
=============================================================================
