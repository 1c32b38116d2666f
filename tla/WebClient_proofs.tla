--------------------------- MODULE WebClient_proofs ---------------------------
(***************************************************************************)
(* Theorems about WebClient for any number of submits.                     *)
(***************************************************************************)
EXTENDS WebClient, TLAPS

(* activeController belongs to the last submit, and later ones are new.     *)
PageInv ==
    /\ TypeOK
    /\ FormFollowsRequest
    /\ PageShowsLastSubmit
    /\ active # None => active = last

-----------------------------------------------------------------------------
LEMMA PanelType ==
    ASSUME NEW ok, NEW body
    PROVE  PanelOf(ok, body) \in Panels \ {"loading"}
BY DEF PanelOf, Panels, Errors

LEMMA InitPage == Init => PageInv
<1> SUFFICES ASSUME Init PROVE PageInv
    OBVIOUS
<1>1. TypeOK
    <2>1. 0 \in 0..MaxSubmits
        BY SubmitAssumption
    <2> QED BY <2>1, Zenon DEF Init, TypeOK, Panels
<1>2. Open = {}
    BY DEF Init, Open, InFlight
<1> QED
    BY <1>1, <1>2 DEF Init, PageInv, FormFollowsRequest, PageShowsLastSubmit

LEMMA SubmitKeeps ==
    ASSUME PageInv, Submit
    PROVE  PageInv'
<1> DEFINE k == last + 1
<1>1. active = None /\ Open = {} /\ k \in Submits /\ TypeOK
    BY SubmitAssumption DEF PageInv, FormFollowsRequest, TypeOK, Submit, Accepts, Submits
<1>2. /\ last' = k /\ active' = k /\ disabled' = TRUE /\ panel' = "loading" /\ shownFor' = k
      /\ phase' = [phase EXCEPT ![k] = "fetching"] /\ timer' = [timer EXCEPT ![k] = TRUE]
      /\ timedOut' = timedOut
    BY DEF Submit, Show
<1>3. aborted' = aborted
    BY <1>1 DEF Submit, TypeOK, Submits, None
<1>4. TypeOK'
    BY <1>1, <1>2, <1>3, SubmitAssumption DEF TypeOK, Submits, InFlight, Panels
<1>5. Open' = {k}
    BY <1>1, <1>2 DEF Open, InFlight, TypeOK
<1>6. k # None
    BY <1>1 DEF Submits, None
<1>7. \A j \in Submits : (timer'[j] => j = active') /\ (aborted'[j] => timedOut'[j])
    BY <1>1, <1>2, <1>3 DEF PageInv, FormFollowsRequest, TypeOK, Submits, None
<1> QED
    BY <1>2, <1>4, <1>5, <1>6, <1>7 DEF PageInv, FormFollowsRequest, PageShowsLastSubmit

(* The end of an open request: the form comes back, the panel is not        *)
(* "loading", and both belong to the last submit.                           *)
LEMMA SettleKeeps ==
    ASSUME PageInv, NEW k \in Open, Settle(k), shownFor' = k, panel' \in Panels \ {"loading"},
           UNCHANGED <<last, aborted, timedOut>>
    PROVE  PageInv'
<1>1. k = active /\ k = last /\ active # None /\ TypeOK /\ k \in Submits
    BY DEF PageInv, FormFollowsRequest, Open
<1>2. active' = None /\ disabled' = FALSE
    BY <1>1 DEF Settle
<1>3. TypeOK'
    BY <1>1, <1>2 DEF TypeOK, Settle
<1>4. Open' = {}
    BY <1>1 DEF Open, InFlight, Settle, PageInv, FormFollowsRequest, TypeOK
<1>5. \A j \in Submits : ~timer'[j] /\ (aborted'[j] => timedOut'[j])
    BY <1>1 DEF Settle, PageInv, FormFollowsRequest, TypeOK
<1> QED
    BY <1>1, <1>2, <1>3, <1>4, <1>5 DEF PageInv, FormFollowsRequest, PageShowsLastSubmit

LEMMA ContinueKeeps ==
    ASSUME PageInv, NEW k \in Submits,
           HeadersArrive(k) \/ FetchFails(k) \/ FetchAborts(k) \/ BodyAborts(k)
             \/ \E ok \in BOOLEAN, body \in Bodies : BodyArrives(k, ok, body)
    PROVE  PageInv'
<1>1. k \in Open
    BY DEF Open, InFlight, HeadersArrive, FetchFails, FetchAborts, BodyAborts, BodyArrives
<1>2. ASSUME phase[k] = "fetching", phase' = [phase EXCEPT ![k] = "reading"],
             UNCHANGED <<timer, active, disabled, panel, shownFor, last, aborted, timedOut>>
      PROVE  PageInv'
    <2>1. TypeOK'
        BY <1>2 DEF PageInv, TypeOK, InFlight
    <2>2. Open' = Open
        BY <1>2 DEF Open, InFlight, PageInv, TypeOK
    <2> QED BY <1>2, <2>1, <2>2 DEF PageInv, FormFollowsRequest, PageShowsLastSubmit
<1>3. CASE FetchAborts(k)
    <2>1. timedOut[k]
        BY <1>3 DEF FetchAborts, PageInv, FormFollowsRequest
    <2> QED BY <1>1, <1>3, <2>1, SettleKeeps DEF FetchAborts, Show, Panels, Errors
<1>4. CASE HeadersArrive(k)
    BY <1>1, <1>2, <1>4, SettleKeeps DEF HeadersArrive, Show, Panels, Errors
<1>5. CASE FetchFails(k) \/ BodyAborts(k)
    BY <1>1, <1>5, SettleKeeps DEF FetchFails, BodyAborts, Show, Panels, Errors
<1>6. CASE \E ok \in BOOLEAN, body \in Bodies : BodyArrives(k, ok, body)
    BY <1>1, <1>6, PanelType, SettleKeeps DEF BodyArrives, Show
<1> QED BY <1>3, <1>4, <1>5, <1>6

LEMMA NextPage == PageInv /\ [Next]_vars => PageInv'
<1> SUFFICES ASSUME PageInv, [Next]_vars PROVE PageInv'
    OBVIOUS
<1>1. CASE UNCHANGED vars
    BY <1>1 DEF vars, PageInv, TypeOK, FormFollowsRequest, PageShowsLastSubmit, Open
<1>2. CASE SubmitEmpty \/ PickExample
    <2>1. UNCHANGED <<last, phase, timer, aborted, timedOut, active, disabled>>
          /\ panel' \in {"hint", "blank"} /\ shownFor' = last /\ ~disabled
        BY <1>2 DEF SubmitEmpty, PickExample, Accepts, Show, PageInv, PageShowsLastSubmit
    <2>2. TypeOK'
        BY <2>1 DEF PageInv, TypeOK, Panels
    <2> QED
        BY <2>1, <2>2 DEF PageInv, FormFollowsRequest, PageShowsLastSubmit, Open
<1>3. ASSUME NEW k \in Submits, TimerFires(k) PROVE PageInv'
    <2>1. TypeOK'
        BY <1>3 DEF TimerFires, PageInv, TypeOK
    <2>2. \A j \in Submits : (timer'[j] => timer[j]) /\ (aborted'[j] => timedOut'[j])
        BY <1>3 DEF TimerFires, PageInv, FormFollowsRequest, TypeOK
    <2> QED
        BY <1>3, <2>1, <2>2
        DEF TimerFires, PageInv, FormFollowsRequest, PageShowsLastSubmit, Open
<1> QED BY <1>1, <1>2, <1>3, SubmitKeeps, ContinueKeeps DEF Next

-----------------------------------------------------------------------------
(* The theorems. *)

(* The variables of the page keep their types.                              *)
THEOREM TypeCorrect == Spec => []TypeOK
<1>1. PageInv => TypeOK
    BY DEF PageInv
<1> QED BY <1>1, InitPage, NextPage, PTL DEF Spec

(* Form, loading panel, timer and activeController agree on the one open    *)
(* request, however often the form is submitted.                            *)
THEOREM FormFollowsRequestHolds == Spec => []FormFollowsRequest
<1>1. PageInv => FormFollowsRequest
    BY DEF PageInv
<1> QED BY <1>1, InitPage, NextPage, PTL DEF Spec

(* No handler of an earlier submit overwrites what the last one shows.      *)
THEOREM PageShowsLastSubmitHolds == Spec => []PageShowsLastSubmit
<1>1. PageInv => PageShowsLastSubmit
    BY DEF PageInv
<1> QED BY <1>1, InitPage, NextPage, PTL DEF Spec

-----------------------------------------------------------------------------
(* A locked form waits for one request, whose timer is pending or has       *)
(* aborted it.                                                              *)
LockHasAWayOut ==
    disabled => /\ active \in Submits /\ phase[active] \in InFlight
                /\ timer[active] \/ (aborted[active] /\ timedOut[active])

(* The submits that were made are those up to last.                         *)
UnsentAreNew == \A k \in Submits : phase[k] = "new" <=> k > last

ClientInv == PageInv /\ LockHasAWayOut /\ UnsentAreNew

(* How far a submit is from its end, by its await and its timer.            *)
Left(await, pending) ==
    (IF await = "new" THEN 6
     ELSE IF await = "fetching" THEN 4
     ELSE IF await = "reading" THEN 2 ELSE 0)
    + IF pending THEN 1 ELSE 0

StepsLeft(k) == Left(phase[k], timer[k])

Undisturbed(k) == UNCHANGED <<phase[k], timer[k], aborted[k], timedOut[k]>>

GoesForwards(k) == Undisturbed(k) \/ StepsLeft(k)' < StepsLeft(k)

LEMMA OrderOfAwaits ==
    /\ Left("fetching", TRUE) < Left("new", FALSE)
    /\ \A await \in InFlight : \A pending \in BOOLEAN :
          /\ Left("ended", FALSE) < Left(await, pending)
          /\ Left(await, FALSE) < Left(await, TRUE)
    /\ \A pending \in BOOLEAN : Left("reading", pending) < Left("fetching", pending)
BY DEF Left, InFlight

(* A submit changes only itself.                                            *)
LEMMA OneMoves ==
    ASSUME TypeOK, NEW k \in Submits, NEW await, NEW pending,
           phase' = [phase EXCEPT ![k] = await], timer' = [timer EXCEPT ![k] = pending],
           \A j \in Submits \ {k} : aborted'[j] = aborted[j] /\ timedOut'[j] = timedOut[j],
           Left(await, pending) < Left(phase[k], timer[k])
    PROVE  \A j \in Submits : GoesForwards(j)
<1>1. phase'[k] = await /\ timer'[k] = pending
    BY DEF TypeOK
<1>2. ASSUME NEW j \in Submits \ {k} PROVE phase'[j] = phase[j] /\ timer'[j] = timer[j]
    BY DEF TypeOK
<1>3. GoesForwards(k)
    BY <1>1, Zenon DEF GoesForwards, StepsLeft
<1>4. ASSUME NEW j \in Submits \ {k} PROVE GoesForwards(j)
    BY <1>2, Zenon DEF GoesForwards, Undisturbed
<1> QED BY <1>3, <1>4

LEMMA SubmitForwards ==
    ASSUME ClientInv, Submit
    PROVE  /\ LockHasAWayOut' /\ UnsentAreNew'
           /\ \A j \in Submits : GoesForwards(j)
<1> DEFINE k == last + 1
<1>1. k \in Submits /\ TypeOK /\ active = None /\ last \in Nat
    BY SubmitAssumption
    DEF ClientInv, PageInv, FormFollowsRequest, TypeOK, Submit, Accepts, Submits
<1>2. /\ active' = k /\ last' = k /\ phase' = [phase EXCEPT ![k] = "fetching"]
      /\ timer' = [timer EXCEPT ![k] = TRUE] /\ timedOut' = timedOut
    BY DEF Submit
<1>3. aborted' = aborted
    BY <1>1 DEF Submit, TypeOK, Submits, None
<1>4. phase[k] = "new" /\ ~timer[k] /\ timer[k] \in BOOLEAN
    BY <1>1 DEF ClientInv, UnsentAreNew, PageInv, FormFollowsRequest, Submits, None, TypeOK
<1>5. timer[k] = FALSE
    BY <1>4
<1>6. phase'[k] = "fetching" /\ timer'[k]
    BY <1>1, <1>2 DEF TypeOK
<1>7. LockHasAWayOut'
    BY <1>1, <1>2, <1>6 DEF LockHasAWayOut, InFlight
<1>8. UnsentAreNew'
    <2>1. ASSUME NEW j \in Submits \ {k} PROVE phase'[j] = phase[j] /\ (j > last' <=> j > last)
        BY <1>1, <1>2 DEF TypeOK, Submits
    <2>2. ~(k > last') /\ phase'[k] # "new"
        BY <1>1, <1>2, <1>6
    <2> QED BY <2>1, <2>2 DEF ClientInv, UnsentAreNew
<1>9. Left("fetching", TRUE) < Left(phase[k], timer[k])
    BY <1>4, <1>5, OrderOfAwaits
<1>10. \A j \in Submits : GoesForwards(j)
    BY <1>1, <1>2, <1>3, <1>9, OneMoves
<1> QED BY <1>7, <1>8, <1>10

LEMMA TimerForwards ==
    ASSUME ClientInv, NEW k \in Submits, TimerFires(k)
    PROVE  /\ LockHasAWayOut' /\ UnsentAreNew'
           /\ \A j \in Submits : GoesForwards(j)
<1>1. TypeOK /\ timer[k] /\ timer[k] \in BOOLEAN /\ k \in Open /\ k = active
    BY DEF TimerFires, ClientInv, PageInv, FormFollowsRequest, TypeOK, Submits, None
<1>2. /\ timer' = [timer EXCEPT ![k] = FALSE] /\ phase' = phase /\ last' = last
      /\ active' = active /\ aborted'[k] /\ timedOut'[k]
      /\ \A j \in Submits \ {k} : aborted'[j] = aborted[j] /\ timedOut'[j] = timedOut[j]
    BY <1>1 DEF TimerFires, TypeOK
<1>3. phase' = [phase EXCEPT ![k] = phase[k]]
    BY <1>1, <1>2 DEF TypeOK
<1>4. Left(phase[k], FALSE) < Left(phase[k], timer[k])
    BY <1>1, OrderOfAwaits DEF Open
<1>5. \A j \in Submits : GoesForwards(j)
    BY <1>1, <1>2, <1>3, <1>4, OneMoves
<1>6. LockHasAWayOut'
    BY <1>1, <1>2, Zenon DEF LockHasAWayOut, Open
<1>7. UnsentAreNew'
    BY <1>2 DEF ClientInv, UnsentAreNew
<1> QED BY <1>5, <1>6, <1>7

LEMMA ContinueForwards ==
    ASSUME ClientInv, NEW k \in Submits,
           HeadersArrive(k) \/ FetchFails(k) \/ FetchAborts(k) \/ BodyAborts(k)
             \/ \E ok \in BOOLEAN, body \in Bodies : BodyArrives(k, ok, body)
    PROVE  /\ LockHasAWayOut' /\ UnsentAreNew'
           /\ \A j \in Submits : GoesForwards(j)
<1>1. k \in Open /\ k = active /\ TypeOK /\ timer[k] \in BOOLEAN /\ UNCHANGED <<last, aborted, timedOut>>
    BY DEF HeadersArrive, FetchFails, FetchAborts, BodyAborts, BodyArrives, Open, InFlight,
           ClientInv, PageInv, FormFollowsRequest, TypeOK
<1>2. ASSUME NEW await \in {"reading", "ended"}, phase' = [phase EXCEPT ![k] = await]
      PROVE  UnsentAreNew'
    <2>1. phase'[k] # "new" /\ phase[k] # "new"
        BY <1>1, <1>2 DEF TypeOK, Open, InFlight
    <2>2. \A j \in Submits \ {k} : phase'[j] = phase[j]
        BY <1>1, <1>2 DEF TypeOK
    <2> QED BY <1>1, <2>1, <2>2 DEF ClientInv, UnsentAreNew
<1>3. CASE Settle(k)
    <2>1. disabled' = FALSE
        BY <1>1, <1>3 DEF Settle
    <2>2. Left("ended", FALSE) < Left(phase[k], timer[k])
        BY <1>1, OrderOfAwaits DEF Open
    <2>3. \A j \in Submits : GoesForwards(j)
        BY <1>1, <1>3, <2>2, OneMoves DEF Settle
    <2>4. LockHasAWayOut'
        BY <2>1, Zenon DEF LockHasAWayOut
    <2> QED BY <1>2, <1>3, <2>3, <2>4 DEF Settle
<1>4. CASE /\ phase[k] = "fetching" /\ phase' = [phase EXCEPT ![k] = "reading"]
           /\ UNCHANGED <<timer, active, disabled>>
    <2>1. timer' = [timer EXCEPT ![k] = timer[k]] /\ phase'[k] = "reading"
        BY <1>1, <1>4 DEF TypeOK
    <2>2. Left("reading", timer[k]) < Left(phase[k], timer[k])
        BY <1>1, <1>4, OrderOfAwaits
    <2>3. \A j \in Submits : GoesForwards(j)
        BY <1>1, <1>4, <2>1, <2>2, OneMoves
    <2>4. LockHasAWayOut'
        BY <1>1, <1>4, <2>1 DEF ClientInv, LockHasAWayOut, InFlight
    <2> QED BY <1>2, <1>4, <2>3, <2>4
<1> QED
    BY <1>3, <1>4, Zenon DEF HeadersArrive, FetchFails, FetchAborts, BodyAborts, BodyArrives

LEMMA NextForwards ==
    ASSUME ClientInv, [Next]_vars
    PROVE  /\ LockHasAWayOut' /\ UnsentAreNew'
           /\ [\A j \in Submits : GoesForwards(j)]_vars
<1>1. CASE UNCHANGED vars
    BY <1>1 DEF vars, ClientInv, LockHasAWayOut, UnsentAreNew
<1>2. CASE SubmitEmpty \/ PickExample
    <2>1. UNCHANGED <<last, phase, timer, aborted, timedOut, active, disabled>>
        BY <1>2 DEF SubmitEmpty, PickExample
    <2>2. LockHasAWayOut' /\ UnsentAreNew'
        BY <2>1 DEF ClientInv, LockHasAWayOut, UnsentAreNew
    <2>3. \A j \in Submits : GoesForwards(j)
        BY <2>1, Zenon DEF GoesForwards, Undisturbed
    <2> QED BY <2>2, <2>3
<1> QED BY <1>1, <1>2, SubmitForwards, TimerForwards, ContinueForwards DEF Next

(* What can be proved of FormComesBack without its fairness: while the form *)
(* is locked, the one open request has its timer pending or was aborted by  *)
(* it, so a task that will settle it is always due; a submit is at most six *)
(* steps from its end and every step of it goes forwards, however often the *)
(* form is used (app.js:222-225, 257-263).                                  *)
THEOREM LockedFormHasAWayOut ==
    Spec =>
        /\ []LockHasAWayOut
        /\ [](\A k \in Submits : /\ StepsLeft(k) \in 0..6
                                 /\ StepsLeft(k) = 0 <=> phase[k] = "ended")
        /\ [][\A k \in Submits : GoesForwards(k)]_vars
<1>1. Init => ClientInv
    BY InitPage DEF Init, ClientInv, LockHasAWayOut, UnsentAreNew, Submits
<1>2. ClientInv /\ [Next]_vars => ClientInv' /\ [\A k \in Submits : GoesForwards(k)]_vars
    BY NextPage, NextForwards DEF ClientInv
<1>3. ASSUME ClientInv, NEW k \in Submits
      PROVE  StepsLeft(k) \in 0..6 /\ (StepsLeft(k) = 0 <=> phase[k] = "ended")
    <2>1. phase[k] \in {"new", "ended"} \cup InFlight /\ timer[k] \in BOOLEAN
        BY <1>3 DEF ClientInv, PageInv, TypeOK
    <2>2. timer[k] => phase[k] \in InFlight
        BY <1>3 DEF ClientInv, PageInv, FormFollowsRequest, Open, Submits, None
    <2> QED BY <2>1, <2>2 DEF StepsLeft, Left, InFlight
<1>4. ClientInv => LockHasAWayOut
    BY DEF ClientInv
<1>5. ClientInv => \A k \in Submits : /\ StepsLeft(k) \in 0..6
                                      /\ StepsLeft(k) = 0 <=> phase[k] = "ended"
    BY <1>3
<1> QED BY <1>1, <1>2, <1>4, <1>5, PTL DEF Spec
=============================================================================
