------------------------------ MODULE WebClient ------------------------------
(***************************************************************************)
(* The page of ip_country_api/static/app.js: one action is one task of the *)
(* browser's event loop with the promise continuations that follow it.     *)
(* A submit handler suspends at the await of fetch and at the await of the *)
(* body; several of them are kept apart by their AbortControllers.  The    *)
(* text of the panels and the focus are left out.                          *)
(***************************************************************************)
EXTENDS Integers

CONSTANT MaxSubmits   \* bound of the explored submits

ASSUME SubmitAssumption == MaxSubmits \in Nat

Submits == 1..MaxSubmits
None == 0             \* activeController = null

(* What the page shows; the last four are showError with its titles: of the *)
(* envelope's code, of INTERNAL_ERROR, and the two overrides.               *)
Errors == {"api error", "internal error", "timeout", "unreachable"}
Panels == {"blank", "hint", "loading", "result"} \cup Errors

(* What parsePayload makes of a body: JSON that is falsy, or no JSON at all; *)
(* an error envelope whose code the page knows; any other JSON value.       *)
Bodies == {"nothing", "envelope", "value"}

VARIABLES
    last,        \* how many submits there were
    phase,       \* phase[k]: the await submit k is suspended at
    timer,       \* timer[k]: the timeout of REQUEST_TIMEOUT_MS is pending
    aborted,     \* aborted[k]: its controller's signal
    timedOut,    \* timedOut[k]
    active,      \* activeController
    disabled,    \* button.disabled, input.disabled
    panel,       \* the panel that is not hidden
    shownFor     \* history: the submit whose handler showed it

vars == <<last, phase, timer, aborted, timedOut, active, disabled, panel, shownFor>>
InFlight == {"fetching", "reading"}

TypeOK ==
    /\ last \in 0..MaxSubmits
    /\ phase \in [Submits -> {"new", "ended"} \cup InFlight]
    /\ timer \in [Submits -> BOOLEAN]
    /\ aborted \in [Submits -> BOOLEAN]
    /\ timedOut \in [Submits -> BOOLEAN]
    /\ active \in Submits \cup {None}
    /\ disabled \in BOOLEAN
    /\ panel \in Panels
    /\ shownFor \in 0..MaxSubmits

Init ==
    /\ last = 0
    /\ phase = [k \in Submits |-> "new"]
    /\ timer = [k \in Submits |-> FALSE]
    /\ aborted = [k \in Submits |-> FALSE]
    /\ timedOut = [k \in Submits |-> FALSE]
    /\ active = None
    /\ disabled = FALSE
    /\ panel = "blank"
    /\ shownFor = 0

-----------------------------------------------------------------------------
(* `if (button.disabled) return` *)
Accepts_Always == TRUE
Accepts == ~disabled

(* `!response.ok || !payload`: whatever else an ok response holds is shown   *)
(* as a result.  `ERROR_MESSAGES[code] || ERROR_MESSAGES.INTERNAL_ERROR`    *)
PanelOf_NoFallback(ok, body) ==
    IF ok /\ body # "nothing" THEN "result"
    ELSE IF body = "envelope" THEN "api error" ELSE "undefined"
PanelOf(ok, body) ==
    IF ok /\ body # "nothing" THEN "result"
    ELSE IF body = "envelope" THEN "api error" ELSE "internal error"

Show(k, what) == panel' = what /\ shownFor' = k

(* The `finally` of the submit handler. *)
Settle_ForgetsForm(k) ==
    /\ phase' = [phase EXCEPT ![k] = "ended"]
    /\ timer' = [timer EXCEPT ![k] = FALSE]
    /\ active' = IF active = k THEN None ELSE active
    /\ UNCHANGED disabled
Settle(k) ==
    /\ phase' = [phase EXCEPT ![k] = "ended"]
    /\ timer' = [timer EXCEPT ![k] = FALSE]
    /\ active' = IF active = k THEN None ELSE active
    /\ disabled' = (disabled /\ active # k)

(* An empty input is refused before anything is sent. *)
SubmitEmpty ==
    /\ Accepts
    /\ Show(last, "hint")
    /\ UNCHANGED <<last, phase, timer, aborted, timedOut, active, disabled>>

(* The submit button, the enter key or the retry button, up to fetch.       *)
Submit ==
    LET k == last + 1 IN
    /\ Accepts /\ last < MaxSubmits
    /\ last' = k
    /\ phase' = [phase EXCEPT ![k] = "fetching"]
    /\ timer' = [timer EXCEPT ![k] = TRUE]
    /\ aborted' = [j \in Submits |-> aborted[j] \/ j = active]
    /\ active' = k
    /\ disabled' = TRUE
    /\ Show(k, "loading")
    /\ UNCHANGED timedOut

(* An example button fills the input in and clears the message below it.    *)
PickExample ==
    /\ ~disabled /\ panel = "hint"
    /\ panel' = "blank"
    /\ UNCHANGED <<last, phase, timer, aborted, timedOut, active, disabled, shownFor>>

(* The headers arrive: JSON is read further, anything else is no payload.   *)
HeadersArrive(k) ==
    /\ phase[k] = "fetching" /\ ~aborted[k]
    /\ \/ /\ phase' = [phase EXCEPT ![k] = "reading"]
          /\ UNCHANGED <<timer, active, disabled, panel, shownFor>>
       \/ Settle(k) /\ Show(k, "internal error")
    /\ UNCHANGED <<last, aborted, timedOut>>

(* The body of an ok response, or of another, ends.                         *)
BodyArrives(k, ok, body) ==
    /\ phase[k] = "reading" /\ ~aborted[k]
    /\ Show(k, PanelOf(ok, body))
    /\ Settle(k)
    /\ UNCHANGED <<last, aborted, timedOut>>

FetchFails(k) ==
    /\ phase[k] = "fetching" /\ ~aborted[k]
    /\ Show(k, "unreachable")
    /\ Settle(k)
    /\ UNCHANGED <<last, aborted, timedOut>>

TimerFires_OnlyFetching(k) ==
    /\ timer[k] /\ phase[k] = "fetching"
    /\ timer' = [timer EXCEPT ![k] = FALSE]
    /\ timedOut' = [timedOut EXCEPT ![k] = TRUE]
    /\ aborted' = [aborted EXCEPT ![k] = TRUE]
    /\ UNCHANGED <<last, phase, active, disabled, panel, shownFor>>
TimerFires(k) ==
    /\ timer[k]
    /\ timer' = [timer EXCEPT ![k] = FALSE]
    /\ timedOut' = [timedOut EXCEPT ![k] = TRUE]
    /\ aborted' = [aborted EXCEPT ![k] = TRUE]
    /\ UNCHANGED <<last, phase, active, disabled, panel, shownFor>>

(* fetch rejects with an AbortError: silent, unless its own timer did it.   *)
FetchAborts(k) ==
    /\ phase[k] = "fetching" /\ aborted[k]
    /\ IF timedOut[k] THEN Show(k, "timeout") ELSE UNCHANGED <<panel, shownFor>>
    /\ Settle(k)
    /\ UNCHANGED <<last, aborted, timedOut>>

(* response.json() rejects with it: parsePayload returns null.              *)
BodyAborts(k) ==
    /\ phase[k] = "reading" /\ aborted[k]
    /\ Show(k, "internal error")
    /\ Settle(k)
    /\ UNCHANGED <<last, aborted, timedOut>>

Next ==
    \/ SubmitEmpty \/ Submit \/ PickExample
    \/ \E k \in Submits :
          \/ HeadersArrive(k) \/ FetchFails(k) \/ TimerFires(k)
          \/ FetchAborts(k) \/ BodyAborts(k)
          \/ \E ok \in BOOLEAN, body \in Bodies : BodyArrives(k, ok, body)

(* Timers fire and aborts are delivered; the network may stay silent.       *)
Fairness ==
    \A k \in Submits : WF_vars(TimerFires(k)) /\ WF_vars(FetchAborts(k) \/ BodyAborts(k))

Spec == Init /\ [][Next]_vars
FairSpec == Spec /\ Fairness

-----------------------------------------------------------------------------
(* Properties. *)

Open == {k \in Submits : phase[k] \in InFlight}

(* The form is locked and the page says it is loading exactly while the     *)
(* one request is open that activeController stands for, whatever order     *)
(* answers, failures and the timer come in (app.js:203-207, 216-228,        *)
(* 257-263); only the timer of that request is pending or aborts it.        *)
FormFollowsRequest ==
    /\ Open = IF active = None THEN {} ELSE {active}
    /\ disabled <=> active # None
    /\ panel = "loading" <=> active # None
    /\ \A k \in Submits : (timer[k] => k = active) /\ (aborted[k] => timedOut[k])

(* What is shown belongs to the last submit: no late handler of an earlier  *)
(* one, its abort included, overwrites it (app.js:191-201, 245-256).        *)
PageShowsLastSubmit == shownFor = last

(* Whatever the server and the network do, a submitted form becomes usable  *)
(* again (app.js:222-225, 257-263).                                         *)
FormComesBack == disabled ~> ~disabled

(* "The lookup timed out" (app.js:249): a submit whose request was aborted  *)
(* by its timer ends with that message.                                     *)
TimeoutIsNamed ==
    \A k \in Submits :
        shownFor = k /\ timedOut[k] /\ phase[k] = "ended" => panel \in {"timeout", "hint", "blank"}
=============================================================================
