---------------------------- MODULE LookupPromise ----------------------------
(***************************************************************************)
(* What the lookup API promises, without pods, connections, transactions   *)
(* or clocks: a client that asks for the country of an address gets one    *)
(* the provider really gave for that address, learnt less than Window      *)
(* before it asked, and only once that address is in the table to stay; or *)
(* it gets an error.  A verdict is final.                                  *)
(***************************************************************************)
EXTENDS Integers

CONSTANTS
    Clients,    \* lookups
    Addresses,
    Countries,
    Window      \* how old an answer may be when the client asks

(* No country is called either of these. *)
NoVerdict == "none"
Refused == "refused"

VARIABLES
    time,
    asked,     \* asked[c]: the addresses c asked for, with the time: none or one
    known,     \* the facts the provider has told
    kept,      \* addresses the table holds a row for
    verdict    \* verdict[c]: a country, Refused or NoVerdict

PromiseVars == <<time, asked, known, kept, verdict>>

PromiseInit ==
    /\ time = 0
    /\ asked = [c \in Clients |-> {}]
    /\ known = {}
    /\ kept = {}
    /\ verdict = [c \in Clients |-> NoVerdict]

Ask(c) ==
    /\ asked[c] = {} /\ verdict[c] = NoVerdict
    /\ \E i \in Addresses : asked' = [asked EXCEPT ![c] = {[about |-> i, at |-> time]}]
    /\ UNCHANGED <<time, known, kept, verdict>>

(* The provider is asked only on behalf of a client that still waits. *)
Learn(c) ==
    /\ verdict[c] = NoVerdict
    /\ \E q \in asked[c], country \in Countries :
          known' = known \cup {[about |-> q.about, country |-> country, at |-> time]}
    /\ UNCHANGED <<time, asked, kept, verdict>>

Keep ==
    /\ \E fact \in known : kept' = kept \cup {fact.about}
    /\ UNCHANGED <<time, asked, known, verdict>>

Reply(c) ==
    /\ verdict[c] = NoVerdict
    /\ \E q \in asked[c], fact \in known :
          /\ fact.about = q.about
          /\ q.at < fact.at + Window
          /\ q.about \in kept
          /\ verdict' = [verdict EXCEPT ![c] = fact.country]
    /\ UNCHANGED <<time, asked, known, kept>>

(* An error, or the loss of a pod with all the clients it served. *)
Refuse ==
    /\ \E C \in SUBSET {c \in Clients : verdict[c] = NoVerdict} :
          verdict' = [c \in Clients |-> IF c \in C THEN Refused ELSE verdict[c]]
    /\ UNCHANGED <<time, asked, known, kept>>

Pass ==
    /\ time' = time + 1
    /\ UNCHANGED <<asked, known, kept, verdict>>

PromiseNext ==
    \/ \E c \in Clients : Ask(c) \/ Learn(c) \/ Reply(c)
    \/ Keep \/ Refuse \/ Pass

PromiseSpec == PromiseInit /\ [][PromiseNext]_PromiseVars
=============================================================================
