-------------------------- MODULE MCIPLookupService --------------------------
(* Instances of IPLookupService for TLC. *)
EXTENDS IPLookupService, TLC

CONSTANTS r1, r2, p1, p2, google, lan, scoped, us, de

(* Two spellings of one public address, and one input of each other kind: a *)
(* public address with a zone, which Python accepts and INET does not, one  *)
(* that is not public, and no address at all.                               *)
Kinds == ("8.8.8.8" :> google) @@ (" 8.8.8.8 " :> google)
                @@ ("2001:4860:4860::8888%eth0" :> scoped)
                @@ ("10.0.0.1" :> lan) @@ ("nonsense" :> Malformed)

Symmetry ==
    Permutations(Requests) \cup Permutations(Pods) \cup Permutations(Countries)

(* PostgreSQL is up and every connection holds. *)
HealthyNext ==
    \/ \E r \in Requests : Serve(r)
    \/ \E w \in writes : DbCommit(w)
    \/ \E p \in Pods : Crash(p) \/ Restart(p)
    \/ Tick
HealthySpec == Init /\ [][HealthyNext]_vars

(* DATABASE_UNAVAILABLE says "The database is temporarily unavailable."     *)
(* (domain/errors.py:21), and "The service validates and normalizes the     *)
(* address before querying PostgreSQL" (README.md:17): while the database   *)
(* is healthy no lookup ends with that code.                                *)
AvailableDatabaseIsNotBlamed ==
    \A r \in Requests : outcome[r] # "DATABASE_UNAVAILABLE"
=============================================================================
