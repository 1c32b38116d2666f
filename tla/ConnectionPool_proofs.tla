------------------------- MODULE ConnectionPool_proofs -------------------------
(***************************************************************************)
(* Theorems about ConnectionPool for any finite set of tasks and any size  *)
(* of the pool.                                                            *)
(***************************************************************************)
EXTENDS ConnectionPool, FiniteSetTheorems, TLAPS

InUse == {"held", "broken"} \cup Opening

(* The counters of the pool and the positions they count.                   *)
PoolOK ==
    /\ live \in Nat /\ dead \in Nat /\ total \in Int
    /\ conn \in [Tasks -> Positions]
    /\ total = live + dead + Cardinality(Using)
    /\ total <= Capacity
    /\ live + dead <= PoolSize

(* A task has a place in the pool exactly while it runs a statement.        *)
PlacesOK ==
    /\ \A t \in Tasks : conn[t] # "none" <=> at[t] \in Statements
    /\ ~serving => total = 0 /\ InFlight = {}

(* A verdict the two properties about causes allow task t to give.          *)
Justified(t, how, s) ==
    /\ how \in {"database unavailable", "schema unavailable"} =>
          s \cap ({"down", "no table"} \cup Causes) # {}
    /\ t \in Checks =>
          /\ how = "ready" => "ready" \in s
          /\ how = "schema unavailable" => "no table" \in s
          /\ how = "database unavailable" => s \cap ({"down"} \cup Causes) # {}

LEMMA SchemaIsJustified ==
    ASSUME NEW t, NEW s, "no table" \in s
    PROVE  Justified(t, "schema unavailable", s)
<1>1. s \cap ({"down", "no table"} \cup Causes) # {}
    OBVIOUS
<1>2. "schema unavailable" # "ready" /\ "schema unavailable" # "database unavailable"
    OBVIOUS
<1> QED BY <1>1, <1>2, Zenon DEF Justified

LEMMA UnavailableIsJustified ==
    ASSUME NEW t, NEW s, s \cap ({"down"} \cup Causes) # {}
    PROVE  Justified(t, "database unavailable", s)
<1>1. s \cap ({"down", "no table"} \cup Causes) # {}
    OBVIOUS
<1>2. "database unavailable" # "ready" /\ "database unavailable" # "schema unavailable"
    OBVIOUS
<1> QED BY <1>1, <1>2, Zenon DEF Justified

(* What a task has seen includes what it is looking at, and a task that has *)
(* a verdict has ended and has a reason for it.                             *)
SeenOK ==
    \A t \in Tasks :
        /\ t \in InFlight => db \in seen[t]
        /\ conn[t] = "broken" => "down" \in seen[t]
        /\ verdict[t] # "none" => at[t] = "ended"
        /\ Justified(t, verdict[t], seen[t])

PoolInv == TypeOK /\ PoolOK /\ PlacesOK /\ SeenOK

-----------------------------------------------------------------------------
(* Cardinality. *)

LEMMA UsingFinite == IsFiniteSet(Using) /\ Cardinality(Using) \in Nat
<1>1. Using \in SUBSET Tasks
    BY DEF Using
<1> QED BY <1>1, TaskAssumption, FS_Subset, FS_CardinalityType

(* A task joins the users, leaves them, or changes nothing about them.      *)
LEMMA UsingJoin ==
    ASSUME conn \in [Tasks -> Positions], NEW t \in Tasks \ Using, NEW c \in InUse,
           conn' = [conn EXCEPT ![t] = c]
    PROVE  Cardinality(Using') = Cardinality(Using) + 1
<1>1. Using' = Using \cup {t}
    BY DEF Using, InUse, Opening
<1> QED BY <1>1, UsingFinite, FS_AddElement

LEMMA UsingLeave ==
    ASSUME conn \in [Tasks -> Positions], NEW t \in Using,
           conn' = [conn EXCEPT ![t] = "none"]
    PROVE  Cardinality(Using') = Cardinality(Using) - 1
<1>1. Using' = Using \ {t}
    BY DEF Using, Opening
<1> QED BY <1>1, UsingFinite, FS_RemoveElement

LEMMA UsingSame ==
    ASSUME conn \in [Tasks -> Positions], conn' \in [Tasks -> Positions],
           \A t \in Tasks : conn'[t] \in InUse <=> conn[t] \in InUse
    PROVE  Cardinality(Using') = Cardinality(Using)
<1>1. Using' = Using
    BY DEF Using, InUse
<1> QED BY <1>1

-----------------------------------------------------------------------------
(* The operations of the pool. *)

LEMMA TakeQueuedKeeps ==
    ASSUME PoolOK, NEW t \in Tasks \ Using, TakeQueued(t)
    PROVE  PoolOK' /\ \E c \in {"held", "reopening"} : conn' = [conn EXCEPT ![t] = c]
<1>1. PICK c \in {"held", "reopening"} : conn' = [conn EXCEPT ![t] = c]
    BY DEF TakeQueued, Pinged
<1>2. c \in InUse /\ conn' \in [Tasks -> Positions]
    BY <1>1 DEF InUse, Opening, PoolOK, Positions
<1>3. Cardinality(Using') = Cardinality(Using) + 1
    BY <1>1, <1>2, UsingJoin DEF PoolOK
<1>4. CASE live > 0 /\ live' = live - 1 /\ dead' = dead /\ total' = total
    <2>1. live' \in Nat /\ live' + dead' <= PoolSize
        BY <1>4, PoolAssumption DEF PoolOK
    <2>2. total' = live' + dead' + Cardinality(Using')
        BY <1>3, <1>4, UsingFinite DEF PoolOK
    <2> QED BY <1>1, <1>2, <1>4, <2>1, <2>2 DEF PoolOK, Capacity
<1>5. CASE dead > 0 /\ dead' = dead - 1 /\ live' = live /\ total' = total
    <2>1. dead' \in Nat /\ live' + dead' <= PoolSize
        BY <1>5, PoolAssumption DEF PoolOK
    <2>2. total' = live' + dead' + Cardinality(Using')
        BY <1>3, <1>5, UsingFinite DEF PoolOK
    <2> QED BY <1>1, <1>2, <1>5, <2>1, <2>2 DEF PoolOK, Capacity
<1> QED BY <1>1, <1>4, <1>5 DEF TakeQueued

LEMMA OpenAnotherKeeps ==
    ASSUME PoolOK, NEW t \in Tasks \ Using, OpenAnother(t)
    PROVE  PoolOK' /\ conn' = [conn EXCEPT ![t] = "opening"]
<1>1. conn' = [conn EXCEPT ![t] = "opening"] /\ conn' \in [Tasks -> Positions]
    BY DEF OpenAnother, PoolOK, Positions, Opening
<1>2. Cardinality(Using') = Cardinality(Using) + 1
    BY <1>1, UsingJoin DEF PoolOK, InUse, Opening
<1> QED BY <1>1, <1>2, UsingFinite, PoolAssumption DEF PoolOK, Capacity, OpenAnother

LEMMA CheckoutKeeps ==
    ASSUME PoolOK, NEW t \in Tasks \ Using, conn[t] = "none", Checkout(t)
    PROVE  PoolOK' /\ \E c \in {"held", "waiting"} \cup Opening : conn' = [conn EXCEPT ![t] = c]
<1>1. CASE TakeQueued(t)
    BY <1>1, TakeQueuedKeeps DEF Opening
<1>2. CASE OpenAnother(t)
    BY <1>2, OpenAnotherKeeps DEF Opening
<1>3. CASE conn' = [conn EXCEPT ![t] = "waiting"] /\ UNCHANGED pool
    <2>1. conn' \in [Tasks -> Positions]
        BY <1>3 DEF PoolOK, Positions
    <2>2. \A s \in Tasks : conn'[s] \in InUse <=> conn[s] \in InUse
        BY <1>3 DEF PoolOK, InUse, Opening
    <2>3. Cardinality(Using') = Cardinality(Using)
        BY <2>1, <2>2, UsingSame DEF PoolOK
    <2> QED BY <1>3, <2>1, <2>3 DEF PoolOK, pool
<1> QED BY <1>1, <1>2, <1>3 DEF Checkout

LEMMA GiveBackKeeps ==
    ASSUME PoolOK, NEW t \in Using, NEW fate \in {"live", "dead", "closed"},
           GiveBack(t, fate)
    PROVE  PoolOK' /\ conn' = [conn EXCEPT ![t] = "none"]
<1>1. conn' = [conn EXCEPT ![t] = "none"] /\ conn' \in [Tasks -> Positions]
    BY DEF GiveBack, PoolOK, Positions
<1>2. Cardinality(Using') = Cardinality(Using) - 1
    BY <1>1, UsingLeave DEF PoolOK
<1>3. CASE fate = "closed" \/ live + dead >= PoolSize
    BY <1>1, <1>2, <1>3, UsingFinite, PoolAssumption DEF PoolOK, Capacity, GiveBack
<1>4. CASE fate = "live" /\ ~(live + dead >= PoolSize)
    <2>1. live' = live + 1 /\ dead' = dead /\ total' = total
        BY <1>4 DEF GiveBack
    <2> QED BY <1>1, <1>2, <1>4, <2>1, UsingFinite, PoolAssumption DEF PoolOK, Capacity
<1>5. CASE fate = "dead" /\ ~(live + dead >= PoolSize)
    <2>1. live' = live /\ dead' = dead + 1 /\ total' = total
        BY <1>5 DEF GiveBack
    <2> QED BY <1>1, <1>2, <1>5, <2>1, UsingFinite, PoolAssumption DEF PoolOK, Capacity
<1> QED BY <1>3, <1>4, <1>5

-----------------------------------------------------------------------------
(* The steps of a task. *)

LEMMA InitPool == Init => PoolInv
<1> SUFFICES ASSUME Init PROVE PoolInv
    OBVIOUS
<1>1. TypeOK /\ conn \in [Tasks -> Positions]
    BY DEF Init, TypeOK, Positions, Verdicts
<1>2. Using = {}
    BY DEF Init, Using, Opening
<1>3. PoolOK
    BY <1>1, <1>2, FS_EmptySet, PoolAssumption DEF Init, PoolOK, Capacity
<1>4. PlacesOK /\ SeenOK
    BY DEF Init, PlacesOK, SeenOK, Statements, InFlight, Justified
<1> QED BY <1>1, <1>3, <1>4 DEF PoolInv

(* A step of task t that leaves the pool in order preserves the rest, when  *)
(* the task's place, verdict and memory agree.                              *)
LEMMA TaskStep ==
    ASSUME PoolInv, PoolOK', NEW t \in Tasks,
           NEW where \in {"idle", "provider", "ended"} \cup Statements,
           NEW pos \in Positions, NEW how \in Verdicts,
           NEW s \in SUBSET (DbStates \cup Causes),
           at' = [at EXCEPT ![t] = where], conn' = [conn EXCEPT ![t] = pos],
           verdict' = [verdict EXCEPT ![t] = how], seen' = [seen EXCEPT ![t] = s],
           db' = db, serving' = serving, serving \/ t \in InFlight,
           pos # "none" <=> where \in Statements,
           where \in Statements \cup {"provider"} => db \in s,
           pos = "broken" => "down" \in s,
           how # "none" => where = "ended",
           Justified(t, how, s)
    PROVE  PoolInv'
<1>1. TypeOK'
    BY DEF PoolInv, TypeOK, PoolOK
<1>2. serving
    BY DEF PoolInv, PlacesOK
<1>3. PlacesOK'
    BY <1>2 DEF PoolInv, PlacesOK, TypeOK
<1>4. SeenOK'
    <2> SUFFICES ASSUME NEW u \in Tasks
                 PROVE  /\ u \in InFlight' => db' \in seen'[u]
                        /\ conn'[u] = "broken" => "down" \in seen'[u]
                        /\ verdict'[u] # "none" => at'[u] = "ended"
                        /\ Justified(u, verdict'[u], seen'[u])
        BY DEF SeenOK, Justified
    <2>1. CASE u = t
        BY <2>1 DEF PoolInv, TypeOK, InFlight
    <2>2. CASE u # t
        <3>1. /\ at'[u] = at[u] /\ conn'[u] = conn[u]
              /\ verdict'[u] = verdict[u] /\ seen'[u] = seen[u]
            BY <2>2 DEF PoolInv, TypeOK
        <3>2. u \in InFlight' <=> u \in InFlight
            BY <3>1 DEF InFlight
        <3> QED BY <3>1, <3>2 DEF PoolInv, SeenOK
    <2> QED BY <2>1, <2>2
<1> QED BY <1>1, <1>3, <1>4 DEF PoolInv

(* What holds of a task by its position.                                    *)
LEMMA Places ==
    ASSUME PoolInv, NEW t \in Tasks
    PROVE  /\ at[t] \in Statements <=> conn[t] # "none"
           /\ t \in Using => t \in InFlight /\ conn[t] # "none"
           /\ t \notin Using <=> conn[t] \in {"none", "waiting"}
           /\ t \in InFlight => verdict[t] = "none" /\ db \in seen[t] /\ Justified(t, "none", seen[t])
           /\ seen[t] \in SUBSET (DbStates \cup Causes) /\ db \in DbStates
BY DEF PoolInv, PoolOK, PlacesOK, SeenOK, TypeOK, Using, Positions, Opening, InFlight, Statements,
       Justified

(* A task that checks a connection out.                                     *)
LEMMA CheckoutStep ==
    ASSUME PoolInv, NEW t \in Tasks, at[t] \in {"idle", "provider"}, Checkout(t),
           NEW where \in Statements, GoTo(t, where),
           NEW s \in SUBSET (DbStates \cup Causes), seen' = [seen EXCEPT ![t] = s], db \in s,
           serving \/ t \in InFlight, UNCHANGED <<db, verdict, serving>>
    PROVE  PoolInv'
<1>1. conn[t] = "none" /\ t \notin Using
    BY Places DEF Statements
<1>2. PICK c \in {"held", "waiting"} \cup Opening : PoolOK' /\ conn' = [conn EXCEPT ![t] = c]
    BY <1>1, CheckoutKeeps DEF PoolInv
<1>3. verdict[t] = "none" /\ verdict' = [verdict EXCEPT ![t] = "none"] /\ "none" \in Verdicts
    BY DEF PoolInv, SeenOK, TypeOK, Verdicts
<1>4. Justified(t, "none", s)
    BY DEF Justified
<1>5. c \in Positions /\ c # "none" /\ c # "broken"
    BY DEF Positions, Opening
<1> QED BY <1>2, <1>3, <1>4, <1>5, TaskStep DEF GoTo

(* A task that keeps its place and moves on within the pool.                *)
LEMMA MoveStep ==
    ASSUME PoolInv, PoolOK', NEW t \in Tasks, conn[t] # "none",
           NEW c \in {"held"} \cup Opening, conn' = [conn EXCEPT ![t] = c],
           UNCHANGED <<db, at, verdict, seen, serving>>
    PROVE  PoolInv'
<1>1. /\ at' = [at EXCEPT ![t] = at[t]] /\ verdict' = [verdict EXCEPT ![t] = "none"]
      /\ seen' = [seen EXCEPT ![t] = seen[t]]
      /\ at[t] \in Statements /\ t \in InFlight /\ "none" \in Verdicts
    BY Places DEF PoolInv, TypeOK, InFlight, Verdicts
<1>2. c \in Positions /\ c # "none" /\ c # "broken"
    BY DEF Positions, Opening
<1> QED BY <1>1, <1>2, Places, TaskStep

(* A task that ends.                                                        *)
LEMMA EndStep ==
    ASSUME PoolInv, PoolOK', NEW t \in InFlight, conn' = [conn EXCEPT ![t] = "none"],
           NEW how \in Verdicts, End(t, how),
           NEW s \in SUBSET (DbStates \cup Causes), seen' = [seen EXCEPT ![t] = s],
           UNCHANGED <<db, serving>>, Justified(t, how, s)
    PROVE  PoolInv'
<1>1. t \in Tasks /\ "none" \in Positions
    BY DEF InFlight, Positions
<1> QED BY <1>1, TaskStep DEF End, GoTo, Statements

LEMMA FateIs == ASSUME NEW t PROVE FateOf(t) \in {"live", "dead", "closed"}
BY DEF FateOf

(* ... and gives its connection back.                                       *)
LEMMA GiveBackStep ==
    ASSUME PoolInv, NEW t \in Using, NEW fate \in {"live", "dead", "closed"},
           GiveBack(t, fate), NEW how \in Verdicts, End(t, how),
           NEW s \in SUBSET (DbStates \cup Causes), seen' = [seen EXCEPT ![t] = s],
           UNCHANGED <<db, serving>>, Justified(t, how, s)
    PROVE  PoolInv'
<1>1. PoolOK' /\ conn' = [conn EXCEPT ![t] = "none"]
    BY GiveBackKeeps DEF PoolInv
<1>2. t \in InFlight
    BY Places DEF Using
<1> QED BY <1>1, <1>2, EndStep

-----------------------------------------------------------------------------
(* The actions. *)

LEMMA CheckoutActions ==
    ASSUME PoolInv, NEW t \in Tasks, LookupArrives(t) \/ CheckArrives(t) \/ ProviderAnswers(t)
    PROVE  PoolInv'
<1>1. db \in DbStates /\ {db} \in SUBSET (DbStates \cup Causes)
    BY DEF PoolInv, TypeOK
<1>2. CASE LookupArrives(t)
    BY <1>1, <1>2, CheckoutStep DEF LookupArrives, Start, Statements
<1>3. CASE CheckArrives(t)
    BY <1>1, <1>3, CheckoutStep DEF CheckArrives, Start, Statements
<1>4. CASE ProviderAnswers(t)
    <2>1. t \in InFlight /\ seen' = [seen EXCEPT ![t] = seen[t]]
        BY <1>4 DEF ProviderAnswers, InFlight, PoolInv, TypeOK
    <2> QED BY <1>4, <2>1, Places, CheckoutStep DEF ProviderAnswers, Statements
<1> QED BY <1>2, <1>3, <1>4

LEMMA MoveActions ==
    ASSUME PoolInv, NEW t \in Tasks,
           WakeUp(t) \/ Opens(t) \/ (PoolTimesOut(t) /\ total < Capacity)
    PROVE  PoolInv'
<1>1. CASE WakeUp(t)
    <2>1. t \notin Using
        BY <1>1 DEF WakeUp, Using, Opening
    <2>2. PICK c \in {"held", "reopening"} : PoolOK' /\ conn' = [conn EXCEPT ![t] = c]
        BY <1>1, <2>1, TakeQueuedKeeps DEF WakeUp, PoolInv
    <2> QED BY <1>1, <2>2, MoveStep DEF WakeUp, Opening
<1>2. CASE Opens(t)
    <2>1. /\ conn' = [conn EXCEPT ![t] = "held"] /\ conn[t] \in Opening
          /\ conn' \in [Tasks -> Positions]
        BY <1>2 DEF Opens, PoolInv, PoolOK, Positions
    <2>2. \A u \in Tasks : conn'[u] \in InUse <=> conn[u] \in InUse
        BY <2>1 DEF InUse, PoolInv, PoolOK
    <2>3. Cardinality(Using') = Cardinality(Using)
        BY <2>1, <2>2, UsingSame DEF PoolInv, PoolOK
    <2>4. PoolOK'
        BY <1>2, <2>1, <2>3 DEF Opens, pool, PoolInv, PoolOK, Capacity
    <2> QED BY <1>2, <2>1, <2>4, MoveStep DEF Opens, Opening
<1>3. CASE PoolTimesOut(t) /\ total < Capacity
    <2>1. t \notin Using /\ OpenAnother(t)
        BY <1>3 DEF PoolTimesOut, Using, Opening
    <2>2. PoolOK' /\ conn' = [conn EXCEPT ![t] = "opening"]
        BY <2>1, OpenAnotherKeeps DEF PoolInv
    <2> QED BY <1>3, <2>2, MoveStep DEF PoolTimesOut, Opening
<1> QED BY <1>1, <1>2, <1>3

(* A waiter gives up: nothing in the pool changes.                          *)
LEMMA GiveUpKeeps ==
    ASSUME PoolInv, NEW t \in Tasks, conn[t] \in {"none", "waiting"},
           conn' = [conn EXCEPT ![t] = "none"], UNCHANGED pool
    PROVE  PoolOK'
<1>1. conn' \in [Tasks -> Positions]
    BY DEF PoolInv, PoolOK, Positions
<1>2. \A u \in Tasks : conn'[u] \in InUse <=> conn[u] \in InUse
    BY DEF InUse, Opening, PoolInv, PoolOK
<1>3. Cardinality(Using') = Cardinality(Using)
    BY <1>1, <1>2, UsingSame DEF PoolInv, PoolOK
<1> QED BY <1>1, <1>3 DEF pool, PoolInv, PoolOK, Capacity

LEMMA TimeoutActions ==
    ASSUME PoolInv, NEW t \in Tasks,
           OpenFails(t) \/ CheckTimesOut(t) \/ (PoolTimesOut(t) /\ ~(total < Capacity))
    PROVE  PoolInv'
<1> DEFINE s == seen[t] \cup {"timeout"}
<1>1. /\ s \in SUBSET (DbStates \cup Causes) /\ "database unavailable" \in Verdicts
      /\ Justified(t, "database unavailable", s)
    <2>1. s \in SUBSET (DbStates \cup Causes) /\ s \cap ({"down"} \cup Causes) # {}
        BY Places DEF Causes
    <2> QED BY <2>1, UnavailableIsJustified DEF Verdicts
<1>2. CASE OpenFails(t)
    <2>1. t \in Using /\ t \in InFlight
        BY <1>2, Places DEF OpenFails, Using
    <2>2. PICK why \in {"down"} \cup Causes : seen' = [seen EXCEPT ![t] = @ \cup {why}]
        BY <1>2 DEF OpenFails
    <2> DEFINE r == seen[t] \cup {why}
    <2>3. r \in SUBSET (DbStates \cup Causes) /\ r \cap ({"down"} \cup Causes) # {}
        BY Places DEF DbStates
    <2>4. Justified(t, "database unavailable", r)
        BY <2>3, UnavailableIsJustified
    <2>5. seen' = [seen EXCEPT ![t] = r]
        BY <2>2
    <2> HIDE DEF r
    <2> QED BY <1>1, <1>2, <2>1, <2>3, <2>4, <2>5, FateIs, GiveBackStep DEF OpenFails
<1>3. CASE CheckTimesOut(t)
    <2>1. conn[t] # "none" /\ t \in InFlight
        BY <1>3, Places DEF CheckTimesOut, Statements, InFlight
    <2>2. CASE conn[t] = "waiting"
        <3>1. PoolOK' /\ conn' = [conn EXCEPT ![t] = "none"]
            BY <1>3, <2>2, GiveUpKeeps DEF CheckTimesOut
        <3> QED BY <1>1, <1>3, <2>1, <3>1, EndStep DEF CheckTimesOut, OnTimeout
    <2>3. CASE conn[t] # "waiting"
        <3>1. t \in Using
            BY <2>1, <2>3, Places
        <3> DEFINE fate == IF conn[t] = "opening" THEN "closed" ELSE "dead"
        <3>2. fate \in {"live", "dead", "closed"} /\ GiveBack(t, fate)
            BY <1>3, <2>3 DEF CheckTimesOut
        <3> QED BY <1>1, <1>3, <3>1, <3>2, GiveBackStep DEF CheckTimesOut, OnTimeout
    <2> QED BY <2>2, <2>3
<1>4. CASE PoolTimesOut(t) /\ ~(total < Capacity)
    <2>1. /\ t \in InFlight /\ conn' = [conn EXCEPT ![t] = "none"]
          /\ End(t, "database unavailable") /\ seen' = [seen EXCEPT ![t] = s]
          /\ UNCHANGED <<db, serving>>
        BY <1>4, Places DEF PoolTimesOut, InFlight
    <2>2. PoolOK'
        BY <1>4, GiveUpKeeps DEF PoolTimesOut
    <2> QED BY <1>1, <2>1, <2>2, EndStep
<1> QED BY <1>2, <1>3, <1>4

LEMMA AnswerActions ==
    ASSUME PoolInv, NEW t \in Tasks,
           ReadAnswers(t) \/ UpsertAnswers(t) \/ CheckPasses(t) \/ ProviderFails(t)
    PROVE  PoolInv'
<1>1. /\ seen[t] \in SUBSET (DbStates \cup Causes)
      /\ UNCHANGED seen => seen' = [seen EXCEPT ![t] = seen[t]]
      /\ "done" \in Verdicts /\ "ready" \in Verdicts /\ "none" \in Verdicts
      /\ Justified(t, "done", seen[t]) /\ Justified(t, "none", seen[t])
    BY DEF PoolInv, TypeOK, Verdicts, Justified
<1>2. ASSUME conn[t] = "held", GiveBack(t, "live"), UNCHANGED <<db, seen, serving>>,
             NEW how \in Verdicts, End(t, how), Justified(t, how, seen[t])
      PROVE  PoolInv'
    <2>1. t \in Using
        BY <1>2 DEF Using
    <2> QED BY <1>1, <1>2, <2>1, GiveBackStep
<1>3. CASE ReadAnswers(t)
    <2>1. CASE End(t, "done")
        BY <1>1, <1>2, <1>3, <2>1 DEF ReadAnswers
    <2>2. CASE GoTo(t, "provider") /\ UNCHANGED verdict
        <3>1. t \in Using /\ t \in InFlight
            BY <1>3, Places DEF ReadAnswers, Using
        <3>2. PoolOK' /\ conn' = [conn EXCEPT ![t] = "none"]
            BY <1>3, <3>1, GiveBackKeeps DEF ReadAnswers, PoolInv
        <3>3. verdict' = [verdict EXCEPT ![t] = "none"]
            BY <2>2, <3>1, Places DEF PoolInv, TypeOK
        <3>4. "none" \in Positions /\ "provider" \notin Statements
            BY DEF Positions, Statements
        <3> QED
            BY <1>1, <1>3, <2>2, <3>1, <3>2, <3>3, <3>4, Places, TaskStep DEF ReadAnswers, GoTo
    <2> QED BY <1>3, <2>1, <2>2 DEF ReadAnswers
<1>4. CASE UpsertAnswers(t)
    BY <1>1, <1>2, <1>4 DEF UpsertAnswers
<1>5. CASE CheckPasses(t)
    <2>1. "ready" \in seen[t]
        BY <1>5, Places DEF CheckPasses, InFlight, Statements
    <2>2. Justified(t, "ready", seen[t])
        BY <2>1 DEF Justified
    <2> QED BY <1>1, <1>2, <1>5, <2>2 DEF CheckPasses
<1>6. CASE ProviderFails(t)
    <2>1. t \in InFlight /\ conn[t] = "none" /\ conn' = [conn EXCEPT ![t] = "none"]
        BY <1>6, Places DEF ProviderFails, InFlight, Statements, PoolInv, PoolOK
    <2>2. PoolOK'
        BY <1>6, <2>1, GiveUpKeeps DEF ProviderFails
    <2> QED BY <1>1, <1>6, <2>1, <2>2, EndStep DEF ProviderFails
<1> QED BY <1>3, <1>4, <1>5, <1>6

LEMMA FailActions ==
    ASSUME PoolInv, NEW t \in Tasks, StatementFails(t) \/ CheckFails(t)
    PROVE  PoolInv'
<1>1. /\ seen[t] \in SUBSET (DbStates \cup Causes)
      /\ UNCHANGED seen => seen' = [seen EXCEPT ![t] = seen[t]]
      /\ "database unavailable" \in Verdicts /\ "schema unavailable" \in Verdicts
    BY DEF PoolInv, TypeOK, Verdicts
<1>2. Refused(t) /\ t \in Using /\ t \in InFlight
    BY Places DEF StatementFails, CheckFails, Refused, Using
<1>3. /\ conn[t] = "broken" => "down" \in seen[t]
      /\ conn[t] # "broken" => "no table" \in seen[t] /\ conn[t] = "held"
    BY <1>2, Places DEF Refused, PoolInv, SeenOK
<1>4. CASE StatementFails(t)
    <2>1. t \notin Checks
        BY <1>4, TaskAssumption DEF StatementFails
    <2>2. Justified(t, "database unavailable", seen[t])
        <3>1. "down" \in seen[t] \/ "no table" \in seen[t]
            BY <1>2, <1>3 DEF Refused
        <3>2. seen[t] \cap ({"down", "no table"} \cup Causes) # {}
            BY <3>1
        <3> QED BY <2>1, <3>2, Zenon DEF Justified
    <2> QED BY <1>1, <1>2, <1>4, <2>2, FateIs, GiveBackStep DEF StatementFails
<1>5. CASE CheckFails(t)
    <2>1. Classified(t) \in Verdicts /\ Justified(t, Classified(t), seen[t])
        <3>1. CASE conn[t] = "held"
            <4>1. "no table" \in seen[t]
                BY <1>3, <3>1
            <4>2. Justified(t, "schema unavailable", seen[t])
                BY <4>1, SchemaIsJustified, Zenon
            <4> QED BY <1>1, <3>1, <4>2 DEF Classified
        <3>2. CASE conn[t] = "broken"
            <4>1. "down" \in seen[t]
                BY <1>3, <3>2
            <4>2. Justified(t, "database unavailable", seen[t])
                BY <4>1, UnavailableIsJustified
            <4> QED BY <1>1, <3>2, <4>2 DEF Classified
        <3> QED BY <1>3, <3>1, <3>2
    <2> QED BY <1>1, <1>2, <1>5, <2>1, FateIs, GiveBackStep DEF CheckFails
<1> QED BY <1>4, <1>5

(* A statement that fails on a working connection.                          *)
LEMMA RejectAction ==
    ASSUME PoolInv, NEW t \in Tasks, StatementRejected(t)
    PROVE  PoolInv'
<1> DEFINE s == seen[t] \cup {"refused"}
<1>1. t \in Using
    BY DEF StatementRejected, Using
<1>2. s \in SUBSET (DbStates \cup Causes) /\ s \cap ({"down"} \cup Causes) # {}
    BY Places DEF Causes
<1>3. Justified(t, "database unavailable", s) /\ "database unavailable" \in Verdicts
    BY <1>2, UnavailableIsJustified DEF Verdicts
<1>4. PICK fate \in {"live", "dead", "closed"} : GiveBack(t, fate)
    BY DEF StatementRejected
<1>5. /\ End(t, "database unavailable") /\ seen' = [seen EXCEPT ![t] = s]
      /\ UNCHANGED <<db, serving>>
    BY DEF StatementRejected
<1> HIDE DEF s
<1> QED BY <1>1, <1>2, <1>3, <1>4, <1>5, GiveBackStep

(* A queued connection is lost.                                             *)
LEMMA QueuedAction ==
    ASSUME PoolInv, QueuedIsLost
    PROVE  PoolInv'
<1>1. conn' = conn /\ Using' = Using /\ InFlight' = InFlight
    BY DEF QueuedIsLost, Using, InFlight
<1>2. /\ live' \in Nat /\ dead' \in Nat /\ total' = total
      /\ live' + dead' = live + dead
    BY DEF QueuedIsLost, PoolInv, PoolOK
<1>3. PoolOK'
    BY <1>1, <1>2, UsingFinite DEF PoolInv, PoolOK, Capacity
<1>4. TypeOK'
    BY <1>2 DEF QueuedIsLost, PoolInv, TypeOK
<1>5. PlacesOK'
    BY <1>1, <1>2 DEF QueuedIsLost, PoolInv, PlacesOK
<1>6. SeenOK'
    BY <1>1 DEF QueuedIsLost, PoolInv, SeenOK, Justified
<1> QED BY <1>3, <1>4, <1>5, <1>6 DEF PoolInv

(* The database changes under the tasks.                                    *)
LEMMA DbAction ==
    ASSUME PoolInv, NEW new \in DbStates, DbChanges(new)
    PROVE  PoolInv'
<1>1. conn' \in [Tasks -> Positions] /\ \A t \in Tasks : conn'[t] \in InUse <=> conn[t] \in InUse
    BY DEF DbChanges, PoolInv, PoolOK, Positions, InUse
<1>2. Cardinality(Using') = Cardinality(Using)
    BY <1>1, UsingSame DEF PoolInv, PoolOK
<1>3. PoolOK'
    <2>1. CASE new = "down"
        <3>1. live' = 0 /\ dead' = live + dead /\ total' = total
            BY <2>1 DEF DbChanges
        <3> QED BY <1>1, <1>2, <3>1, UsingFinite, PoolAssumption DEF PoolInv, PoolOK, Capacity
    <2>2. CASE new # "down"
        BY <1>1, <1>2, <2>2 DEF DbChanges, PoolInv, PoolOK, Capacity
    <2> QED BY <2>1, <2>2
<1>4. TypeOK'
    BY <1>3 DEF DbChanges, PoolInv, TypeOK, PoolOK
<1>5. PlacesOK' /\ InFlight' = InFlight
    BY <1>1 DEF DbChanges, PoolInv, PlacesOK, InFlight, TypeOK
<1>6. SeenOK'
    <2> SUFFICES ASSUME NEW u \in Tasks
                 PROVE  /\ u \in InFlight' => db' \in seen'[u]
                        /\ conn'[u] = "broken" => "down" \in seen'[u]
                        /\ verdict'[u] # "none" => at'[u] = "ended"
                        /\ Justified(u, verdict'[u], seen'[u])
        BY DEF SeenOK, Justified
    <2>1. CASE u \in InFlight
        <3>1. seen'[u] = seen[u] \cup {new} /\ db' = new /\ verdict'[u] = "none" /\ verdict[u] = "none"
            BY <2>1, Places DEF DbChanges
        <3>2. conn'[u] = "broken" => "down" \in seen'[u]
            BY <3>1 DEF DbChanges, PoolInv, SeenOK, PoolOK
        <3> QED BY <3>1, <3>2 DEF Justified
    <2>2. CASE u \notin InFlight
        <3>1. seen'[u] = seen[u] /\ verdict'[u] = verdict[u] /\ at'[u] = at[u]
            BY <2>2 DEF DbChanges
        <3>2. conn[u] = "none" /\ conn'[u] = "none"
            BY <2>2, Places DEF InFlight, DbChanges
        <3> QED BY <1>5, <2>2, <3>1, <3>2 DEF PoolInv, SeenOK
    <2> QED BY <2>1, <2>2
<1> QED BY <1>3, <1>4, <1>5, <1>6 DEF PoolInv

(* The pod stops, when none of its tasks is in flight.                      *)
LEMMA ShutdownAction ==
    ASSUME PoolInv, Shutdown
    PROVE  PoolInv'
<1>1. Using = {} /\ Cardinality(Using) = 0
    BY Places, FS_EmptySet DEF Shutdown, Using
<1>2. total = live + dead /\ Using' = {} /\ Cardinality(Using') = 0
    BY <1>1, FS_EmptySet DEF PoolInv, PoolOK, Shutdown, Using
<1>3. live' = 0 /\ dead' = 0 /\ total' = 0
    BY <1>2 DEF Shutdown, PoolInv, PoolOK
<1>4. PoolOK'
    BY <1>2, <1>3, PoolAssumption DEF PoolInv, PoolOK, Capacity, Shutdown
<1>5. TypeOK'
    <2>1. live' \in Nat /\ dead' \in Nat /\ total' \in Int
        BY <1>3
    <2> QED BY <2>1, Zenon DEF Shutdown, PoolInv, TypeOK
<1>6. PlacesOK'
    BY <1>3 DEF Shutdown, PoolInv, PlacesOK, InFlight
<1>7. SeenOK'
    BY DEF Shutdown, PoolInv, SeenOK, InFlight, Justified
<1> QED BY <1>4, <1>5, <1>6, <1>7 DEF PoolInv

LEMMA NextPool == PoolInv /\ [Next]_vars => PoolInv'
<1> SUFFICES ASSUME PoolInv, [Next]_vars PROVE PoolInv'
    OBVIOUS
<1>1. CASE UNCHANGED vars
    BY <1>1 DEF vars, pool, PoolInv, TypeOK, PoolOK, PlacesOK, SeenOK, Using, InFlight, Justified
<1>2. ASSUME NEW t \in Tasks, PoolTimesOut(t) PROVE PoolInv'
    BY <1>2, MoveActions, TimeoutActions
<1> QED
    BY <1>1, <1>2, CheckoutActions, MoveActions, TimeoutActions, AnswerActions, FailActions,
       RejectAction, QueuedAction, DbAction, ShutdownAction DEF Next

-----------------------------------------------------------------------------
(* The theorems. *)

(* The variables of the pool and of its tasks keep their types.             *)
THEOREM TypeCorrect == Spec => []TypeOK
<1>1. PoolInv => TypeOK
    BY DEF PoolInv
<1> QED BY <1>1, InitPool, NextPool, PTL DEF Spec

(* On every path a connection is queued, in use or closed, the bounds hold, *)
(* and none is held across a provider call or outlives the pod.             *)
THEOREM NoConnectionIsLostHolds == Spec => []NoConnectionIsLost
<1>1. PoolInv => NoConnectionIsLost
    BY DEF PoolInv, PoolOK, PlacesOK, NoConnectionIsLost
<1> QED BY <1>1, InitPool, NextPool, PTL DEF Spec

(* No task fails because of a connection that died in the queue: it met     *)
(* PostgreSQL down or without the table, a timeout, or a refusal, while it  *)
(* ran.                                                                     *)
THEOREM FailuresHaveACauseHolds == Spec => []FailuresHaveACause
<1>1. PoolInv => FailuresHaveACause
    BY DEF PoolInv, SeenOK, Justified, FailuresHaveACause
<1> QED BY <1>1, InitPool, NextPool, PTL DEF Spec

(* What the readiness check answers was so while it ran, or it timed out.   *)
THEOREM ReadinessIsTruthfulHolds == Spec => []ReadinessIsTruthful
<1>1. PoolInv => ReadinessIsTruthful
    BY DEF PoolInv, SeenOK, Justified, ReadinessIsTruthful, Tasks
<1> QED BY <1>1, InitPool, NextPool, PTL DEF Spec

-----------------------------------------------------------------------------
(* How far a task is from its end when it is at a with the connection c: a  *)
(* lookup checks a connection out twice, a check once, and each time it     *)
(* waits, opens, holds or loses it in this order.                           *)
ToGo(c) ==
    IF c = "waiting" THEN 4
    ELSE IF c \in Opening THEN 3
    ELSE IF c = "held" THEN 2
    ELSE IF c = "broken" THEN 1 ELSE 0

Left(t, a, c) ==
    IF a = "idle" THEN IF t \in Lookups THEN 10 ELSE 5
    ELSE IF a = "read" THEN 5 + ToGo(c)
    ELSE IF a = "provider" THEN 5
    ELSE IF a \in Statements THEN ToGo(c)
    ELSE 0

StepsLeft(t) == Left(t, at[t], conn[t])

Undisturbed(t) == UNCHANGED <<at[t], conn[t], verdict[t]>>

GoesForwards(t) == Undisturbed(t) \/ StepsLeft(t)' < StepsLeft(t)

(* Only a check runs "SELECT ... LIMIT 0", and only a lookup the rest.      *)
RoleOK(t, a) ==
    /\ a = "check" => t \in Checks
    /\ a \in {"read", "provider", "upsert"} => t \in Lookups

Roles == \A t \in Tasks : RoleOK(t, at[t])

LEMMA OrderOfPlaces ==
    ASSUME NEW c \in {"waiting", "held"} \cup Opening
    PROVE  ToGo(c) \in 2..4
BY DEF ToGo, Opening

LEMMA OrderOfSteps ==
    ASSUME NEW t, NEW c \in {"waiting", "held"} \cup Opening
    PROVE  /\ t \in Lookups => Left(t, "read", c) < Left(t, "idle", "none")
           /\ Left(t, "check", c) < Left(t, "idle", "none")
           /\ Left(t, "upsert", c) < Left(t, "provider", "none")
BY OrderOfPlaces DEF Left, Statements

LEMMA OrderInStatement ==
    ASSUME NEW t, NEW a \in Statements, NEW c \in Opening
    PROVE  /\ Left(t, a, c) < Left(t, a, "waiting")
           /\ Left(t, a, "held") < Left(t, a, c)
           /\ Left(t, a, "held") < Left(t, a, "waiting")
           /\ Left(t, a, "broken") < Left(t, a, "held")
<1>1. /\ ToGo("waiting") = 4 /\ ToGo(c) = 3 /\ ToGo("held") = 2 /\ ToGo("broken") = 1
    BY DEF ToGo, Opening
<1> QED BY <1>1 DEF Left, Statements

LEMMA OrderAtEnd ==
    ASSUME NEW t, NEW a \in Statements, NEW c \in Positions \ {"none"}
    PROVE  Left(t, "ended", "none") < Left(t, a, c)
<1>1. ToGo(c) \in 1..4
    BY DEF ToGo, Positions, Opening
<1> QED BY <1>1 DEF Left, Statements

LEMMA FewSteps ==
    ASSUME PoolInv, Roles, NEW t \in Tasks
    PROVE  /\ StepsLeft(t) \in 0..(IF t \in Lookups THEN 10 ELSE 5)
           /\ StepsLeft(t) = 0 <=> at[t] = "ended"
<1>1. ToGo(conn[t]) \in 0..4
    BY DEF ToGo
<1>2. at[t] \in Statements => ToGo(conn[t]) > 0
    BY Places DEF ToGo, PoolInv, PoolOK, Positions
<1>3. at[t] \in {"idle", "provider", "ended"} \cup Statements
    BY DEF PoolInv, TypeOK
<1> QED BY <1>1, <1>2, <1>3, TaskAssumption DEF Roles, RoleOK, StepsLeft, Left, Statements

(* One task moves.                                                          *)
LEMMA OneMoves ==
    ASSUME PoolInv, Roles, NEW t \in Tasks, NEW a, NEW c,
           at' = [at EXCEPT ![t] = a], conn' = [conn EXCEPT ![t] = c],
           verdict' = verdict \/ \E how : verdict' = [verdict EXCEPT ![t] = how],
           RoleOK(t, a), Left(t, a, c) < Left(t, at[t], conn[t])
    PROVE  Roles' /\ \A u \in Tasks : GoesForwards(u)
<1>1. at \in [Tasks -> {"idle", "provider", "ended"} \cup Statements] /\ conn \in [Tasks -> Positions]
      /\ verdict \in [Tasks -> Verdicts]
    BY DEF PoolInv, TypeOK
<1>2. at'[t] = a /\ conn'[t] = c
    BY <1>1
<1>3. ASSUME NEW u \in Tasks \ {t} PROVE at'[u] = at[u] /\ conn'[u] = conn[u] /\ verdict'[u] = verdict[u]
    BY <1>1
<1>4. Roles'
    BY <1>2, <1>3, Zenon DEF Roles, RoleOK
<1>5. GoesForwards(t)
    BY <1>2, Zenon DEF GoesForwards, StepsLeft
<1>6. ASSUME NEW u \in Tasks \ {t} PROVE GoesForwards(u)
    BY <1>3, Zenon DEF GoesForwards, Undisturbed
<1> QED BY <1>4, <1>5, <1>6

(* Tasks that stay where they are, but for a connection that is lost.       *)
LEMMA LostForwards ==
    ASSUME PoolInv, Roles, at' = at, verdict' = verdict,
           \A u \in Tasks : conn'[u] = conn[u] \/ (conn[u] = "held" /\ conn'[u] = "broken")
    PROVE  Roles' /\ \A u \in Tasks : GoesForwards(u)
<1>1. Roles'
    BY Zenon DEF Roles, RoleOK
<1>2. ASSUME NEW u \in Tasks, conn'[u] = conn[u] PROVE GoesForwards(u)
    BY <1>2, Zenon DEF GoesForwards, Undisturbed
<1>3. ASSUME NEW u \in Tasks, conn[u] = "held", conn'[u] = "broken" PROVE GoesForwards(u)
    <2>1. at[u] \in Statements
        BY <1>3, Places
    <2>2. Left(u, at[u], "broken") < Left(u, at[u], "held")
        BY <2>1, OrderInStatement DEF Opening
    <2>3. at'[u] = at[u]
        OBVIOUS
    <2> QED BY <1>3, <2>2, <2>3, Zenon DEF GoesForwards, StepsLeft
<1> QED BY <1>1, <1>2, <1>3

(* A task checks a connection out.                                          *)
LEMMA CheckoutForwards ==
    ASSUME PoolInv, Roles, NEW t \in Tasks, Checkout(t), at[t] \in {"idle", "provider"},
           NEW a \in Statements, GoTo(t, a), RoleOK(t, a), verdict' = verdict,
           at[t] = "provider" => a = "upsert", at[t] = "idle" => a \in {"read", "check"}
    PROVE  Roles' /\ \A u \in Tasks : GoesForwards(u)
<1>1. conn[t] = "none" /\ t \notin Using
    BY Places DEF Statements
<1>2. PICK c \in {"held", "waiting"} \cup Opening : conn' = [conn EXCEPT ![t] = c]
    BY <1>1, CheckoutKeeps DEF PoolInv
<1>3. c \in {"waiting", "held"} \cup Opening
    OBVIOUS
<1>4. a = "read" => t \in Lookups
    BY DEF RoleOK
<1>5. Left(t, a, c) < Left(t, at[t], conn[t])
    BY <1>1, <1>3, <1>4, OrderOfSteps
<1>6. at' = [at EXCEPT ![t] = a]
    BY DEF GoTo
<1> QED BY <1>2, <1>5, <1>6, OneMoves

(* A task moves on within the pool.                                         *)
LEMMA MoveForwards ==
    ASSUME PoolInv, Roles, NEW t \in Tasks, NEW c \in {"held"} \cup Opening,
           conn' = [conn EXCEPT ![t] = c], at' = at, verdict' = verdict,
           conn[t] = "waiting" \/ (conn[t] \in Opening /\ c = "held")
    PROVE  Roles' /\ \A u \in Tasks : GoesForwards(u)
<1>1. at[t] \in Statements
    BY Places DEF Opening
<1>2. Left(t, at[t], c) < Left(t, at[t], conn[t])
    BY <1>1, OrderInStatement DEF Opening
<1>3. at' = [at EXCEPT ![t] = at[t]] /\ RoleOK(t, at[t])
    BY DEF PoolInv, TypeOK, Roles
<1> QED BY <1>2, <1>3, OneMoves

(* A task ends, with its place in the pool given up.                        *)
LEMMA EndForwards ==
    ASSUME PoolInv, Roles, NEW t \in Tasks, at[t] \in Statements,
           conn' = [conn EXCEPT ![t] = "none"], NEW how, End(t, how)
    PROVE  Roles' /\ \A u \in Tasks : GoesForwards(u)
<1>1. conn[t] \in Positions \ {"none"}
    BY Places DEF PoolInv, PoolOK
<1>2. Left(t, "ended", "none") < Left(t, at[t], conn[t])
    BY <1>1, OrderAtEnd
<1>3. RoleOK(t, "ended")
    BY DEF RoleOK
<1> QED BY <1>2, <1>3, OneMoves DEF End, GoTo

LEMMA NextForwards ==
    ASSUME PoolInv, Roles, Next
    PROVE  Roles' /\ \A u \in Tasks : GoesForwards(u)
<1>1. ASSUME NEW t \in Tasks, LookupArrives(t) \/ CheckArrives(t)
      PROVE  Roles' /\ \A u \in Tasks : GoesForwards(u)
    <2>1. PICK a \in {"read", "check"} : Start(t, a) /\ (a = "read" => t \in Lookups)
                                           /\ (a = "check" => t \in Checks)
        BY <1>1 DEF LookupArrives, CheckArrives
    <2>2. at[t] = "idle" /\ GoTo(t, a) /\ Checkout(t) /\ verdict' = verdict
        BY <2>1 DEF Start
    <2>3. RoleOK(t, a) /\ a \in Statements
        BY <2>1 DEF RoleOK, Statements
    <2> QED BY <2>2, <2>3, CheckoutForwards
<1>2. ASSUME NEW t \in Tasks, ProviderAnswers(t)
      PROVE  Roles' /\ \A u \in Tasks : GoesForwards(u)
    <2>1. at[t] = "provider" /\ GoTo(t, "upsert") /\ Checkout(t) /\ verdict' = verdict
        BY <1>2 DEF ProviderAnswers
    <2>2. RoleOK(t, "upsert") /\ "upsert" \in Statements
        BY <2>1 DEF Roles, RoleOK, Statements
    <2> QED BY <2>1, <2>2, CheckoutForwards
<1>3. ASSUME NEW t \in Tasks, conn[t] = "waiting", TakeQueued(t) \/ OpenAnother(t), UNCHANGED <<at, verdict>>
      PROVE  Roles' /\ \A u \in Tasks : GoesForwards(u)
    <2>1. PICK c \in {"held"} \cup Opening : conn' = [conn EXCEPT ![t] = c]
        BY <1>3 DEF TakeQueued, Pinged, OpenAnother, Opening
    <2> QED BY <1>3, <2>1, MoveForwards
<1>4. ASSUME NEW t \in Tasks, Opens(t)
      PROVE  Roles' /\ \A u \in Tasks : GoesForwards(u)
    BY <1>4, MoveForwards DEF Opens
<1>5. ASSUME NEW t \in Tasks, at[t] \in Statements, conn' = [conn EXCEPT ![t] = "none"],
             NEW how, End(t, how)
      PROVE  Roles' /\ \A u \in Tasks : GoesForwards(u)
    BY <1>5, EndForwards
<1>6. ASSUME NEW t \in Tasks, WakeUp(t) \/ PoolTimesOut(t)
      PROVE  Roles' /\ \A u \in Tasks : GoesForwards(u)
    <2>1. conn[t] = "waiting" /\ at[t] \in Statements
        BY <1>6, Places DEF WakeUp, PoolTimesOut
    <2>2. \/ (TakeQueued(t) \/ OpenAnother(t)) /\ UNCHANGED <<at, verdict>>
          \/ conn' = [conn EXCEPT ![t] = "none"] /\ End(t, "database unavailable")
        BY <1>6, Zenon DEF WakeUp, PoolTimesOut
    <2> QED BY <1>3, <1>5, <2>1, <2>2
<1>7. ASSUME NEW t \in Tasks, OpenFails(t) \/ UpsertAnswers(t) \/ StatementFails(t)
                                \/ StatementRejected(t) \/ CheckPasses(t) \/ CheckFails(t) \/ CheckTimesOut(t)
      PROVE  Roles' /\ \A u \in Tasks : GoesForwards(u)
    <2>1. at[t] \in Statements
        BY <1>7, Places
        DEF OpenFails, UpsertAnswers, StatementFails, StatementRejected, CheckPasses, CheckFails,
            CheckTimesOut, Refused, Statements, Opening
    <2>2. conn' = [conn EXCEPT ![t] = "none"] /\ \E how : End(t, how)
        BY <1>7, Zenon
        DEF OpenFails, UpsertAnswers, StatementFails, StatementRejected, CheckPasses, CheckFails,
            CheckTimesOut, GiveBack
    <2> QED BY <1>5, <2>1, <2>2
<1>8. ASSUME NEW t \in Tasks, ReadAnswers(t)
      PROVE  Roles' /\ \A u \in Tasks : GoesForwards(u)
    <2>1. at[t] = "read" /\ conn[t] = "held" /\ conn' = [conn EXCEPT ![t] = "none"]
        BY <1>8, Zenon DEF ReadAnswers, GiveBack
    <2>2. CASE End(t, "done")
        BY <1>5, <2>1, <2>2 DEF Statements
    <2>3. CASE GoTo(t, "provider") /\ verdict' = verdict
        <3>1. Left(t, "provider", "none") < Left(t, "read", "held")
            BY OrderOfPlaces DEF Left
        <3>2. RoleOK(t, "provider")
            BY <2>1 DEF Roles, RoleOK
        <3> QED BY <2>1, <2>3, <3>1, <3>2, OneMoves DEF GoTo
    <2> QED BY <1>8, <2>2, <2>3 DEF ReadAnswers
<1>9. ASSUME NEW t \in Tasks, ProviderFails(t)
      PROVE  Roles' /\ \A u \in Tasks : GoesForwards(u)
    <2>1. at[t] = "provider" /\ conn' = conn /\ End(t, "done")
        BY <1>9 DEF ProviderFails
    <2>2. conn' = [conn EXCEPT ![t] = conn[t]]
        BY <2>1 DEF PoolInv, TypeOK
    <2>3. Left(t, "ended", conn[t]) < Left(t, "provider", conn[t]) /\ RoleOK(t, "ended")
        BY DEF Left, RoleOK, Statements
    <2> QED BY <2>1, <2>2, <2>3, OneMoves DEF End, GoTo
<1>10. ASSUME NEW new \in DbStates, DbChanges(new)
       PROVE  Roles' /\ \A u \in Tasks : GoesForwards(u)
    BY <1>10, LostForwards DEF DbChanges
<1>11. CASE QueuedIsLost \/ Shutdown
    BY <1>11, LostForwards DEF QueuedIsLost, Shutdown
<1> QED BY <1>1, <1>2, <1>4, <1>6, <1>7, <1>8, <1>9, <1>10, <1>11 DEF Next

(* What can be proved of EveryCheckEnds without its fairness: a check is at *)
(* most five steps from its end and a lookup ten, every step that moves one *)
(* brings it nearer, whatever the pool and the other tasks do, and a check  *)
(* that has begun is where asyncio.timeout can end it (lifespan.py:77-97,   *)
(* engine.py:9-17).                                                         *)
THEOREM TasksAreBounded ==
    Spec =>
        /\ [](\A t \in Tasks : /\ StepsLeft(t) \in 0..(IF t \in Lookups THEN 10 ELSE 5)
                               /\ StepsLeft(t) = 0 <=> at[t] = "ended")
        /\ [](\A t \in Checks : at[t] \in {"idle", "check", "ended"})
        /\ [][\A t \in Tasks : GoesForwards(t)]_vars
<1>1. Init => Roles
    BY DEF Init, Roles, RoleOK
<1>2. PoolInv /\ Roles /\ [Next]_vars => Roles' /\ [\A t \in Tasks : GoesForwards(t)]_vars
    <2>1. ASSUME Roles, UNCHANGED vars PROVE Roles'
        BY <2>1 DEF Roles, RoleOK, vars
    <2> QED BY <2>1, NextForwards
<1>3. PoolInv /\ Roles => \A t \in Tasks : /\ StepsLeft(t) \in 0..(IF t \in Lookups THEN 10 ELSE 5)
                                           /\ StepsLeft(t) = 0 <=> at[t] = "ended"
    BY FewSteps
<1>4. PoolInv /\ Roles => \A t \in Checks : at[t] \in {"idle", "check", "ended"}
    BY TaskAssumption DEF PoolInv, TypeOK, Roles, RoleOK, Tasks, Statements
<1> QED BY <1>1, <1>2, <1>3, <1>4, InitPool, NextPool, PTL DEF Spec
=============================================================================
