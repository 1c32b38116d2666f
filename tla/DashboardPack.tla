---------------------------- MODULE DashboardPack ----------------------------
(***************************************************************************)
(* The life of a dashboard: build-sre-dashboards.py lays it out and writes *)
(* its JSON, CI compares the committed file with what the builder would    *)
(* write (--check), and verify-sre-dashboards.py asks Prometheus for every *)
(* expression in it.  A panel has one target; of a target only whether it  *)
(* may be empty is kept, so two files that differ in their text alone are  *)
(* one.                                                                    *)
(***************************************************************************)
EXTENDS DashboardLayout, FiniteSets

CONSTANTS
    Others,         \* the JSON files of other --dashboard-dir arguments
    SampleSets,     \* the sample values a result may have
    MaxExpressions  \* bound: dashboards up to this size go on to CI

ASSUME PackAssumption ==
    /\ Others \subseteq [dir : {"other"}, uid : STRING, targets : Seq(BOOLEAN)]
    /\ SampleSets \subseteq SUBSET {"zero", "number", "nan", "text"}
    /\ MaxExpressions \in Nat

(* The widths of the two dashboards the builder writes, row by row. *)
Panels(n, width) == [i \in 1..n |-> [w |-> width, h |-> 7]]
sre_overview ==
    << Panels(7, 6) \o Panels(2, 3), Panels(7, 8),
       Panels(4, 6) \o Panels(1, 8) \o Panels(4, 6) \o Panels(1, 8), Panels(7, 8), Panels(4, 12) >>
api_performance ==
    << Panels(5, 8), Panels(5, 8), Panels(6, 8), Panels(6, 8), Panels(9, 8), Panels(4, 6) >>

VARIABLES
    stage,      \* the last step of the pipeline
    source,     \* the targets the builder would write now
    committed,  \* the targets in the committed JSON
    files,      \* the files the validator reads, in the order of their paths
    counts,     \* counts[f]: `count` of main for file f
    answers,    \* what Prometheus answered, query by query
    checks      \* the Checks of main

packVars == <<stage, source, committed, files, counts, answers, checks>>
allVars == <<layoutVars, packVars>>

Ours == "ip-country-api-performance"
Uids == {Ours} \cup {f.uid : f \in Others}
File == [dir : {"application", "other"}, uid : Uids, targets : Seq(BOOLEAN)]
Check == [uid : Uids, allowed : BOOLEAN, valid : BOOLEAN, useful : BOOLEAN,
          zero : BOOLEAN, finite : BOOLEAN]
Answer == [kind : {"success"}, samples : SampleSets]
              \cup [kind : {"error", "transport"}, samples : {{}}]

PackTypeOK ==
    /\ LayoutTypeOK
    /\ stage \in {"building", "committed", "checked", "stale", "validating",
                  "passed", "failed", "traceback"}
    /\ source \in Seq(BOOLEAN) /\ committed \in Seq(BOOLEAN)
    /\ files \in Seq(File)
    /\ counts \in Seq(Nat) /\ Len(counts) = Len(files)
    /\ answers \in Seq(Answer)
    /\ checks \in Seq(Check) /\ Len(checks) = Len(answers)

PackInit ==
    /\ LayoutInit
    /\ stage = "building"
    /\ source = <<>> /\ committed = <<>> /\ files = <<>>
    /\ counts = <<>> /\ answers = <<>> /\ checks = <<>>

-----------------------------------------------------------------------------
Layouts ==
    /\ stage = "building"
    /\ LayoutNext
    /\ UNCHANGED packVars

Contents == UNION {[1..n -> BOOLEAN] : n \in 0..MaxExpressions}

(* main without --check.  The layout is done with. *)
Write ==
    /\ stage = "building" /\ LayoutDone
    /\ \E targets \in Contents :
          /\ Len(targets) = Cardinality({i \in DOMAIN panels : ~panels[i].header})
          /\ source' = targets /\ committed' = targets
    /\ stage' = "committed"
    /\ items' = <<>> /\ inside' = FALSE /\ panels' = <<>> /\ y' = 0 /\ panel_id' = 1
    /\ x' = 0 /\ row_height' = 0
    /\ UNCHANGED <<rows, files, counts, answers, checks>>

(* Someone edits the JSON, or the builder without running it. *)
Edit ==
    /\ stage = "committed"
    /\ \/ committed' \in Contents /\ UNCHANGED source
       \/ source' \in Contents /\ UNCHANGED committed
    /\ UNCHANGED <<layoutVars, stage, files, counts, answers, checks>>

(* main with --check, in CI. *)
Matches_Exists == TRUE
Matches == committed = source
CheckCommitted ==
    /\ stage = "committed"
    /\ stage' = IF Matches THEN "checked" ELSE "stale"
    /\ UNCHANGED <<layoutVars, source, committed, files, counts, answers, checks>>

(* parse_args: the committed dashboard and files of other directories, or   *)
(* only those, as a --dashboard-dir replaces the default; a directory that  *)
(* does not exist has no files.                                             *)
StartValidation ==
    /\ stage = "checked"
    /\ stage' = "validating"
    /\ \E ours \in {<<>>, <<[dir |-> "application", uid |-> Ours, targets |-> committed]>>},
          other \in {<<>>} \cup {<<f>> : f \in Others} :
          files' = ours \o other
    /\ counts' = [f \in DOMAIN files' |-> 0]
    /\ UNCHANGED <<layoutVars, source, committed, answers, checks>>

(* The file main is reading: one with targets it has not queried.           *)
Reading(f) ==
    /\ f \in DOMAIN files
    /\ counts[f] < Len(files[f].targets)
    /\ \A g \in 1..(f - 1) : counts[g] = Len(files[g].targets)

(* values_from_result: what is no number is skipped. *)
values_from_result(samples) == samples \ {"text"}

(* The body of main's loop.                                                 *)
Finite(values) == "nan" \notin values
Judge(uid, allowed, answer) ==
    LET values == values_from_result(answer.samples)
        valid == answer.kind = "success"
        useful == valid /\ values # {} /\ Finite(values)
    IN [uid |-> uid, allowed |-> allowed, valid |-> valid, useful |-> useful,
        zero |-> useful /\ values = {"zero"}, finite |-> valid /\ Finite(values)]

Counted_Valid(f, answer) == counts[f] + (IF answer.kind = "error" THEN 0 ELSE 1)
Counted(f, answer) == counts[f] + 1

Recorded_Valid(check) == IF check.valid THEN Append(checks, check) ELSE checks
Recorded(check) == Append(checks, check)

Query(f) ==
    /\ stage = "validating"
    /\ Reading(f)
    /\ \E answer \in Answer :
          /\ answers' = Append(answers, answer)
          /\ checks' = Recorded(Judge(files[f].uid, files[f].targets[counts[f] + 1], answer))
          /\ counts' = [counts EXCEPT ![f] = Counted(f, answer)]
    /\ UNCHANGED <<layoutVars, stage, source, committed, files>>

(* A cut-off body, or an answer without "data", is in no except clause.     *)
QueryBreaks ==
    /\ stage = "validating"
    /\ \E f \in DOMAIN files : Reading(f)
    /\ stage' = "traceback"
    /\ UNCHANGED <<layoutVars, source, committed, files, counts, answers, checks>>

(* The lists main builds, as sets of positions. *)
Invalid == {i \in DOMAIN checks : ~checks[i].valid}
Empty == {i \in DOMAIN checks : checks[i].valid /\ ~checks[i].useful}
Unexplained == {i \in Empty : ~checks[i].allowed}
NonFinite == {i \in DOMAIN checks : ~checks[i].finite}
Failures_Unexplained == Invalid \cup Unexplained
Failures == Invalid \cup Unexplained \cup NonFinite

Summarise ==
    /\ stage = "validating"
    /\ ~\E f \in DOMAIN files : Reading(f)
    /\ stage' = IF Failures = {} THEN "passed" ELSE "failed"
    /\ UNCHANGED <<layoutVars, source, committed, files, counts, answers, checks>>

PackNext ==
    \/ Layouts \/ Write \/ Edit \/ CheckCommitted \/ StartValidation
    \/ (\E f \in DOMAIN files : Query(f)) \/ QueryBreaks \/ Summarise

PackSpec == PackInit /\ [][PackNext]_allVars

-----------------------------------------------------------------------------
(* Properties. *)

(* The validator "checks every PromQL expression, rejects API/parse errors, *)
(* rejects NaN/Inf, and rejects unexplained empty results"                  *)
(* (docs/sre-observability.md:62): when CI has passed and then the          *)
(* validator, every expression in every file it read was answered, with     *)
(* finite values or, where the panel declares it, with none; and the        *)
(* committed dashboard among them is the one the builder builds.            *)
PassMeansData ==
    stage = "passed" =>
        \A f \in DOMAIN files :
           /\ files[f].dir = "application" => files[f].targets = source
           /\ \A t \in DOMAIN files[f].targets :
              LET before == IF f = 1 THEN 0 ELSE Len(files[1].targets)
                  answer == answers[before + t]
              IN  /\ answer.kind = "success"
                  /\ "nan" \notin answer.samples
                  /\ answer.samples \cap {"zero", "number"} # {} \/ files[f].targets[t]

(* The summary's two counts of the expressions of a dashboard agree, the    *)
(* one main keeps while it reads a file ("dashboards") and the one it makes *)
(* of the checks afterwards ("dashboard_results"), as long as no two files  *)
(* have one uid.                                                            *)
ReportAddsUp ==
    /\ stage \in {"passed", "failed"}
    /\ \A f, g \in DOMAIN files : f # g => files[f].uid # files[g].uid
    => \A f \in DOMAIN files :
            counts[f] = Cardinality({i \in DOMAIN checks : checks[i].uid = files[f].uid})
=============================================================================
