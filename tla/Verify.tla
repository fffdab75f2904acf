-------------------------------- MODULE Verify --------------------------------
(* A verification run over a project: checklist.py and verify_all.py of        *)
(* .agent/scripts.  A run takes the checks of its suite one after another: a    *)
(* check whose script is missing is skipped, any other is run as a process of   *)
(* its own, given up after the suite's time limit, and counted.  The project    *)
(* may be edited meanwhile: a script that is running may read it as it was at   *)
(* any moment since its start.                                                  *)
EXTENDS Naturals, Sequences, FiniteSets

CONSTANTS
  Projects,      \* what may be in the project's directory
  Near,          \* Near[p]: what one edit makes of p
  Runs, Scripts,
  Plan,          \* Plan[r]: the scripts of run r, in order
  Critical,      \* Critical[r]: those whose failure stops it
  Limit,         \* Limit[r]: the minutes after which it gives a script up
  Present,       \* Present[p]: the scripts to be found in p
  Check,         \* Check[p][s]: whether s fails on p, and how long it takes
  MaxEdits       \* bound: edits

ASSUME VerifyAssumption ==
  /\ "none" \notin Runs
  /\ Near \in [Projects -> SUBSET Projects]
  /\ Plan \in [Runs -> Seq(Scripts)]
  /\ \A r \in Runs : \A i, j \in 1..Len(Plan[r]) : Plan[r][i] = Plan[r][j] => i = j
  /\ Critical \in [Runs -> SUBSET Scripts]
  /\ Limit \in [Runs -> Nat]
  /\ Present \in [Projects -> SUBSET Scripts]
  /\ Check \in [Projects -> [Scripts -> [fails : BOOLEAN, time : Nat]]]
  /\ MaxEdits \in Nat

VARIABLES
  project,   \* what is in the directory now
  edits,
  run,       \* the suite of the latest run, or "none" before the first
  position,  \* of the check to be done next, or being done
  active,    \* whether its script is running
  seen,      \* what the running script may have read
  results,   \* results[s]: "none", "passed", "failed" or "skipped"
  verdict,   \* "none" while the run goes on, "idle" before the first
  always,    \* scripts there that would fail at every moment of the run so far
  ever       \* scripts that would have failed at some moment of it

vars == <<project, edits, run, position, active, seen, results, verdict, always, ever>>

Overruns(r, p, s) == Check[p][s].time > Limit[r]
Fails(r, p, s) == Overruns(r, p, s) \/ Check[p][s].fails
Faulty(r, p) == {s \in Scripts : Fails(r, p, s)}
Failing(r, p) == Faulty(r, p) \cap Present[p]

Underway == verdict = "none"
Finished == position > Len(Plan[run])
Current == Plan[run][position]

Init ==
  /\ project \in Projects
  /\ edits = 0
  /\ run = "none" /\ position = 1
  /\ active = FALSE /\ seen = {}
  /\ results = [s \in Scripts |-> "none"]
  /\ verdict = "idle"
  /\ always = {} /\ ever = {}

(* Mutant: the results of the last run are kept.                               *)
StartKeepsResults(r) ==
  /\ ~Underway
  /\ run' = r
  /\ position' = 1
  /\ active' = FALSE /\ seen' = {}
  /\ verdict' = "none"
  /\ always' = Failing(r, project) /\ ever' = Faulty(r, project)
  /\ UNCHANGED <<project, edits, results>>

(* main: a run is a process of its own; the next one is not begun before the   *)
(* last one has ended.                                                         *)
Start(r) ==
  /\ ~Underway
  /\ run' = r
  /\ position' = 1
  /\ active' = FALSE /\ seen' = {}
  /\ results' = [s \in Scripts |-> "none"]
  /\ verdict' = "none"
  /\ always' = Failing(r, project) /\ ever' = Faulty(r, project)
  /\ UNCHANGED <<project, edits>>

(* main, given a path that does not exist.                                     *)
NoSuchPath(r) ==
  /\ ~Underway
  /\ run' = r
  /\ position' = Len(Plan[r]) + 1
  /\ active' = FALSE /\ seen' = {}
  /\ results' = [s \in Scripts |-> "none"]
  /\ verdict' = "failed"
  /\ always' = {} /\ ever' = {}
  /\ UNCHANGED <<project, edits>>

(* run_script: a check whose script is missing counts as passed.               *)
Skip ==
  /\ Underway /\ ~Finished /\ ~active
  /\ Current \notin Present[project]
  /\ results' = [results EXCEPT ![Current] = "skipped"]
  /\ position' = position + 1
  /\ UNCHANGED <<project, edits, run, active, seen, verdict, always, ever>>

StartCheck ==
  /\ Underway /\ ~Finished /\ ~active
  /\ Current \in Present[project]
  /\ active' = TRUE
  /\ seen' = {project}
  /\ UNCHANGED <<project, edits, run, position, results, verdict, always, ever>>

(* The rest of run_script and of the loop around it.                           *)
Pass ==
  /\ Underway /\ active
  /\ \E p \in seen : ~Fails(run, p, Current)
  /\ results' = [results EXCEPT ![Current] = "passed"]
  /\ position' = position + 1
  /\ active' = FALSE /\ seen' = {}
  /\ UNCHANGED <<project, edits, run, verdict, always, ever>>

(* Mutant: a check that fails is tried again.                                  *)
FailAndRetry ==
  /\ Underway /\ active
  /\ \E p \in seen : Fails(run, p, Current)
  /\ results' = [results EXCEPT ![Current] = "failed"]
  /\ verdict' = IF Current \in Critical[run] THEN "failed" ELSE "none"
  /\ active' = FALSE /\ seen' = {}
  /\ UNCHANGED <<project, edits, run, position, always, ever>>

Fail ==
  /\ Underway /\ active
  /\ \E p \in seen : Fails(run, p, Current)
  /\ results' = [results EXCEPT ![Current] = "failed"]
  /\ verdict' = IF Current \in Critical[run] THEN "failed" ELSE "none"
  /\ position' = position + 1
  /\ active' = FALSE /\ seen' = {}
  /\ UNCHANGED <<project, edits, run, always, ever>>

(* Mutant: only the critical checks count.                                     *)
ReportCritical ==
  /\ Underway /\ Finished
  /\ verdict' = IF \E s \in Critical[run] : results[s] = "failed" THEN "failed" ELSE "ready"
  /\ UNCHANGED <<project, edits, run, position, active, seen, results, always, ever>>

(* Mutant: the report is made as soon as a check has failed, or none is left.  *)
ReportEarly ==
  /\ Underway /\ ~active
  /\ Finished \/ \E s \in Scripts : results[s] = "failed"
  /\ verdict' = IF \E s \in Scripts : results[s] = "failed" THEN "failed" ELSE "ready"
  /\ UNCHANGED <<project, edits, run, position, active, seen, results, always, ever>>

(* print_summary and print_final_report: skipped checks do not count.          *)
Report ==
  /\ Underway /\ Finished
  /\ verdict' = IF \E s \in Scripts : results[s] = "failed" THEN "failed" ELSE "ready"
  /\ UNCHANGED <<project, edits, run, position, active, seen, results, always, ever>>

(* The run is killed.                                                          *)
Interrupt ==
  /\ Underway
  /\ verdict' = "interrupted"
  /\ active' = FALSE /\ seen' = {}
  /\ UNCHANGED <<project, edits, run, position, results, always, ever>>

(* The developer changes the project.                                          *)
Edit(p) ==
  /\ edits < MaxEdits
  /\ project' = p
  /\ edits' = edits + 1
  /\ seen' = IF active THEN seen \cup {p} ELSE seen
  /\ always' = IF Underway THEN always \cap Failing(run, p) ELSE always
  /\ ever' = IF Underway THEN ever \cup Faulty(run, p) ELSE ever
  /\ UNCHANGED <<run, position, active, results, verdict>>

Step == Skip \/ StartCheck \/ Pass \/ Fail \/ Report

Next ==
  \/ \E r \in Runs : Start(r) \/ NoSuchPath(r)
  \/ Step
  \/ Interrupt
  \/ \E p \in Near[project] : Edit(p)

(* The run goes on by itself: each check ends or is given up.                  *)
FairSpec == Init /\ [][Next]_vars /\ WF_vars(Step)
Spec == Init /\ [][Next]_vars
------------------------------------------------------------------------------
Results == {"none", "passed", "failed", "skipped"}
Verdicts == {"idle", "none", "ready", "failed", "interrupted"}

(* Type correctness.                                                           *)
TypeOK ==
  /\ project \in Projects /\ edits \in 0..MaxEdits
  /\ run \in Runs \cup {"none"}
  /\ position \in Nat \ {0}
  /\ active \in BOOLEAN /\ seen \in SUBSET Projects
  /\ results \in [Scripts -> Results]
  /\ verdict \in Verdicts
  /\ always \in SUBSET Scripts /\ ever \in SUBSET Scripts

(* A check of the suite that would have failed at every moment of the run, or  *)
(* overrun its limit, keeps the run from being "ready", whatever was edited     *)
(* while it ran and whichever version each script read (verify_all.py main and *)
(* print_final_report, checklist.py main and print_summary).                   *)
DefectReported ==
  verdict = "ready" =>
    \A i \in 1..Len(Plan[run]) : Plan[run][i] \notin always

(* A failure that is reported was one at some moment of the run: nothing is    *)
(* carried over from an earlier run or another check.                          *)
FailureHasCause == \A s \in Scripts : results[s] = "failed" => s \in ever

(* The run as a gate: the checks still to be settled, and those that failed.   *)
due ==
  IF run \in Runs THEN {Plan[run][i] : i \in position..Len(Plan[run])} ELSE {}
failures == {s \in Scripts : results[s] = "failed"}
PlanSets == {{Plan[r][i] : i \in 1..Len(Plan[r])} : r \in Runs}
G == INSTANCE Gate WITH Suites <- PlanSets
(* A run implements a gate: each check is settled once, and "ready" is said    *)
(* only when all are settled and none failed.                                  *)
GateSpec == G!Spec

(* A run that has begun ends, however often the project is edited.             *)
RunEnds == Underway ~> ~Underway
=============================================================================
