----------------------------- MODULE VerifyProofs -----------------------------
(* Proofs about Verify: a run implements a gate, a defect that is there        *)
(* throughout a run is reported, and a run ends in finitely many steps, for     *)
(* every suite, project and number of edits; and about VerifyProject, where the *)
(* suites and the scripts are those of the repository: no check overruns, and   *)
(* "ready" means what the checks are there for.                                 *)
EXTENDS VerifyProject, SetSumsProofs

(* What is settled and what the running script may have read.                  *)
Progress ==
  /\ position \in 1..(Len(Plan[run]) + 1)
  /\ always \subseteq Failing(run, project) /\ Faulty(run, project) \subseteq ever
  /\ \A p \in seen : always \subseteq Failing(run, p) /\ Faulty(run, p) \subseteq ever
  /\ active => position \in 1..Len(Plan[run])
  /\ \A i \in 1..Len(Plan[run]) :
       /\ i >= position => results[Plan[run][i]] = "none"
       /\ i < position => Plan[run][i] \notin always \/ results[Plan[run][i]] = "failed"

IInv ==
  /\ TypeOK
  /\ verdict = "idle" => results = [s \in Scripts |-> "none"]
  /\ verdict # "idle" => run \in Runs
  /\ verdict = "none" => Progress
  /\ DefectReported
  /\ FailureHasCause

(* Every entry of a plan is a script.                                          *)
LEMMA PlanEntry ==
  ASSUME NEW r \in Runs, NEW i \in 1..Len(Plan[r])
  PROVE  Plan[r][i] \in Scripts
BY VerifyAssumption

LEMMA PlanLength == ASSUME NEW r \in Runs PROVE Len(Plan[r]) \in Nat
BY VerifyAssumption

(* The check under way is the plan's entry at a position that exists.          *)
LEMMA CurrentEntry ==
  ASSUME IInv, verdict = "none", active \/ ~Finished
  PROVE  /\ run \in Runs
         /\ position \in 1..Len(Plan[run])
         /\ Current \in Scripts
         /\ results[Current] = "none"
<1>1. run \in Runs BY DEF IInv
<1>2. Len(Plan[run]) \in Nat BY <1>1, PlanLength
<1>3. position \in 1..Len(Plan[run]) BY <1>2 DEF IInv, Progress, Finished
<1>4. Current \in Scripts BY <1>1, <1>3, PlanEntry DEF Current
<1>5. results[Current] = "none" BY <1>3, <1>2 DEF IInv, Progress, Current
<1> QED BY <1>1, <1>3, <1>4, <1>5

LEMMA FailingScripts == ASSUME NEW r, NEW p \in Projects PROVE Failing(r, p) \subseteq Scripts /\ Faulty(r, p) \subseteq Scripts
BY DEF Failing, Faulty

LEMMA InitIInv == Init => IInv
<1> SUFFICES ASSUME Init PROVE IInv OBVIOUS
<1>1. results \in [Scripts -> Results] BY DEF Init, Results
<1>2. edits \in 0..MaxEdits BY VerifyAssumption DEF Init
<1>3. TypeOK
  <2>1. active \in BOOLEAN /\ seen \in SUBSET Projects BY Zenon DEF Init
  <2> QED BY <1>1, <1>2, <2>1 DEF Init, TypeOK, Verdicts
<1>4. DefectReported BY DEF Init, DefectReported
<1>5. FailureHasCause BY DEF Init, FailureHasCause
<1> QED BY <1>3, <1>4, <1>5 DEF Init, IInv

LEMMA StartStep ==
  ASSUME IInv, NEW r \in Runs, Start(r) PROVE IInv'
<1>1. Len(Plan[r]) \in Nat BY PlanLength
<1>2. TypeOK'
  <2>1. results' \in [Scripts -> Results] BY DEF Start, Results
  <2>2. Failing(r, project) \subseteq Scripts /\ Faulty(r, project) \subseteq Scripts
    BY FailingScripts DEF IInv, TypeOK
  <2>3. active' \in BOOLEAN /\ seen' \in SUBSET Projects BY Zenon DEF Start
  <2> QED BY <2>1, <2>2, <2>3 DEF IInv, TypeOK, Start, Verdicts
<1>3. Progress'
  <2>1. /\ position' \in 1..(Len(Plan[run']) + 1) BY <1>1 DEF Start
  <2>2. \A i \in 1..Len(Plan[r]) : results'[Plan[r][i]] = "none" BY PlanEntry DEF Start
  <2> QED BY <2>1, <2>2, <1>1 DEF Start, Progress, Failing, Faulty, Fails, Overruns
<1>4. DefectReported' BY DEF Start, DefectReported
<1>5. FailureHasCause' BY DEF Start, FailureHasCause
<1> QED BY <1>2, <1>3, <1>4, <1>5 DEF IInv, Start

LEMMA NoSuchPathStep ==
  ASSUME IInv, NEW r \in Runs, NoSuchPath(r) PROVE IInv'
<1>1. Len(Plan[r]) \in Nat BY PlanLength
<1>2. TypeOK'
  <2>1. results' \in [Scripts -> Results] BY DEF NoSuchPath, Results
  <2>2. active' \in BOOLEAN /\ seen' \in SUBSET Projects BY Zenon DEF NoSuchPath
  <2>3. position' \in Nat \ {0} BY <1>1 DEF NoSuchPath
  <2> QED BY <2>1, <2>2, <2>3 DEF IInv, TypeOK, NoSuchPath, Verdicts
<1>3. DefectReported' BY DEF NoSuchPath, DefectReported
<1>4. FailureHasCause' BY DEF NoSuchPath, FailureHasCause
<1> QED BY <1>2, <1>3, <1>4 DEF IInv, NoSuchPath

(* A check is settled: what it says of the entries before and after it.        *)
LEMMA Settled ==
  ASSUME IInv, verdict = "none", active \/ ~Finished,
         NEW x \in Results,
         results' = [results EXCEPT ![Current] = x],
         position' = position + 1,
         run' = run, always' = always,
         Current \notin always \/ x = "failed"
  PROVE  \A i \in 1..Len(Plan[run]) :
           /\ i >= position' => results'[Plan[run][i]] = "none"
           /\ i < position' => Plan[run][i] \notin always' \/ results'[Plan[run][i]] = "failed"
<1>1. /\ run \in Runs /\ position \in 1..Len(Plan[run]) /\ Current \in Scripts
  BY CurrentEntry
<1>2. Len(Plan[run]) \in Nat BY <1>1, PlanLength
<1> SUFFICES ASSUME NEW i \in 1..Len(Plan[run])
             PROVE  /\ i >= position' => results'[Plan[run][i]] = "none"
                    /\ i < position' => Plan[run][i] \notin always' \/ results'[Plan[run][i]] = "failed"
  OBVIOUS
<1>3. Plan[run][i] \in Scripts BY <1>1, PlanEntry
<1>4. CASE i = position
  <2>1. results'[Plan[run][i]] = x BY <1>4, <1>3 DEF IInv, TypeOK, Current
  <2> QED BY <2>1, <1>4, <1>1, <1>2 DEF Current
<1>5. CASE i # position
  <2>1. Plan[run][i] # Current BY <1>5, <1>1, VerifyAssumption DEF Current
  <2>2. results'[Plan[run][i]] = results[Plan[run][i]] BY <2>1, <1>3 DEF IInv, TypeOK
  <2>3. /\ i >= position => results[Plan[run][i]] = "none"
        /\ i < position => Plan[run][i] \notin always \/ results[Plan[run][i]] = "failed"
    BY DEF IInv, Progress
  <2>4. /\ i >= position' => i >= position
        /\ i < position' => i < position
    BY <1>5, <1>1, <1>2
  <2> QED BY <2>2, <2>3, <2>4
<1> QED BY <1>4, <1>5

LEMMA SkipStep == ASSUME IInv, Skip PROVE IInv'
<1>1. /\ run \in Runs /\ position \in 1..Len(Plan[run]) /\ Current \in Scripts
  BY CurrentEntry DEF Skip, Underway
<1>2. Len(Plan[run]) \in Nat BY <1>1, PlanLength
<1>3. TypeOK'
  <2>1. results' \in [Scripts -> Results] BY DEF IInv, TypeOK, Skip, Results
  <2>2. position' \in Nat \ {0} BY <1>1, <1>2 DEF Skip
  <2> QED BY <2>1, <2>2 DEF IInv, TypeOK, Skip
<1>4. Progress'
  <2>1. Current \notin always
    BY DEF Skip, Underway, IInv, Progress, Failing, Faulty
  <2>2. \A i \in 1..Len(Plan[run]) :
           /\ i >= position' => results'[Plan[run][i]] = "none"
           /\ i < position' => Plan[run][i] \notin always' \/ results'[Plan[run][i]] = "failed"
    BY <2>1, Settled DEF Skip, Underway, Results
  <2>3. position' \in 1..(Len(Plan[run]) + 1) BY <1>1, <1>2 DEF Skip
  <2> QED BY <2>2, <2>3 DEF Skip, Underway, IInv, Progress, Failing, Faulty, Fails, Overruns
<1>5. DefectReported' BY DEF Skip, Underway, DefectReported
<1>6. FailureHasCause'
  BY <1>1 DEF Skip, FailureHasCause, IInv, TypeOK
<1> QED BY <1>3, <1>4, <1>5, <1>6 DEF IInv, Skip, Underway

LEMMA StartCheckStep == ASSUME IInv, StartCheck PROVE IInv'
<1>1. /\ run \in Runs /\ position \in 1..Len(Plan[run])
  BY CurrentEntry DEF StartCheck, Underway
<1>2. TypeOK' BY DEF IInv, TypeOK, StartCheck
<1>3. Progress' BY <1>1 DEF StartCheck, Underway, IInv, Progress, Failing, Faulty, Fails, Overruns
<1> QED BY <1>2, <1>3 DEF IInv, StartCheck, Underway, DefectReported, FailureHasCause

LEMMA PassStep == ASSUME IInv, Pass PROVE IInv'
<1>1. /\ run \in Runs /\ position \in 1..Len(Plan[run]) /\ Current \in Scripts
  BY CurrentEntry DEF Pass, Underway
<1>2. Len(Plan[run]) \in Nat BY <1>1, PlanLength
<1>3. TypeOK'
  <2>1. results' \in [Scripts -> Results] BY DEF IInv, TypeOK, Pass, Results
  <2>2. position' \in Nat \ {0} BY <1>1, <1>2 DEF Pass
  <2> QED BY <2>1, <2>2 DEF IInv, TypeOK, Pass
<1>4. Progress'
  <2>1. Current \notin always
    BY DEF Pass, Underway, IInv, Progress, Failing, Faulty
  <2>2. \A i \in 1..Len(Plan[run]) :
           /\ i >= position' => results'[Plan[run][i]] = "none"
           /\ i < position' => Plan[run][i] \notin always' \/ results'[Plan[run][i]] = "failed"
    BY <2>1, Settled DEF Pass, Underway, Results
  <2>3. position' \in 1..(Len(Plan[run]) + 1) BY <1>1, <1>2 DEF Pass
  <2> QED BY <2>2, <2>3 DEF Pass, Underway, IInv, Progress, Failing, Faulty, Fails, Overruns
<1>5. FailureHasCause'
  BY <1>1 DEF Pass, FailureHasCause, IInv, TypeOK
<1> QED BY <1>3, <1>4, <1>5 DEF IInv, Pass, Underway, DefectReported

LEMMA FailStep == ASSUME IInv, Fail PROVE IInv'
<1>1. /\ run \in Runs /\ position \in 1..Len(Plan[run]) /\ Current \in Scripts
  BY CurrentEntry DEF Fail, Underway
<1>2. Len(Plan[run]) \in Nat BY <1>1, PlanLength
<1>3. TypeOK'
  <2>1. results' \in [Scripts -> Results] BY DEF IInv, TypeOK, Fail, Results
  <2>2. position' \in Nat \ {0} BY <1>1, <1>2 DEF Fail
  <2> QED BY <2>1, <2>2 DEF IInv, TypeOK, Fail, Verdicts
<1>4. Progress'
  <2>1. \A i \in 1..Len(Plan[run]) :
           /\ i >= position' => results'[Plan[run][i]] = "none"
           /\ i < position' => Plan[run][i] \notin always' \/ results'[Plan[run][i]] = "failed"
    BY Settled DEF Fail, Underway, Results
  <2>2. position' \in 1..(Len(Plan[run]) + 1) BY <1>1, <1>2 DEF Fail
  <2> QED BY <2>1, <2>2 DEF Fail, Underway, IInv, Progress, Failing, Faulty, Fails, Overruns
<1>5. FailureHasCause'
  <2>1. Current \in ever
    BY <1>1 DEF Fail, Underway, IInv, Progress, Failing, Faulty
  <2> QED BY <2>1, <1>1 DEF Fail, FailureHasCause, IInv, TypeOK
<1>6. DefectReported' BY DEF Fail, DefectReported
<1> QED BY <1>3, <1>4, <1>5, <1>6, <1>1 DEF IInv, Fail, Underway

LEMMA ReportStep == ASSUME IInv, Report PROVE IInv'
<1>1. run \in Runs BY DEF IInv, Report, Underway
<1>2. Len(Plan[run]) \in Nat BY <1>1, PlanLength
<1>3. TypeOK' BY DEF IInv, TypeOK, Report, Verdicts
<1>4. DefectReported'
  <2> SUFFICES ASSUME verdict' = "ready", NEW i \in 1..Len(Plan[run])
               PROVE  Plan[run][i] \notin always
    BY DEF DefectReported, Report
  <2>1. results[Plan[run][i]] # "failed" BY <1>1, PlanEntry DEF Report
  <2>2. i < position BY <1>2 DEF Report, Finished, IInv, TypeOK
  <2> QED BY <2>1, <2>2 DEF Report, Underway, IInv, Progress
<1> QED BY <1>1, <1>3, <1>4 DEF IInv, Report, Underway, FailureHasCause

LEMMA InterruptStep == ASSUME IInv, Interrupt PROVE IInv'
BY DEF IInv, TypeOK, Interrupt, Underway, Verdicts, DefectReported, FailureHasCause

LEMMA EditStep == ASSUME IInv, NEW p \in Near[project], Edit(p) PROVE IInv'
<1>1. p \in Projects BY VerifyAssumption DEF IInv, TypeOK
<1>2. TypeOK'
  <2>1. edits' \in 0..MaxEdits BY VerifyAssumption DEF IInv, TypeOK, Edit
  <2>2. Failing(run, p) \subseteq Scripts /\ Faulty(run, p) \subseteq Scripts BY <1>1, FailingScripts
  <2> QED BY <1>1, <2>1, <2>2 DEF IInv, TypeOK, Edit
<1>3. ASSUME verdict = "none" PROVE Progress'
  BY <1>3 DEF Edit, Underway, IInv, Progress, Failing, Faulty, Fails, Overruns
<1>4. DefectReported' BY DEF Edit, Underway, IInv, DefectReported
<1>5. FailureHasCause' BY DEF Edit, IInv, FailureHasCause
<1> QED BY <1>2, <1>3, <1>4, <1>5 DEF IInv, Edit

LEMMA NextIInv == IInv /\ [Next]_vars => IInv'
<1> SUFFICES ASSUME IInv, [Next]_vars PROVE IInv' OBVIOUS
<1>1. CASE UNCHANGED vars
  BY <1>1 DEF vars, IInv, TypeOK, Progress, Failing, Faulty, Fails, Overruns, DefectReported, FailureHasCause
<1>2. CASE Next
  BY <1>2, StartStep, NoSuchPathStep, SkipStep, StartCheckStep, PassStep, FailStep, ReportStep,
     InterruptStep, EditStep DEF Next, Step
<1> QED BY <1>1, <1>2

(* The variables of a run keep their types.                                    *)
THEOREM TypeCorrect == Spec => []TypeOK
<1>1. IInv => TypeOK BY DEF IInv
<1> QED BY InitIInv, NextIInv, <1>1, PTL DEF Spec

(* A check that would fail throughout a run keeps it from being "ready"        *)
(* (verify_all.py and checklist.py main), for every suite and every project.   *)
THEOREM DefectIsReported == Spec => []DefectReported
<1>1. IInv => DefectReported BY DEF IInv
<1> QED BY InitIInv, NextIInv, <1>1, PTL DEF Spec

(* A failure that is reported was one at some moment of its run.               *)
THEOREM FailuresHaveCauses == Spec => []FailureHasCause
<1>1. IInv => FailureHasCause BY DEF IInv
<1> QED BY InitIInv, NextIInv, <1>1, PTL DEF Spec
------------------------------------------------------------------------------
(* The step that settles the check under way takes it, and nothing else, from  *)
(* what is due.                                                                *)
LEMMA DueShrinks ==
  ASSUME IInv, verdict = "none", active \/ ~Finished,
         run' = run, position' = position + 1
  PROVE  Current \in due /\ due' = due \ {Current}
<1>1. /\ run \in Runs /\ position \in 1..Len(Plan[run])
  BY CurrentEntry
<1>2. Len(Plan[run]) \in Nat BY <1>1, PlanLength
<1>3. Current \in due BY <1>1, <1>2 DEF due, Current
<1>4. due' = {Plan[run][i] : i \in (position + 1)..Len(Plan[run])} BY <1>1 DEF due
<1>5. ASSUME NEW i \in position..Len(Plan[run])
      PROVE  Plan[run][i] = Current <=> i = position
  BY <1>1, <1>2, VerifyAssumption DEF Current
<1>6. due = {Plan[run][i] : i \in position..Len(Plan[run])} BY <1>1 DEF due
<1>7. \A x : x \in due' <=> x \in due \ {Current}
  <2>1. \A i : i \in (position + 1)..Len(Plan[run]) <=>
               i \in position..Len(Plan[run]) /\ i # position
    BY <1>1, <1>2
  <2> QED BY <2>1, <1>4, <1>5, <1>6
<1> QED BY <1>3, <1>7

(* What the step that settles a check adds to the failures.                    *)
LEMMA FailuresGrow ==
  ASSUME IInv, verdict = "none", active \/ ~Finished,
         NEW x \in Results, results' = [results EXCEPT ![Current] = x]
  PROVE  failures' = IF x = "failed" THEN failures \cup {Current} ELSE failures
<1>1. Current \in Scripts /\ results[Current] = "none" BY CurrentEntry
<1> QED BY <1>1 DEF failures, IInv, TypeOK

LEMMA GateInit == Init => G!Init
BY VerifyAssumption DEF Init, G!Init, due, failures

LEMMA GateStart == ASSUME IInv, NEW r \in Runs, Start(r) PROVE G!Next
<1>1. due' = {Plan[r][i] : i \in 1..Len(Plan[r])} BY DEF Start, due
<1>2. due' \in PlanSets BY <1>1 DEF PlanSets
<1>3. failures' = {} BY DEF Start, failures
<1>4. verdict # "none" BY DEF Start, Underway
<1>5. G!Begin(due') BY <1>3, <1>4 DEF G!Begin, Start
<1> QED BY <1>2, <1>5 DEF G!Next

LEMMA GateNoSuchPath == ASSUME IInv, NEW r \in Runs, NoSuchPath(r) PROVE G!Next
<1>1. Len(Plan[r]) \in Nat BY PlanLength
<1>2. due' = {} BY <1>1 DEF NoSuchPath, due
<1>3. failures' = {} BY DEF NoSuchPath, failures
<1> QED BY <1>2, <1>3 DEF G!Next, G!Refuse, NoSuchPath, Underway

LEMMA GatePass == ASSUME IInv, Skip \/ Pass PROVE G!Next
<1>1. verdict = "none" /\ (active \/ ~Finished) /\ run' = run /\ position' = position + 1
      /\ verdict' = verdict
  BY DEF Skip, Pass, Underway
<1>2. Current \in due /\ due' = due \ {Current} BY <1>1, DueShrinks
<1>3. failures' = failures BY <1>1, FailuresGrow DEF Skip, Pass, Results
<1>4. G!Pass(Current) BY <1>1, <1>2, <1>3 DEF G!Pass
<1> QED BY <1>2, <1>4 DEF G!Next

LEMMA GateFail == ASSUME IInv, Fail PROVE G!Next
<1>1. verdict = "none" /\ active /\ run' = run /\ position' = position + 1
  BY DEF Fail, Underway
<1>2. Current \in due /\ due' = due \ {Current} BY <1>1, DueShrinks
<1>3. failures' = failures \cup {Current} BY <1>1, FailuresGrow DEF Fail, Results
<1>4. verdict' \in {"none", "failed"} BY DEF Fail
<1>5. G!Fail(Current) BY <1>1, <1>2, <1>3, <1>4 DEF G!Fail
<1> QED BY <1>2, <1>5 DEF G!Next

LEMMA GateReport == ASSUME IInv, Report PROVE G!Next
<1>1. run \in Runs /\ Len(Plan[run]) \in Nat BY PlanLength DEF Report, Underway, IInv
<1>2. due = {} BY <1>1 DEF Report, Finished, due, IInv, TypeOK
<1>3. due' = due /\ failures' = failures BY DEF Report, due, failures
<1>4. verdict' = IF failures = {} THEN "ready" ELSE "failed"
  <2>1. (failures = {}) <=> ~ \E s \in Scripts : results[s] = "failed" BY DEF failures
  <2> QED BY <2>1 DEF Report
<1>5. G!Decide BY <1>2, <1>3, <1>4 DEF G!Decide, Report, Underway
<1> QED BY <1>5 DEF G!Next

LEMMA GateInterrupt == ASSUME IInv, Interrupt PROVE G!Next
<1>1. due' = due /\ failures' = failures BY DEF Interrupt, due, failures
<1> QED BY <1>1 DEF G!Next, G!GiveUp, Interrupt, Underway

LEMMA GateStep == IInv /\ [Next]_vars => [G!Next]_(G!vars)
<1> SUFFICES ASSUME IInv, [Next]_vars PROVE [G!Next]_(G!vars) OBVIOUS
<1>1. ASSUME UNCHANGED vars \/ StartCheck \/ \E p \in Near[project] : Edit(p)
      PROVE  UNCHANGED G!vars
  BY <1>1 DEF vars, StartCheck, Edit, G!vars, due, failures
<1> QED
  BY <1>1, GateStart, GateNoSuchPath, GatePass, GateFail, GateReport, GateInterrupt DEF Next, Step

(* A run of checklist.py or verify_all.py implements the gate, whatever is in  *)
(* its suite: every check is settled once and "ready" is said only when all    *)
(* are settled and none failed.                                                *)
THEOREM RunsAreGates == Spec => GateSpec
<1>1. Spec => []IInv BY InitIInv, NextIInv, PTL DEF Spec
<1>2. IInv /\ [Next]_vars => [G!Next]_(G!vars) BY GateStep
<1> QED BY GateInit, <1>1, <1>2, PTL DEF Spec, GateSpec, G!Spec

-----------------------------------------------------------------------------
(* The time that a check takes.                                             *)

(* Four elements are at most four.                                             *)
LEMMA FourAtMost ==
  ASSUME NEW a, NEW b, NEW c, NEW d
  PROVE  IsFiniteSet({a, b, c, d}) /\ Cardinality({a, b, c, d}) <= 4
<1>1. IsFiniteSet({a}) /\ Cardinality({a}) = 1
  BY FS_Singleton
<1>2. IsFiniteSet({a, b}) /\ Cardinality({a, b}) \in 0..2
  <2>1. {a} \cup {b} = {a, b}
    OBVIOUS
  <2> QED  BY <1>1, <2>1, FS_AddElement
<1>3. IsFiniteSet({a, b, c}) /\ Cardinality({a, b, c}) \in 0..3
  <2>1. {a, b} \cup {c} = {a, b, c}
    OBVIOUS
  <2> QED  BY <1>2, <2>1, FS_AddElement
<1>4. {a, b, c} \cup {d} = {a, b, c, d}
  OBVIOUS
<1> QED  BY <1>3, <1>4, FS_AddElement

(* Of the linters at most four run: a package has its own lint script or not.  *)
LEMMA FourLinters ==
  ASSUME NEW p
  PROVE  IsFiniteSet(detect_project_type(p)) /\ Cardinality(detect_project_type(p)) <= 4
<1> DEFINE own == {"npm lint", "tsc", "ruff", "mypy"}
           eslint == {"eslint", "tsc", "ruff", "mypy"}
<1>1. detect_project_type(p) \subseteq own \/ detect_project_type(p) \subseteq eslint
  BY DEF detect_project_type, Linters
<1>2. /\ IsFiniteSet(own) /\ Cardinality(own) <= 4
      /\ IsFiniteSet(eslint) /\ Cardinality(eslint) <= 4
  BY FourAtMost
<1> HIDE DEF own, eslint
<1> QED  BY <1>1, <1>2, FS_Subset, FS_CardinalityType

(* The limits that the scripts set their commands.                             *)
LEMMA Limits ==
  /\ \A c \in Linters : OwnLimit(c) = 2
  /\ \A c \in {"npm test", "vitest", "jest", "pytest"} : OwnLimit(c) = 5
  /\ OwnLimit("npm audit") = 1
  /\ OwnLimit("lighthouse") = 2
BY DEF OwnLimit, Linters

(* A command is given up when it has had its own limit.                        *)
LEMMA MinutesBound ==
  ASSUME NEW p, NEW c, p.cmd[c].time \in Nat, NEW k \in Nat, OwnLimit(c) \in 0..k
  PROVE  Minutes(p, c) \in 0..k
BY DEF Minutes, GivenUp

(* Commands that have k minutes each.                                          *)
LEMMA InARow ==
  ASSUME NEW s, NEW p, NEW k \in Nat, IsFiniteSet(Commands(s, p)),
         \A c \in Commands(s, p) : p.cmd[c].time \in Nat /\ OwnLimit(c) \in 0..k
  PROVE  Duration(s, p) \in Nat /\ Duration(s, p) <= k * Cardinality(Commands(s, p))
<1> DEFINE q == [c \in Commands(s, p) |-> Minutes(p, c)]
<1>1. \A c \in Commands(s, p) : q[c] \in 0..k
  BY MinutesBound
<1>2. Duration(s, p) = Total(Commands(s, p), q)
  BY DEF Duration
<1> HIDE DEF q
<1>3. Total(Commands(s, p), q) \in Nat /\ Total(Commands(s, p), q) <= k * Cardinality(Commands(s, p))
  BY <1>1, TotalBound
<1> QED  BY <1>2, <1>3

(* At most one command.                                                        *)
LEMMA AtMostOne ==
  ASSUME NEW S, \E c : S \subseteq {c}
  PROVE  IsFiniteSet(S) /\ Cardinality(S) \in 0..1
<1>1. PICK c : S \subseteq {c}
  OBVIOUS
<1>2. IsFiniteSet({c}) /\ Cardinality({c}) = 1
  BY FS_Singleton
<1>3. Cardinality(S) <= 1 /\ Cardinality(S) \in Nat /\ IsFiniteSet(S)
  BY <1>1, <1>2, FS_Subset, FS_CardinalityType
<1> QED  BY <1>3

(* The commands of a project take the minutes that the assumption speaks of.   *)
LEMMA CommandTime ==
  ASSUME NEW p \in Projects, NEW s \in SuiteScripts, NEW c \in Commands(s, Content[p])
  PROVE  Content[p].cmd[c].time \in Nat
BY ProjectAssumption

(* Whatever a script waits for is over in ten minutes.                         *)
LEMMA TenMinutes ==
  ASSUME NEW p \in Projects, NEW s \in SuiteScripts
  PROVE  Duration(s, Content[p]) \in 0..10
<1> DEFINE q == Content[p]
           S == Commands(s, q)
<1>0. \A c \in S : q.cmd[c].time \in Nat
  BY CommandTime
<1>1. CASE s = "lint_runner"
  <2>1. S = detect_project_type(q)
    BY <1>1 DEF Commands
  <2>2. IsFiniteSet(S) /\ Cardinality(S) <= 4 /\ Cardinality(S) \in Nat
    BY <2>1, FourLinters, FS_CardinalityType
  <2>3. \A c \in S : OwnLimit(c) = 2
    BY <2>1, Limits DEF detect_project_type
  <2> HIDE DEF q, S
  <2>4. Duration(s, q) \in Nat /\ Duration(s, q) <= 2 * Cardinality(S)
    BY <1>0, <2>2, <2>3, InARow DEF S
  <2>5. Duration(s, q) \in 0..10
    BY <2>2, <2>4
  <2> QED  BY <2>5 DEF q
<1>2. CASE s = "test_runner"
  <2>1. S = detect_test_framework(q)
    BY <1>2 DEF Commands
  <2>2. \E c : S \subseteq {c}
    BY <2>1 DEF detect_test_framework
  <2>3. \A d \in S : OwnLimit(d) = 5
    BY <2>1, Limits DEF detect_test_framework
  <2>4. IsFiniteSet(S) /\ Cardinality(S) \in 0..1
    BY <2>2, AtMostOne
  <2> HIDE DEF q, S
  <2>5. Duration(s, q) \in Nat /\ Duration(s, q) <= 5 * Cardinality(S)
    BY <1>0, <2>3, <2>4, InARow DEF S
  <2>6. Duration(s, q) \in 0..10
    BY <2>4, <2>5
  <2> QED  BY <2>6 DEF q
<1>3. CASE s \notin {"lint_runner", "test_runner"}
  <2>1. \E c : S \subseteq {c}
    BY <1>3 DEF Commands
  <2>2. \A d \in S : OwnLimit(d) = 1 \/ OwnLimit(d) = 2
    BY <1>3, Limits DEF Commands
  <2>3. IsFiniteSet(S) /\ Cardinality(S) \in 0..1
    BY <2>1, AtMostOne
  <2> HIDE DEF q, S
  <2>4. Duration(s, q) \in Nat /\ Duration(s, q) <= 2 * Cardinality(S)
    BY <1>0, <2>2, <2>3, InARow DEF S
  <2>5. Duration(s, q) \in 0..10
    BY <2>3, <2>4
  <2> QED  BY <2>5 DEF q
<1> QED  BY <1>1, <1>2, <1>3

(* A check takes no longer than what its script waits for.                     *)
LEMMA CheckTime ==
  ASSUME NEW p \in Projects, NEW s \in Scripts
  PROVE  Check[p][s].time \in 0..10
<1>1. s \in SuiteScripts /\ Check[p][s] = SuiteCheck[p][s]
  BY ProjectAssumption
<1>2. CASE s \in SuitePresent[p]
  BY <1>1, <1>2, TenMinutes DEF SuiteCheck, RunCheck
<1>3. CASE s \notin SuitePresent[p]
  BY <1>1, <1>3 DEF SuiteCheck
<1> QED  BY <1>2, <1>3

(* The suites give every check of verify_all ten minutes.                      *)
LEMMA TenMinuteLimit ==
  ASSUME NEW r \in {"verify_all", "verify_all --no-e2e", "verify_all --stop-on-fail"}
  PROVE  Limit[r] = 10
<1>1. r \in SuiteRuns /\ r \notin {"checklist", "checklist --url"}
  BY DEF SuiteRuns
<1>2. SuiteLimit[r] = 10
  BY <1>1 DEF SuiteLimit
<1> QED  BY <1>2, ProjectAssumption

-----------------------------------------------------------------------------
(* The versions of the project that the running script may have read, and the  *)
(* defects of one that is not edited.                                          *)

Watch ==
  /\ seen # {} => active
  /\ active => Underway
  /\ edits = 0 /\ verdict \in {"none", "ready"} => always = Failing(run, project)

LEMMA InitWatch == Init => Watch
BY DEF Init, Watch

LEMMA WatchStep == IInv /\ Watch /\ [Next]_vars => Watch'
<1> SUFFICES ASSUME IInv, Watch, [Next]_vars PROVE Watch'
  OBVIOUS
<1>1. ASSUME NEW r \in Runs, Start(r) PROVE Watch'
  BY <1>1 DEF Start, Watch, Failing, Faulty
<1>2. ASSUME NEW r \in Runs, NoSuchPath(r) PROVE Watch'
  BY <1>2 DEF NoSuchPath, Watch, Underway
<1>3. CASE Skip
  BY <1>3 DEF Skip, Watch, Underway, Failing, Faulty
<1>4. CASE StartCheck
  BY <1>4 DEF StartCheck, Watch, Underway
<1>5. CASE Pass
  BY <1>5 DEF Pass, Watch, Underway
<1>6. CASE Fail
  BY <1>6 DEF Fail, Watch, Underway
<1>7. CASE Report
  <2>1. run \in Runs /\ position > Len(Plan[run]) /\ position \in Nat /\ verdict = "none"
    BY <1>7 DEF Report, Underway, Finished, IInv, TypeOK
  <2>2. ~ active
    BY <2>1, PlanLength DEF IInv, Progress
  <2> QED  BY <1>7, <2>2 DEF Report, Watch, Underway, Failing, Faulty
<1>8. CASE Interrupt
  BY <1>8 DEF Interrupt, Watch, Underway
<1>9. ASSUME NEW p \in Near[project], Edit(p) PROVE Watch'
  <2>1. edits \in Nat /\ edits' = edits + 1
    BY <1>9, VerifyAssumption DEF Edit, IInv, TypeOK
  <2>2. edits' # 0
    BY <2>1
  <2> QED  BY <1>9, <2>2 DEF Edit, Watch, Underway
<1>10. CASE UNCHANGED vars
  BY <1>10 DEF vars, Watch, Underway, Failing, Faulty
<1> QED  BY <1>1, <1>2, <1>3, <1>4, <1>5, <1>6, <1>7, <1>8, <1>9, <1>10 DEF Next, Step

LEMMA Watched == Spec => [](IInv /\ Watch)
<1>1. Init => IInv /\ Watch
  BY InitIInv, InitWatch
<1>2. IInv /\ Watch /\ [Next]_vars => IInv' /\ Watch'
  BY NextIInv, WatchStep
<1> QED  BY <1>1, <1>2, PTL DEF Spec

(* The check being done, over any version of the project that it may have read. *)
LEMMA SeenTime ==
  ASSUME IInv, Watch, NEW p \in seen
  PROVE  ~ Check[p][Current].time > 10
<1>1. active /\ verdict = "none"
  BY DEF Watch, Underway
<1>2. run \in Runs /\ position \in 1..Len(Plan[run])
  BY <1>1 DEF IInv, Progress
<1>3. p \in Projects /\ Current \in Scripts
  BY <1>2, PlanEntry DEF Current, IInv, TypeOK
<1>4. Check[p][Current].time \in 0..10
  BY <1>3, CheckTime
<1> QED  BY <1>4

LEMMA InTime == ASSUME IInv, Watch PROVE NoOverrun
BY SeenTime, TenMinuteLimit DEF NoOverrun, Overruns

(* In verify_all no check is given up for its time while its commands keep to   *)
(* their own limits: whatever the project, however it is edited meanwhile, the  *)
(* four linters, the tests, the audit and Lighthouse end within ten minutes     *)
(* (verify_all.py run_script, lint_runner.py run_linter, test_runner.py).       *)
THEOREM ChecksEndInTime == Spec => []NoOverrun
BY Watched, InTime, PTL

-----------------------------------------------------------------------------
(* What a check that succeeds says of the project.                             *)

SoundScripts == {"lint_runner", "test_runner", "ux_audit", "seo_checker"}

(* What the first of two sequences has is in their concatenation.              *)
LEMMA InFront ==
  ASSUME NEW S, NEW a \in Seq(S), NEW b \in Seq(S), NEW s, \E i \in 1..Len(a) : a[i] = s
  PROVE  \E i \in 1..Len(a \o b) : (a \o b)[i] = s
<1>1. PICK i \in 1..Len(a) : a[i] = s
  OBVIOUS
<1>2. i \in 1..Len(a \o b) /\ (a \o b)[i] = a[i]
  BY <1>1
<1> QED  BY <1>1, <1>2

(* Every suite has the linters, the tests, the UX audit and the SEO check.     *)
LEMMA SoundPlanned ==
  ASSUME NEW r \in SuiteRuns, NEW s \in SoundScripts
  PROVE  \E i \in 1..Len(SuitePlan[r]) : SuitePlan[r][i] = s
<1>1. \E i \in 1..Len(CORE_CHECKS) : CORE_CHECKS[i] = s
  <2>1. Len(CORE_CHECKS) = 6
    BY DEF CORE_CHECKS
  <2>2. /\ CORE_CHECKS[2] = "lint_runner" /\ CORE_CHECKS[4] = "test_runner"
        /\ CORE_CHECKS[5] = "ux_audit" /\ CORE_CHECKS[6] = "seo_checker"
    BY DEF CORE_CHECKS
  <2> QED  BY <2>1, <2>2 DEF SoundScripts
<1>2. \E i \in 1..Len(BEFORE_E2E) : BEFORE_E2E[i] = s
  <2>1. Len(BEFORE_E2E) = 12
    BY DEF BEFORE_E2E
  <2>2. /\ BEFORE_E2E[3] = "lint_runner" /\ BEFORE_E2E[6] = "test_runner"
        /\ BEFORE_E2E[7] = "ux_audit" /\ BEFORE_E2E[9] = "seo_checker"
    BY DEF BEFORE_E2E
  <2> QED  BY <2>1, <2>2 DEF SoundScripts
<1> DEFINE names == Range(CORE_CHECKS) \cup Range(PERFORMANCE_CHECKS)
                      \cup Range(BEFORE_E2E) \cup Range(E2E) \cup Range(AFTER_E2E)
<1>3. /\ CORE_CHECKS \in Seq(names) /\ PERFORMANCE_CHECKS \in Seq(names)
      /\ BEFORE_E2E \in Seq(names) /\ E2E \in Seq(names) /\ AFTER_E2E \in Seq(names)
  <2>1. CORE_CHECKS \in Seq(Range(CORE_CHECKS))
    BY DEF CORE_CHECKS, Range
  <2>2. PERFORMANCE_CHECKS \in Seq(Range(PERFORMANCE_CHECKS))
    BY DEF PERFORMANCE_CHECKS, Range
  <2>3. BEFORE_E2E \in Seq(Range(BEFORE_E2E))
    BY DEF BEFORE_E2E, Range
  <2>4. E2E \in Seq(Range(E2E)) /\ AFTER_E2E \in Seq(Range(AFTER_E2E))
    BY DEF E2E, AFTER_E2E, Range
  <2> QED  BY <2>1, <2>2, <2>3, <2>4
<1> HIDE DEF names
<1>4. \E i \in 1..Len(CORE_CHECKS \o PERFORMANCE_CHECKS) : (CORE_CHECKS \o PERFORMANCE_CHECKS)[i] = s
  BY <1>1, <1>3, InFront
<1>5. \E i \in 1..Len(BEFORE_E2E \o AFTER_E2E) : (BEFORE_E2E \o AFTER_E2E)[i] = s
  BY <1>2, <1>3, InFront
<1>6. \E i \in 1..Len(VERIFICATION_SUITE) : VERIFICATION_SUITE[i] = s
  <2>1. BEFORE_E2E \o E2E \in Seq(names)
    BY <1>3
  <2>2. \E i \in 1..Len(BEFORE_E2E \o E2E) : (BEFORE_E2E \o E2E)[i] = s
    BY <1>2, <1>3, InFront
  <2>3. \E i \in 1..Len((BEFORE_E2E \o E2E) \o AFTER_E2E) : ((BEFORE_E2E \o E2E) \o AFTER_E2E)[i] = s
    BY <1>3, <2>1, <2>2, InFront
  <2> QED  BY <2>3 DEF VERIFICATION_SUITE
<1>7. \/ SuitePlan[r] = CORE_CHECKS
      \/ SuitePlan[r] = CORE_CHECKS \o PERFORMANCE_CHECKS
      \/ SuitePlan[r] = BEFORE_E2E \o AFTER_E2E
      \/ SuitePlan[r] = VERIFICATION_SUITE
  BY DEF SuitePlan
<1> QED  BY <1>1, <1>4, <1>5, <1>6, <1>7

(* A complete project has these scripts.                                       *)
LEMMA SoundPresent ==
  ASSUME NEW p \in Projects, p \in Complete, NEW s \in SoundScripts
  PROVE  s \in SuiteScripts /\ s \in SuitePresent[p]
<1>1. s \in Range(CORE_CHECKS)
  <2>1. /\ CORE_CHECKS[2] = "lint_runner" /\ CORE_CHECKS[4] = "test_runner"
        /\ CORE_CHECKS[5] = "ux_audit" /\ CORE_CHECKS[6] = "seo_checker"
        /\ DOMAIN CORE_CHECKS = 1..6
    BY DEF CORE_CHECKS
  <2> QED  BY <2>1 DEF Range, SoundScripts
<1>2. s \in SuiteScripts \ {"dependency_analyzer", "bundle_analyzer"}
  BY <1>1 DEF SuiteScripts, SoundScripts
<1> QED  BY <1>2 DEF SuitePresent

(* A script that would not fail has no reason to.                              *)
LEMMA NoReason ==
  ASSUME NEW r \in SuiteRuns, NEW p \in Projects, p \in Complete, NEW s \in SoundScripts,
         s \notin Failing(r, p)
  PROVE  Reasons(s, Content[p]) = {}
<1>1. s \in SuiteScripts /\ s \in SuitePresent[p] /\ s \in Scripts /\ s \in Present[p]
  BY SoundPresent, ProjectAssumption
<1>2. ~ Check[p][s].fails
  BY <1>1 DEF Failing, Faulty, Fails
<1>3. Check[p][s] = RunCheck(s, Content[p])
  BY <1>1, ProjectAssumption DEF SuiteCheck
<1>4. CASE Content[p].cmd["python"].result = "absent"
  BY <1>2, <1>3, <1>4 DEF RunCheck
<1>5. CASE Content[p].cmd["python"].result # "absent"
  <2>1. RunCheck(s, Content[p]).fails = (Reasons(s, Content[p]) # {})
    BY <1>5 DEF RunCheck
  <2> QED  BY <1>2, <1>3, <2>1
<1> QED  BY <1>4, <1>5

(* The scripts know the linters and tests that they understand.                *)
LEMMA Known ==
  ASSUME NEW p, NEW c \in Configured(p), Understood(p, c)
  PROVE  c \in detect_project_type(p) \/ c \in detect_test_framework(p)
<1>1. CASE c \in NodeLinters(p)
  <2>1. p.pkg = "ok"
    BY <1>1 DEF Understood
  <2>2. CASE c = "npm lint"
    BY <1>1, <2>1, <2>2 DEF NodeLinters, detect_project_type, Linters
  <2>3. CASE c = "eslint"
    BY <1>1, <2>1, <2>3 DEF NodeLinters, detect_project_type, Linters
  <2>4. CASE c = "tsc"
    BY <1>1, <2>1, <2>4 DEF NodeLinters, detect_project_type, Linters
  <2>5. c \in {"npm lint", "eslint", "tsc"}
    BY <1>1 DEF NodeLinters
  <2> QED  BY <2>2, <2>3, <2>4, <2>5
<1>2. CASE c \in PythonLinters(p)
  <2>1. CASE c = "ruff"
    BY <1>2, <2>1 DEF PythonLinters, detect_project_type, Linters
  <2>2. CASE c = "mypy"
    BY <1>2, <2>2 DEF PythonLinters, detect_project_type, Linters
  <2> QED  BY <1>2, <2>1, <2>2 DEF PythonLinters
<1>3. CASE c \in Tests(p)
  <2>1. Tests(p) = {c}
    BY <1>3 DEF Understood
  <2>2. CASE Python(p)
    BY <1>3, <2>1, <2>2 DEF Tests, PythonTests, detect_test_framework
  <2>3. CASE ~Python(p)
    <3>1. c \in NodeTests(p) /\ NodeTests(p) = {c} /\ p.pkg = "ok"
      BY <1>3, <2>1, <2>3 DEF Tests, PythonTests, Understood
    <3>2. CASE "test" \in p.npm
      BY <2>3, <3>1, <3>2 DEF NodeTests, detect_test_framework
    <3>3. CASE "test" \notin p.npm
      <4>1. {"vitest", "jest"} \cap p.deps = {c}
        BY <3>1, <3>3 DEF NodeTests
      <4>2. CASE "vitest" \in p.deps
        BY <2>3, <3>1, <3>3, <4>1, <4>2 DEF detect_test_framework
      <4>3. CASE "vitest" \notin p.deps
        BY <2>3, <3>1, <3>3, <4>1, <4>3 DEF detect_test_framework
      <4> QED  BY <4>2, <4>3
    <3> QED  BY <3>2, <3>3
  <2> QED  BY <2>2, <2>3
<1> QED  BY <1>1, <1>2, <1>3 DEF Configured

(* None of them fails when the linters and tests have no reason to fail.       *)
LEMMA CommandsSound ==
  ASSUME NEW p, Reasons("lint_runner", p) = {}, Reasons("test_runner", p) = {},
         NEW c \in Configured(p), Understood(p, c)
  PROVE  p.cmd[c].result = "ok" /\ ~GivenUp(p, c)
<1>1. lint_runner(p) = {} /\ test_runner(p) = {}
  BY DEF Reasons
<1>2. c \in detect_project_type(p) \/ c \in detect_test_framework(p)
  BY Known
<1>3. Succeeds(p, c)
  BY <1>1, <1>2 DEF lint_runner, test_runner, run_linter, run_tests
<1> QED  BY <1>3 DEF Succeeds

(* No image without a text is in a page that the UX audit has read.            *)
LEMMA ImagesSound ==
  ASSUME NEW p, Reasons("ux_audit", p) = {}, NEW i \in DOMAIN p.files,
         p.files[i].ok, p.files[i].dir = "app", p.files[i].kind \in UserFacing
  PROVE  "img without alt" \notin p.files[i].has
<1>1. ux_audit(p) = {}
  BY DEF Reasons
<1>2. i \in ux_audit_directory(p)
  BY DEF ux_audit_directory, Readable, Walk, UserFacing, Generated
<1>3. ux_audit_file(p.files[i]) = {}
  BY <1>1, <1>2 DEF ux_audit
<1>4. image_issues(p.files[i]) = {}
  BY <1>3 DEF ux_audit_file
<1> QED  BY <1>4 DEF image_issues, Marked

(* The first n of at most n pairs are all of them.                             *)
LEMMA TakeAll ==
  ASSUME NEW S, S \subseteq Nat \X Nat, IsFiniteSet(S), NEW n \in Nat, Cardinality(S) <= n
  PROVE  Take(S, n) = S
<1>1. ASSUME NEW x \in S PROVE Cardinality({y \in S : Before(y, x)}) < n
  <2> DEFINE T == {y \in S : Before(y, x)}
  <2>1. x \notin T
    BY DEF Before
  <2>2. T \subseteq S \ {x}
    BY <2>1
  <2>3. IsFiniteSet(S \ {x}) /\ Cardinality(S \ {x}) = Cardinality(S) - 1 /\ Cardinality(S) \in Nat
    BY FS_RemoveElement, FS_CardinalityType
  <2> HIDE DEF T
  <2>4. Cardinality(T) <= Cardinality(S \ {x}) /\ Cardinality(T) \in Nat
    BY <2>2, <2>3, FS_Subset, FS_CardinalityType
  <2>5. Cardinality(T) < n
    BY <2>3, <2>4
  <2> QED  BY <2>5 DEF T
<1> QED  BY <1>1 DEF Take

(* One glob per suffix finds every file that has one of the suffixes, when      *)
(* there are no more files than are looked at.                                  *)
LEMMA GlobAll ==
  ASSUME NEW p, NEW S, S \subseteq Nat, IsFiniteSet(S), NEW n \in Nat, Cardinality(S) <= n,
         NEW kinds, DOMAIN kinds \subseteq Nat,
         \A k, l \in DOMAIN kinds : kinds[k] = kinds[l] => k = l,
         NEW i \in S, \E k \in DOMAIN kinds : p.files[i].kind = kinds[k]
  PROVE  i \in Glob(p, kinds, S, n)
<1> DEFINE found == {x \in (DOMAIN kinds) \X S : p.files[x[2]].kind = kinds[x[1]]}
           f == [x \in found |-> x[2]]
<1>1. f \in [found -> S]
  OBVIOUS
<1>2. ASSUME NEW x \in found, NEW y \in found, f[x] = f[y] PROVE x = y
  <2>1. x[2] = y[2]
    BY <1>2
  <2>2. x[1] = y[1]
    BY <2>1
  <2> QED  BY <2>1, <2>2
<1>3. f \in Injection(found, S)
  BY <1>1, <1>2 DEF Injection, IsInjective
<1>4. found \subseteq Nat \X Nat
  OBVIOUS
<1> HIDE DEF f
<1>5. PICK k \in DOMAIN kinds : p.files[i].kind = kinds[k]
  OBVIOUS
<1>6. <<k, i>> \in found
  BY <1>5
<1>7. Glob(p, kinds, S, n) = {x[2] : x \in Take(found, n)}
  BY DEF Glob
<1> HIDE DEF found
<1>8. IsFiniteSet(found) /\ Cardinality(found) <= Cardinality(S)
  BY <1>3, FS_Injection
<1>9. Cardinality(found) \in Nat /\ Cardinality(S) \in Nat
  BY <1>8, FS_CardinalityType
<1>10. Cardinality(found) <= n
  BY <1>8, <1>9
<1>11. Take(found, n) = found
  BY <1>4, <1>8, <1>10, TakeAll
<1> QED  BY <1>6, <1>7, <1>11

(* What a glob finds is among the files that it is asked about.                *)
LEMMA GlobSubset == ASSUME NEW p, NEW kinds, NEW S, NEW n PROVE Glob(p, kinds, S, n) \subseteq S
BY DEF Glob, Take

(* The issues of a page are five at most, so that they can be counted.         *)
LEMMA PageIssuesFinite == ASSUME NEW f PROVE IsFiniteSet(seo_check_page(f))
<1> DEFINE tags == {"title", "description", "og", "several h1"}
<1>1. IsFiniteSet(tags) /\ IsFiniteSet({"alt"}) /\ IsFiniteSet({"error"})
  BY FourAtMost, FS_Singleton
<1>2. seo_check_page(f) \subseteq tags \cup {"alt"} \/ seo_check_page(f) = {"error"}
  BY DEF seo_check_page
<1> HIDE DEF tags
<1>3. IsFiniteSet(tags \cup {"alt"})
  BY <1>1, FS_Union
<1> QED  BY <1>1, <1>2, <1>3, FS_Subset

(* Several main headings are an issue of a page that can be read.              *)
LEMMA SeveralHeadings ==
  ASSUME NEW f, f.ok, Count(f, "h1") > 1
  PROVE  seo_check_page(f) # {}
<1> DEFINE sorts == {"title", "description", "og", "several h1", "alt"}
           Found(i) ==
             CASE i \in {"title", "description", "og"} -> Marked(f, {"head"}) /\ ~Marked(f, {i})
               [] i = "several h1" -> Count(f, "h1") > 1
               [] i = "alt"        -> Marked(f, {"img without alt", "empty alt"})
<1>1. seo_check_page(f) = {i \in sorts : Found(i)}
  BY DEF seo_check_page
<1>2. "several h1" \notin {"title", "description", "og"} /\ "several h1" # "alt"
  OBVIOUS
<1>3. Found("several h1") = (Count(f, "h1") > 1)
  BY <1>2
<1>4. "several h1" \in sorts
  OBVIOUS
<1> QED  BY <1>1, <1>3, <1>4

(* A count of issues that is 0 is made of empty sets.                          *)
LEMMA NoIssues ==
  ASSUME NEW found, IsFiniteSet(DOMAIN found), \A i \in DOMAIN found : IsFiniteSet(found[i]),
         Issues(found) = 0, NEW i \in DOMAIN found
  PROVE  found[i] = {}
<1> DEFINE q == [j \in DOMAIN found |-> Cardinality(found[j])]
<1>1. \A j \in DOMAIN found : q[j] \in Nat
  BY FS_CardinalityType
<1>2. Total(DOMAIN found, q) = 0
  BY DEF Issues
<1>3. q[i] = Cardinality(found[i])
  OBVIOUS
<1> HIDE DEF q
<1>4. q[i] = 0
  BY <1>1, <1>2, TotalZeroOnly
<1>5. Cardinality(found[i]) = 0
  BY <1>3, <1>4
<1> QED  BY <1>5, FS_EmptySet

(* A page that the SEO check has read has one main heading at most, and of few *)
(* pages it reads all.                                                         *)
LEMMA HeadingsSound ==
  ASSUME NEW p \in Projects, Reasons("seo_checker", Content[p]) = {}, PagesRead(Content[p]),
         NEW i \in DOMAIN Content[p].files, NEW f, f = Content[p].files[i],
         f.ok, f.dir = "app", f.kind \in UserFacing, f.name = "page"
  PROVE  ~ Count(f, "h1") > 1
<1> DEFINE q == Content[p]
           pages == {j \in DOMAIN q.files : seo_is_page_file(q, j)}
           S == {j \in Outside(q, NotPublic \cup {"examples"}) : seo_is_page_file(q, j)}
           kinds == <<".html", ".htm", ".jsx", ".tsx">>
           found == [j \in find_pages(q) |-> seo_check_page(q.files[j])]
<1>1. DOMAIN q.files \subseteq Nat /\ IsFiniteSet(DOMAIN q.files)
  <2>1. q.files \in Seq(Range(q.files))
    BY ProjectAssumption
  <2>2. Len(q.files) \in Nat /\ DOMAIN q.files = 1..Len(q.files)
    BY <2>1
  <2> QED  BY <2>2, FS_Interval
<1>2. S \subseteq pages /\ pages \subseteq DOMAIN q.files
  BY DEF Outside
<1>3. IsFiniteSet(S) /\ Cardinality(S) <= 50
  <2>1. Cardinality(pages) <= 50
    BY DEF PagesRead
  <2> HIDE DEF pages, S, q
  <2>2. IsFiniteSet(pages) /\ IsFiniteSet(S) /\ Cardinality(S) <= Cardinality(pages)
    BY <1>1, <1>2, FS_Subset
  <2>3. Cardinality(pages) \in Nat /\ Cardinality(S) \in Nat
    BY <2>2, FS_CardinalityType
  <2> QED  BY <2>1, <2>2, <2>3
<1>4. i \in S
  <2>1. Parts(q, i) = q.above \cup {"app"}
    BY DEF Parts
  <2>2. "app" \notin NotPublic \cup {"examples"}
    BY DEF NotPublic, Generated
  <2>3. q.above \cap (NotPublic \cup {"examples"}) = {}
    BY DEF PagesRead
  <2>4. i \in Outside(q, NotPublic \cup {"examples"})
    BY <2>1, <2>2, <2>3 DEF Outside
  <2>5. seo_is_page_file(q, i)
    BY <2>1 DEF seo_is_page_file
  <2> QED  BY <2>4, <2>5
<1>5. /\ DOMAIN kinds \subseteq Nat
      /\ \A k, l \in DOMAIN kinds : kinds[k] = kinds[l] => k = l
      /\ \E k \in DOMAIN kinds : q.files[i].kind = kinds[k]
  <2>1. /\ DOMAIN kinds = 1..4 /\ kinds[1] = ".html" /\ kinds[2] = ".htm"
        /\ kinds[3] = ".jsx" /\ kinds[4] = ".tsx"
    OBVIOUS
  <2>2. q.files[i].kind \in {".html", ".jsx", ".tsx"}
    BY DEF UserFacing
  <2> HIDE DEF kinds, q
  <2> QED  BY <2>1, <2>2
<1>6. find_pages(q) = Glob(q, kinds, S, 50)
  BY DEF find_pages
<1>7. i \in find_pages(q) /\ find_pages(q) \subseteq S
  <2> HIDE DEF q, S, kinds
  <2>1. S \subseteq Nat
    BY <1>1, <1>2 DEF pages
  <2> DEFINE n == 50
  <2>2. n \in Nat /\ Cardinality(S) <= n
    BY <1>3
  <2> HIDE DEF n
  <2>3. i \in Glob(q, kinds, S, n)
    BY <2>1, <2>2, <1>3, <1>4, <1>5, GlobAll
  <2>4. Glob(q, kinds, S, n) \subseteq S
    BY GlobSubset
  <2> QED  BY <2>3, <2>4, <1>6 DEF n
<1>8. DOMAIN found = find_pages(q) /\ found[i] = seo_check_page(f)
  BY <1>7
<1>9. IsFiniteSet(DOMAIN found) /\ \A j \in DOMAIN found : IsFiniteSet(found[j])
  <2>1. IsFiniteSet(find_pages(q))
    BY <1>3, <1>7, FS_Subset
  <2> QED  BY <2>1, PageIssuesFinite
<1>10. Issues(found) = 0
  BY DEF Reasons, seo_checker
<1>11. seo_check_page(f) = {}
  <2> HIDE DEF found, q
  <2> QED  BY <1>7, <1>8, <1>9, <1>10, NoIssues
<1>12. Count(f, "h1") > 1 => seo_check_page(f) # {}
  BY SeveralHeadings
<1> QED  BY <1>11, <1>12

(* A verdict "ready" over a project that was not edited excludes each defect.   *)
LEMMA ReadySound == ASSUME IInv, Watch PROVE ReadyMeansSound
<1> SUFFICES ASSUME verdict = "ready", edits = 0, project \in Complete
             PROVE  ~ Unready(Content[project])
  BY DEF ReadyMeansSound
<1> DEFINE q == Content[project]
<1>1. project \in Projects /\ run \in Runs
  BY DEF IInv, TypeOK
<1>2. \A s \in SoundScripts : s \notin Failing(run, project)
  <2> TAKE s \in SoundScripts
  <2>1. PICK i \in 1..Len(SuitePlan[run]) : SuitePlan[run][i] = s
    BY <1>1, SoundPlanned, ProjectAssumption
  <2>2. Plan[run][i] \notin always /\ Plan[run][i] = s
    BY <2>1, ProjectAssumption DEF IInv, DefectReported
  <2>3. always = Failing(run, project)
    BY DEF Watch
  <2> QED  BY <2>2, <2>3
<1>3. \A s \in SoundScripts : Reasons(s, q) = {}
  BY <1>1, <1>2, NoReason, ProjectAssumption
<1>4. /\ Reasons("lint_runner", q) = {} /\ Reasons("test_runner", q) = {}
      /\ Reasons("ux_audit", q) = {} /\ Reasons("seo_checker", q) = {}
  BY <1>3 DEF SoundScripts
<1>5. \A c \in Configured(q) : Understood(q, c) => q.cmd[c].result = "ok" /\ ~GivenUp(q, c)
  BY <1>4, CommandsSound
<1>6. ASSUME NEW f \in Range(q.files), f.ok, f.dir = "app", f.kind \in UserFacing
      PROVE  /\ "img without alt" \notin f.has
             /\ ~ (f.name = "page" /\ Count(f, "h1") > 1 /\ PagesRead(q))
  <2>1. PICK i \in DOMAIN q.files : f = q.files[i]
    BY DEF Range
  <2>2. "img without alt" \notin f.has
    BY <1>4, <1>6, <2>1, ImagesSound
  <2>3. ASSUME f.name = "page", PagesRead(q) PROVE ~ Count(f, "h1") > 1
    BY <1>1, <1>4, <1>6, <2>1, <2>3, HeadingsSound
  <2> QED  BY <2>2, <2>3
<1> QED  BY <1>5, <1>6 DEF Unready

(* A run that ends "ready" over a complete project that was not edited means    *)
(* that no linter and no test command that the project has fails, is missing or *)
(* overruns, as far as the scripts understand its configuration, that no image  *)
(* of its pages is without a text and that, as far as its pages are read, none  *)
(* has several main headings (verify_all.py and checklist.py main,              *)
(* lint_runner.py, test_runner.py, ux_audit.py, seo_checker.py): for any        *)
(* project and however its scripts end.                                         *)
THEOREM ReadyIsSound == Spec => []ReadyMeansSound
BY Watched, ReadySound, PTL

------------------------------------------------------------------------------
(* The steps a run can still take: two for each check that is not settled, less *)
(* one when its script has been started, and the report.                       *)
StepsLeft == 2 * (Len(Plan[run]) + 1 - position) + (IF active THEN 0 ELSE 1)

(* What Step needs: a check to skip or start, a script that has read something *)
(* and so passes or fails, or no check left to do.                             *)
MayStep == (~Finished /\ ~active) \/ (active /\ seen # {}) \/ Finished

LEMMA StepsLeftType ==
  ASSUME IInv, Underway
  PROVE  /\ StepsLeft \in Nat
         /\ run \in Runs /\ Len(Plan[run]) \in Nat /\ position \in Nat
         /\ active \in BOOLEAN
<1>1. run \in Runs /\ Len(Plan[run]) \in Nat
  BY PlanLength DEF IInv, Underway
<1>2. position \in 1..(Len(Plan[run]) + 1) /\ active \in BOOLEAN
  BY DEF IInv, Underway, Progress, TypeOK
<1> DEFINE n == Len(Plan[run])
           p == position
           a == IF active THEN 0 ELSE 1
<1>3. n \in Nat /\ p \in 1..(n + 1) /\ a \in {0, 1}
  BY <1>1, <1>2
<1> HIDE DEF n, p, a
<1>4. 2 * (n + 1 - p) + a \in Nat /\ p \in Nat
  BY <1>3
<1> QED BY <1>1, <1>2, <1>4 DEF StepsLeft, n, p, a

(* A step of a run that goes on leaves fewer; an edit, whichever it is, does   *)
(* not add any.                                                                *)
LEMMA StepShortens ==
  ASSUME IInv, IInv', Next, Underway, Underway'
  PROVE  StepsLeft' <= StepsLeft /\ (Step => StepsLeft' < StepsLeft)
<1>1. ASSUME \E p \in Near[project] : Edit(p) PROVE StepsLeft' = StepsLeft /\ ~Step
  <2>1. run' = run /\ position' = position /\ active' = active /\ results' = results
        /\ edits' = edits + 1 /\ edits \in Nat
    BY <1>1, VerifyAssumption DEF Edit, IInv, TypeOK
  <2>2. edits' # edits
    BY <2>1
  <2> QED BY <2>1, <2>2 DEF StepsLeft, Step, Skip, StartCheck, Pass, Fail, Report
<1>2. ASSUME Step PROVE StepsLeft' < StepsLeft
  <2>1. \/ position' = position + 1 /\ ~active' /\ run' = run
        \/ position' = position /\ ~active /\ active' /\ run' = run
    BY <1>2 DEF Step, Skip, StartCheck, Pass, Fail, Report, Underway
  <2>2. Len(Plan[run]) \in Nat /\ position \in Nat
    BY StepsLeftType
  <2> DEFINE n == Len(Plan[run])
             p == position
  <2>3. CASE position' = position + 1 /\ ~active' /\ run' = run
    <3>1. StepsLeft' = 2 * (n + 1 - (p + 1)) + 1
      BY <2>3 DEF StepsLeft
    <3>2. StepsLeft = 2 * (n + 1 - p) \/ StepsLeft = 2 * (n + 1 - p) + 1
      <4>1. CASE active
        BY <2>2, <4>1 DEF StepsLeft
      <4>2. CASE ~active
        BY <4>2 DEF StepsLeft
      <4> QED BY <4>1, <4>2
    <3>3. n \in Nat /\ p \in Nat
      BY <2>2
    <3> HIDE DEF n, p
    <3> QED BY <3>1, <3>2, <3>3
  <2>4. CASE position' = position /\ ~active /\ active' /\ run' = run
    <3>1. StepsLeft' = 2 * (n + 1 - p) /\ StepsLeft = 2 * (n + 1 - p) + 1
      BY <2>2, <2>4 DEF StepsLeft
    <3>2. n \in Nat /\ p \in Nat
      BY <2>2
    <3> HIDE DEF n, p
    <3> QED BY <3>1, <3>2
  <2> QED BY <2>1, <2>3, <2>4
<1>3. Step \/ \E p \in Near[project] : Edit(p)
  BY DEF Next, Start, NoSuchPath, Interrupt, Underway
<1>4. StepsLeft \in Nat /\ StepsLeft' \in Nat
  <2>1. StepsLeft \in Nat BY StepsLeftType
  <2>2. StepsLeft' \in Nat
    <3>1. run' \in Runs /\ Len(Plan[run']) \in Nat
      BY PlanLength DEF IInv, Underway
    <3>2. position' \in 1..(Len(Plan[run']) + 1) /\ active' \in BOOLEAN
      BY DEF IInv, Underway, Progress, TypeOK
    <3> DEFINE n == Len(Plan[run'])
               p == position'
               a == IF active' THEN 0 ELSE 1
    <3>3. n \in Nat /\ p \in 1..(n + 1) /\ a \in {0, 1}
      BY <3>1, <3>2
    <3> HIDE DEF n, p, a
    <3>4. 2 * (n + 1 - p) + a \in Nat
      BY <3>3
    <3> QED BY <3>4 DEF StepsLeft, n, p, a
  <2> QED BY <2>1, <2>2
<1> QED BY <1>1, <1>2, <1>3, <1>4

(* The core of RunEnds: a run that goes on always has a step to take, each     *)
(* step leaves fewer of a finite number, and no edit of the project adds one.  *)
(* A run whose steps are fairly scheduled therefore ends.                      *)
THEOREM RunsShorten ==
  Spec => /\ [](Underway => StepsLeft \in Nat /\ MayStep)
          /\ [][Underway /\ Underway' =>
                  StepsLeft' <= StepsLeft /\ (Step => StepsLeft' < StepsLeft)]_vars
<1> DEFINE A == Underway /\ Underway' =>
                  StepsLeft' <= StepsLeft /\ (Step => StepsLeft' < StepsLeft)
           Read == active => seen # {}
<1>1. Init => IInv /\ Read
  BY InitIInv DEF Init
<1>2. IInv /\ Read /\ [Next]_vars => (IInv /\ Read)'
  <2>1. Read /\ [Next]_vars => Read'
    BY DEF Next, vars, Step, Start, NoSuchPath, Skip, StartCheck, Pass, Fail, Report,
           Interrupt, Edit
  <2> QED BY <2>1, NextIInv
<1>3. IInv /\ Read => (Underway => StepsLeft \in Nat /\ MayStep)
  BY StepsLeftType DEF MayStep
<1>4. IInv /\ IInv' /\ [Next]_vars => [A]_vars
  BY StepShortens
<1>5. Spec => [](IInv /\ Read)
  BY <1>1, <1>2, PTL DEF Spec
<1>6. Spec => [][A]_vars
  BY <1>4, <1>5, PTL DEF Spec
<1>7. Spec => [](Underway => StepsLeft \in Nat /\ MayStep)
  BY <1>3, <1>5, PTL
<1> QED BY <1>6, <1>7
=============================================================================
