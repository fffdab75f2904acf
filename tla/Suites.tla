-------------------------------- MODULE Suites --------------------------------
(* What checklist.py and verify_all.py run, and how each check ends on a       *)
(* project: the scripts in their order, those whose failure stops the run, and  *)
(* the exit status and duration of each.                                        *)
EXTENDS Sequences, SecurityScan, CodeChecks, PageChecks

(* checklist.py *)
CORE_CHECKS == <<"security_scan", "lint_runner", "schema_validator", "test_runner", "ux_audit", "seo_checker">>
CORE_REQUIRED == {"security_scan", "lint_runner"}
PERFORMANCE_CHECKS == <<"lighthouse_audit", "playwright_runner">>

(* verify_all.py; two of its scripts are not in the repository.                *)
BEFORE_E2E ==
  << "security_scan", "dependency_analyzer", "lint_runner", "type_coverage", "schema_validator",
     "test_runner", "ux_audit", "accessibility_checker", "seo_checker", "geo_checker",
     "lighthouse_audit", "bundle_analyzer" >>
E2E == <<"playwright_runner">>
AFTER_E2E == <<"mobile_audit", "i18n_checker">>
VERIFICATION_SUITE == BEFORE_E2E \o E2E \o AFTER_E2E
SUITE_REQUIRED == {"security_scan", "lint_runner", "lighthouse_audit"}

SuiteScripts == Range(CORE_CHECKS) \cup Range(PERFORMANCE_CHECKS) \cup Range(VERIFICATION_SUITE)
SuiteRuns == {"checklist", "checklist --url", "verify_all", "verify_all --no-e2e", "verify_all --stop-on-fail"}

SuitePlan ==
  [ r \in SuiteRuns |->
      CASE r = "checklist"           -> CORE_CHECKS
        [] r = "checklist --url"     -> CORE_CHECKS \o PERFORMANCE_CHECKS
        [] r = "verify_all --no-e2e" -> BEFORE_E2E \o AFTER_E2E
        [] OTHER                     -> VERIFICATION_SUITE ]

(* checklist.py always stops when a required core check fails, verify_all.py   *)
(* only when it is told to.                                                    *)
SuiteCritical ==
  [ r \in SuiteRuns |->
      CASE r \in {"checklist", "checklist --url"} -> CORE_REQUIRED
        [] r = "verify_all --stop-on-fail"        -> SUITE_REQUIRED
        [] OTHER                                  -> {} ]

(* The minutes after which a check is given up.                                *)
SuiteLimit == [r \in SuiteRuns |-> IF r \in {"checklist", "checklist --url"} THEN 5 ELSE 10]

(* The suites put the project before the URL, and every script takes its       *)
(* first argument.                                                             *)
FirstArgument == "project"

(* The reasons for which a script ends with a status other than 0.             *)
Reasons(s, p) ==
  CASE s = "security_scan"         -> security_scan(p)
    [] s = "lint_runner"           -> lint_runner(p)
    [] s = "type_coverage"         -> type_coverage(p)
    [] s = "schema_validator"      -> schema_validator(p)
    [] s = "test_runner"           -> test_runner(p)
    [] s = "ux_audit"              -> ux_audit(p)
    [] s = "accessibility_checker" -> accessibility_checker(p)
    [] s = "seo_checker"           -> seo_checker(p)
    [] s = "geo_checker"           -> geo_checker(p)
    [] s = "lighthouse_audit"      -> run_lighthouse(p, FirstArgument)
    [] s = "playwright_runner"     -> run_basic_test(p)
    [] s = "mobile_audit"          -> mobile_audit(p)
    [] s = "i18n_checker"          -> i18n_checker(p)

(* The commands that a script waits for, one after another.                    *)
Commands(s, p) ==
  CASE s = "security_scan"    -> IF p.pkg # "absent" THEN {"npm audit"} ELSE {}
    [] s = "lint_runner"      -> detect_project_type(p)
    [] s = "test_runner"      -> detect_test_framework(p)
    [] s = "lighthouse_audit" -> {"lighthouse"}
    [] OTHER                  -> {}

Duration(s, p) == Total(Commands(s, p), [c \in Commands(s, p) |-> Minutes(p, c)])

(* A script is started with the command python.  The checks that only read     *)
(* files take no time to speak of.                                             *)
RunCheck(s, p) ==
  IF p.cmd["python"].result = "absent" THEN [fails |-> TRUE, time |-> 0]
  ELSE [fails |-> Reasons(s, p) # {}, time |-> Duration(s, p)]
=============================================================================
