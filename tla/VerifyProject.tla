---------------------------- MODULE VerifyProject ----------------------------
(* The verification runs of Verify over the suites and scripts of Suites: what *)
(* a verdict says of the project.                                               *)
EXTENDS Verify, Suites

CONSTANTS
  Content,   \* Content[p]: the record of project p
  Complete   \* the projects in which the skills' scripts are installed

(* Two scripts of the suite are in no project.                                 *)
SuitePresent ==
  [p \in Projects |->
     IF p \in Complete THEN SuiteScripts \ {"dependency_analyzer", "bundle_analyzer"} ELSE {}]

SuiteCheck ==
  [p \in Projects |-> [s \in SuiteScripts |->
     IF s \in SuitePresent[p] THEN RunCheck(s, Content[p]) ELSE [fails |-> TRUE, time |-> 0]]]

(* The runs of Verify are those of the two suites; a project's commands take    *)
(* some time, and its files have an order.                                      *)
ASSUME ProjectAssumption ==
  /\ Runs = SuiteRuns /\ Scripts = SuiteScripts
  /\ Plan = SuitePlan /\ Critical = SuiteCritical /\ Limit = SuiteLimit
  /\ Present = SuitePresent /\ Check = SuiteCheck
  /\ \A p \in Projects :
       /\ Content[p].files \in Seq(Range(Content[p].files))
       /\ \A s \in SuiteScripts : \A c \in Commands(s, Content[p]) : Content[p].cmd[c].time \in Nat

------------------------------------------------------------------------------
(* The linters and tests that a project has, whatever the scripts make of it:  *)
(* its npm scripts, or else the tools among its dependencies; of a Python       *)
(* project ruff, mypy and pytest.                                               *)
NodeLinters(p) ==
  {"npm lint" : x \in p.npm \cap {"lint"}}
    \cup (IF "lint" \in p.npm THEN {} ELSE {"eslint"} \cap p.deps)
    \cup (IF "typescript" \in p.deps \/ Has(p, {"tsconfig.json"}) THEN {"tsc"} ELSE {})
NodeTests(p) == IF "test" \in p.npm THEN {"npm test"} ELSE {"vitest", "jest"} \cap p.deps

PythonLinters(p) ==
  IF ~Python(p) THEN {}
  ELSE IF Has(p, {"mypy.ini", "pyproject.toml"}) THEN {"ruff", "mypy"} ELSE {"ruff"}
PythonTests(p) == IF Python(p) THEN {"pytest"} ELSE {}

Tests(p) == NodeTests(p) \cup PythonTests(p)
Configured(p) == NodeLinters(p) \cup PythonLinters(p) \cup Tests(p)

(* What the scripts know how to look at: the commands of a package.json that    *)
(* can be parsed, tests of which there is one kind, and the pages, 50 of them   *)
(* at most, of a project that is not itself below a directory of another sort.  *)
Understood(p, c) ==
  /\ c \in NodeLinters(p) \cup NodeTests(p) => p.pkg = "ok"
  /\ c \in Tests(p) => Tests(p) = {c}

PagesRead(p) ==
  /\ p.above \cap (NotPublic \cup {"examples"}) = {}
  /\ Cardinality({i \in DOMAIN p.files : seo_is_page_file(p, i)}) <= 50

UserFacing == {".tsx", ".jsx", ".html"}

(* What a project must not contain to be ready.                                 *)
Unready(p) ==
  \/ \E c \in Configured(p) : Understood(p, c) /\ (p.cmd[c].result # "ok" \/ GivenUp(p, c))
  \/ \E f \in Range(p.files) :
       /\ f.ok /\ f.dir = "app" /\ f.kind \in UserFacing
       /\ \/ "img without alt" \in f.has
          \/ f.name = "page" /\ Count(f, "h1") > 1 /\ PagesRead(p)

(* A run that ends "ready" over a complete project that was not edited means    *)
(* what the suites' linters, tests, UX and SEO checks are there for: no linter  *)
(* and no test command that the project has fails, is missing or overruns, as   *)
(* far as its package.json can be parsed and its tests are of one kind; no      *)
(* image of its pages is without a text; and no page has several main headings, *)
(* as far as its pages are read.                                                *)
ReadyMeansSound ==
  verdict = "ready" /\ edits = 0 /\ project \in Complete => ~Unready(Content[project])

(* In verify_all no check is given up while the commands that it waits for     *)
(* keep to the limits that the scripts set them: its ten minutes are enough for *)
(* four linters in a row (lint_runner.py main, verify_all.py run_script).       *)
NoOverrun ==
  run \in {"verify_all", "verify_all --no-e2e", "verify_all --stop-on-fail"} =>
    \A p \in seen : ~Overruns(run, p, Current)
=============================================================================
