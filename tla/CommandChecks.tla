---------------------------- MODULE CommandChecks ----------------------------
(* The check scripts that run external commands: lint_runner.py,               *)
(* test_runner.py, lighthouse_audit.py and playwright_runner.py.  Each operator *)
(* named for a script is the set of reasons for which it ends with status 1.    *)
EXTENDS ProjectFiles

(* The minutes after which the script gives the command up.                    *)
Linters == {"npm lint", "eslint", "tsc", "ruff", "mypy"}

(* Mutant: every command has five minutes.                                     *)
OwnLimitFive(c) == IF c = "npm audit" THEN 1 ELSE 5

OwnLimit(c) ==
  CASE c \in Linters                                  -> 2
    [] c \in {"npm test", "vitest", "jest", "pytest"} -> 5
    [] c = "npm audit"                                -> 1
    [] c = "lighthouse"                               -> 2

GivenUp(p, c) == p.cmd[c].time > OwnLimit(c)

(* Mutant: a command that is given up does not fail.                           *)
SucceedsSlow(p, c) == p.cmd[c].result = "ok"

Succeeds(p, c) == p.cmd[c].result = "ok" /\ ~GivenUp(p, c)
Minutes(p, c) ==
  IF p.cmd[c].result = "absent" THEN 0
  ELSE IF GivenUp(p, c) THEN OwnLimit(c) ELSE p.cmd[c].time

(* A package.json that cannot be parsed brings no linters and no tests.        *)
detect_project_type(p) ==
  LET node == p.pkg = "ok" IN
  { l \in Linters :
      CASE l = "npm lint" -> node /\ "lint" \in p.npm
        [] l = "eslint"   -> node /\ "lint" \notin p.npm /\ "eslint" \in p.deps
        [] l = "tsc"      -> node /\ ("typescript" \in p.deps \/ Has(p, {"tsconfig.json"}))
        [] l = "ruff"     -> Python(p)
        [] l = "mypy"     -> Python(p) /\ Has(p, {"mypy.ini", "pyproject.toml"}) }

run_linter(p, l) == Succeeds(p, l)
lint_runner(p) == {l \in detect_project_type(p) : ~run_linter(p, l)}

(* The command for Python replaces the one for Node.                           *)
detect_test_framework(p) ==
  IF Python(p) THEN {"pytest"}
  ELSE IF p.pkg # "ok" THEN {}
  ELSE IF "test" \in p.npm THEN {"npm test"}
  ELSE IF "vitest" \in p.deps THEN {"vitest"}
  ELSE {"jest"} \cap p.deps

run_tests(p, c) == Succeeds(p, c)
test_runner(p) == {c \in detect_test_framework(p) : ~run_tests(p, c)}

(* A command that is absent or overruns ends in an error report and status 0.  *)
(* One that fails, and it fails on anything but a URL, leaves behind the empty  *)
(* report file made for it, which cannot be parsed.  The scores decide nothing. *)
run_lighthouse(p, url) ==
  IF \/ p.cmd["lighthouse"].result = "absent" \/ GivenUp(p, "lighthouse")
     \/ (url = "url" /\ p.cmd["lighthouse"].result = "ok")
  THEN {} ELSE {"empty report"}

(* Every error is caught and printed: a page that does not load passes.        *)
run_basic_test(p) == {}
=============================================================================
