----------------------------- MODULE SecurityScan -----------------------------
(* security_scan.py of the vulnerability-scanner skill: four scans of a        *)
(* project, each with findings and a status, and the summary of them.          *)
(* A scan's findings are the severities that occur among them; a status is the *)
(* severity that it speaks of, or "none".                                       *)
EXTENDS CommandChecks

Worse(a, b) ==
  LET rank == [none |-> 0, medium |-> 1, high |-> 2, critical |-> 3]
  IN  rank[a] > rank[b]
WorstOf(fs) ==
  CHOOSE a \in {"none"} \cup fs : \A b \in fs : ~Worse(b, a)

SKIP_DIRS == Generated \cup {"__pycache__", ".venv", "venv"}
CODE_EXTENSIONS == {".js", ".ts", ".jsx", ".tsx", ".py", ".go", ".java", ".rb", ".php"}
(* The kind of prod.env is ".env"; a file called .env has no suffix.           *)
CONFIG_EXTENSIONS == {".json", ".yaml", ".yml", ".toml", ".env"}

(* Every package manager for Node wants a lock file of its own.  Missing lock  *)
(* files are findings that leave the status as it is.                          *)
missing_locks(p) ==
  LET files == [npm  |-> {"package-lock.json", "npm-shrinkwrap.json"},
                yarn |-> {"yarn.lock"},
                pnpm |-> {"pnpm-lock.yaml"},
                pip  |-> {"requirements.txt", "Pipfile.lock", "poetry.lock"}]
      used  == (IF p.pkg # "absent" THEN {"npm", "yarn", "pnpm"} ELSE {})
                 \cup (IF Has(p, {"setup.py", "requirements.txt"}) THEN {"pip"} ELSE {})
  IN  {m \in used : ~Has(p, files[m])}

npm_audit(p) ==
  IF p.pkg # "absent" /\ p.cmd["npm audit"].result # "absent" /\ ~GivenUp(p, "npm audit")
       /\ p.audit \in {"high", "critical"}
  THEN {p.audit} ELSE {}

scan_dependencies(p) ==
  [ findings |-> {"high" : m \in missing_locks(p)} \cup npm_audit(p),
    status   |-> WorstOf(npm_audit(p)) ]

(* What the patterns of a scan match in the files S, file after file.          *)
Matches(p, S, scan) == UNION {{i} \X (DOMAIN p.files[i][scan]) : i \in Readable(p, S)}
Severities(p, M, scan) == {p.files[x[1]][scan][x[2]] : x \in M}

(* One finding for every pattern that a file matches.  The status looks at all *)
(* of them; 15 are reported.                                                   *)
scan_secrets(p) ==
  LET all == Matches(p, Walk(p, CODE_EXTENSIONS \cup CONFIG_EXTENSIONS, SKIP_DIRS), "secrets")
  IN  [ findings |-> Severities(p, Take(all, 15), "secrets"),
        status   |-> WorstOf(Severities(p, all, "secrets")) ]

(* The same for the dangerous lines of code, of which 20 are reported.         *)
scan_code_patterns(p) ==
  LET all == Matches(p, Walk(p, CODE_EXTENSIONS, SKIP_DIRS), "dangers")
  IN  [ findings |-> Severities(p, Take(all, 20), "dangers"),
        status   |-> WorstOf(Severities(p, all, "dangers")) ]

scan_configuration(p) ==
  LET fs  == Walk(p, CONFIG_EXTENSIONS, SKIP_DIRS)
               \cup {i \in Walk(p, {".js"}, SKIP_DIRS) : p.files[i].name = "config"}
      all == Severities(p, Matches(p, fs, "config"), "config")
               \cup (IF Has(p, {"next.config.js", "next.config.mjs", "middleware.ts", "nginx.conf"})
                     THEN {} ELSE {"medium"})
  IN  [findings |-> all, status |-> WorstOf(all)]

run_full_scan(p) ==
  {scan_dependencies(p), scan_secrets(p), scan_code_patterns(p), scan_configuration(p)}

(* The summary counts the findings that the scans report.                      *)
overall_status(p) ==
  WorstOf(UNION {scan.findings : scan \in run_full_scan(p)})

(* main reports whatever it finds with status 0.                               *)
security_scan(p) == {}
=============================================================================
