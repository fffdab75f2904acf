------------------------------ MODULE CodeChecks ------------------------------
(* The check scripts that read code and configuration: type_coverage.py,       *)
(* schema_validator.py, security_scan.py and i18n_checker.py.                   *)
EXTENDS ProjectFiles

(* ---- type_coverage.py: the [X] issues ---- *)

(* Only the first 30 files count; those that cannot be read count for nothing. *)
check_typescript_coverage(p) ==
  LET all     == {i \in Outside(p, {"node_modules"}) : p.files[i].name # "declaration"}
      fs      == Readable(p, Glob(p, <<".ts", ".tsx">>, all, 30))
      typed   == Occurrences(p, fs, "typed function")
      untyped == Occurrences(p, fs, "untyped function")
  IN  (IF Occurrences(p, fs, "any") > 5 THEN {"any"} ELSE {})
        \cup (IF 100 * typed < 50 * (typed + untyped) THEN {"untyped"} ELSE {})

(* A function with typed parameters and a typed result counts as two.          *)
check_python_coverage(p) ==
  LET all   == Outside(p, {".venv", "venv", "__pycache__", ".git", ".github", "node_modules"})
      fs    == Readable(p, Glob(p, <<".py">>, all, 30))
      typed == Occurrences(p, fs, "typed parameters") + Occurrences(p, fs, "typed result")
  IN  (IF 100 * typed < 40 * Occurrences(p, fs, "def") THEN {"untyped Python"} ELSE {})
        \cup (IF Occurrences(p, fs, "Any") > 3 THEN {"Any"} ELSE {})

type_coverage(p) == check_typescript_coverage(p) \cup check_python_coverage(p)

(* ---- schema_validator.py ---- *)

(* Prisma schemas come before Drizzle's, and only ten are looked at.           *)
find_schema_files(p) ==
  LET places == << <<".prisma", "prisma">>, <<".ts", "drizzle">>, <<".ts", "schema">> >>
      found  == { x \in (DOMAIN places) \X (DOMAIN p.files) :
                    LET f == p.files[x[2]] IN <<f.kind, f.dir>> = places[x[1]] /\ f.name = "schema" }
  IN  {x[2] : x \in Take(found, 10)}

validate_prisma_schema(f) ==
  IF ~f.ok THEN {"error"}
  ELSE f.has \cap {"model not PascalCase", "model without id", "model without createdAt",
                   "foreign key without index", "enum not PascalCase"}

(* Schema issues are warnings, never failures: they are only counted.          *)
schema_issues(p) ==
  Issues([i \in find_schema_files(p) |->
    IF p.files[i].kind = ".prisma" THEN validate_prisma_schema(p.files[i]) ELSE {}])
schema_validator(p) == {}

(* ---- i18n_checker.py: the [X] issues ---- *)

find_locale_files(p) ==
  {i \in DOMAIN p.locales : "node_modules" \notin p.above \cup {p.locales[i].dir}}

(* The first language met is the base of the comparison; a name space that the *)
(* base does not have is not compared.  Of two files for the same language and *)
(* name space the later one counts.                                            *)
check_locale_completeness(p) ==
  LET parsed == {i \in find_locale_files(p) : p.locales[i].ok}
      Of(lang) == {i \in parsed : p.locales[i].lang = lang}
      Keys(lang, ns) ==
        LET at == {i \in Of(lang) : p.locales[i].ns = ns}
        IN  IF at = {} THEN {} ELSE p.locales[Max(at)].keys
      langs  == {p.locales[i].lang : i \in parsed}
      base   == p.locales[Min(parsed)].lang
      spaces == {p.locales[i].ns : i \in Of(base)}
  IN  IF Cardinality(langs) < 2 THEN {}
      ELSE {x \in (langs \ {base}) \X spaces : Keys(base, x[2]) \ Keys(x[1], x[2]) # {}}

(* A file that uses translations anywhere is not searched for plain text.      *)
check_hardcoded_strings(p) ==
  LET skip == (Generated \ {".next"}) \cup {".github", "__pycache__", ".venv", "venv",
                                            "test", "tests", "__tests__", "spec"}
      fs   == Glob(p, <<".tsx", ".jsx", ".ts", ".js", ".vue", ".py">>,
                   {i \in Outside(p, skip) : p.files[i].name # "test"}, 50)
  IN  {i \in Readable(p, fs) : Marked(p.files[i], {"plain text"}) /\ ~Marked(p.files[i], {"i18n"})}

i18n_checker(p) ==
  {"missing keys" : x \in check_locale_completeness(p)}
    \cup {"plain text" : i \in check_hardcoded_strings(p)}
=============================================================================
