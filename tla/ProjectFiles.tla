----------------------------- MODULE ProjectFiles -----------------------------
(* A project as the check scripts see it, and what they share in reading it    *)
(* (.agent/skills/*/scripts).                                                   *)
(*                                                                              *)
(* A project p is a record: root, the names at its top; above, the names of the *)
(* directories that it is in; pkg, whether package.json is "absent", "broken"   *)
(* (json.loads refuses it) or "ok", with its npm scripts and deps;              *)
(* audit, the worst severity that npm audit reports; cmd[c], how the external   *)
(* command c ends ("ok", "fail", "absent") and after how many minutes; files    *)
(* and locales, sequences in the order in which the scripts come upon them.     *)
(*                                                                              *)
(* A file has a kind (suffix), a directory (of those between the project and    *)
(* the file at most one matters), a sort of name, the marks that a              *)
(* script's patterns find in it (has), how often some of them occur (num), and  *)
(* the severities of its secrets, dangerous lines and configuration issues; a   *)
(* file that is not ok cannot be read.  A locale file has a language, a name    *)
(* space and keys; one that is not ok cannot be parsed.                         *)
(*                                                                              *)
(* A script's selection of files is a set of their positions in p.files; the   *)
(* order matters where only the first few are looked at.                        *)
EXTENDS SetSums, FiniteSetsExt

Has(p, names) == names \cap p.root # {}
Marked(f, marks) == marks \cap f.has # {}
Count(f, m) == IF m \in DOMAIN f.num THEN f.num[m] ELSE 0

(* Sums over files: how often a mark occurs, how many issues were found.        *)
Occurrences(p, S, m) == Total(S, [i \in S |-> Count(p.files[i], m)])
Issues(found) == Total(DOMAIN found, [i \in DOMAIN found |-> Cardinality(found[i])])

(* The names of the directories on a file's whole path, from the root on.       *)
Parts(p, i) == p.above \cup {p.files[i].dir}

(* The files of which no directory has such a name, and none above the project. *)
Outside(p, skip) == {i \in DOMAIN p.files : Parts(p, i) \cap skip = {}}
Readable(p, S) == {i \in S : p.files[i].ok}

(* The first n of a set of pairs of numbers.                                    *)
Before(x, y) == x[1] < y[1] \/ (x[1] = y[1] /\ x[2] < y[2])
Take(S, n) == {x \in S : Cardinality({y \in S : Before(y, x)}) < n}

(* Of the files S, the first n that one glob per suffix comes upon, suffix      *)
(* after suffix.                                                                *)
Glob(p, kinds, S, n) ==
  LET found == {x \in (DOMAIN kinds) \X S : p.files[x[2]].kind = kinds[x[1]]}
  IN  {x[2] : x \in Take(found, n)}

(* The files that os.walk finds; what is above the project does not matter.     *)
Walk(p, kinds, skip) ==
  {i \in DOMAIN p.files : p.files[i].dir \notin skip /\ p.files[i].kind \in kinds}

Generated == {"node_modules", ".git", "dist", "build", ".next"}

Python(p) == Has(p, {"pyproject.toml", "requirements.txt"})
=============================================================================
