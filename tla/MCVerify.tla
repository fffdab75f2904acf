------------------------------- MODULE MCVerify -------------------------------
(* Instance of VerifyProject: a clean project and what one defect at a time     *)
(* makes of it.                                                                 *)
EXTENDS VerifyProject, TLC

Source(kind, dir, name) ==
  [ kind |-> kind, dir |-> dir, name |-> name, ok |-> TRUE, has |-> {}, num |-> <<>>,
    secrets |-> <<>>, dangers |-> <<>>, config |-> <<>> ]

page   == [Source(".tsx", "app", "page") EXCEPT
             !.has = {"json-ld", "author", "date", "input", "label", "i18n"},
             !.num = ("h1" :> 1) @@ ("h2" :> 2)]
layout == [Source(".html", "app", "layout") EXCEPT
             !.has = {"head", "title", "description", "og", "json-ld", "author", "date", "main or body", "skip"},
             !.num = ("h1" :> 1)]
code   == [Source(".ts", "src", "plain") EXCEPT !.num = ("typed function" :> 2) @@ ("untyped function" :> 1)]
screen == [Source(".tsx", "src", "plain") EXCEPT !.has = {"react-native", "FlatList", "keyExtractor", "i18n"}]
tool   == [Source(".py", "tools", "plain") EXCEPT !.num = ("def" :> 2) @@ ("typed result" :> 1)]
prisma == Source(".prisma", "prisma", "schema")

Locale(lang, keys) == [dir |-> "locales", lang |-> lang, ns |-> "common", keys |-> keys, ok |-> TRUE]

Names == Linters \cup {"npm test", "vitest", "jest", "pytest", "npm audit", "lighthouse", "python"}
Ends(result, time) == [result |-> result, time |-> time]

clean ==
  [ root    |-> {"package.json", "package-lock.json", "tsconfig.json", "next.config.js"},
    above   |-> {"work"},
    pkg     |-> "ok", npm |-> {"lint", "test"}, deps |-> {}, audit |-> "none",
    cmd     |-> [c \in Names |-> IF c = "lighthouse" THEN Ends("absent", 0) ELSE Ends("ok", 1)],
    files   |-> <<page, layout, code, screen, tool, prisma>>,
    locales |-> <<Locale("vi", {"a", "b"}), Locale("en", {"a", "b", "c"})>> ]

Ending(cs, result, time) ==
  [clean EXCEPT !.cmd = [c \in Names |-> IF c \in cs THEN Ends(result, time) ELSE clean.cmd[c]]]
Both(q) == [q EXCEPT !.root = @ \cup {"pyproject.toml"}]
With(i, marks) == [clean EXCEPT !.files = [@ EXCEPT ![i].has = @ \cup marks]]
Without(i, marks) == [clean EXCEPT !.files = [@ EXCEPT ![i].has = @ \ marks]]
Counting(i, counts) == [clean EXCEPT !.files = [@ EXCEPT ![i].num = counts @@ @]]
More(fs) == [clean EXCEPT !.files = @ \o fs]

leaky == [Source(".ts", "src", "plain") EXCEPT !.secrets = [i \in 1..8 |-> "high"]]
worse == [leaky EXCEPT !.secrets = <<"critical">>]

Variants ==
  ("clean"           :> clean) @@
  ("bare"            :> clean) @@
  ("empty"           :> [clean EXCEPT !.root = {}, !.pkg = "absent", !.files = <<>>, !.locales = <<>>]) @@
  ("broken package"  :> [Ending({"npm lint", "npm test"}, "fail", 1) EXCEPT !.pkg = "broken"]) @@
  ("no python"       :> Ending({"python"}, "absent", 0)) @@
  ("lint fails"      :> Ending({"npm lint"}, "fail", 1)) @@
  ("linter absent"   :> Both(Ending({"mypy"}, "absent", 0))) @@
  ("slow linters"    :> Both(Ending(Linters, "ok", 2))) @@
  ("slower linters"  :> Both(Ending(Linters, "ok", 3))) @@
  ("tests fail"      :> [Ending({"vitest"}, "fail", 2) EXCEPT !.npm = {"lint"}, !.deps = {"vitest", "eslint"}]) @@
  ("tests slow"      :> Both(Ending({"pytest"}, "ok", 6))) @@
  ("any"             :> Counting(3, "any" :> 6)) @@
  ("untyped"         :> Counting(3, "untyped function" :> 3)) @@
  ("untyped Python"  :> Counting(5, "def" :> 3)) @@
  ("schema issue"    :> With(6, {"model without id"})) @@
  ("secrets"         :> More(<<leaky, leaky, worse>>)) @@
  ("audit"           :> [clean EXCEPT !.audit = "critical"]) @@
  ("purple"          :> With(1, {"purple"})) @@
  ("labels"          :> Without(1, {"label"})) @@
  ("nav"             :> Counting(2, "nav item" :> 8)) @@
  ("gsap"            :> With(4, {"gsap"})) @@
  ("no alt"          :> With(1, {"img without alt"})) @@
  ("two h1"          :> Counting(1, "h1" :> 2)) @@
  ("below docs"      :> [Counting(1, "h1" :> 2) EXCEPT !.above = {"docs"}]) @@
  ("below app"       :> [Counting(3, "any" :> 6) EXCEPT !.above = {"app", "tests"}]) @@
  ("both tests"      :> Both(Ending({"npm test"}, "fail", 1))) @@
  ("no description"  :> Without(2, {"description"})) @@
  ("unstructured"    :> [clean EXCEPT !.files = [@ EXCEPT ![1] = Source(".tsx", "app", "page")]]) @@
  ("inaccessible"    :> With(2, {"onclick", "autoplay", "tabindex positive", "button without text", "html without lang"})) @@
  ("token"           :> With(4, {"token", "AsyncStorage"})) @@
  ("list keys"       :> Without(4, {"keyExtractor"})) @@
  ("missing key"     :> [clean EXCEPT !.locales = <<Locale("vi", {"a", "b"}), Locale("en", {"a"})>>]) @@
  ("plain text"      :> With(3, {"plain text"})) @@
  ("lighthouse"      :> Ending({"lighthouse"}, "ok", 1)) @@
  ("lighthouse slow" :> Ending({"lighthouse"}, "ok", 3))

MCContent == Variants
MCProjects == DOMAIN MCContent
MCComplete == DOMAIN MCContent \ {"bare"}

MCPlan == SuitePlan
MCCritical == SuiteCritical
MCPresent == SuitePresent
MCCheck == SuiteCheck

(* One edit brings a defect into the clean project or repairs the one there is. *)
MCNear ==
  [ p \in DOMAIN MCContent |->
      IF p = "clean" THEN MCComplete \ {"clean"} ELSE IF p = "bare" THEN {} ELSE {"clean"} ]
=============================================================================
