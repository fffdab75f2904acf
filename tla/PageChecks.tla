------------------------------ MODULE PageChecks ------------------------------
(* The check scripts that read pages and screens: ux_audit.py,                 *)
(* mobile_audit.py, accessibility_checker.py, seo_checker.py and                *)
(* geo_checker.py.  Warnings, which decide nothing, are left out; a number that *)
(* a pattern picks up and float() refuses ends the script with an error.        *)
EXTENDS ProjectFiles

(* ---- ux_audit.py: the issues of a file, section by section ---- *)

nav_issues(f) == IF Count(f, "nav item") > 7 THEN {"nav items"} ELSE {}

(* A form is known by an input, or by a form tag or words such as password.    *)
label_issues(f) ==
  IF /\ Marked(f, {"input"}) \/ (Marked(f, {"select or textarea"}) /\ Marked(f, {"form words"}))
     /\ ~Marked(f, {"label", "placeholder", "aria-label"})
  THEN {"inputs without labels"} ELSE {}

typography_issues(f) ==
  (IF Count(f, "font family") > 3 THEN {"font families"} ELSE {})
    \cup (IF Marked(f, {"heading"}) /\ Marked(f, {"malformed line height"}) THEN {"error"} ELSE {})

shadow_issues(f) ==
  IF Marked(f, {"box shadow"}) /\ Marked(f, {"malformed opacity"}) THEN {"error"} ELSE {}

will_change_issues(f) ==
  IF Marked(f, {"will-change layout"}) THEN {"will-change"} ELSE {}

color_issues(f) == IF Marked(f, {"purple"}) THEN {"purple"} ELSE {}

animation_issues(f) ==
  (IF Marked(f, {"malformed duration"}) THEN {"error"} ELSE {})
    \cup (IF Marked(f, {"onScroll layout"}) THEN {"scroll handler"} ELSE {})

motion_issues(f) ==
  (IF Marked(f, {"gsap"}) /\ ~Marked(f, {"gsap cleanup"}) THEN {"gsap"} ELSE {})
    \cup (IF Marked(f, {"scroll driven"}) /\ ~Marked(f, {"throttle"}) THEN {"scroll driven"} ELSE {})

image_issues(f) == IF Marked(f, {"img without alt"}) THEN {"img without alt"} ELSE {}

ux_audit_file(f) ==
  nav_issues(f) \cup label_issues(f) \cup typography_issues(f) \cup shadow_issues(f)
    \cup will_change_issues(f) \cup color_issues(f) \cup animation_issues(f)
    \cup motion_issues(f) \cup image_issues(f)

ux_audit_directory(p) ==
  Readable(p, Walk(p, {".tsx", ".jsx", ".html", ".vue", ".svelte", ".css"}, Generated))

ux_audit(p) == UNION {ux_audit_file(p.files[i]) : i \in ux_audit_directory(p)}

(* ---- mobile_audit.py ---- *)

(* The pattern reads two digits, the first of them at most 3.                  *)
touch_issues(f) == IF Marked(f, {"size begins below 40"}) THEN {"touch target"} ELSE {}

(* Some checks are for React Native only.                                      *)
performance_issues(f) ==
  LET native == Marked(f, {"react-native"}) IN
  { i \in {"scroll view", "list without keys", "index as key", "memory leak", "animated layout"} :
      CASE i = "scroll view"       -> Marked(f, {"map in ScrollView"})
        [] i = "list without keys" -> native /\ Marked(f, {"FlatList"}) /\ ~Marked(f, {"keyExtractor"})
        [] i = "index as key"      -> native /\ Marked(f, {"index key"})
        [] i = "memory leak"       -> native /\ Marked(f, {"effect subscribes"}) /\ ~Marked(f, {"effect cleanup"})
        [] i = "animated layout"   -> Marked(f, {"animates layout"}) }

mobile_typography_issues(f) ==
  IF Marked(f, {"malformed font number"}) THEN {"error"} ELSE {}

storage_issues(f) ==
  IF Marked(f, {"token"}) /\ Marked(f, {"AsyncStorage"}) /\ ~Marked(f, {"secure storage"})
  THEN {"token in AsyncStorage"} ELSE {}

(* Files of neither framework are skipped.                                     *)
mobile_audit_file(f) ==
  IF ~Marked(f, {"react-native", "flutter"}) THEN {}
  ELSE touch_issues(f) \cup performance_issues(f) \cup mobile_typography_issues(f)
         \cup storage_issues(f)

mobile_audit_directory(p) ==
  Readable(p, Walk(p, {".tsx", ".ts", ".jsx", ".js", ".dart"}, Generated \cup {"ios", "android", ".idea"}))

mobile_audit(p) == UNION {mobile_audit_file(p.files[i]) : i \in mobile_audit_directory(p)}

(* ---- accessibility_checker.py ---- *)

find_html_files(p) == Glob(p, <<".html", ".jsx", ".tsx">>, Outside(p, Generated), 50)

check_accessibility(f) ==
  IF ~f.ok THEN {"error"}
  ELSE (f.has \cap {"input without label or id", "button without text", "html without lang"})
         \cup { i \in {"skip link", "keyboard", "tabindex", "autoplay", "role"} :
                  CASE i = "skip link" -> Marked(f, {"main or body"}) /\ ~Marked(f, {"skip"})
                    [] i = "keyboard"  -> Marked(f, {"onclick"}) /\ ~Marked(f, {"onkey"})
                    [] i = "tabindex"  -> Marked(f, {"tabindex positive"}) /\ ~Marked(f, {"tabindex zero"})
                    [] i = "autoplay"  -> Marked(f, {"autoplay"}) /\ ~Marked(f, {"muted"})
                    [] i = "role"      -> Marked(f, {"div button without tabindex"}) }

(* Fewer than five issues in all are minor.                                    *)
accessibility_checker(p) ==
  IF Issues([i \in find_html_files(p) |-> check_accessibility(p.files[i])]) < 5
  THEN {} ELSE {"accessibility"}

(* ---- seo_checker.py ---- *)

(* The sort of a file's name decides before its directories do.                *)
seo_is_page_file(p, i) ==
  LET f == p.files[i] IN
  /\ f.name \notin {"config", "util", "service", "test"}
  /\ \/ Parts(p, i) \cap {"pages", "app", "routes", "views", "screens"} # {}
     \/ f.name \in {"page", "layout"}
     \/ f.kind \in {".html", ".htm"}

NotPublic == Generated \cup {".github", "__pycache__", ".vscode", ".idea", "coverage", "test",
                             "tests", "__tests__", "spec", "docs", "documentation"}

find_pages(p) ==
  Glob(p, <<".html", ".htm", ".jsx", ".tsx">>,
       {i \in Outside(p, NotPublic \cup {"examples"}) : seo_is_page_file(p, i)}, 50)

(* Tags are asked only of files with a head; of the images, the first bad one  *)
(* counts.                                                                     *)
seo_check_page(f) ==
  IF ~f.ok THEN {"error"}
  ELSE { i \in {"title", "description", "og", "several h1", "alt"} :
           CASE i \in {"title", "description", "og"} -> Marked(f, {"head"}) /\ ~Marked(f, {i})
             [] i = "several h1" -> Count(f, "h1") > 1
             [] i = "alt"        -> Marked(f, {"img without alt", "empty alt"}) }

seo_checker(p) ==
  IF Issues([i \in find_pages(p) |-> seo_check_page(p.files[i])]) = 0 THEN {} ELSE {"seo"}

(* ---- geo_checker.py ---- *)

geo_is_page_file(p, i) ==
  LET f == p.files[i] IN
  /\ f.name \notin {"config", "test"}
  /\ \/ Parts(p, i) \cap {"pages", "app", "routes"} # {}
     \/ f.name \in {"page", "service"}
     \/ f.kind = ".html"

find_web_pages(p) ==
  Glob(p, <<".html", ".htm", ".jsx", ".tsx">>,
       {i \in Outside(p, NotPublic) : geo_is_page_file(p, i)}, 30)

(* The nearest whole percentage, the even one of two.                          *)
RoundedPercent(n, d) ==
  LET low == (100 * n) \div d  rest == (100 * n) % d
  IN  IF 2 * rest > d \/ (2 * rest = d /\ low % 2 = 1) THEN low + 1 ELSE low

(* Structure counts for and against a page; some marks only count for it.      *)
geo_check_page(f) ==
  LET found  == { m \in {"json-ld", "one h1", "subheadings", "author", "date"} :
                    CASE m = "one h1"      -> Count(f, "h1") = 1
                      [] m = "subheadings" -> Count(f, "h2") >= 2
                      [] OTHER             -> m \in f.has }
      schema == IF {"json-ld", "@type"} \subseteq f.has
                THEN f.has \cap {"Article", "FAQPage", "Organization or Person"} ELSE {}
      extra  == (f.has \cap {"faq", "table", "entity", "statistics", "direct answer"})
                  \cup (IF Count(f, "list") >= 2 THEN {"lists"} ELSE {})
      passed == Cardinality(found) + Cardinality(schema) + Cardinality(extra)
  IN  IF ~f.ok THEN 0 ELSE RoundedPercent(passed, passed + 5 - Cardinality(found))

(* The average over the pages must reach 60; without pages all is well.        *)
geo_checker(p) ==
  LET pages == find_web_pages(p)
      sum   == Total(pages, [i \in pages |-> geo_check_page(p.files[i])])
  IN  IF sum >= 60 * Cardinality(pages) THEN {} ELSE {"geo"}
=============================================================================
