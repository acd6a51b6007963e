------------------------------- MODULE SeoRules -------------------------------
(***************************************************************************)
(* The report of an audit (src/seo/seo-rules.ts): fifteen rules on the     *)
(* pages that the crawl found, the sitemap, robots.txt, the probe and the  *)
(* Lighthouse result.  The crawl finds one page after the other, and the   *)
(* owner of the site follows the report.  Titles and texts are kept apart  *)
(* as far as the rules do; the order of the report and its wording are     *)
(* left out.                                                               *)
(***************************************************************************)
EXTENDS Naturals, FiniteSets

CONSTANTS
  Url,     \* addresses of the site
  Looks,   \* what the server may give for an address
  Probes,  \* what the probe may find: llms and variants
  Labs     \* ... and Lighthouse: speed and accessibility

VARIABLES
  look,       \* of each address
  crawled,    \* pages that the crawl has found
  listed,     \* addresses in the sitemap
  blocked,    \* addresses that robots.txt disallows
  advertised, \* whether robots.txt has a Sitemap line
  probe, lab,
  advised     \* for the property: what the owner did for an address that is as it was

vars == <<look, crawled, listed, blocked, advertised, probe, lab, advised>>

Ok(status) == status = "ok"

\* A record of the crawl.
Page(u) ==
  [url |-> u, look |-> look[u], robotsAllowed |-> u \notin blocked, inSitemap |-> u \in listed,
   brokenLink |-> ~Ok(look[u].status)]

PagesOf(us) == { Page(u) : u \in us }

-----------------------------------------------------------------------------
(* The rules.  An issue is an address and a level.                         *)

Critical(us) == { <<u, "critical">> : u \in us }
Warning(us)  == { <<u, "warning">> : u \in us }
Urls(ps)     == { p.url : p \in ps }

\* Mutant: pages that ask not to be indexed are counted in.
IndexableIfAllowed(p) == Ok(p.look.status) /\ p.robotsAllowed

isIndexable(p) == Ok(p.look.status) /\ p.robotsAllowed /\ p.look.noindex # "yes"

\* Pages that were fetched by an audit that read their text.
parsed(p) == p.look.words # "unknown"

make(bucket, affected) ==
  [bucket |-> bucket, affected |-> IF bucket \in {"fix-now", "watch"} THEN affected ELSE {}]

fromIssues(issues) ==
  make(IF \E i \in issues : i[2] = "critical" THEN "fix-now"
       ELSE IF issues # {} THEN "watch" ELSE "passed",
       { i[1] : i \in issues })

legacyOr(legacy, issues) == IF legacy THEN make("not-evaluated", {}) ELSE fromIssues(issues)

sitemapConflicts(ps) ==
  fromIssues(Critical((listed \cap blocked) \cup
                      Urls({ p \in ps : p.inSitemap /\ p.look.noindex = "yes" })))

titleIssues(ps) ==
  LET indexable == { p \in ps : isIndexable(p) }
      twice(p)  == \E q \in indexable \ {p} : q.look.title = p.look.title
  IN Critical(Urls({ p \in indexable : p.look.title = "" })) \cup
     Warning(Urls({ p \in indexable :
       p.look.title # "" /\ (p.look.title \in {"short", "long"} \/ twice(p)) }))

metaIssues(ps) ==
  LET indexable == { p \in ps : isIndexable(p) }
      twice(p)  == \E q \in indexable \ {p} : q.look.description = p.look.description
  IN Warning(Urls({ p \in indexable : p.look.description \in {"", "long"} \/ twice(p) }))

headingIssues(ps) ==
  Critical(Urls({ p \in ps : parsed(p) /\ p.look.h1 = "none" })) \cup
  Warning(Urls({ p \in ps : parsed(p) /\ p.look.h1 = "several" }))

canonicalIssues(ps) ==
  Warning(Urls({ p \in ps : parsed(p) /\ p.look.canonical = "missing" })) \cup
  Critical(Urls({ p \in ps : parsed(p) /\ p.look.canonical \in {"unparseable", "other host"} }))

thinIssues(ps) == Warning(Urls({ p \in ps : p.look.words = "few" }))

flagIssues(ps, flag) ==
  Warning(Urls({ p \in ps : parsed(p) /\ Ok(p.look.status) /\ ~p.look[flag] }))

notInSitemap(ps) ==
  LET affected == Urls({ p \in ps : isIndexable(p) /\ ~p.inSitemap })
  IN IF listed = {} THEN make("not-evaluated", {})
     ELSE make(IF affected = {} THEN "passed" ELSE "watch", affected)

sitemapFile ==
  make(IF listed = {} THEN "fix-now" ELSE IF advertised THEN "passed" ELSE "watch", {})

llmsFinding ==
  make(CASE probe.llms = "unknown" -> "not-evaluated"
         [] probe.llms = "missing" -> "watch"
         [] probe.llms = "found"   -> "passed", {})

httpsFinding ==
  make(CASE probe.variants = "unknown"   -> "not-evaluated"
         [] probe.variants = "ok"        -> "passed"
         [] probe.variants = "http bad"  -> "fix-now"
         [] probe.variants = "https bad" -> "watch", {})

speedFinding ==
  make(CASE lab.speed = "unknown" -> "not-evaluated"
         [] lab.speed = "slow"    -> "watch"
         [] lab.speed = "fast"    -> "passed", {})

a11yFinding ==
  make(CASE lab.a11y = "unknown" -> "not-evaluated"
         [] lab.a11y = "low"     -> "fix-now"
         [] lab.a11y = "medium"  -> "watch"
         [] lab.a11y = "high"    -> "passed", {})

\* Mutant: one page without text makes the audit an old one.
LegacyIfAny(ps) == \E p \in ps : ~parsed(p)

\* Audits from before the text was read.
Legacy(ps) == ~\E p \in ps : parsed(p)

evaluateSeoRules(ps) ==
  [sitemap_conflicts       |-> sitemapConflicts(ps),
   broken_pages            |-> fromIssues(Critical(Urls({ p \in ps : p.brokenLink }))),
   title_missing_or_weak   |-> fromIssues(titleIssues(ps)),
   meta_description_weak   |-> fromIssues(metaIssues(ps)),
   headings_weak           |-> legacyOr(Legacy(ps), headingIssues(ps)),
   canonical_issues        |-> legacyOr(Legacy(ps), canonicalIssues(ps)),
   thin_content            |-> legacyOr(Legacy(ps), thinIssues(ps)),
   structured_data_missing |-> fromIssues(flagIssues(ps, "jsonldOk")),
   open_graph_missing      |-> fromIssues(flagIssues(ps, "ogOk")),
   not_in_sitemap          |-> notInSitemap(ps),
   sitemap_missing_or_weak |-> sitemapFile,
   llms_txt_missing        |-> llmsFinding,
   https_redirects         |-> httpsFinding,
   page_speed_lab          |-> speedFinding,
   accessibility_lab       |-> a11yFinding]

Report == evaluateSeoRules(PagesOf(crawled))

-----------------------------------------------------------------------------
(* The crawl, and an owner who follows the report                          *)

Init ==
  /\ look \in [Url -> Looks]
  /\ crawled = {}
  /\ listed \in SUBSET Url /\ blocked \in SUBSET Url
  /\ advertised \in BOOLEAN
  /\ probe \in Probes /\ lab \in Labs
  /\ advised = [u \in Url |-> {}]

\* A page that is blocked is found when an address that is not leads to it.
Crawl(u) ==
  /\ u \notin crawled
  /\ crawled' = crawled \cup {u}
  /\ UNCHANGED <<look, listed, blocked, advertised, probe, lab, advised>>

\* The advice of not-in-sitemap.
AddToSitemap(u) ==
  /\ u \in Report.not_in_sitemap.affected
  /\ listed' = listed \cup {u}
  /\ advised' = [advised EXCEPT ![u] = @ \cup {"add"}]
  /\ UNCHANGED <<look, crawled, blocked, advertised, probe, lab>>

\* The advice of sitemap-conflicts.
RemoveFromSitemap(u) ==
  /\ u \in Report.sitemap_conflicts.affected
  /\ listed' = listed \ {u}
  /\ advised' = [advised EXCEPT ![u] = @ \cup {"remove"}]
  /\ UNCHANGED <<look, crawled, blocked, advertised, probe, lab>>

\* The advice of sitemap-missing-or-weak.
Advertise ==
  /\ Report.sitemap_missing_or_weak.bucket = "watch"
  /\ advertised' = TRUE
  /\ UNCHANGED <<look, crawled, listed, blocked, probe, lab, advised>>

\* One advice of thin-content.
Noindex(u) ==
  /\ u \in Report.thin_content.affected
  /\ look[u].noindex # "yes"
  /\ look' = [look EXCEPT ![u].noindex = "yes"]
  /\ advised' = [advised EXCEPT ![u] = {}]
  /\ UNCHANGED <<crawled, listed, blocked, advertised, probe, lab>>

Next ==
  \/ \E u \in Url : Crawl(u) \/ AddToSitemap(u) \/ RemoveFromSitemap(u) \/ Noindex(u)
  \/ Advertise

Spec == Init /\ [][Next]_vars
-----------------------------------------------------------------------------
(* Properties                                                              *)

Rank(bucket) ==
  CASE bucket = "not-evaluated" -> 0 [] bucket = "passed" -> 1 [] bucket = "watch" -> 2
    [] bucket = "fix-now" -> 3

\* A page that the crawl finds in addition hides nothing: whatever the report
\* says without it, it says with it, and no rule gets better.
NothingHidden ==
  \A u \in crawled :
    LET less == evaluateSeoRules(PagesOf(crawled \ {u})) IN
      \A rule \in DOMAIN less :
        /\ less[rule].affected \subseteq Report[rule].affected
        /\ Rank(less[rule].bucket) <= Rank(Report[rule].bucket)

\* Who follows the advice on the sitemap is not given the opposite advice on
\* the same page afterwards.
AdviceIsFinal == \A u \in Url : Cardinality(advised[u]) <= 1
=============================================================================
