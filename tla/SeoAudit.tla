------------------------------- MODULE SeoAudit -------------------------------
(***************************************************************************)
(* The audits of sites (src/seo/seo-audit.service.ts): one at a time,      *)
(* guarded by a flag in memory, carried on after the call that asked for   *)
(* it has been answered.  Sites are removed meanwhile, with the rows that  *)
(* refer to them, and the process restarts.                                *)
(***************************************************************************)
EXTENDS Naturals, FiniteSets

CONSTANTS
  Site,   \* project_seo_sites
  MaxRuns \* bound: audits ever asked for

VARIABLES
  sites,   \* the sites there are
  busy,    \* the flag
  asked,   \* audits asked for
  siteOf,  \* the site of an audit
  status,  \* project_seo_audit_runs.status
  pc,      \* where an audit is
  pages, lighthouse, \* audits that have rows there
  cut,     \* for the properties: audits that a restart has stopped
  removed, \* ... audits under way whose site was removed,
  died     \* ... and whether an audit has ended the process

vars == <<sites, busy, asked, siteOf, status, pc, pages, lighthouse, cut, removed, died>>

Run == 1 .. MaxRuns
Unfinished == {"queued", "running"}

Init ==
  /\ sites = Site
  /\ busy = FALSE
  /\ asked = 0
  /\ siteOf \in [Run -> Site]
  /\ status = [r \in Run |-> "none"]
  /\ pc = [r \in Run |-> "idle"]
  /\ pages = {} /\ lighthouse = {}
  /\ cut = {} /\ removed = {}
  /\ died = FALSE

Goto(r, to) == pc' = [pc EXCEPT ![r] = to]
There(r)    == status[r] # "none"
UnderWay    == { r \in Run : pc[r] # "idle" }

\* The flag is given back whatever has happened.
Finally(r) == Goto(r, "idle") /\ busy' = FALSE

-----------------------------------------------------------------------------
enqueue(r) ==
  /\ r = asked + 1
  /\ siteOf[r] \in sites
  /\ ~busy
  /\ busy' = TRUE
  /\ asked' = r
  /\ Goto(r, "start")
  /\ UNCHANGED <<sites, siteOf, status, pages, lighthouse, cut, removed, died>>

\* Mutant: the flag is given back when the call is answered.
StartRunAndAnswer(r) ==
  /\ pc[r] = "start"
  /\ IF siteOf[r] \in sites
     THEN status' = [status EXCEPT ![r] = "queued"] /\ Goto(r, "find") /\ busy' = FALSE
     ELSE Finally(r) /\ UNCHANGED status
  /\ UNCHANGED <<sites, asked, siteOf, pages, lighthouse, cut, removed, died>>

\* The insert fails when the site is gone.
startRun(r) ==
  /\ pc[r] = "start"
  /\ IF siteOf[r] \in sites
     THEN status' = [status EXCEPT ![r] = "queued"] /\ Goto(r, "find") /\ UNCHANGED busy
     ELSE Finally(r) /\ UNCHANGED status
  /\ UNCHANGED <<sites, asked, siteOf, pages, lighthouse, cut, removed, died>>

FindRun(r) ==
  /\ pc[r] = "find"
  /\ IF There(r) THEN Goto(r, "mark") /\ UNCHANGED busy ELSE Finally(r)
  /\ UNCHANGED <<sites, asked, siteOf, status, pages, lighthouse, cut, removed, died>>

\* The process ends: nobody waits for the promise of processRun, and nothing
\* handles a rejection.
Unhandled ==
  /\ died' = TRUE
  /\ cut' = cut \cup UnderWay
  /\ pc' = [r \in Run |-> "idle"]
  /\ busy' = FALSE
  /\ UNCHANGED status

\* Outside the try: a row that is gone is inserted, and its site is missing.
MarkRunning(r) ==
  /\ pc[r] = "mark"
  /\ IF There(r)
     THEN /\ status' = [status EXCEPT ![r] = "running"]
          /\ Goto(r, "crawl")
          /\ UNCHANGED <<busy, cut, died>>
     ELSE Unhandled
  /\ UNCHANGED <<sites, asked, siteOf, pages, lighthouse, removed>>

\* The limit, the crawl, which fails when it finds no page, and the probe,
\* whose failures are ignored.
Crawl(r) ==
  /\ pc[r] = "crawl"
  /\ \E to \in {"pages", "catch"} : Goto(r, to)
  /\ UNCHANGED <<sites, busy, asked, siteOf, status, pages, lighthouse, cut, removed, died>>

\* Rows that refer to the run.
SavePages(r) ==
  /\ pc[r] = "pages"
  /\ pages' = IF There(r) THEN pages \cup {r} ELSE pages
  /\ Goto(r, IF There(r) THEN "lighthouse" ELSE "catch")
  /\ UNCHANGED <<sites, busy, asked, siteOf, status, lighthouse, cut, removed, died>>

SaveLighthouse(r) ==
  /\ pc[r] = "lighthouse"
  /\ lighthouse' = IF There(r) THEN lighthouse \cup {r} ELSE lighthouse
  /\ Goto(r, IF There(r) THEN "complete" ELSE "catch")
  /\ UNCHANGED <<sites, busy, asked, siteOf, status, pages, cut, removed, died>>

Complete(r) ==
  /\ pc[r] = "complete"
  /\ IF There(r)
     THEN status' = [status EXCEPT ![r] = "complete"] /\ Finally(r)
     ELSE Goto(r, "catch") /\ UNCHANGED <<status, busy>>
  /\ UNCHANGED <<sites, asked, siteOf, pages, lighthouse, cut, removed, died>>

Catch(r) ==
  /\ pc[r] = "catch"
  /\ IF There(r)
     THEN status' = [status EXCEPT ![r] = "failed"] /\ Finally(r) /\ UNCHANGED <<cut, died>>
     ELSE Unhandled
  /\ UNCHANGED <<sites, asked, siteOf, pages, lighthouse, removed>>

processRun(r) ==
  FindRun(r) \/ MarkRunning(r) \/ Crawl(r) \/ SavePages(r) \/ SaveLighthouse(r) \/ Complete(r) \/ Catch(r)

\* SeoSitesService.remove: what refers to the site goes with it.
RemoveSite(s) ==
  LET gone == { r \in Run : siteOf[r] = s } IN
    /\ s \in sites
    /\ sites' = sites \ {s}
    /\ status' = [r \in Run |-> IF r \in gone THEN "none" ELSE status[r]]
    /\ pages' = pages \ gone
    /\ lighthouse' = lighthouse \ gone
    /\ removed' = removed \cup (gone \cap UnderWay)
    /\ UNCHANGED <<busy, asked, siteOf, pc, cut, died>>

\* Runs are left as they are.
Restart ==
  /\ busy
  /\ cut' = cut \cup UnderWay
  /\ pc' = [r \in Run |-> "idle"]
  /\ busy' = FALSE
  /\ UNCHANGED <<sites, asked, siteOf, status, pages, lighthouse, removed, died>>

Next ==
  \/ \E r \in Run : enqueue(r) \/ startRun(r) \/ processRun(r)
  \/ \E s \in Site : RemoveSite(s)
  \/ Restart

Spec == Init /\ [][Next]_vars
-----------------------------------------------------------------------------
(* Properties                                                              *)

\* The flag is up exactly while one audit is under way, never two; a run that
\* is shown as queued or running is that one, unless a restart stopped it, so
\* that every failure is entered; a run that is shown as complete has its pages
\* and its Lighthouse result; and no audit ends the process, unless its site was
\* removed under it.
OneAudit ==
  /\ busy <=> UnderWay # {}
  /\ Cardinality(UnderWay) <= 1
  /\ \A r \in Run :
       /\ status[r] \in Unfinished => r \in UnderWay \cup cut
       /\ status[r] = "complete" => r \in pages \cap lighthouse
  /\ died => removed # {}
=============================================================================
