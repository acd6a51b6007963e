------------------------------- MODULE SeoCrawl -------------------------------
(***************************************************************************)
(* The crawl of a site (src/seo/seo-crawl.service.ts): the handlers that   *)
(* the crawler calls, two at a time, for the requests of a queue that      *)
(* holds each address once.  Several addresses may redirect to one page.   *)
(* A request may fail in the middle of its handler; a handler that is      *)
(* given up after its 30 seconds still runs.                               *)
(***************************************************************************)
EXTENDS Naturals, Sequences, FiniteSets

CONSTANTS
  Url,      \* addresses of the host, without those that differ in a final slash
  Home,     \* homepageUrl
  Loaded,   \* where the request of an address ends up
  Links,    \* the addresses that a page refers to
  Allowed,  \* addresses that robots.txt does not disallow
  Listed,   \* addresses in the sitemaps, in order
  Limits,   \* what maxPagesPerAudit may be
  Handler,  \* maxConcurrency; bound: a handler that was given up holds its place
  MaxTries  \* bound: how often a request is tried

VARIABLES
  maxPages,
  queue,   \* requests that wait
  asked,   \* requests that were ever entered
  tries,   \* of each request
  handled, \* requests that are done with
  pc, req, url, \* a handler: where it is, its request and the page it got
  pages,   \* the records, and whether the link is broken
  seen,    \* the addresses of the records, in the order of events
  adrift,  \* handlers that still run and whose request was given up
  spoilt,  \* history: pages whose handler failed after they were noted
  barred   \* history: requests that ended as SEO_SSRF_BLOCKED

vars ==
  <<maxPages, queue, asked, tries, handled, pc, req, url, pages, seen, adrift, spoilt, barred>>

-----------------------------------------------------------------------------
\* The home page and what the sitemaps list, as far as it is allowed and the
\* limit is not reached.
ListedBefore(i) == {Home} \cup ({ Listed[j] : j \in 1 .. i - 1 } \cap Allowed)
StartRequests   ==
  {Home} \cup { Listed[i] : i \in { j \in 1 .. Len(Listed) :
                  Listed[j] \in Allowed /\ Cardinality(ListedBefore(j)) < maxPages } }

\* crawlSite gives up when the home page is disallowed.
Init ==
  /\ maxPages \in Limits
  /\ Home \in Allowed
  /\ queue = StartRequests
  /\ asked = queue
  /\ tries = [u \in Url |-> 0]
  /\ handled = 0
  /\ pc = [h \in Handler |-> "idle"]
  /\ req = [h \in Handler |-> Home]
  /\ url = [h \in Handler |-> Home]
  /\ pages = <<>>
  /\ seen = {}
  /\ adrift = {}
  /\ spoilt = {}
  /\ barred = {}

Goto(h, to) == pc' = [pc EXCEPT ![h] = to]
Full        == Len(pages) >= maxPages

\* The crawler counts a request that is done with, unless it was given up.
Done(h) ==
  /\ Goto(h, "idle")
  /\ handled' = IF h \in adrift THEN handled ELSE handled + 1
  /\ adrift' = adrift \ {h}

\* maxRequestsPerCrawl counts the requests that are done with.
Take(h) ==
  /\ pc[h] = "idle"
  /\ handled < maxPages
  /\ \E r \in queue :
       /\ queue' = queue \ {r}
       /\ req' = [req EXCEPT ![h] = r]
       /\ tries' = [tries EXCEPT ![r] = @ + 1]
  /\ Goto(h, "load")
  /\ UNCHANGED <<asked, handled, url, pages, seen, adrift, spoilt, barred>>

\* Mutant: the address is noted when the record is there.
HandleAndNoteLater(h) ==
  /\ pc[h] = "load"
  /\ url' = [url EXCEPT ![h] = Loaded[req[h]]]
  /\ IF Full \/ url'[h] \in seen
     THEN Done(h) /\ UNCHANGED seen
     ELSE Goto(h, "push") /\ UNCHANGED <<handled, seen, adrift>>
  /\ UNCHANGED <<queue, asked, tries, req, pages, spoilt, barred>>

\* requestHandler up to its first await
requestHandler(h) ==
  /\ pc[h] = "load"
  /\ url' = [url EXCEPT ![h] = Loaded[req[h]]]
  /\ IF Full \/ url'[h] \in seen
     THEN Done(h) /\ UNCHANGED seen
     ELSE /\ seen' = seen \cup {url'[h]}
          /\ Goto(h, "push")
          /\ UNCHANGED <<handled, adrift>>
  /\ UNCHANGED <<queue, asked, tries, req, pages, spoilt, barred>>

\* ... the record
PushPage(h) ==
  /\ pc[h] = "push"
  /\ pages' = Append(pages, <<url[h], "ok">>)
  /\ seen' = seen \cup {url[h]}
  /\ IF Len(pages') >= maxPages THEN Done(h)
     ELSE Goto(h, "links") /\ UNCHANGED <<handled, adrift>>
  /\ UNCHANGED <<queue, asked, tries, req, url, spoilt, barred>>

\* ... and the links.
enqueueLinks(h) ==
  /\ pc[h] = "links"
  /\ LET more == IF url[h] \in Allowed THEN (Links[url[h]] \cap Allowed) \ asked ELSE {}
     IN queue' = queue \cup more /\ asked' = asked \cup more
  /\ Done(h)
  /\ UNCHANGED <<tries, req, url, pages, seen, spoilt, barred>>

\* A request that failed is tried again,
Retry(r) ==
  /\ tries[r] < MaxTries
  /\ queue' = queue \cup {r}
  /\ UNCHANGED <<handled, pages, seen, barred>>

\* Mutant: what fails in the end leaves no record.
FailWithoutRecord(r, error) ==
  /\ tries[r] >= MaxTries
  /\ handled' = handled + 1
  /\ UNCHANGED <<queue, pages, seen, barred>>

\* ... and given to failedRequestHandler in the end; one that was blocked leaves
\* no record.
failedRequestHandler(r, error) ==
  /\ tries[r] >= MaxTries
  /\ \/ (Full \/ r \in seen) /\ UNCHANGED <<pages, seen, barred>>
     \/ /\ ~Full /\ r \notin seen /\ error = "blocked"
        /\ barred' = barred \cup {r}
        /\ UNCHANGED <<pages, seen>>
     \/ /\ ~Full /\ r \notin seen /\ error # "blocked"
        /\ seen' = seen \cup {r}
        /\ pages' = Append(pages, <<r, "broken">>)
        /\ UNCHANGED barred
  /\ handled' = handled + 1
  /\ UNCHANGED queue

Failed(r, error) ==
  /\ Retry(r) \/ failedRequestHandler(r, error)
  /\ UNCHANGED <<asked, tries, req, url>>

\* The address is refused by preNavigationHooks, or cannot be loaded.
FailToLoad(h) ==
  /\ pc[h] = "load"
  /\ \E error \in {"blocked", "other"} : Failed(req[h], error)
  /\ Goto(h, "idle")
  /\ UNCHANGED <<adrift, spoilt>>

\* requestHandler fails at its page,
Throw(h) ==
  /\ pc[h] \in {"push", "links"} /\ h \notin adrift
  /\ Failed(req[h], "other")
  /\ spoilt' = spoilt \cup {url[h]}
  /\ Goto(h, "idle")
  /\ UNCHANGED adrift

\* ... or takes more than requestHandlerTimeoutSecs, and goes on.
TimeOut(h) ==
  /\ pc[h] \in {"push", "links"} /\ h \notin adrift
  /\ Failed(req[h], "other")
  /\ spoilt' = spoilt \cup {url[h]}
  /\ adrift' = adrift \cup {h}
  /\ UNCHANGED pc

Next ==
  /\ \E h \in Handler :
       \/ Take(h) \/ requestHandler(h) \/ PushPage(h) \/ enqueueLinks(h)
       \/ FailToLoad(h) \/ Throw(h) \/ TimeOut(h)
  /\ UNCHANGED maxPages

Spec == Init /\ [][Next]_vars
-----------------------------------------------------------------------------
(* Properties                                                              *)

Records(u) == { i \in 1 .. Len(pages) : pages[i][1] = u }

\* A page has one record, although two handlers may be at it at once, failures
\* come in between and a handler that was given up still runs; and there are at
\* most as many as are asked for, one for each further handler, and one more if a
\* handler failed at its page: its request may get the record of a broken link.
OneRecordEach ==
  /\ \A u \in Url : Cardinality(Records(u)) <= 1
  /\ Len(pages) <= maxPages + Cardinality(Handler) - (IF spoilt = {} THEN 1 ELSE 0)

Over     == queue = {} /\ \A h \in Handler : pc[h] = "idle" \/ h \in adrift
CutShort == Full \/ handled >= maxPages

\* When the crawl is over and was not cut short, every address that robots.txt
\* allows and that a page links to has its record, but for two gaps: an address
\* that was refused as not public has none; and what failed after its page was
\* noted is not made up for, as the next try finds it noted (lines 274, 319):
\* neither the page nor the links on it.
AllowedAreReached ==
  Over /\ ~CutShort =>
    \A i \in 1 .. Len(pages) :
      pages[i][2] = "ok" /\ pages[i][1] \in Allowed \ spoilt =>
        \A u \in (Links[pages[i][1]] \cap Allowed) \ barred :
          \/ Records(u) # {} \/ Records(Loaded[u]) # {}
          \/ u \in spoilt \/ Loaded[u] \in spoilt
=============================================================================
