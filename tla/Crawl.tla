------------------------------- MODULE Crawl -------------------------------
(***************************************************************************)
(* What every crawler of web_crawler is given, keeps and promises.  A page *)
(* is a URL; get_urls of the parser is external: it answers with the links *)
(* of the page, or raises.  Pages are found by following links on the      *)
(* host, no page is fetched twice, and crawl returns when nothing is left  *)
(* to find.  If a fetch raises, crawl may raise.                           *)
(***************************************************************************)
EXTENDS Integers, FiniteSets

CONSTANTS
    Pages,
    Start,
    Site,       \* the pages on the hostname of Start
    Webs        \* the webs that may be crawled: the links of each page, and
                \* the pages whose get_urls raises

\* what the constants must be
WebConstants ==
    /\ IsFiniteSet(Pages)
    /\ Start \in Site /\ Site \subseteq Pages
    /\ Webs \subseteq [links : [Pages -> SUBSET Pages], broken : SUBSET Pages]

VARIABLES
    web,
    seen,
    fetches,    \* how often get_urls was called with each page
    outcome     \* of crawl: "running", "returned" or "raised"

crawl == <<web, seen, fetches, outcome>>

CrawlInit ==
    /\ web \in Webs
    /\ seen = {Start}
    /\ fetches = [p \in Pages |-> 0]
    /\ outcome = "running"

Fetched(p) == fetches' = [fetches EXCEPT ![p] = @ + 1]
Broken(p) == p \in web.broken

\* the links of a page that stay on the host
Links(p) == web.links[p] \intersect Site

-----------------------------------------------------------------------------
(* What crawl promises. *)

CrawlFetch(p) ==
    /\ p \in seen /\ fetches[p] = 0
    /\ Fetched(p)
    /\ UNCHANGED <<web, seen, outcome>>

CrawlDiscover(p) ==
    /\ fetches[p] = 1 /\ ~Broken(p)
    /\ seen' \subseteq seen \union Links(p)
    /\ seen \subseteq seen'
    /\ UNCHANGED <<web, fetches, outcome>>

CrawlComplete ==
    \A p \in seen : fetches[p] = 1 /\ ~Broken(p) /\ Links(p) \subseteq seen

CrawlReturn == CrawlComplete /\ outcome' = "returned" /\ UNCHANGED <<web, seen, fetches>>

CrawlRaise ==
    /\ \E p \in seen : fetches[p] = 1 /\ Broken(p)
    /\ outcome' = "raised"
    /\ UNCHANGED <<web, seen, fetches>>

CrawlNext ==
    /\ outcome = "running"
    /\ CrawlReturn \/ CrawlRaise \/ \E p \in Pages : CrawlFetch(p) \/ CrawlDiscover(p)

CrawlSpec == CrawlInit /\ [][CrawlNext]_crawl
=============================================================================
