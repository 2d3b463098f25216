----------------------------- MODULE MCCrawlers -----------------------------
(***************************************************************************)
(* The crawlers of web_crawler on small webs and the finders of            *)
(* file_duplicates on small trees.  A program constructs one of them; what *)
(* all crawlers keep is shared, and the variables of the others stay as    *)
(* they are.                                                               *)
(***************************************************************************)
EXTENDS MainThreadCrawlers, Sequences

CONSTANTS
    Workers, Directories, Root, Files, Trees,
    home, a, b, c, foreign, w1, w2, root, d1, d2, f1, f2, f3, f4

VARIABLES
    tier,
    pool_task, pool_todo, pending, finished,            \* of tier 2
    queue, unfinished, at, todo, found, joining,        \* of tier 4
    tree, jobs, uncounted, scanner, entries, db, waiting, answer    \* of the finders

pool_vars == <<pool_task, pool_todo, pending, finished>>
queue_vars == <<queue, unfinished, at, todo, found, joining>>
finder_vars == <<tree, jobs, uncounted, scanner, entries, db, waiting, answer>>
all == <<tier, crawl, stack_vars, pool_vars, level_vars, task, queue_vars, finder_vars>>

ThePages == {home, a, b, c, foreign}
TheSite == ThePages \ {foreign}

\* two paths to a page, a cycle, a page that links to itself
Tangled == [p \in ThePages |->
    CASE p = home -> {a, b, foreign} [] p = a -> {b, home, c} [] p = b -> {b, c}
      [] OTHER -> {}]
\* a page of the site that only the other host links to
Bridged == [p \in ThePages |->
    CASE p = home -> {a, foreign} [] p = a -> {home} [] p = foreign -> {b}
      [] OTHER -> {}]
TheWebs ==
    [links : {Tangled}, broken : {{}, {a}, {c}, {b, c}}]
        \union [links : {Bridged}, broken : {{}, {b}, {home}}]

TwoWorkers == {w1, w2}

FourFiles == {f1, f2, f3, f4}
ThreeDirectories == {root, d1, d2}
\* two sizes and two prefixes
SomeContents == {<<1>>, <<2>>, <<1, 1>>, <<2, 1>>}
TheTrees ==
    [inside : {[d \in ThreeDirectories |->
                  CASE d = root -> {f1, d1, d2} [] d = d1 -> {f2, f3} [] d = d2 -> {f4}]},
     content : {x \in [FourFiles -> SomeContents] : x[f1] = <<1>>},
     broken : {{}, {d1}, {f3}}]

Pool == INSTANCE ThreadPoolCrawler WITH task <- pool_task, todo <- pool_todo
Queued == INSTANCE QueueCrawler WITH Sentinel <- None

Finder == INSTANCE DuplicateFinders WITH NoMore <- None, unfinished <- uncounted

ASSUME CrawlersConstants ==
    WebConstants /\ None \notin Pages /\ MaxWorkers \in Nat /\ Finder!FinderConstants

\* what the finder searches is only told apart in its own tier, and so is what
\* the crawlers crawl in theirs
CrawlersInit ==
    /\ tier \in {"simple", "pool", "waves", "group", "queued", "search", "finder"}
    /\ StackInit /\ LevelInit /\ GroupInit
    /\ Pool!Init /\ Queued!Init /\ Finder!Init
    /\ tier \in {"search", "finder"} => web = CHOOSE x \in Webs : TRUE
    /\ tier \notin {"search", "finder"} => tree = CHOOSE x \in Trees : TRUE

SimpleStep == tier = "simple" /\ StackNext
PoolStep == tier = "pool" /\ Pool!Next
WavesStep == tier = "waves" /\ LevelNext
GroupStep == tier = "group" /\ GroupNext
QueuedStep == tier = "queued" /\ Queued!Next
SearchStep == tier = "search" /\ Finder!SequentialNext /\ UNCHANGED crawl
FinderStep == tier = "finder" /\ Finder!WorkersNext /\ UNCHANGED crawl

OthersRest ==
    /\ UNCHANGED tier
    /\ tier # "simple" => UNCHANGED stack_vars
    /\ tier # "pool" => UNCHANGED pool_vars
    /\ tier # "waves" => UNCHANGED level_vars
    /\ tier # "group" => UNCHANGED task
    /\ tier # "queued" => UNCHANGED queue_vars
    /\ tier \notin {"search", "finder"} => UNCHANGED finder_vars

CrawlersNext ==
    /\ \/ SimpleStep \/ PoolStep \/ WavesStep \/ GroupStep \/ QueuedStep
       \/ SearchStep \/ FinderStep
    /\ OthersRest

\* As long as a thread or a coroutine can run one of them does, and fetches end;
\* which one is left open.
CrawlersSpec == CrawlersInit /\ [][CrawlersNext]_all /\ WF_all(CrawlersNext)

-----------------------------------------------------------------------------
(* Properties *)

\* Every tier crawls as promised: no page is fetched twice, none of another
\* host is followed, and crawl does not return while a page is missing.
ImplementsCrawl == CrawlSpec

\* The three counts that detect the end are exact.
CountsAreExact ==
    Pool!PendingIsExact /\ Queued!UnfinishedIsExact /\ Finder!UnfinishedIsExact

\* crawl ends.  A fetch that raises ends it with an exception where the pool
\* or the TaskGroup passes it on; in the tiers that only count, it never ends.
\* A search ends as well, unless the file system raised in a worker.
CrawlEnds ==
    /\ tier = "finder" => Finder!FindEnds
    /\ tier \notin {"search", "finder"} =>
          <>(\/ outcome # "running"
             \/ tier \in {"pool", "queued"} /\ \E p \in web.broken : fetches[p] = 1)

\* All duplicate finders find the same groups, each file once.
FindersAgree == Finder!FindersAgree
=============================================================================
