--------------------------- MODULE Crawlers_proof ---------------------------
(***************************************************************************)
(* Proofs about the crawlers of web_crawler and the finders of             *)
(* file_duplicates, for every web, every tree and any number of threads:   *)
(* each crawler implements Crawl, and the counts that detect the end are   *)
(* exact.                                                                  *)
(***************************************************************************)
EXTENDS MCCrawlers, FiniteSetTheorems, TLAPS

\* The instances count as this module does.
LEMMA SameCounts ==
    /\ \A S : Finder!IsFiniteSet(S) <=> IsFiniteSet(S)
    /\ \A S : /\ Pool!Cardinality(S) = Cardinality(S)
             /\ Queued!Cardinality(S) = Cardinality(S)
             /\ Finder!Cardinality(S) = Cardinality(S)
BY DEF Finder!IsFiniteSet, IsFiniteSet, Pool!Cardinality, Queued!Cardinality,
       Finder!Cardinality, Cardinality

\* What all crawlers keep.  A page that was not found was not fetched.
Found ==
    /\ web \in Webs
    /\ seen \subseteq Site /\ Start \in seen
    /\ fetches \in [Pages -> {0, 1}]
    /\ outcome \in {"running", "returned", "raised"}
    /\ \A p \in Pages \ seen : fetches[p] = 0

\* nothing is left to do for a page
Settled(p) == fetches[p] = 1 /\ ~Broken(p) /\ Links(p) \subseteq seen

\* Links lead to pages of the site.
LEMMA LinksStayOnSite ==
    ASSUME web \in Webs, NEW p \in Pages
    PROVE  Links(p) \subseteq Site /\ Site \subseteq Pages
BY CrawlersConstants DEF WebConstants, Links

\* What a fetch changes.
LEMMA FetchedOnce ==
    ASSUME Found, NEW p \in seen, fetches[p] = 0, Fetched(p), UNCHANGED <<web, seen, outcome>>
    PROVE  /\ Found'
           /\ p \in Pages /\ fetches'[p] = 1
           /\ \A q \in Pages \ {p} : fetches'[q] = fetches[q]
           /\ \A q \in Pages \ {p} : Settled(q)' = Settled(q)
           /\ outcome = "running" => CrawlNext
<1>1. p \in Pages
  BY CrawlersConstants DEF WebConstants, Found
<1>2. fetches' = [fetches EXCEPT ![p] = 1]
  BY <1>1 DEF Found, Fetched
<1> QED BY <1>1, <1>2 DEF Found, Settled, Broken, Links, CrawlNext, CrawlFetch

-----------------------------------------------------------------------------
(* Tier 1. *)

\* The pages of the stack are found and not fetched, the current one is
\* fetched, and all others are settled.
StackInv ==
    /\ Found
    /\ stack \subseteq seen
    /\ current \in {None} \union (seen \ stack)
    /\ \A p \in stack : fetches[p] = 0
    /\ current # None => fetches[current] = 1
    /\ \A p \in seen \ (stack \union {current}) : Settled(p)
    /\ outcome = "returned" => stack = {} /\ current = None
    /\ outcome = "raised" => current # None /\ Broken(current)

\* The invariant of tier 1 holds initially.
LEMMA StackInitInv == StackInit => StackInv
BY CrawlersConstants DEF WebConstants, StackInit, CrawlInit, StackInv, Found

\* Every step of tier 1 keeps its invariant and is one of Crawl.
LEMMA StackStepInv == ASSUME StackInv, StackNext PROVE StackInv' /\ [CrawlNext]_crawl
<1>1. CASE FoldPage
  <2>1. current \in seen /\ current \in Pages /\ fetches[current] = 1 /\ ~Broken(current)
    BY <1>1, CrawlersConstants DEF StackInv, FoldPage, WebConstants, Found
  <2>2. Links(current) \subseteq Site /\ Site \subseteq Pages
    BY <2>1, LinksStayOnSite DEF StackInv, Found
  <2>3. outcome = "running"
    BY <1>1 DEF StackInv, Found, FoldPage
  <2>4. CrawlNext
    BY <1>1, <2>1, <2>3 DEF FoldPage, CrawlNext, CrawlDiscover
  <2>5. Found'
    BY <1>1, <2>2 DEF FoldPage, StackInv, Found
  <2>6. ASSUME NEW p \in seen' \ (stack' \union {current'}) PROVE Settled(p)'
    BY <1>1, <2>1, <2>2 DEF FoldPage, StackInv, Found, Settled, Broken, Links
  <2> QED
    BY <1>1, <2>1, <2>2, <2>3, <2>4, <2>5, <2>6 DEF FoldPage, StackInv, Found, crawl
<1>2. CASE StackRaises
  BY <1>2, CrawlersConstants
  DEF StackRaises, Ends, stack_vars, StackInv, Found, Settled,
      Broken, Links, CrawlNext, CrawlRaise, WebConstants
<1>3. CASE StackReturns
  BY <1>3, CrawlersConstants
  DEF StackReturns, Ends, stack_vars, StackInv, Found, Settled,
      Broken, Links, CrawlNext, CrawlReturn, CrawlComplete, WebConstants
<1>4. ASSUME NEW p \in Pages, Pop(p) PROVE StackInv' /\ CrawlNext
  <2>1. p \in stack /\ p \in seen /\ fetches[p] = 0 /\ outcome = "running"
    BY <1>4 DEF Pop, StackInv, Found
  <2>2. /\ Found' /\ fetches'[p] = 1 /\ CrawlNext
        /\ \A q \in Pages \ {p} : fetches'[q] = fetches[q] /\ Settled(q)' = Settled(q)
    BY <1>4, <2>1, FetchedOnce DEF Pop, StackInv
  <2>3. seen \subseteq Pages
    BY CrawlersConstants DEF StackInv, Found, WebConstants
  <2> QED
    BY <1>4, <2>1, <2>2, <2>3, CrawlersConstants DEF Pop, StackInv
<1> QED BY <1>1, <1>2, <1>3, <1>4 DEF StackNext

-----------------------------------------------------------------------------
(* Tier 2b. *)

\* The next wave is found and not fetched, nor are the pages of this wave that
\* no worker took; all that are in neither, or folded, are settled.
LevelInv ==
    /\ Found
    /\ wave \subseteq seen /\ level \subseteq seen /\ wave \intersect level = {}
    /\ fetching \subseteq wave /\ fetched \subseteq wave \ fetching /\ folded \subseteq fetched
    /\ \A p \in level \union (wave \ (fetching \union fetched)) : fetches[p] = 0
    /\ \A p \in fetching \union fetched : fetches[p] = 1
    /\ \A p \in folded \union (seen \ (wave \union level)) : Settled(p)

\* The invariant of tier 2b holds initially.
LEMMA LevelInitInv == LevelInit => LevelInv
BY CrawlersConstants DEF WebConstants, LevelInit, CrawlInit, LevelInv, Found

\* A step that keeps what is found and fetched keeps what all crawlers keep.
LEMMA FoundStays == ASSUME Found, UNCHANGED crawl
                    PROVE  Found' /\ \A p \in seen : Settled(p)' = Settled(p)
BY DEF Found, crawl, Settled, Broken, Links

\* Every step of tier 2b keeps its invariant and is one of Crawl.
LEMMA LevelStepInv == ASSUME LevelInv, LevelNext PROVE LevelInv' /\ [CrawlNext]_crawl
<1>0. seen \subseteq Pages
  BY CrawlersConstants DEF LevelInv, Found, WebConstants
<1>1. CASE NextWave
  BY <1>1, FoundStays DEF NextWave, LevelInv, crawl
<1>2. CASE LevelReturns
  <2>1. CrawlNext
    BY <1>2 DEF LevelReturns, Ends, LevelInv, Settled, CrawlNext, CrawlReturn, CrawlComplete
  <2> QED
    BY <1>2, <2>1 DEF LevelReturns, Ends, level_vars, LevelInv, Found, Settled, Broken, Links
<1>3. CASE LevelRaises
  <2>1. CrawlNext
    BY <1>3 DEF LevelRaises, Ends, LevelInv, CrawlNext, CrawlRaise
  <2> QED
    BY <1>3, <2>1 DEF LevelRaises, Ends, level_vars, LevelInv, Found, Settled, Broken, Links
<1>4. ASSUME NEW p \in Pages, BeginFetch(p) PROVE LevelInv' /\ CrawlNext
  <2>1. p \in seen /\ fetches[p] = 0 /\ outcome = "running"
    BY <1>4 DEF BeginFetch, LevelInv
  <2>2. /\ Found' /\ fetches'[p] = 1 /\ CrawlNext
        /\ \A q \in Pages \ {p} : fetches'[q] = fetches[q] /\ Settled(q)' = Settled(q)
    BY <1>4, <2>1, FetchedOnce DEF BeginFetch, LevelInv
  <2> QED
    BY <1>4, <2>1, <2>2, <1>0 DEF BeginFetch, LevelInv
<1>5. ASSUME NEW p \in Pages, EndFetch(p) PROVE LevelInv' /\ UNCHANGED crawl
  BY <1>5, <1>0, FoundStays DEF EndFetch, LevelInv, crawl
<1>6. ASSUME NEW p \in Pages, Fold(p) PROVE LevelInv' /\ CrawlNext
  <2>1. p \in seen /\ fetches[p] = 1 /\ ~Broken(p)
    BY <1>6 DEF Fold, LevelInv
  <2>2. Links(p) \subseteq Site /\ Site \subseteq Pages
    BY <2>1, LinksStayOnSite DEF LevelInv, Found
  <2>3. CrawlNext
    BY <1>6, <2>1 DEF Fold, CrawlNext, CrawlDiscover
  <2>4. Found'
    BY <1>6, <2>2 DEF Fold, LevelInv, Found
  <2>5. ASSUME NEW q \in folded' \union (seen' \ (wave' \union level')) PROVE Settled(q)'
    BY <1>6, <2>1, <2>2 DEF Fold, LevelInv, Found, Settled, Broken, Links
  <2> QED
    BY <1>6, <2>1, <2>2, <2>3, <2>4, <2>5 DEF Fold, LevelInv, Found
<1> QED BY <1>1, <1>2, <1>3, <1>4, <1>5, <1>6 DEF LevelNext, NextWave

-----------------------------------------------------------------------------
(* Tiers 3a and 3b. *)

\* Where the task of a page is says how far the page is.
GroupInv ==
    /\ Found
    /\ task \in [Pages -> {"none", "created", "fetching", "ended", "failed", "cancelled"}]
    /\ \A p \in Pages : task[p] = "none" <=> p \notin seen
    /\ \A p \in Pages : task[p] = "created" => fetches[p] = 0
    /\ \A p \in Pages : task[p] = "fetching" => fetches[p] = 1
    /\ \A p \in Pages : task[p] = "ended" => Settled(p)
    /\ \A p \in Pages : task[p] = "failed" => fetches[p] = 1 /\ Broken(p)
    /\ (\E p \in Pages : task[p] = "cancelled") => \E p \in Pages : task[p] = "failed"
    /\ outcome # "running" => \A p \in Pages : task[p] \notin {"created", "fetching"}

\* The invariant of tiers 3a and 3b holds initially.
LEMMA GroupInitInv == GroupInit => GroupInv
BY CrawlersConstants DEF WebConstants, GroupInit, CrawlInit, GroupInv, Found

\* Every step of tiers 3a and 3b keeps their invariant and is one of Crawl.
LEMMA GroupStepInv == ASSUME GroupInv, GroupNext PROVE GroupInv' /\ [CrawlNext]_crawl
<1>0. seen \subseteq Pages
  BY CrawlersConstants DEF GroupInv, Found, WebConstants
<1>1. CASE Abort
  <2>1. UNCHANGED crawl
    BY <1>1 DEF Abort
  <2> QED
    BY <1>0, <1>1, <2>1 DEF Abort, Tasks, GroupInv, Found, Settled, Broken, Links, crawl
<1>2. CASE Exit
  <2>1. outcome = "running" /\ UNCHANGED <<web, seen, fetches, task>>
    BY <1>2 DEF Exit, Ends
  <2>2. \A p \in Pages : task[p] \notin {"created", "fetching"}
    BY <1>2 DEF Exit, Tasks
  <2>3. CASE Tasks({"failed"}) = {}
    <3>1. \A p \in seen : task[p] = "ended"
      BY <1>0, <2>2, <2>3 DEF Tasks, GroupInv
    <3>2. CrawlNext
      BY <1>0, <1>2, <2>1, <2>3, <3>1
      DEF Exit, Ends, GroupInv, Settled, CrawlNext, CrawlReturn, CrawlComplete
    <3> QED
      BY <1>2, <2>1, <2>2, <2>3, <3>2 DEF Exit, Ends, GroupInv, Found, Settled, Broken, Links
  <2>4. CASE Tasks({"failed"}) # {}
    <3>1. PICK p \in Pages : task[p] = "failed"
      BY <2>4 DEF Tasks
    <3>2. p \in seen /\ fetches[p] = 1 /\ Broken(p)
      BY <3>1 DEF GroupInv
    <3>3. CrawlNext
      BY <1>2, <2>1, <2>4, <3>2 DEF Exit, Ends, CrawlNext, CrawlRaise
    <3> QED
      BY <1>2, <2>1, <2>2, <2>4, <3>3 DEF Exit, Ends, GroupInv, Found, Settled, Broken, Links
  <2> QED BY <2>3, <2>4
<1>3. ASSUME NEW p \in Pages, Await(p) PROVE GroupInv' /\ CrawlNext
  <2>1. p \in seen /\ fetches[p] = 0 /\ outcome = "running"
    BY <1>3 DEF Await, GroupInv, Found
  <2>2. /\ Found' /\ fetches'[p] = 1 /\ CrawlNext
        /\ \A q \in Pages \ {p} : fetches'[q] = fetches[q] /\ Settled(q)' = Settled(q)
    BY <1>3, <2>1, FetchedOnce DEF Await, GroupInv
  <2>3. \A q \in Pages \ {p} : task'[q] = task[q]
    BY <1>3 DEF Await, GroupInv
  <2>4. task' \in [Pages -> {"none", "created", "fetching", "ended", "failed", "cancelled"}]
        /\ task'[p] = "fetching" /\ task[p] = "created"
    BY <1>3 DEF Await, GroupInv
  <2>5. UNCHANGED <<web, seen, outcome>> /\ \A q \in Pages : Broken(q)' = Broken(q)
    BY <1>3 DEF Await, Broken
  <2> QED
    BY <2>1, <2>2, <2>3, <2>4, <2>5, <1>0 DEF GroupInv
<1>4. ASSUME NEW p \in Pages, Resume(p) PROVE GroupInv' /\ CrawlNext
  <2>1. p \in seen /\ fetches[p] = 1 /\ ~Broken(p) /\ outcome = "running"
    BY <1>4 DEF Resume, GroupInv, Found
  <2>2. Links(p) \subseteq Site /\ Site \subseteq Pages
    BY <2>1, LinksStayOnSite DEF GroupInv, Found
  <2>3. CrawlNext
    BY <1>4, <2>1 DEF Resume, CrawlNext, CrawlDiscover
  <2>4. Found'
    BY <1>4, <2>2 DEF Resume, GroupInv, Found
  <2>5. Settled(p)' /\ \A q \in Pages : Settled(q) => Settled(q)'
    BY <1>4, <2>1 DEF Resume, Settled, Broken, Links
  <2> QED
    BY <1>4, <2>1, <2>2, <2>3, <2>4, <2>5 DEF Resume, GroupInv, Found, Broken
<1>5. ASSUME NEW p \in Pages, ParserRaises(p) PROVE GroupInv' /\ UNCHANGED crawl
  <2>1. UNCHANGED crawl
    BY <1>5 DEF ParserRaises
  <2> QED
    BY <1>0, <1>5, <2>1 DEF ParserRaises, GroupInv, Found, Settled, Broken, Links, crawl
<1> QED BY <1>1, <1>2, <1>3, <1>4, <1>5 DEF GroupNext, Abort

-----------------------------------------------------------------------------
(* Tier 2. *)

PoolStages == {"none", "submitted", "running", "ended", "died"}

\* the tasks that pending counts
Counted(t) == {p \in Pages : t[p] \in {"submitted", "running", "died"}}

\* pending is exact and finished not set too early.
PoolCount ==
    /\ pool_task \in [Pages -> PoolStages]
    /\ pending = Cardinality(Counted(pool_task))
    /\ finished => Counted(pool_task) = {}

\* Where the task of a page is says how far the page is; what it has still to
\* look at is all that may be missing.
PoolInv ==
    /\ Found /\ PoolCount
    /\ pool_todo \in [Pages -> SUBSET Pages]
    /\ \A p \in Pages : pool_task[p] = "none" <=> p \notin seen
    /\ \A p \in Pages : pool_task[p] = "submitted" => fetches[p] = 0
    /\ \A p \in Pages : pool_task[p] = "running" =>
        /\ fetches[p] = 1 /\ ~Broken(p)
        /\ pool_todo[p] \subseteq Links(p) /\ Links(p) \subseteq seen \union pool_todo[p]
    /\ \A p \in Pages : pool_task[p] = "ended" => Settled(p)
    /\ outcome # "running" => finished

\* A task that is submitted or ends changes the number of tasks by one.
LEMMA CountedTasks ==
    ASSUME NEW S \in SUBSET Pages
    PROVE  /\ IsFiniteSet(S) /\ Cardinality(S) \in Nat
           /\ Cardinality(S) = 0 <=> S = {}
           /\ \A p \in Pages \ S : Cardinality(S \union {p}) = Cardinality(S) + 1
           /\ \A p \in S : Cardinality(S \ {p}) = Cardinality(S) - 1
<1>1. IsFiniteSet(S)
  BY CrawlersConstants, FS_Subset DEF WebConstants
<1>2. Cardinality(S) \in Nat /\ (Cardinality(S) = 0 <=> S = {})
  BY <1>1, FS_CardinalityType, FS_EmptySet
<1> QED BY <1>1, <1>2, FS_AddElement, FS_RemoveElement

\* The invariant of tier 2 holds initially.
LEMMA PoolInitInv == Pool!Init => PoolInv
<1> SUFFICES ASSUME Pool!Init PROVE PoolInv
  OBVIOUS
<1>1. Start \in Site /\ Site \subseteq Pages
  BY CrawlersConstants DEF WebConstants
<1>2. Counted(pool_task) = {Start}
  BY <1>1 DEF Pool!Init, Counted
<1>3. Cardinality({Start}) = 1
  BY FS_Singleton
<1> QED BY <1>1, <1>2, <1>3
        DEF Pool!Init, Pool!CrawlInit, PoolInv, PoolCount, PoolStages, Found

\* Every step of tier 2 keeps its invariant and is one of Crawl.
LEMMA PoolStepInv == ASSUME PoolInv, Pool!Next PROVE PoolInv' /\ [CrawlNext]_crawl
<1>0. seen \subseteq Pages /\ Counted(pool_task) \in SUBSET Pages
  BY CrawlersConstants DEF PoolInv, Found, WebConstants, Counted
<1>1. CASE Pool!Return
  <2>1. \A p \in seen : pool_task[p] = "ended"
    BY <1>0, <1>1 DEF Pool!Return, PoolInv, PoolCount, PoolStages, Counted
  <2>2. CrawlNext
    BY <1>0, <1>1, <2>1
    DEF Pool!Return, PoolInv, Settled, CrawlNext, CrawlReturn, CrawlComplete
  <2> QED
    BY <1>1, <2>2 DEF Pool!Return, PoolInv, PoolCount, Found, Settled, Broken, Links
<1>2. ASSUME NEW p \in Pages, Pool!Run(p) PROVE PoolInv' /\ CrawlNext
  <2>1. p \in seen /\ fetches[p] = 0 /\ outcome = "running"
    BY <1>2 DEF Pool!Run, PoolInv, PoolCount, Counted
  <2>2. /\ Found' /\ fetches'[p] = 1 /\ CrawlNext
        /\ \A q \in Pages \ {p} : fetches'[q] = fetches[q] /\ Settled(q)' = Settled(q)
    BY <1>2, <2>1, FetchedOnce DEF Pool!Run, Pool!Fetched, Fetched, PoolInv
  <2>3. /\ \A q \in Pages \ {p} : pool_task'[q] = pool_task[q] /\ pool_todo'[q] = pool_todo[q]
        /\ pool_task'[p] = IF Broken(p) THEN "died" ELSE "running"
        /\ pool_todo'[p] = IF Broken(p) THEN {} ELSE Links(p)
        /\ pool_task' \in [Pages -> PoolStages]
    BY <1>2
    DEF Pool!Run, PoolInv, PoolCount, PoolStages, Pool!Broken, Broken, Pool!Links, Links
  <2>4. Links(p) \subseteq Pages
    BY LinksStayOnSite DEF PoolInv, Found
  <2>5. pool_todo' \in [Pages -> SUBSET Pages]
    BY <1>2, <2>4
    DEF Pool!Run, PoolInv, Pool!Broken, Broken, Pool!Links, Links
  <2>6. UNCHANGED <<web, seen, outcome, pending, finished>> /\ pool_task[p] = "submitted"
    BY <1>2 DEF Pool!Run
  <2>7. \A q \in Pages : Broken(q)' = Broken(q) /\ Links(q)' = Links(q)
    BY <2>6 DEF Broken, Links
  <2>8. Counted(pool_task') = Counted(pool_task)
    BY <2>3, <2>6 DEF Counted
  <2>9. PoolCount'
    BY <2>3, <2>6, <2>8 DEF PoolInv, PoolCount
  <2> QED
    BY <2>1, <2>2, <2>3, <2>5, <2>6, <2>7, <2>9 DEF PoolInv
<1>3. ASSUME NEW p \in Pages, NEW link \in Pages, Pool!Follow(p, link)
      PROVE  PoolInv' /\ [CrawlNext]_crawl
  <2>1. /\ p \in seen /\ fetches[p] = 1 /\ ~Broken(p) /\ link \in Links(p)
        /\ outcome = "running" /\ ~finished
    BY <1>3 DEF Pool!Follow, PoolInv, PoolCount, Counted, Found
  <2>2. Links(p) \subseteq Site /\ Site \subseteq Pages
    BY LinksStayOnSite DEF PoolInv, Found
  <2>3. /\ pool_todo' \in [Pages -> SUBSET Pages] /\ pool_todo'[p] = pool_todo[p] \ {link}
        /\ \A q \in Pages \ {p} : pool_todo'[q] = pool_todo[q]
    BY <1>3 DEF Pool!Follow, PoolInv
  <2>4. CASE link \in seen
    <3>1. UNCHANGED crawl /\ UNCHANGED <<pool_task, pending, finished>>
      BY <1>3, <2>4 DEF Pool!Follow, crawl
    <3> QED
      BY <2>1, <2>3, <2>4, <3>1 DEF PoolInv, PoolCount, Found, Settled, Broken, Links, crawl
  <2>5. CASE link \notin seen
    <3>1. /\ seen' = seen \union {link} /\ pending' = pending + 1
          /\ pool_task' = [pool_task EXCEPT ![link] = "submitted"]
          /\ UNCHANGED <<web, fetches, outcome, finished>>
      BY <1>3, <2>5 DEF Pool!Follow
    <3>2. CrawlNext
      BY <2>1, <3>1 DEF CrawlNext, CrawlDiscover
    <3>3. Found'
      BY <2>1, <2>2, <3>1 DEF PoolInv, Found
    <3>4. Counted(pool_task') = Counted(pool_task) \union {link} /\ link \notin Counted(pool_task)
      BY <2>5, <3>1 DEF Counted, PoolInv, PoolCount
    <3>5. PoolCount'
      <4>1. Cardinality(Counted(pool_task) \union {link}) = Cardinality(Counted(pool_task)) + 1
        BY <1>0, <3>4, CountedTasks
      <4>2. pool_task' \in [Pages -> PoolStages]
        BY <3>1 DEF PoolInv, PoolCount, PoolStages
      <4> QED BY <2>1, <3>1, <3>4, <4>1, <4>2 DEF PoolInv, PoolCount
    <3>6. \A q \in Pages : Settled(q) => Settled(q)'
      BY <3>1 DEF Settled, Broken, Links
    <3>7. /\ \A q \in Pages \ {link} : pool_task'[q] = pool_task[q]
          /\ pool_task'[link] = "submitted" /\ fetches'[link] = 0
      BY <2>5, <3>1 DEF PoolInv, PoolCount, Found
    <3>8. \A q \in Pages : Broken(q)' = Broken(q) /\ Links(q)' = Links(q)
      BY <3>1 DEF Broken, Links
    <3> QED
      BY <2>1, <2>3, <3>1, <3>2, <3>3, <3>5, <3>6, <3>7, <3>8 DEF PoolInv
  <2> QED BY <2>4, <2>5
<1>4. ASSUME NEW p \in Pages, Pool!End(p) PROVE PoolInv' /\ UNCHANGED crawl
  <2>1. UNCHANGED crawl /\ UNCHANGED pool_todo
    BY <1>4 DEF Pool!End, crawl
  <2>2. Settled(p) /\ p \in seen
    BY <1>4 DEF Pool!End, PoolInv, Settled
  <2>3. /\ pool_task' \in [Pages -> PoolStages] /\ pool_task'[p] = "ended"
        /\ \A q \in Pages \ {p} : pool_task'[q] = pool_task[q]
    BY <1>4 DEF Pool!End, PoolInv, PoolCount, PoolStages
  <2>4. Counted(pool_task') = Counted(pool_task) \ {p} /\ p \in Counted(pool_task)
    BY <1>4, <2>3 DEF Pool!End, Counted
  <2>5. Counted(pool_task') \in SUBSET Pages
    BY DEF Counted
  <2>6. pending' = Cardinality(Counted(pool_task'))
    <3>1. Cardinality(Counted(pool_task) \ {p}) = Cardinality(Counted(pool_task)) - 1
      BY <1>0, <2>4, CountedTasks
    <3> QED BY <1>4, <2>4, <3>1 DEF Pool!End, PoolInv, PoolCount
  <2>7. finished' => Counted(pool_task') = {}
    BY <1>4, <2>4, <2>5, <2>6, CountedTasks DEF Pool!End, PoolInv, PoolCount
  <2>8. outcome' # "running" => finished'
    BY <1>4, <2>1 DEF Pool!End, PoolInv, crawl
  <2> QED
    BY <2>1, <2>2, <2>3, <2>6, <2>7, <2>8
    DEF PoolInv, PoolCount, Found, Settled, Broken, Links, crawl
<1> QED BY <1>1, <1>2, <1>3, <1>4 DEF Pool!Next, Pool!Visit

-----------------------------------------------------------------------------
(* Tier 4. *)

WorkerStages == {"get", "look", "put", "gone", "died"}

\* the workers with a page in hand, or that died with one
Busy(stage) == {w \in Workers : stage[w] \in {"look", "put", "died"}}

QueueCount ==
    /\ at \in [Workers -> WorkerStages]
    /\ queue \in Seq(Pages \union {None})
    /\ unfinished = Len(queue) + Cardinality(Busy(at))

\* what may be where
QueueShape ==
    /\ QueueCount
    /\ todo \in [Workers -> SUBSET Pages] /\ found \in [Workers -> SUBSET seen]
    /\ \A i \in 1 .. Len(queue) : joining <=> queue[i] # None
    /\ \A i \in 1 .. Len(queue) : queue[i] # None => queue[i] \in seen
    /\ \A w \in Workers : joining => at[w] # "gone"
    /\ \A w \in Workers : ~joining => at[w] \in {"get", "gone"}
    /\ \A w \in Workers : found[w] # {} => at[w] = "put"
    /\ \A w \in Workers : todo[w] # {} => at[w] \in {"look", "put"}

\* the found pages that are not fetched are each in one place, on the queue or
\* in the hand of a worker that will put it there
QueuePages ==
    /\ \A i, j \in 1 .. Len(queue) : i # j /\ queue[i] # None => queue[i] # queue[j]
    /\ \A i \in 1 .. Len(queue), w \in Workers : queue[i] \notin found[w]
    /\ \A w, x \in Workers : w # x => found[w] \intersect found[x] = {}
    /\ \A w \in Workers : \A p, q \in found[w] : p = q
    /\ \A i \in 1 .. Len(queue) : queue[i] # None => fetches[queue[i]] = 0
    /\ \A w \in Workers : \A p \in found[w] : fetches[p] = 0
    /\ \A p \in seen : fetches[p] = 0 =>
        (\E i \in 1 .. Len(queue) : queue[i] = p) \/ \E w \in Workers : p \in found[w]

\* the links of a fetched page are found, or a worker has still to look at
\* them, and a page that raised has killed a worker
QueueLinks ==
    /\ \A w \in Workers : todo[w] # {} =>
        \E p \in Pages : fetches[p] = 1 /\ ~Broken(p) /\ todo[w] \subseteq Links(p)
    /\ \A p \in Pages : fetches[p] = 1 /\ ~Broken(p) =>
        \A link \in Links(p) \ seen : \E w \in Workers : link \in todo[w]
    /\ \A p \in Pages : fetches[p] = 1 /\ Broken(p) => \E w \in Workers : at[w] = "died"

QueueInv ==
    /\ Found /\ QueueShape /\ QueuePages /\ QueueLinks
    /\ outcome # "running" => ~joining

\* A worker that takes a page, or is done with it, changes their number by one.
LEMMA BusyWorkers ==
    ASSUME NEW S \in SUBSET Workers
    PROVE  /\ IsFiniteSet(S) /\ Cardinality(S) \in Nat
           /\ Cardinality(S) = 0 <=> S = {}
           /\ \A w \in Workers \ S : Cardinality(S \union {w}) = Cardinality(S) + 1
           /\ \A w \in S : Cardinality(S \ {w}) = Cardinality(S) - 1
<1>1. IsFiniteSet(S)
  BY CrawlersConstants, SameCounts, FS_Subset DEF Finder!FinderConstants
<1>2. Cardinality(S) \in Nat /\ (Cardinality(S) = 0 <=> S = {})
  BY <1>1, FS_CardinalityType, FS_EmptySet
<1> QED BY <1>1, <1>2, FS_AddElement, FS_RemoveElement

\* What is left of a queue when its first element is taken.
LEMMA TailOfQueue ==
    ASSUME NEW S, NEW s \in Seq(S), s # <<>>
    PROVE  /\ Tail(s) \in Seq(S) /\ Len(Tail(s)) = Len(s) - 1 /\ Len(s) \in Nat \ {0}
           /\ Head(s) = s[1] /\ s[1] \in S
           /\ \A i \in 1 .. Len(s) - 1 : Tail(s)[i] = s[i + 1] /\ i + 1 \in 1 .. Len(s)
           /\ \A i \in 2 .. Len(s) : s[i] = Tail(s)[i - 1] /\ i - 1 \in 1 .. Len(s) - 1
OBVIOUS

\* What is on a queue when an element is put.
LEMMA PutOnQueue ==
    ASSUME NEW S, NEW s \in Seq(S), NEW x \in S
    PROVE  /\ Append(s, x) \in Seq(S) /\ Len(Append(s, x)) = Len(s) + 1 /\ Len(s) \in Nat
           /\ Append(s, x)[Len(s) + 1] = x
           /\ \A i \in 1 .. Len(s) : Append(s, x)[i] = s[i]
OBVIOUS

\* The invariant of tier 4 holds initially.
LEMMA QueueInitInv == Queued!Init => QueueInv
<1> SUFFICES ASSUME Queued!Init PROVE QueueInv
  OBVIOUS
<1>1. Start \in Site /\ Site \subseteq Pages
  BY CrawlersConstants DEF WebConstants
<1>2. Busy(at) = {} /\ Busy(at) \in SUBSET Workers
  BY DEF Queued!Init, Busy
<1>3. Cardinality(Busy(at)) = 0
  BY <1>2, BusyWorkers
<1>4. QueueCount /\ Len(queue) = 1 /\ queue[1] = Start
  BY <1>1, <1>3 DEF Queued!Init, QueueCount, WorkerStages
<1>5. Found
  BY <1>1 DEF Queued!Init, Queued!CrawlInit, Found
<1>6. QueueShape
  BY <1>1, <1>4, CrawlersConstants DEF Queued!Init, Queued!CrawlInit, QueueShape
<1>7. QueuePages
  BY <1>1, <1>4 DEF Queued!Init, Queued!CrawlInit, QueuePages
<1>8. QueueLinks
  BY <1>1 DEF Queued!Init, Queued!CrawlInit, QueueLinks
<1> QED BY <1>5, <1>6, <1>7, <1>8 DEF QueueInv, Queued!Init, Queued!CrawlInit

\* A worker takes a page: tier 4 goes on.
LEMMA GetInv == ASSUME QueueInv, NEW w \in Workers, Queued!Get(w) PROVE QueueInv' /\ CrawlNext
<1> DEFINE url == Head(queue)
<1>1. /\ queue # <<>> /\ queue' = Tail(queue) /\ url # None /\ at[w] = "get"
      /\ at' = [at EXCEPT ![w] = IF Broken(url) THEN "died" ELSE "look"]
      /\ todo' = [todo EXCEPT ![w] = IF Broken(url) THEN {} ELSE Links(url)]
      /\ UNCHANGED <<web, seen, outcome, unfinished, found, joining>>
  BY DEF Queued!Get, Queued!Goto, Queued!Broken, Broken, Queued!Links, Links
<1>2. /\ Tail(queue) \in Seq(Pages \union {None}) /\ Len(Tail(queue)) = Len(queue) - 1
      /\ url = queue[1] /\ Len(queue) \in Nat \ {0}
      /\ \A i \in 1 .. Len(queue) - 1 : Tail(queue)[i] = queue[i + 1] /\ i + 1 \in 1 .. Len(queue)
      /\ \A i \in 2 .. Len(queue) : queue[i] = Tail(queue)[i - 1] /\ i - 1 \in 1 .. Len(queue) - 1
  BY <1>1, TailOfQueue DEF QueueInv, QueueShape, QueueCount
<1>3. url \in seen /\ fetches[url] = 0 /\ joining /\ outcome = "running"
  BY <1>1, <1>2 DEF QueueInv, QueueShape, QueuePages, Found
<1>4. /\ Found' /\ url \in Pages /\ fetches'[url] = 1 /\ CrawlNext
      /\ \A q \in Pages \ {url} : fetches'[q] = fetches[q]
  BY <1>1, <1>3, FetchedOnce DEF Queued!Get, Queued!Fetched, Fetched, QueueInv
<1>5. Links(url) \subseteq Pages /\ seen \subseteq Pages
  BY <1>3, <1>4, LinksStayOnSite, CrawlersConstants DEF QueueInv, Found, WebConstants
<1>6. /\ at' \in [Workers -> WorkerStages] /\ todo' \in [Workers -> SUBSET Pages]
      /\ at'[w] = IF Broken(url) THEN "died" ELSE "look"
      /\ todo'[w] = IF Broken(url) THEN {} ELSE Links(url)
      /\ \A x \in Workers \ {w} : at'[x] = at[x] /\ todo'[x] = todo[x]
  BY <1>1, <1>5 DEF QueueInv, QueueShape, QueueCount, WorkerStages
<1>7. \A q \in Pages : Broken(q)' = Broken(q) /\ Links(q)' = Links(q)
  BY <1>1 DEF Broken, Links
<1> HIDE DEF url
<1>8. QueueCount'
  <2>1. Busy(at') = Busy(at) \union {w} /\ w \notin Busy(at) /\ Busy(at) \in SUBSET Workers
    BY <1>1, <1>6 DEF Busy
  <2>2. Cardinality(Busy(at')) = Cardinality(Busy(at)) + 1 /\ Cardinality(Busy(at)) \in Nat
    BY <2>1, BusyWorkers
  <2>3. QueueCount /\ Len(queue') = Len(queue) - 1 /\ queue' \in Seq(Pages \union {None})
    BY <1>1, <1>2 DEF QueueInv, QueueShape
  <2> QED BY <1>1, <1>2, <1>6, <2>2, <2>3 DEF QueueCount
<1>9. QueueShape'
  BY <1>1, <1>2, <1>3, <1>6, <1>8 DEF QueueInv, QueueShape
<1>10. QueuePages'
  <2>1. /\ \A i \in 1 .. Len(queue') : queue'[i] = queue[i + 1] /\ i + 1 \in 2 .. Len(queue)
        /\ \A i \in 2 .. Len(queue) : queue[i] = queue'[i - 1] /\ i - 1 \in 1 .. Len(queue')
        /\ \A i \in 2 .. Len(queue) : queue[i] # url /\ queue[i] \in seen \union {None}
    BY <1>1, <1>2 DEF QueueInv, QueueShape, QueuePages
  <2>2. \A x \in Workers : url \notin found[x] /\ found[x] \subseteq seen
    BY <1>2 DEF QueueInv, QueueShape, QueuePages
  <2>3. \A i, j \in 1 .. Len(queue') : i # j /\ queue'[i] # None => queue'[i] # queue'[j]
    BY <1>2, <2>1 DEF QueueInv, QueuePages
  <2>4. \A i \in 1 .. Len(queue') : queue'[i] # None => fetches'[queue'[i]] = 0
    BY <1>2, <1>4, <1>5, <2>1 DEF QueueInv, QueuePages
  <2>5. \A p \in seen : fetches'[p] = 0 =>
        (\E i \in 1 .. Len(queue') : queue'[i] = p) \/ \E x \in Workers : p \in found[x]
    BY SMTT(30), <1>2, <1>4, <1>5, <2>1 DEF QueueInv, QueuePages
  <2> QED BY <1>1, <1>2, <1>4, <1>5, <2>1, <2>2, <2>3, <2>4, <2>5 DEF QueueInv, QueuePages
<1>11. QueueLinks'
  BY SMTT(30), <1>1, <1>3, <1>4, <1>5, <1>6, <1>7 DEF QueueInv, QueueShape, QueueLinks
<1> QED BY <1>1, <1>3, <1>4, <1>9, <1>10, <1>11 DEF QueueInv

\* A worker takes a None and goes.
LEMMA GetSentinelInv ==
    ASSUME QueueInv, NEW w \in Workers, Queued!GetSentinel(w) PROVE QueueInv' /\ UNCHANGED crawl
<1>1. /\ queue # <<>> /\ queue' = Tail(queue) /\ Head(queue) = None /\ at[w] = "get"
      /\ at' = [at EXCEPT ![w] = "gone"] /\ unfinished' = unfinished - 1
      /\ UNCHANGED <<web, seen, fetches, outcome, todo, found, joining>> /\ UNCHANGED crawl
  BY DEF Queued!GetSentinel, Queued!Goto, Queued!crawl, crawl
<1>2. /\ Tail(queue) \in Seq(Pages \union {None}) /\ Len(Tail(queue)) = Len(queue) - 1
      /\ Head(queue) = queue[1] /\ Len(queue) \in Nat \ {0}
      /\ \A i \in 1 .. Len(queue) - 1 : Tail(queue)[i] = queue[i + 1] /\ i + 1 \in 1 .. Len(queue)
      /\ \A i \in 2 .. Len(queue) : queue[i] = Tail(queue)[i - 1] /\ i - 1 \in 1 .. Len(queue) - 1
  BY <1>1, TailOfQueue DEF QueueInv, QueueShape, QueueCount
<1>3. ~joining /\ \A i \in 1 .. Len(queue) : queue[i] = None
  BY <1>1, <1>2 DEF QueueInv, QueueShape
<1>4. at' \in [Workers -> WorkerStages] /\ at'[w] = "gone" /\ \A x \in Workers \ {w} : at'[x] = at[x]
  BY <1>1 DEF QueueInv, QueueShape, QueueCount, WorkerStages
<1>5. QueueCount'
  <2>1. Busy(at') = Busy(at) /\ Busy(at) \in SUBSET Workers
    BY <1>1, <1>4 DEF Busy
  <2>2. Cardinality(Busy(at)) \in Nat
    BY <2>1, BusyWorkers
  <2> QED BY <1>1, <1>2, <1>4, <2>1, <2>2 DEF QueueInv, QueueShape, QueueCount
<1>6. QueueShape'
  BY <1>1, <1>2, <1>3, <1>4, <1>5 DEF QueueInv, QueueShape
<1>7. QueuePages'
  <2>1. \A i \in 1 .. Len(queue') : queue'[i] = None
    BY <1>1, <1>2, <1>3
  <2>2. None \notin seen
    BY CrawlersConstants DEF QueueInv, Found, WebConstants
  <2>3. \A p \in seen : fetches[p] = 0 => \E x \in Workers : p \in found[x]
    BY <1>3, <2>2 DEF QueueInv, QueuePages
  <2> QED BY <1>1, <2>1, <2>2, <2>3 DEF QueueInv, QueueShape, QueuePages
<1>8. QueueLinks'
  BY <1>1, <1>4 DEF QueueInv, QueueLinks, Broken, Links
<1> QED BY <1>1, <1>6, <1>7, <1>8, FoundStays DEF QueueInv

\* A worker looks at a link, and marks it if it is new.
LEMMA LookInv ==
    ASSUME QueueInv, NEW w \in Workers, NEW link \in Pages, Queued!Look(w, link)
    PROVE  QueueInv' /\ [CrawlNext]_crawl
<1>1. /\ at[w] = "look" /\ link \in todo[w] /\ joining /\ outcome = "running"
      /\ todo' = [todo EXCEPT ![w] = @ \ {link}]
      /\ UNCHANGED <<web, fetches, outcome, queue, unfinished, joining>>
  BY DEF Queued!Look, Queued!Goto, QueueInv, QueueShape, Found
<1>2. PICK p \in Pages : fetches[p] = 1 /\ ~Broken(p) /\ todo[w] \subseteq Links(p)
  BY <1>1 DEF QueueInv, QueueLinks
<1>3. Links(p) \subseteq Site /\ Site \subseteq Pages
  BY LinksStayOnSite DEF QueueInv, Found
<1>4. /\ todo' \in [Workers -> SUBSET Pages] /\ todo'[w] = todo[w] \ {link}
      /\ \A x \in Workers \ {w} : todo'[x] = todo[x]
  BY <1>1 DEF QueueInv, QueueShape
<1>5. \A q \in Pages : Broken(q)' = Broken(q) /\ Links(q)' = Links(q)
  BY <1>1 DEF Broken, Links
<1>6. CASE link \in seen
  <2>1. seen' = seen /\ found' = found /\ at' = at
    BY <1>6 DEF Queued!Look, Queued!Goto, QueueInv, QueueShape, QueueCount
  <2>2. QueueLinks'
    BY <1>1, <1>4, <1>5, <1>6, <2>1 DEF QueueInv, QueueLinks
  <2>3. QueueShape' /\ QueuePages'
    BY <1>1, <1>4, <2>1 DEF QueueInv, QueueShape, QueueCount, QueuePages
  <2> QED
    BY <1>1, <2>1, <2>2, <2>3, FoundStays DEF QueueInv, crawl
<1>7. CASE link \notin seen
  <2>1. /\ seen' = seen \union {link} /\ at' = [at EXCEPT ![w] = "put"]
        /\ found' = [found EXCEPT ![w] = {link}]
    BY <1>7 DEF Queued!Look, Queued!Goto
  <2>2. CrawlNext
    BY <1>1, <1>2, <2>1 DEF CrawlNext, CrawlDiscover
  <2>3. Found'
    BY <1>1, <1>2, <1>3, <2>1 DEF QueueInv, Found
  <2>4. /\ at' \in [Workers -> WorkerStages] /\ at'[w] = "put" /\ found'[w] = {link}
        /\ found' \in [Workers -> SUBSET seen']
        /\ \A x \in Workers \ {w} : at'[x] = at[x] /\ found'[x] = found[x]
    BY <2>1 DEF QueueInv, QueueShape, QueueCount, WorkerStages
  <2>5. Busy(at') = Busy(at)
    BY <1>1, <2>4 DEF Busy
  <2>6. fetches[link] = 0 /\ link # None
    BY <1>7, CrawlersConstants DEF QueueInv, Found
  <2>7. /\ \A i \in 1 .. Len(queue) : queue[i] # link
        /\ \A x \in Workers : link \notin found[x] /\ found[w] = {}
    BY <1>1, <1>7, <2>6 DEF QueueInv, QueueShape
  <2>8. QueueShape'
    BY <1>1, <1>4, <2>1, <2>4, <2>5 DEF QueueInv, QueueShape, QueueCount
  <2>9. QueuePages'
    <3>1. \A x, y \in Workers : x # y => found'[x] \intersect found'[y] = {}
      BY <2>4, <2>7 DEF QueueInv, QueuePages
    <3>2. \A q \in seen' : fetches'[q] = 0 =>
              (\E i \in 1 .. Len(queue') : queue'[i] = q) \/ \E x \in Workers : q \in found'[x]
      BY <1>1, <2>1, <2>4, <2>7 DEF QueueInv, QueuePages
    <3> QED BY <1>1, <2>1, <2>4, <2>6, <2>7, <3>1, <3>2 DEF QueueInv, QueuePages
  <2>10. QueueLinks'
    BY <1>1, <1>4, <1>5, <2>1, <2>4 DEF QueueInv, QueueLinks
  <2> QED
    BY <1>1, <2>2, <2>3, <2>8, <2>9, <2>10 DEF QueueInv
<1> QED BY <1>6, <1>7

\* A worker puts the page it has found.
LEMMA PutInv ==
    ASSUME QueueInv, NEW w \in Workers, Queued!Put(w) PROVE QueueInv' /\ UNCHANGED crawl
<1>1. PICK link \in found[w] :
        /\ queue' = Append(queue, link) /\ at[w] = "put"
        /\ at' = [at EXCEPT ![w] = "look"] /\ unfinished' = unfinished + 1
        /\ found' = [found EXCEPT ![w] = {}]
        /\ UNCHANGED <<web, seen, fetches, outcome, todo, joining>> /\ UNCHANGED crawl
  BY DEF Queued!Put, Queued!Goto, Queued!crawl, crawl
<1>2. /\ link \in seen /\ link \in Pages /\ fetches[link] = 0 /\ joining /\ link # None
      /\ found[w] = {link}
  BY <1>1, CrawlersConstants
  DEF QueueInv, QueueShape, QueuePages, Found, WebConstants
<1>3. /\ queue' \in Seq(Pages \union {None}) /\ Len(queue') = Len(queue) + 1 /\ Len(queue) \in Nat
      /\ queue'[Len(queue) + 1] = link
      /\ \A i \in 1 .. Len(queue) : queue'[i] = queue[i]
  BY <1>1, <1>2, PutOnQueue DEF QueueInv, QueueShape, QueueCount
<1>4. /\ at' \in [Workers -> WorkerStages] /\ at'[w] = "look" /\ found'[w] = {}
      /\ found' \in [Workers -> SUBSET seen]
      /\ \A x \in Workers \ {w} : at'[x] = at[x] /\ found'[x] = found[x]
  BY <1>1 DEF QueueInv, QueueShape, QueueCount, WorkerStages
<1>5. QueueCount'
  <2>1. Busy(at') = Busy(at) /\ Busy(at) \in SUBSET Workers
    BY <1>1, <1>4 DEF Busy
  <2>2. Cardinality(Busy(at)) \in Nat
    BY <2>1, BusyWorkers
  <2>3. QueueCount
    BY DEF QueueInv, QueueShape
  <2> QED BY <1>1, <1>3, <1>4, <2>1, <2>2, <2>3 DEF QueueCount
<1>6. QueueShape'
  BY <1>1, <1>2, <1>3, <1>4, <1>5 DEF QueueInv, QueueShape
<1>7. QueuePages'
  <2>1. /\ \A i \in 1 .. Len(queue) : queue[i] # link
        /\ \A x \in Workers \ {w} : link \notin found[x]
    BY <1>2 DEF QueueInv, QueuePages
  <2>2. \A i, j \in 1 .. Len(queue') : i # j /\ queue'[i] # None => queue'[i] # queue'[j]
    BY <1>3, <2>1 DEF QueueInv, QueuePages
  <2>3. \A i \in 1 .. Len(queue'), x \in Workers : queue'[i] \notin found'[x]
    BY <1>3, <1>4, <2>1 DEF QueueInv, QueuePages
  <2>4. \A p \in seen : fetches[p] = 0 =>
            (\E i \in 1 .. Len(queue') : queue'[i] = p) \/ \E x \in Workers : p \in found'[x]
    <3>1. Len(queue) + 1 \in 1 .. Len(queue') /\ 1 .. Len(queue) \subseteq 1 .. Len(queue')
      BY <1>3
    <3> QED BY <1>2, <1>3, <1>4, <3>1 DEF QueueInv, QueuePages
  <2>5. \A x, y \in Workers : x # y => found'[x] \intersect found'[y] = {}
    BY <1>4 DEF QueueInv, QueuePages
  <2>6. \A i \in 1 .. Len(queue') : queue'[i] # None => fetches[queue'[i]] = 0
    BY <1>2, <1>3 DEF QueueInv, QueuePages
  <2> QED BY <1>1, <1>4, <2>2, <2>3, <2>4, <2>5, <2>6 DEF QueueInv, QueuePages
<1>8. QueueLinks'
  BY <1>1, <1>4 DEF QueueInv, QueueLinks, Broken, Links
<1> QED BY <1>1, <1>6, <1>7, <1>8, FoundStays DEF QueueInv

\* A worker is done with its page.
LEMMA DoneInv ==
    ASSUME QueueInv, NEW w \in Workers, Queued!Done(w) PROVE QueueInv' /\ UNCHANGED crawl
<1>1. /\ todo[w] = {} /\ at[w] = "look" /\ at' = [at EXCEPT ![w] = "get"]
      /\ unfinished' = unfinished - 1
      /\ UNCHANGED <<web, seen, fetches, outcome, queue, todo, found, joining>> /\ UNCHANGED crawl
  BY DEF Queued!Done, Queued!Goto, Queued!crawl, crawl
<1>2. at' \in [Workers -> WorkerStages] /\ at'[w] = "get" /\ \A x \in Workers \ {w} : at'[x] = at[x]
  BY <1>1 DEF QueueInv, QueueShape, QueueCount, WorkerStages
<1>3. QueueCount'
  <2>1. Busy(at') = Busy(at) \ {w} /\ w \in Busy(at) /\ Busy(at) \in SUBSET Workers
    BY <1>1, <1>2 DEF Busy
  <2>2. Cardinality(Busy(at')) = Cardinality(Busy(at)) - 1 /\ Cardinality(Busy(at)) \in Nat
    BY <2>1, BusyWorkers
  <2>3. QueueCount
    BY DEF QueueInv, QueueShape
  <2> QED BY <1>1, <1>2, <2>2, <2>3 DEF QueueCount
<1>4. QueueShape'
  BY <1>1, <1>2, <1>3 DEF QueueInv, QueueShape
<1>5. QueuePages' /\ QueueLinks'
  BY <1>1, <1>2 DEF QueueInv, QueuePages, QueueLinks, Broken, Links
<1> QED BY <1>1, <1>4, <1>5, FoundStays DEF QueueInv

\* When nothing is unfinished, the queue is empty, nobody has a page in hand
\* and nobody has died, so all pages that were found are settled.
LEMMA NothingUnfinished ==
    ASSUME QueueInv, unfinished = 0
    PROVE  /\ Len(queue) = 0 /\ \A w \in Workers : at[w] \notin {"look", "put", "died"}
           /\ CrawlComplete
<1>1. Busy(at) \in SUBSET Workers
  BY DEF Busy
<1>2. Cardinality(Busy(at)) \in Nat /\ (Cardinality(Busy(at)) = 0 <=> Busy(at) = {})
  BY <1>1, BusyWorkers
<1>3. QueueCount
  BY DEF QueueInv, QueueShape
<1>4. Len(queue) = 0 /\ Busy(at) = {}
  BY <1>2, <1>3 DEF QueueCount
<1>5. \A w \in Workers : at[w] \notin {"look", "put", "died"}
  BY <1>4 DEF Busy
<1>6. \A w \in Workers : todo[w] = {} /\ found[w] = {}
  BY <1>5 DEF QueueInv, QueueShape
<1>7. \A p \in seen : p \in Pages /\ fetches[p] \in {0, 1}
  BY CrawlersConstants DEF QueueInv, Found, WebConstants
<1>8. \A p \in seen : fetches[p] = 1
  BY <1>4, <1>6, <1>7 DEF QueueInv, QueuePages
<1>9. \A p \in seen : ~Broken(p) /\ Links(p) \subseteq seen
  BY <1>5, <1>6, <1>7, <1>8 DEF QueueInv, QueueLinks
<1> QED BY <1>4, <1>5, <1>8, <1>9 DEF CrawlComplete

\* join of the queue returns, and a None follows for each worker.
LEMMA JoinReturnsInv == ASSUME QueueInv, Queued!JoinReturns PROVE QueueInv' /\ UNCHANGED crawl
<1> DEFINE n == Cardinality(Workers)
<1>1. /\ joining /\ unfinished = 0 /\ ~joining'
      /\ queue' = queue \o [i \in 1 .. n |-> None] /\ unfinished' = unfinished + n
      /\ UNCHANGED <<web, seen, fetches, outcome, at, todo, found>> /\ UNCHANGED crawl
  BY SameCounts DEF Queued!JoinReturns, Queued!crawl, crawl
<1>2. n \in Nat
  BY BusyWorkers
<1> HIDE DEF n
<1>3. /\ Len(queue) = 0 /\ \A w \in Workers : at[w] \notin {"look", "put", "died"}
      /\ CrawlComplete /\ queue \in Seq(Pages \union {None})
  BY <1>1, NothingUnfinished DEF QueueInv, QueueShape, QueueCount
<1>4. /\ queue' \in Seq(Pages \union {None}) /\ Len(queue') = n
      /\ \A i \in 1 .. Len(queue') : queue'[i] = None
  <2>1. [i \in 1 .. n |-> None] \in Seq(Pages \union {None})
    BY <1>2
  <2> QED BY <1>1, <1>2, <1>3, <2>1
<1>5. Busy(at) = {} /\ Cardinality(Busy(at)) = 0
  BY <1>3, FS_EmptySet DEF Busy
<1>6. QueueCount'
  <2>1. QueueCount /\ Busy(at') = Busy(at)
    BY <1>1 DEF QueueInv, QueueShape
  <2> QED BY <1>1, <1>2, <1>4, <1>5, <2>1 DEF QueueCount
<1>7. \A w \in Workers : at[w] \in {"get", "gone"} /\ todo[w] = {} /\ found[w] = {}
  BY <1>3 DEF QueueInv, QueueShape, QueueCount, WorkerStages
<1>8. QueueShape'
  BY <1>1, <1>4, <1>6, <1>7 DEF QueueInv, QueueShape
<1>9. None \notin seen /\ \A p \in seen : fetches[p] = 1
  BY <1>3, CrawlersConstants DEF QueueInv, Found, WebConstants, CrawlComplete
<1>10. QueuePages'
  <2>1. \A i \in 1 .. Len(queue') : queue'[i] = None
    BY <1>4
  <2>2. \A w \in Workers : found'[w] = {}
    BY <1>1, <1>7
  <2>3. \A p \in seen' : fetches'[p] = 1
    BY <1>1, <1>9
  <2> QED BY <2>1, <2>2, <2>3 DEF QueuePages
<1>11. QueueLinks'
  BY <1>1 DEF QueueInv, QueueLinks, Broken, Links
<1> QED BY <1>1, <1>8, <1>10, <1>11, FoundStays DEF QueueInv

\* crawl returns when all threads are joined.
LEMMA QueueReturnInv == ASSUME QueueInv, Queued!Return PROVE QueueInv' /\ CrawlNext
<1>1. /\ outcome = "running" /\ ~joining /\ outcome' = "returned"
      /\ \A w \in Workers : at[w] \in {"gone", "died"}
      /\ UNCHANGED <<web, seen, fetches, queue, unfinished, at, todo, found, joining>>
  BY DEF Queued!Return
<1>2. \A w \in Workers : at[w] = "gone" /\ todo[w] = {} /\ found[w] = {}
  BY <1>1 DEF QueueInv, QueueShape
<1>3. None \notin seen /\ \A p \in seen : p \in Pages /\ fetches[p] \in {0, 1}
  BY CrawlersConstants DEF QueueInv, Found, WebConstants
<1>4. \A p \in seen : fetches[p] = 1
  BY <1>1, <1>2, <1>3 DEF QueueInv, QueueShape, QueuePages
<1>5. \A p \in seen : ~Broken(p) /\ Links(p) \subseteq seen
  BY <1>2, <1>3, <1>4 DEF QueueInv, QueueLinks
<1>6. CrawlNext
  BY <1>1, <1>4, <1>5 DEF CrawlNext, CrawlReturn, CrawlComplete
<1>7. Found'
  BY <1>1 DEF QueueInv, Found
<1>8. QueueShape' /\ QueuePages' /\ QueueLinks'
  BY <1>1 DEF QueueInv, QueueShape, QueueCount, QueuePages, QueueLinks, Broken, Links
<1> QED BY <1>1, <1>6, <1>7, <1>8 DEF QueueInv

\* Every step of tier 4 keeps its invariant and is one of Crawl.
LEMMA QueueStepInv == ASSUME QueueInv, Queued!Next PROVE QueueInv' /\ [CrawlNext]_crawl
BY GetInv, GetSentinelInv, LookInv, PutInv, DoneInv, JoinReturnsInv, QueueReturnInv
DEF Queued!Next, Queued!Work

-----------------------------------------------------------------------------
(* The finders. *)

ScannerStages == {"get", "scan", "gone", "died"}

\* the workers with a directory in hand, or that died with one
Scanning(s) == {w \in Workers : s[w] \in {"scan", "died"}}

FinderCount ==
    /\ scanner \in [Workers -> ScannerStages]
    /\ jobs \in Seq(Directories \union {None})
    /\ uncounted = Len(jobs) + Cardinality(Scanning(scanner))

\* what may be where
FinderShape ==
    /\ FinderCount
    /\ tree \in Trees
    /\ entries \in [Workers -> SUBSET (Directories \union Files)]
    /\ db \in [Files -> {0, 1}]
    /\ \A i \in 1 .. Len(jobs) : waiting <=> jobs[i] # None
    /\ \A w \in Workers : waiting => scanner[w] # "gone"
    /\ \A w \in Workers : ~waiting => scanner[w] \in {"get", "gone"}
    /\ \A w \in Workers : entries[w] # {} => scanner[w] = "scan"

OnQueue == {jobs[i] : i \in 1 .. Len(jobs)}

\* the entries of the directories in T, and what was ever put on the queue when
\* these were taken
Below(T) == UNION {tree.inside[d] : d \in T}
Placed(T) == {Root} \union Below(T)

\* T are the directories that were taken from the queue.  What is in them is in
\* one place, unless a worker died, and all places hold nothing else.
Scans(T) ==
    /\ OnQueue \union T \subseteq Placed(T) /\ Root \in OnQueue \union T
    /\ OnQueue \intersect T = {}
    /\ \A i, j \in 1 .. Len(jobs) : i # j => jobs[i] # jobs[j]
    /\ \A w \in Workers :
        /\ entries[w] \subseteq Below(T)
        /\ entries[w] \intersect (OnQueue \union T) = {}
        /\ \A f \in entries[w] \intersect Files : db[f] = 0
    /\ \A w, x \in Workers : w # x => entries[w] \intersect entries[x] = {}
    /\ \A f \in Files : db[f] = 1 => f \in Below(T)
    /\ \/ \E w \in Workers : scanner[w] = "died"
       \/ \A e \in Below(T) :
            \/ e \in OnQueue \union T
            \/ e \in Files /\ db[e] = 1
            \/ \E w \in Workers : e \in entries[w]

FinderInv ==
    /\ FinderShape
    /\ waiting => answer = None /\ \E T \in SUBSET Directories : Scans(T)
    /\ ~waiting => \A f \in Files : db[f] = IF f \in Finder!Listed THEN 1 ELSE 0
    /\ answer # None => answer = Finder!DuplicateGroups

\* What is searched is a tree.
LEMMA TreeShape ==
    ASSUME tree \in Trees
    PROVE  /\ tree.inside \in [Directories -> SUBSET (Directories \union Files)]
           /\ Finder!IsTree(tree.inside)
BY CrawlersConstants DEF Finder!FinderConstants

\* The invariant of the finders holds initially.
LEMMA FinderInitInv == Finder!Init => FinderInv
<1> SUFFICES ASSUME Finder!Init PROVE FinderInv
  OBVIOUS
<1>1. Root \in Directories /\ None \notin Directories
  BY CrawlersConstants DEF Finder!FinderConstants
<1>2. Scanning(scanner) = {} /\ Scanning(scanner) \in SUBSET Workers
  BY DEF Finder!Init, Scanning
<1>3. Cardinality(Scanning(scanner)) = 0
  BY <1>2, BusyWorkers
<1>4. FinderCount /\ Len(jobs) = 1 /\ jobs[1] = Root
  BY <1>1, <1>3 DEF Finder!Init, FinderCount, ScannerStages
<1>5. FinderShape
  BY <1>1, <1>4 DEF Finder!Init, FinderShape
<1>6. OnQueue = {Root}
  BY <1>4 DEF OnQueue
<1>7. Scans({})
  BY <1>4, <1>6 DEF Finder!Init, Scans, Placed, Below
<1> QED BY <1>5, <1>7 DEF Finder!Init, FinderInv

\* What is in a directory that was not taken yet is nowhere yet.
LEMMA NotTakenYet ==
    ASSUME tree \in Trees, NEW T \in SUBSET Directories, Scans(T), NEW d \in Directories \ T
    PROVE  /\ tree.inside[d] \subseteq Directories \union Files
           /\ tree.inside[d] \intersect Below(T) = {}
           /\ tree.inside[d] \intersect (OnQueue \union T) = {}
           /\ \A x \in Workers : tree.inside[d] \intersect entries[x] = {}
           /\ \A f \in Files \intersect tree.inside[d] : db[f] # 1
           /\ Below(T \union {d}) = Below(T) \union tree.inside[d]
<1>1. tree.inside[d] \subseteq Directories \union Files /\ Root \notin tree.inside[d]
  BY TreeShape DEF Finder!IsTree
<1>2. tree.inside[d] \intersect Below(T) = {}
  BY TreeShape DEF Finder!IsTree, Below
<1>3. Below(T \union {d}) = Below(T) \union tree.inside[d]
  BY DEF Below
<1>4. /\ OnQueue \union T \subseteq {Root} \union Below(T)
      /\ \A x \in Workers : entries[x] \subseteq Below(T)
      /\ \A f \in Files : db[f] = 1 => f \in Below(T)
  BY DEF Scans, Placed
<1> QED BY <1>1, <1>2, <1>3, <1>4

\* A worker takes a directory.
LEMMA FinderGetInv == ASSUME FinderInv, NEW w \in Workers, Finder!Get(w) PROVE FinderInv'
<1>0. PICK d, S : d = Head(jobs) /\ S = IF d \in tree.broken THEN {} ELSE tree.inside[d]
  OBVIOUS
<1>1. /\ jobs # <<>> /\ jobs' = Tail(jobs) /\ d # None /\ scanner[w] = "get"
      /\ scanner' = [scanner EXCEPT ![w] = IF d \in tree.broken THEN "died" ELSE "scan"]
      /\ entries' = [entries EXCEPT ![w] = S]
      /\ UNCHANGED <<tree, uncounted, db, waiting, answer>>
  BY <1>0 DEF Finder!Get, Finder!Becomes
<1>2. /\ jobs' \in Seq(Directories \union {None}) /\ Len(jobs') = Len(jobs) - 1
      /\ d = jobs[1] /\ Len(jobs) \in Nat \ {0} /\ jobs[1] \in Directories \union {None}
      /\ \A i \in 1 .. Len(jobs') : jobs'[i] = jobs[i + 1] /\ i + 1 \in 1 .. Len(jobs)
      /\ \A i \in 2 .. Len(jobs) : jobs[i] = jobs'[i - 1] /\ i - 1 \in 1 .. Len(jobs')
  BY <1>0, <1>1, TailOfQueue DEF FinderInv, FinderShape, FinderCount
<1>3. d \in Directories /\ waiting /\ d \in OnQueue
  BY <1>1, <1>2 DEF FinderInv, FinderShape, OnQueue
<1>4. PICK T \in SUBSET Directories : Scans(T)
  BY <1>3 DEF FinderInv
<1>5. d \in Directories \ T
  BY <1>3, <1>4 DEF Scans
<1>6. /\ tree.inside[d] \subseteq Directories \union Files
      /\ tree.inside[d] \intersect (OnQueue \union T) = {}
      /\ \A x \in Workers : tree.inside[d] \intersect entries[x] = {}
      /\ \A f \in Files \intersect tree.inside[d] : db[f] # 1
      /\ Below(T \union {d}) = Below(T) \union tree.inside[d]
  BY <1>4, <1>5, NotTakenYet DEF FinderInv, FinderShape
<1>7. S \subseteq tree.inside[d] /\ (d \notin tree.broken => S = tree.inside[d])
  BY <1>0
<1>8. /\ scanner' \in [Workers -> ScannerStages]
      /\ scanner'[w] = IF d \in tree.broken THEN "died" ELSE "scan"
      /\ entries' \in [Workers -> SUBSET (Directories \union Files)] /\ entries'[w] = S
      /\ \A x \in Workers \ {w} : scanner'[x] = scanner[x] /\ entries'[x] = entries[x]
  BY <1>1, <1>6, <1>7 DEF FinderInv, FinderShape, FinderCount, ScannerStages
<1>9. FinderCount'
  <2>1. Scanning(scanner') = Scanning(scanner) \union {w} /\ w \notin Scanning(scanner)
        /\ Scanning(scanner) \in SUBSET Workers
    BY <1>1, <1>8 DEF Scanning
  <2>2. /\ Cardinality(Scanning(scanner')) = Cardinality(Scanning(scanner)) + 1
        /\ Cardinality(Scanning(scanner)) \in Nat
    BY <2>1, BusyWorkers
  <2>3. FinderCount
    BY DEF FinderInv, FinderShape
  <2>4. uncounted' = Len(jobs') + Cardinality(Scanning(scanner'))
    <3>1. /\ uncounted = Len(jobs) + Cardinality(Scanning(scanner)) /\ uncounted' = uncounted
          /\ Len(jobs') = Len(jobs) - 1 /\ Len(jobs) \in Nat
      BY <1>1, <1>2, <2>3 DEF FinderCount
    <3> QED BY <2>2, <3>1
  <2> QED BY <1>2, <1>8, <2>4 DEF FinderCount
<1>10. FinderShape'
  <2>1. \A x \in Workers : entries'[x] # {} => scanner'[x] = "scan"
    BY <1>0, <1>7, <1>8 DEF FinderInv, FinderShape
  <2>2. \A i \in 1 .. Len(jobs') : waiting <=> jobs'[i] # None
    BY <1>2 DEF FinderInv, FinderShape
  <2> QED BY <1>1, <1>3, <1>8, <1>9, <2>1, <2>2 DEF FinderInv, FinderShape
<1>11. OnQueue' = OnQueue \ {d}
  <2>1. \A i \in 2 .. Len(jobs) : jobs[i] # d
    BY <1>2, <1>4 DEF Scans
  <2>2. \A i \in 1 .. Len(jobs') : jobs'[i] \in OnQueue \ {d}
    BY <1>2, <2>1 DEF OnQueue
  <2>3. \A e \in OnQueue \ {d} : \E i \in 1 .. Len(jobs') : jobs'[i] = e
    <3>1. ASSUME NEW i \in 1 .. Len(jobs), jobs[i] # d PROVE \E j \in 1 .. Len(jobs') : jobs'[j] = jobs[i]
      <4>1. i \in 2 .. Len(jobs)
        BY <1>2, <3>1
      <4> QED BY <1>2, <4>1
    <3> QED BY <3>1 DEF OnQueue
  <2> QED BY <2>2, <2>3 DEF OnQueue
<1>12. Scans(T \union {d})'
  <2>1. Below(T \union {d})' = Below(T) \union tree.inside[d]
    BY <1>1, <1>6 DEF Below
  <2>2. OnQueue' \union (T \union {d}) = OnQueue \union T /\ OnQueue' \intersect (T \union {d}) = {}
    BY <1>3, <1>4, <1>11 DEF Scans
  <2>3. /\ OnQueue \union T \subseteq Placed(T \union {d})'
        /\ Root \in OnQueue \union T
    BY <1>4, <2>1 DEF Scans, Placed
  <2>4. \A i, j \in 1 .. Len(jobs') : i # j => jobs'[i] # jobs'[j]
    BY <1>2, <1>4 DEF Scans
  <2>5. ASSUME NEW x \in Workers
        PROVE  /\ entries'[x] \subseteq Below(T) \union tree.inside[d]
               /\ entries'[x] \intersect (OnQueue \union T) = {}
               /\ \A f \in entries'[x] \intersect Files : db[f] = 0
    <3>1. CASE x = w
      BY <1>6, <1>7, <1>8, <3>1 DEF FinderInv, FinderShape
    <3>2. CASE x # w
      BY <1>4, <1>8, <3>2 DEF Scans
    <3> QED BY <3>1, <3>2
  <2>6. \A x, y \in Workers : x # y => entries'[x] \intersect entries'[y] = {}
    BY <1>4, <1>6, <1>7, <1>8 DEF Scans
  <2>7. \/ \E x \in Workers : scanner'[x] = "died"
        \/ \A e \in Below(T) \union tree.inside[d] :
             \/ e \in OnQueue \union T
             \/ e \in Files /\ db[e] = 1
             \/ \E x \in Workers : e \in entries'[x]
    <3>1. CASE d \in tree.broken
      BY <1>8, <3>1
    <3>2. CASE \E x \in Workers : scanner[x] = "died"
      BY <1>1, <1>8, <3>2
    <3>3. CASE d \notin tree.broken /\ ~ \E x \in Workers : scanner[x] = "died"
      <4>1. entries[w] = {}
        BY <1>1 DEF FinderInv, FinderShape
      <4> QED BY <1>4, <1>7, <1>8, <3>3, <4>1 DEF Scans
    <3> QED BY <3>1, <3>2, <3>3
  <2> QED
    BY ZenonT(60), <1>1, <1>4, <2>1, <2>2, <2>3, <2>4, <2>5, <2>6, <2>7 DEF Scans
<1> QED BY <1>1, <1>3, <1>10, <1>12 DEF FinderInv

\* A worker takes a None and goes.
LEMMA FinderGetNoMoreInv ==
    ASSUME FinderInv, NEW w \in Workers, Finder!GetNoMore(w) PROVE FinderInv'
<1>1. /\ jobs # <<>> /\ jobs' = Tail(jobs) /\ Head(jobs) = None /\ scanner[w] = "get"
      /\ scanner' = [scanner EXCEPT ![w] = "gone"] /\ uncounted' = uncounted - 1
      /\ UNCHANGED <<tree, entries, db, waiting, answer>>
  BY DEF Finder!GetNoMore, Finder!Becomes
<1>2. /\ jobs' \in Seq(Directories \union {None}) /\ Len(jobs') = Len(jobs) - 1
      /\ Head(jobs) = jobs[1] /\ Len(jobs) \in Nat \ {0}
      /\ \A i \in 1 .. Len(jobs') : jobs'[i] = jobs[i + 1] /\ i + 1 \in 1 .. Len(jobs)
  BY <1>1, TailOfQueue DEF FinderInv, FinderShape, FinderCount
<1>3. ~waiting /\ \A i \in 1 .. Len(jobs) : jobs[i] = None
  BY <1>1, <1>2 DEF FinderInv, FinderShape
<1>4. /\ scanner' \in [Workers -> ScannerStages] /\ scanner'[w] = "gone"
      /\ \A x \in Workers \ {w} : scanner'[x] = scanner[x]
  BY <1>1 DEF FinderInv, FinderShape, FinderCount, ScannerStages
<1>5. FinderCount'
  <2>1. Scanning(scanner') = Scanning(scanner) /\ Scanning(scanner) \in SUBSET Workers
    BY <1>1, <1>4 DEF Scanning
  <2>2. Cardinality(Scanning(scanner)) \in Nat
    BY <2>1, BusyWorkers
  <2>3. FinderCount
    BY DEF FinderInv, FinderShape
  <2> QED BY <1>1, <1>2, <1>4, <2>1, <2>2, <2>3 DEF FinderCount
<1>6. FinderShape'
  BY <1>1, <1>2, <1>3, <1>4, <1>5 DEF FinderInv, FinderShape
<1> QED BY <1>1, <1>3, <1>6 DEF FinderInv, Finder!Listed, Finder!DuplicateGroups,
           Finder!ByContent

\* A worker puts a directory it has found.
LEMMA SpawnInv ==
    ASSUME FinderInv, NEW w \in Workers, NEW d \in Directories, Finder!Spawn(w, d)
    PROVE  FinderInv'
<1>1. /\ scanner[w] = "scan" /\ d \in entries[w] /\ jobs' = Append(jobs, d)
      /\ entries' = [entries EXCEPT ![w] = @ \ {d}] /\ uncounted' = uncounted + 1
      /\ UNCHANGED <<tree, scanner, db, waiting, answer>>
  BY DEF Finder!Spawn
<1>2. waiting /\ d # None /\ d \notin Files
  BY <1>1, CrawlersConstants DEF FinderInv, FinderShape, Finder!FinderConstants
<1>3. /\ jobs' \in Seq(Directories \union {None}) /\ Len(jobs') = Len(jobs) + 1 /\ Len(jobs) \in Nat
      /\ jobs'[Len(jobs) + 1] = d /\ \A i \in 1 .. Len(jobs) : jobs'[i] = jobs[i]
  BY <1>1, PutOnQueue DEF FinderInv, FinderShape, FinderCount
<1>4. PICK T \in SUBSET Directories : Scans(T)
  BY <1>2 DEF FinderInv
<1>5. /\ entries' \in [Workers -> SUBSET (Directories \union Files)]
      /\ entries'[w] = entries[w] \ {d}
      /\ \A x \in Workers \ {w} : entries'[x] = entries[x]
  BY <1>1 DEF FinderInv, FinderShape
<1>6. OnQueue' = OnQueue \union {d} /\ \A i \in 1 .. Len(jobs) : jobs[i] \in OnQueue
  <2>1. Len(jobs) + 1 \in 1 .. Len(jobs') /\ 1 .. Len(jobs') = (1 .. Len(jobs)) \union {Len(jobs) + 1}
    BY <1>3
  <2> QED BY <1>3, <2>1 DEF OnQueue
<1>7. FinderCount'
  <2>1. Scanning(scanner) \in SUBSET Workers
    BY DEF Scanning
  <2>2. Cardinality(Scanning(scanner)) \in Nat
    BY <2>1, BusyWorkers
  <2>3. FinderCount /\ Scanning(scanner') = Scanning(scanner)
    BY <1>1 DEF FinderInv, FinderShape
  <2> QED BY <1>1, <1>3, <2>2, <2>3 DEF FinderCount
<1>8. FinderShape'
  BY <1>1, <1>2, <1>3, <1>5, <1>7 DEF FinderInv, FinderShape
<1>9. /\ d \in Below(T) /\ d \notin OnQueue \union T
      /\ \A x \in Workers \ {w} : d \notin entries[x]
  BY <1>1, <1>4 DEF Scans
<1>10. Scans(T)'
  <2>1. Below(T)' = Below(T)
    BY <1>1 DEF Below
  <2>2. /\ OnQueue' \union T \subseteq {Root} \union Below(T) /\ Root \in OnQueue' \union T
        /\ OnQueue' \intersect T = {}
    BY <1>4, <1>6, <1>9 DEF Scans, Placed
  <2>3. \A i, j \in 1 .. Len(jobs') : i # j => jobs'[i] # jobs'[j]
    BY <1>3, <1>4, <1>6, <1>9 DEF Scans
  <2>4. \A x \in Workers :
        /\ entries'[x] \subseteq Below(T)
        /\ entries'[x] \intersect (OnQueue' \union T) = {}
        /\ \A f \in entries'[x] \intersect Files : db[f] = 0
    BY <1>4, <1>5, <1>6, <1>9 DEF Scans
  <2>5. \A x, y \in Workers : x # y => entries'[x] \intersect entries'[y] = {}
    BY <1>4, <1>5 DEF Scans
  <2>6. \/ \E x \in Workers : scanner[x] = "died"
        \/ \A e \in Below(T) :
             \/ e \in OnQueue' \union T
             \/ e \in Files /\ db[e] = 1
             \/ \E x \in Workers : e \in entries'[x]
    BY <1>4, <1>5, <1>6 DEF Scans
  <2> QED
    BY <1>1, <1>4, <2>1, <2>2, <2>3, <2>4, <2>5, <2>6 DEF Scans, Placed
<1> QED BY <1>1, <1>2, <1>8, <1>10 DEF FinderInv

\* A worker puts a file in the index, or dies on it.
LEMMA IndexInv ==
    ASSUME FinderInv, NEW w \in Workers, NEW f \in Files, Finder!Index(w, f)
    PROVE  FinderInv'
<1>1. /\ scanner[w] = "scan" /\ f \in entries[w]
      /\ UNCHANGED <<tree, jobs, uncounted, waiting, answer>>
  BY DEF Finder!Index, Finder!Becomes
<1>2. waiting /\ f \notin Directories
  BY <1>1, CrawlersConstants DEF FinderInv, FinderShape, Finder!FinderConstants
<1>3. PICK T \in SUBSET Directories : Scans(T)
  BY <1>2 DEF FinderInv
<1>4. db[f] = 0 /\ f \in Below(T) /\ \A x \in Workers \ {w} : f \notin entries[x]
  BY <1>1, <1>3 DEF Scans
<1>5. OnQueue' = OnQueue /\ Below(T)' = Below(T)
  BY <1>1 DEF OnQueue, Below
<1>6. Scanning(scanner) \in SUBSET Workers /\ FinderCount
  BY DEF Scanning, FinderInv, FinderShape
<1>7. CASE f \in tree.broken
  <2>1. /\ scanner' = [scanner EXCEPT ![w] = "died"]
        /\ entries' = [entries EXCEPT ![w] = {}] /\ db' = db
    BY <1>7 DEF Finder!Index, Finder!Becomes
  <2>2. /\ scanner' \in [Workers -> ScannerStages] /\ scanner'[w] = "died"
        /\ entries' \in [Workers -> SUBSET (Directories \union Files)] /\ entries'[w] = {}
        /\ \A x \in Workers \ {w} : scanner'[x] = scanner[x] /\ entries'[x] = entries[x]
    BY <2>1 DEF FinderInv, FinderShape, FinderCount, ScannerStages
  <2>3. Scanning(scanner') = Scanning(scanner)
    BY <1>1, <2>2 DEF Scanning
  <2>4. FinderShape'
    BY <1>1, <1>2, <1>6, <2>1, <2>2, <2>3 DEF FinderInv, FinderShape, FinderCount
  <2>5. Scans(T)'
    BY <1>1, <1>3, <1>5, <2>1, <2>2 DEF Scans, Placed
  <2> QED BY <1>1, <1>2, <2>4, <2>5 DEF FinderInv
<1>8. CASE f \notin tree.broken
  <2>1. /\ scanner' = [scanner EXCEPT ![w] = "scan"]
        /\ entries' = [entries EXCEPT ![w] = @ \ {f}] /\ db' = [db EXCEPT ![f] = @ + 1]
    BY <1>8 DEF Finder!Index, Finder!Becomes
  <2>2. /\ scanner' = scanner /\ entries'[w] = entries[w] \ {f}
        /\ entries' \in [Workers -> SUBSET (Directories \union Files)]
        /\ \A x \in Workers \ {w} : entries'[x] = entries[x]
        /\ db' \in [Files -> {0, 1}] /\ db'[f] = 1 /\ \A g \in Files \ {f} : db'[g] = db[g]
    BY <1>1, <1>4, <2>1 DEF FinderInv, FinderShape, FinderCount
  <2>3. FinderShape'
    BY <1>1, <1>2, <1>6, <2>2 DEF FinderInv, FinderShape, FinderCount
  <2>4. \A x \in Workers :
        /\ entries'[x] \subseteq Below(T)
        /\ entries'[x] \intersect (OnQueue \union T) = {}
        /\ \A g \in entries'[x] \intersect Files : db'[g] = 0
    BY <1>3, <1>4, <2>2 DEF Scans
  <2>5. \A x, y \in Workers : x # y => entries'[x] \intersect entries'[y] = {}
    BY <1>3, <2>2 DEF Scans
  <2>6. \A g \in Files : db'[g] = 1 => g \in Below(T)
    BY <1>3, <1>4, <2>2 DEF Scans
  <2>7. \/ \E x \in Workers : scanner[x] = "died"
        \/ \A e \in Below(T) :
             \/ e \in OnQueue \union T
             \/ e \in Files /\ db'[e] = 1
             \/ \E x \in Workers : e \in entries'[x]
    BY <1>3, <2>2 DEF Scans
  <2>8. Scans(T)'
    BY <1>1, <1>3, <1>5, <2>2, <2>4, <2>5, <2>6, <2>7 DEF Scans, Placed
  <2> QED BY <1>1, <1>2, <2>3, <2>8 DEF FinderInv
<1> QED BY <1>7, <1>8

\* A worker is done with its directory.
LEMMA FinderDoneInv == ASSUME FinderInv, NEW w \in Workers, Finder!Done(w) PROVE FinderInv'
<1>1. /\ scanner[w] = "scan" /\ scanner' = [scanner EXCEPT ![w] = "get"] /\ entries[w] = {}
      /\ uncounted' = uncounted - 1
      /\ UNCHANGED <<tree, jobs, entries, db, waiting, answer>>
  BY DEF Finder!Done, Finder!Becomes
<1>2. /\ scanner' \in [Workers -> ScannerStages] /\ scanner'[w] = "get"
      /\ \A x \in Workers \ {w} : scanner'[x] = scanner[x]
  BY <1>1 DEF FinderInv, FinderShape, FinderCount, ScannerStages
<1>3. FinderCount'
  <2>1. Scanning(scanner') = Scanning(scanner) \ {w} /\ w \in Scanning(scanner)
        /\ Scanning(scanner) \in SUBSET Workers
    BY <1>1, <1>2 DEF Scanning
  <2>2. /\ Cardinality(Scanning(scanner')) = Cardinality(Scanning(scanner)) - 1
        /\ Cardinality(Scanning(scanner)) \in Nat
    BY <2>1, BusyWorkers
  <2>3. FinderCount
    BY DEF FinderInv, FinderShape
  <2> QED BY <1>1, <1>2, <2>2, <2>3 DEF FinderCount
<1>4. FinderShape' /\ waiting
  BY <1>1, <1>2, <1>3 DEF FinderInv, FinderShape
<1>5. PICK T \in SUBSET Directories : Scans(T)
  BY <1>4 DEF FinderInv
<1>6. \A x \in Workers : scanner[x] = "died" => scanner'[x] = "died"
  BY <1>1, <1>2
<1>7. Scans(T)'
  <2>1. OnQueue' = OnQueue /\ Below(T)' = Below(T)
    BY <1>1 DEF OnQueue, Below
  <2> QED BY <1>1, <1>5, <1>6, <2>1 DEF Scans, Placed
<1> QED BY <1>1, <1>4, <1>7 DEF FinderInv

\* When nothing is unfinished, every directory was taken, and every file of the
\* tree is in the index once.
LEMMA EverythingIndexed ==
    ASSUME FinderInv, waiting, uncounted = 0
    PROVE  /\ Len(jobs) = 0 /\ jobs \in Seq(Directories \union {None})
           /\ \A w \in Workers : scanner[w] \in {"get", "gone"} /\ entries[w] = {}
           /\ \A f \in Files : db[f] = IF f \in Finder!Listed THEN 1 ELSE 0
<1>1. FinderCount /\ Scanning(scanner) \in SUBSET Workers
  BY DEF Scanning, FinderInv, FinderShape
<1>2. /\ Cardinality(Scanning(scanner)) \in Nat
      /\ Cardinality(Scanning(scanner)) = 0 <=> Scanning(scanner) = {}
  BY <1>1, BusyWorkers
<1>3. Len(jobs) = 0 /\ Scanning(scanner) = {}
  BY <1>1, <1>2 DEF FinderCount
<1>4. \A w \in Workers : scanner[w] \in {"get", "gone"}
  BY <1>1, <1>3 DEF Scanning, FinderCount, ScannerStages
<1>5. \A w \in Workers : entries[w] = {}
  BY <1>4 DEF FinderInv, FinderShape
<1>6. PICK T \in SUBSET Directories : Scans(T)
  BY DEF FinderInv
<1>7. OnQueue = {}
  BY <1>3 DEF OnQueue
<1>8. \A e \in Below(T) : e \in T \/ (e \in Files /\ db[e] = 1)
  BY <1>4, <1>5, <1>6, <1>7 DEF Scans
<1>9. T = Directories
  <2>1. Root \in T
    BY <1>6, <1>7 DEF Scans
  <2>2. \A d \in T : tree.inside[d] \intersect Directories \subseteq T
    BY <1>8, CrawlersConstants DEF Below, Finder!FinderConstants
  <2> QED BY <2>1, <2>2, TreeShape DEF FinderInv, FinderShape, Finder!IsTree
<1>10. Finder!Listed = Below(Directories) \intersect Files
  BY DEF Finder!Listed, Below
<1>11. \A f \in Files : f \in Below(T) => db[f] = 1
  BY <1>6, <1>8, CrawlersConstants DEF Finder!FinderConstants
<1>12. \A f \in Files : db[f] = 1 => f \in Below(T)
  BY <1>6 DEF Scans
<1>13. \A f \in Files : db[f] \in {0, 1}
  BY DEF FinderInv, FinderShape
<1> QED BY <1>1, <1>3, <1>4, <1>5, <1>9, <1>10, <1>11, <1>12, <1>13 DEF FinderCount

\* join of the queue returns, and a None follows for each worker.
LEMMA FinderJoinInv == ASSUME FinderInv, Finder!JoinReturns PROVE FinderInv'
<1> DEFINE n == Cardinality(Workers)
<1>1. /\ waiting /\ uncounted = 0 /\ ~waiting'
      /\ jobs' = jobs \o [i \in 1 .. n |-> None] /\ uncounted' = uncounted + n
      /\ UNCHANGED <<tree, scanner, entries, db, answer>>
  BY SameCounts DEF Finder!JoinReturns
<1>2. n \in Nat
  BY BusyWorkers
<1> HIDE DEF n
<1>3. /\ Len(jobs) = 0 /\ jobs \in Seq(Directories \union {None})
      /\ \A w \in Workers : scanner[w] \in {"get", "gone"} /\ entries[w] = {}
      /\ \A f \in Files : db[f] = IF f \in Finder!Listed THEN 1 ELSE 0
  BY <1>1, EverythingIndexed
<1>4. /\ jobs' \in Seq(Directories \union {None}) /\ Len(jobs') = n
      /\ \A i \in 1 .. Len(jobs') : jobs'[i] = None
  <2>1. [i \in 1 .. n |-> None] \in Seq(Directories \union {None})
    BY <1>2
  <2> QED BY <1>1, <1>2, <1>3, <2>1
<1>5. Cardinality(Scanning(scanner)) = 0
  <2>1. Scanning(scanner) = {}
    BY <1>3 DEF Scanning
  <2> QED BY <2>1, FS_EmptySet
<1>6. FinderCount'
  <2>1. FinderCount /\ Scanning(scanner') = Scanning(scanner)
    BY <1>1 DEF FinderInv, FinderShape
  <2> QED BY <1>1, <1>2, <1>4, <1>5, <2>1 DEF FinderCount
<1>7. FinderShape'
  BY <1>1, <1>3, <1>4, <1>6 DEF FinderInv, FinderShape
<1>8. Finder!Listed' = Finder!Listed
  BY <1>1 DEF Finder!Listed
<1>9. answer' = None
  BY <1>1 DEF FinderInv
<1> QED BY <1>1, <1>3, <1>7, <1>8, <1>9 DEF FinderInv

\* Every step of the workers keeps the invariant of the finders.
LEMMA WorkersStep == ASSUME FinderInv, Finder!WorkersNext PROVE FinderInv'
<1>1. CASE Finder!Return
  <2>1. /\ ~waiting /\ answer' = Finder!Groups(Finder!ByContent(Finder!Indexed))
        /\ UNCHANGED <<tree, jobs, uncounted, scanner, entries, db, waiting>>
    BY <1>1 DEF Finder!Return, Finder!queue_vars
  <2>2. Finder!Indexed = Finder!Listed
    BY <2>1 DEF FinderInv, Finder!Indexed, Finder!Listed
  <2>3. /\ Finder!DuplicateGroups' = Finder!DuplicateGroups /\ Finder!Listed' = Finder!Listed
        /\ answer' = Finder!DuplicateGroups
    BY <2>1, <2>2 DEF Finder!DuplicateGroups, Finder!Listed, Finder!ByContent
  <2>4. FinderShape'
    BY <2>1 DEF FinderInv, FinderShape, FinderCount
  <2> QED BY <2>1, <2>3, <2>4 DEF FinderInv
<1> QED BY <1>1, FinderJoinInv, FinderGetInv, FinderGetNoMoreInv, SpawnInv, IndexInv, FinderDoneInv
        DEF Finder!WorkersNext, Finder!Work

-----------------------------------------------------------------------------
(* Tiers 1 to 3 find the same groups. *)

\* Merging the buckets of every line gives the buckets of all lines.
LEMMA MergedIsByContent == Finder!Merged = Finder!ByContent(Finder!Listed)
<1> DEFINE Bucket(f) == {g \in Finder!Listed : tree.content[g] = tree.content[f]}
           Lines == UNION {Finder!LineBuckets(d) : d \in Directories}
           Joined(f) == UNION {x \in Lines : \E g \in x : tree.content[g] = tree.content[f]}
<1>1. ASSUME NEW f \in Finder!Listed PROVE Joined(f) = Bucket(f)
  <2>1. ASSUME NEW g \in Joined(f) PROVE g \in Bucket(f)
    BY DEF Finder!LineBuckets, Finder!ByContent, Finder!Listed
  <2>2. ASSUME NEW g \in Bucket(f) PROVE g \in Joined(f)
    <3>1. PICK d \in Directories : g \in tree.inside[d] \intersect Files
      BY DEF Finder!Listed
    <3>2. {h \in tree.inside[d] \intersect Files : tree.content[h] = tree.content[g]}
              \in Finder!LineBuckets(d)
      BY <3>1 DEF Finder!LineBuckets, Finder!ByContent
    <3> QED BY <3>1, <3>2
  <2> QED BY <2>1, <2>2
<1>2. Finder!Merged = {Joined(f) : f \in Finder!Listed}
  BY DEF Finder!Merged
<1>3. Finder!ByContent(Finder!Listed) = {Bucket(f) : f \in Finder!Listed}
  BY DEF Finder!ByContent
<1> HIDE DEF Bucket, Joined
<1> QED BY <1>1, <1>2, <1>3

\* A file of a group has another one beside it.
LEMMA TwoInGroup ==
    ASSUME NEW g \in SUBSET Files, Cardinality(g) >= 2, NEW f
    PROVE  \E h \in g : h # f
<1>1. IsFiniteSet(g)
  BY CrawlersConstants, SameCounts, FS_Subset DEF Finder!FinderConstants
<1>2. SUFFICES ASSUME g \subseteq {f} PROVE FALSE
  OBVIOUS
<1>3. IsFiniteSet({f}) /\ Cardinality({f}) = 1
  BY FS_Singleton
<1>4. Cardinality(g) <= 1
  BY <1>2, <1>3, FS_Subset
<1> QED BY <1>1, <1>4, FS_CardinalityType

\* The stages of the funnel lose no group.
LEMMA FunnelKeepsGroups ==
    Finder!Groups(Finder!ByContent(Finder!OfSharedPrefix)) = Finder!DuplicateGroups
<1> DEFINE In(S, f) == {g \in S : tree.content[g] = tree.content[f]}
           P == Finder!OfSharedPrefix
           L == Finder!Listed
<1>1. P \subseteq Finder!OfSharedSize /\ Finder!OfSharedSize \subseteq L /\ L \subseteq Files
  BY DEF Finder!OfSharedPrefix, Finder!OfSharedSize, Finder!Survivors, Finder!Listed
<1>2. ASSUME NEW f \in L, NEW g \in L, f # g, tree.content[f] = tree.content[g]
      PROVE  f \in P
  <2>1. f \in Finder!OfSharedSize /\ g \in Finder!OfSharedSize
    BY <1>2 DEF Finder!OfSharedSize, Finder!Survivors, Finder!Size
  <2> QED BY <1>2, <2>1 DEF Finder!OfSharedPrefix, Finder!Survivors, Finder!Prefix
<1>3. ASSUME NEW f \in L, Cardinality(In(L, f)) >= 2 PROVE f \in P /\ In(P, f) = In(L, f)
  <2>1. In(L, f) \in SUBSET Files
    BY <1>1
  <2>2. ASSUME NEW g \in In(L, f) PROVE g \in P
    <3>1. \E h \in In(L, f) : h # g
      BY <1>3, <2>1, TwoInGroup
    <3> QED BY <1>2, <3>1
  <2> QED BY <1>1, <1>3, <2>2
<1>4. ASSUME NEW f \in P, Cardinality(In(P, f)) >= 2
      PROVE  f \in L /\ In(P, f) = In(L, f)
  <2>1. In(P, f) \in SUBSET Files
    BY <1>1
  <2>2. ASSUME NEW g \in In(L, f) PROVE g \in P
    <3>1. PICK h \in In(P, f) : h # g
      BY <1>4, <2>1, TwoInGroup
    <3> QED BY <1>1, <1>2, <3>1
  <2> QED BY <1>1, <1>4, <2>2
<1>5. /\ Finder!Groups(Finder!ByContent(P)) = {g \in {In(P, f) : f \in P} : Cardinality(g) >= 2}
      /\ Finder!DuplicateGroups = {g \in {In(L, f) : f \in L} : Cardinality(g) >= 2}
  BY SameCounts DEF Finder!Groups, Finder!ByContent, Finder!DuplicateGroups
<1> HIDE DEF In, P, L
<1> QED BY <1>3, <1>4, <1>5 DEF P

\* While nobody works on the queue, find of Tiers 1 to 3 answers as promised.
SearchInv ==
    /\ waiting
    /\ answer # None => answer = Finder!DuplicateGroups

\* Every find of Tiers 1 to 3 answers the groups of equal content.
LEMMA SearchStepInv == ASSUME SearchInv, Finder!SequentialNext PROVE SearchInv'
<1>1. UNCHANGED <<tree, waiting>>
  BY DEF Finder!SequentialNext, Finder!FindInList, Finder!FindByFunnel, Finder!queue_vars
<1>2. answer' = Finder!DuplicateGroups
  BY MergedIsByContent, FunnelKeepsGroups
  DEF Finder!SequentialNext, Finder!FindInList, Finder!FindByFunnel, Finder!DuplicateGroups
<1>3. Finder!DuplicateGroups' = Finder!DuplicateGroups
  BY <1>1 DEF Finder!DuplicateGroups, Finder!Listed, Finder!ByContent
<1> QED BY <1>1, <1>2, <1>3 DEF SearchInv

-----------------------------------------------------------------------------
(* All of them. *)

\* What is constructed keeps its own invariant, and the counts of the others
\* stay as they were made.
CrawlersInv ==
    /\ tier = "simple" => StackInv
    /\ tier = "waves" => LevelInv
    /\ tier = "group" => GroupInv
    /\ tier = "pool" => PoolInv
    /\ tier = "queued" => QueueInv
    /\ IF tier = "finder" THEN FinderInv ELSE SearchInv
    /\ PoolCount /\ QueueCount /\ FinderCount

\* The invariant of the composition holds initially.
LEMMA CrawlersInitInv == CrawlersInit => CrawlersInv
<1>1. FinderInv => FinderCount /\ (Finder!Init => SearchInv)
  BY DEF FinderInv, FinderShape, Finder!Init, SearchInv
<1> QED
  BY <1>1, StackInitInv, LevelInitInv, GroupInitInv, PoolInitInv, QueueInitInv, FinderInitInv
  DEF CrawlersInit, CrawlersInv, PoolInv, QueueInv, QueueShape

\* Every step keeps the invariant of the composition and is one of Crawl.
LEMMA CrawlersStep ==
    ASSUME CrawlersInv, [CrawlersNext]_all PROVE CrawlersInv' /\ [CrawlNext]_crawl
<1>1. tier' = tier
  BY DEF CrawlersNext, OthersRest, all
<1>2. UNCHANGED pool_vars => PoolCount'
  BY DEF pool_vars, CrawlersInv, PoolCount
<1>3. UNCHANGED queue_vars => QueueCount'
  BY DEF queue_vars, CrawlersInv, QueueCount
<1>4. UNCHANGED finder_vars => FinderCount' /\ (SearchInv => SearchInv') /\ (FinderInv => FinderInv')
  <2>1. ASSUME UNCHANGED finder_vars PROVE FinderCount' /\ (SearchInv => SearchInv')
    BY <2>1 DEF finder_vars, CrawlersInv, FinderCount, SearchInv, Finder!DuplicateGroups,
       Finder!Listed, Finder!ByContent
  <2>2. ASSUME UNCHANGED finder_vars, FinderInv PROVE FinderInv'
    <3>1. /\ Finder!DuplicateGroups' = Finder!DuplicateGroups /\ Finder!Listed' = Finder!Listed
      BY <2>2 DEF finder_vars, Finder!DuplicateGroups, Finder!Listed, Finder!ByContent
    <3>2. FinderShape'
      BY <2>2 DEF finder_vars, FinderInv, FinderShape, FinderCount
    <3>3. ASSUME NEW T, Scans(T) PROVE Scans(T)'
      BY <2>2, <3>3 DEF finder_vars, Scans, OnQueue, Below, Placed
    <3> QED BY <2>2, <3>1, <3>2, <3>3 DEF finder_vars, FinderInv
  <2> QED BY <2>1, <2>2
<1>5. CASE SimpleStep /\ OthersRest
  <2>1. StackInv' /\ [CrawlNext]_crawl
    BY <1>5, StackStepInv DEF SimpleStep, CrawlersInv
  <2> QED
    BY <1>1, <1>2, <1>3, <1>4, <1>5, <2>1 DEF SimpleStep, OthersRest, CrawlersInv
<1>6. CASE WavesStep /\ OthersRest
  <2>1. LevelInv' /\ [CrawlNext]_crawl
    BY <1>6, LevelStepInv DEF WavesStep, CrawlersInv
  <2> QED
    BY <1>1, <1>2, <1>3, <1>4, <1>6, <2>1 DEF WavesStep, OthersRest, CrawlersInv
<1>7. CASE GroupStep /\ OthersRest
  <2>1. GroupInv' /\ [CrawlNext]_crawl
    BY <1>7, GroupStepInv DEF GroupStep, CrawlersInv
  <2> QED
    BY <1>1, <1>2, <1>3, <1>4, <1>7, <2>1 DEF GroupStep, OthersRest, CrawlersInv
<1>8. CASE PoolStep /\ OthersRest
  <2>1. PoolInv' /\ [CrawlNext]_crawl
    BY <1>8, PoolStepInv DEF PoolStep, CrawlersInv
  <2> QED
    BY <1>1, <1>3, <1>4, <1>8, <2>1 DEF PoolStep, OthersRest, CrawlersInv, PoolInv
<1>9. CASE QueuedStep /\ OthersRest
  <2>1. QueueInv' /\ [CrawlNext]_crawl
    BY <1>9, QueueStepInv DEF QueuedStep, CrawlersInv
  <2> QED
    BY <1>1, <1>2, <1>4, <1>9, <2>1
    DEF QueuedStep, OthersRest, CrawlersInv, QueueInv, QueueShape
<1>10. CASE SearchStep /\ OthersRest
  <2>1. SearchInv' /\ [CrawlNext]_crawl
    BY <1>10, SearchStepInv DEF SearchStep, CrawlersInv
  <2>2. FinderCount'
    BY <1>10 DEF SearchStep, Finder!SequentialNext, Finder!FindInList, Finder!FindByFunnel,
       Finder!queue_vars, CrawlersInv, FinderCount
  <2> QED
    BY <1>1, <1>2, <1>3, <1>10, <2>1, <2>2 DEF SearchStep, OthersRest, CrawlersInv
<1>11. CASE FinderStep /\ OthersRest
  <2>1. FinderInv' /\ [CrawlNext]_crawl
    BY <1>11, WorkersStep DEF FinderStep, CrawlersInv
  <2> QED
    BY <1>1, <1>2, <1>3, <1>11, <2>1
    DEF FinderStep, OthersRest, CrawlersInv, FinderInv, FinderShape
<1>12. CASE UNCHANGED all
  <2>1. UNCHANGED <<crawl, stack_vars, level_vars, task, pool_vars, queue_vars, finder_vars>>
    BY <1>12 DEF all
  <2>2. StackInv => StackInv'
    BY <2>1 DEF StackInv, Found, Settled, Broken, Links, crawl, stack_vars
  <2>3. LevelInv => LevelInv'
    BY <2>1 DEF LevelInv, Found, Settled, Broken, Links, crawl, level_vars
  <2>4. GroupInv => GroupInv'
    BY <2>1 DEF GroupInv, Found, Settled, Broken, Links, crawl
  <2>5. PoolInv => PoolInv'
    BY <1>2, <2>1 DEF PoolInv, Found, Settled, Broken, Links, crawl, pool_vars
  <2>6. QueueInv => QueueInv'
    BY <1>3, <2>1 DEF QueueInv, QueueShape, QueuePages, QueueLinks, Found, Settled, Broken, Links,
       crawl, queue_vars
  <2> QED
    BY <1>1, <1>2, <1>3, <1>4, <2>1, <2>2, <2>3, <2>4, <2>5, <2>6 DEF CrawlersInv
<1> QED
  BY <1>5, <1>6, <1>7, <1>8, <1>9, <1>10, <1>11, <1>12 DEF CrawlersNext

\* The invariant of the composition.
THEOREM CrawlersInvariance == CrawlersSpec => []CrawlersInv
BY CrawlersInitInv, CrawlersStep, PTL DEF CrawlersSpec

\* Every crawler, whatever the web and however its threads or coroutines
\* interleave, fetches no page twice and none of another host, and returns only
\* when no page is missing: tiers 1, 2, 2b, 3a, 3b and 4 implement Crawl.
THEOREM CrawlersImplementCrawl == CrawlersSpec => ImplementsCrawl
<1>1. CrawlersInit => CrawlInit
  BY DEF CrawlersInit, StackInit
<1>2. CrawlersInv /\ [CrawlersNext]_all => [CrawlNext]_crawl
  BY CrawlersStep
<1> QED BY <1>1, <1>2, CrawlersInvariance, PTL DEF CrawlersSpec, ImplementsCrawl, CrawlSpec

\* The counts on which the end of a crawl and of a search is detected, pending
\* and the two of queue.Queue, count exactly what is under way.
THEOREM CountsDetectTheEnd == CrawlersSpec => []CountsAreExact
<1>1. CrawlersInv => CountsAreExact
  BY SameCounts
  DEF CrawlersInv, CountsAreExact, PoolCount, QueueCount, FinderCount, Counted, Busy, Scanning,
      Pool!PendingIsExact, Queued!UnfinishedIsExact, Finder!UnfinishedIsExact
<1> QED BY <1>1, CrawlersInvariance, PTL

\* Whatever the tree, all finders answer the same groups, and the workers have
\* put every file in the index just once by then.
THEOREM FindersFindTheSame == CrawlersSpec => []FindersAgree
<1>1. CrawlersInv => FindersAgree
  BY DEF CrawlersInv, FinderInv, SearchInv, FindersAgree, Finder!FindersAgree
<1> QED BY <1>1, CrawlersInvariance, PTL
=============================================================================
