-------------------------- MODULE MainThreadCrawlers ------------------------
(***************************************************************************)
(* The crawlers of web_crawler whose main thread alone touches seen: tier  *)
(* 1, one thread with a stack; tier 2b, waves, whose workers only fetch    *)
(* while the main thread folds what they bring into the next wave; and     *)
(* tiers 3a and 3b, a TaskGroup of the event loop with a task for each     *)
(* page.  In which order pages are taken from the stack, or fetched in a   *)
(* wave, makes no difference to what is found: both are sets.              *)
(***************************************************************************)
EXTENDS Crawl

CONSTANTS
    None,       \* no page
    MaxWorkers

VARIABLES
    stack, current,     \* of tier 1: the pages to fetch, the one being fetched
    wave,       \* of tier 2b: the pages given to map
    fetching,   \* those that a worker is fetching
    fetched,    \* those whose result, or exception, is there
    folded,     \* those whose result the main thread has taken
    level,      \* the next wave
    task        \* of tiers 3a and 3b, of each page: "none", "created",
                \* "fetching", "ended", "failed" or "cancelled"

stack_vars == <<stack, current>>
level_vars == <<wave, fetching, fetched, folded, level>>

StackInit == CrawlInit /\ stack = {Start} /\ current = None

Pop(p) ==
    /\ current = None /\ p \in stack
    /\ current' = p /\ stack' = stack \ {p}
    /\ Fetched(p)
    /\ UNCHANGED <<web, seen, outcome>>

\* a link is marked when it is found, before it is fetched
FoldPage ==
    /\ current # None /\ ~Broken(current)
    /\ seen' = seen \union Links(current)
    /\ stack' = stack \union (Links(current) \ seen)
    /\ current' = None
    /\ UNCHANGED <<web, fetches, outcome>>

Ends(how) ==
    /\ outcome = "running"
    /\ outcome' = how
    /\ UNCHANGED <<web, seen, fetches>>

StackRaises ==
    /\ current # None /\ Broken(current)
    /\ Ends("raised")
    /\ UNCHANGED stack_vars

StackReturns ==
    /\ current = None /\ stack = {}
    /\ Ends("returned")
    /\ UNCHANGED stack_vars

StackNext == FoldPage \/ StackRaises \/ StackReturns \/ \E p \in Pages : Pop(p)

-----------------------------------------------------------------------------
(* Waves. *)

LevelInit ==
    /\ CrawlInit
    /\ wave = {Start} /\ level = {}
    /\ fetching = {} /\ fetched = {} /\ folded = {}

BeginFetch(p) ==
    /\ outcome = "running"
    /\ p \in wave \ (fetching \union fetched)
    /\ Cardinality(fetching) < MaxWorkers
    /\ fetching' = fetching \union {p}
    /\ Fetched(p)
    /\ UNCHANGED <<web, seen, outcome, wave, fetched, folded, level>>

EndFetch(p) ==
    /\ p \in fetching
    /\ fetching' = fetching \ {p} /\ fetched' = fetched \union {p}
    /\ UNCHANGED <<crawl, wave, folded, level>>

Fold(p) ==
    /\ outcome = "running"
    /\ p \in fetched \ folded /\ ~Broken(p)
    /\ folded' = folded \union {p}
    /\ level' = level \union (Links(p) \ seen)
    /\ seen' = seen \union Links(p)
    /\ UNCHANGED <<web, fetches, outcome, wave, fetching, fetched>>

NextWave ==
    /\ folded = wave /\ level # {}
    /\ wave' = level /\ level' = {}
    /\ fetched' = {} /\ folded' = {}
    /\ UNCHANGED <<crawl, fetching>>

LevelReturns ==
    /\ folded = wave /\ level = {}
    /\ Ends("returned")
    /\ UNCHANGED level_vars

\* map raises what get_urls raised; the pool is left when nobody fetches
LevelRaises ==
    /\ fetching = {}
    /\ \E p \in fetched : Broken(p)
    /\ Ends("raised")
    /\ UNCHANGED level_vars

LevelNext ==
    \/ NextWave \/ LevelReturns \/ LevelRaises
    \/ \E p \in Pages : BeginFetch(p) \/ EndFetch(p) \/ Fold(p)

-----------------------------------------------------------------------------
(* The TaskGroup.  A task gives the event loop up only while it awaits     *)
(* get_urls, on a thread in the one tier and itself in the other, so all   *)
(* links of a page are taken in one action.  The TaskGroup is external: a  *)
(* task that raises lets it cancel the others, and the block ends when no  *)
(* task is left.                                                           *)

GroupInit ==
    /\ CrawlInit
    /\ task = [p \in Pages |-> IF p = Start THEN "created" ELSE "none"]

Tasks(places) == {p \in Pages : task[p] \in places}

Await(p) ==
    /\ task[p] = "created"
    /\ task' = [task EXCEPT ![p] = "fetching"]
    /\ Fetched(p)
    /\ UNCHANGED <<web, seen, outcome>>

Resume(p) ==
    /\ task[p] = "fetching" /\ ~Broken(p)
    /\ seen' = seen \union Links(p)
    /\ task' = [q \in Pages |->
                  IF q = p THEN "ended"
                  ELSE IF q \in Links(p) \ seen THEN "created" ELSE task[q]]
    /\ UNCHANGED <<web, fetches, outcome>>

ParserRaises(p) ==
    /\ task[p] = "fetching" /\ Broken(p)
    /\ task' = [task EXCEPT ![p] = "failed"]
    /\ UNCHANGED crawl

\* external: TaskGroup cancels what is left
Abort ==
    /\ Tasks({"failed"}) # {} /\ Tasks({"created", "fetching"}) # {}
    /\ task' = [p \in Pages |->
                  IF task[p] \in {"created", "fetching"} THEN "cancelled" ELSE task[p]]
    /\ UNCHANGED crawl

\* external: the async with block ends
Exit ==
    /\ Tasks({"created", "fetching"}) = {}
    /\ Ends(IF Tasks({"failed"}) = {} THEN "returned" ELSE "raised")
    /\ UNCHANGED task

GroupNext == Abort \/ Exit \/ \E p \in Pages : Await(p) \/ Resume(p) \/ ParserRaises(p)
=============================================================================
