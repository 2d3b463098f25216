------------------------- MODULE ThreadPoolCrawler -------------------------
(***************************************************************************)
(* Tier 2 of web_crawler: a pool that is fed by its own tasks, one for     *)
(* each page.  The critical sections of visit are the actions; the pool    *)
(* may start its tasks in any order.                                       *)
(***************************************************************************)
EXTENDS Crawl

CONSTANT MaxWorkers

VARIABLES
    task,       \* of each page: "none", "submitted", "running", "ended" or
                \* "died", when get_urls raised and nobody reads the Future
    todo,       \* the links that a running task has still to look at
    pending,
    finished

vars == <<crawl, task, todo, pending, finished>>

\* the seed is counted and submitted before anything runs
Init ==
    /\ CrawlInit
    /\ task = [p \in Pages |-> IF p = Start THEN "submitted" ELSE "none"]
    /\ todo = [p \in Pages |-> {}]
    /\ pending = 1
    /\ finished = FALSE

In(where) == {p \in Pages : task[p] = where}

\* the links of other hosts are passed over
Run(p) ==
    /\ task[p] = "submitted"
    /\ Cardinality(In("running")) < MaxWorkers
    /\ Fetched(p)
    /\ task' = [task EXCEPT ![p] = IF Broken(p) THEN "died" ELSE "running"]
    /\ todo' = [todo EXCEPT ![p] = IF Broken(p) THEN {} ELSE Links(p)]
    /\ UNCHANGED <<web, seen, outcome, pending, finished>>

\* a child that is not counted
FollowUncounted(p, link) ==
    /\ task[p] = "running" /\ link \in todo[p]
    /\ todo' = [todo EXCEPT ![p] = @ \ {link}]
    /\ seen' = seen \union {link}
    /\ task' = IF link \in seen THEN task ELSE [task EXCEPT ![link] = "submitted"]
    /\ UNCHANGED <<web, fetches, outcome, pending, finished>>

\* counted whether it is new or not
FollowCountsAll(p, link) ==
    /\ task[p] = "running" /\ link \in todo[p]
    /\ todo' = [todo EXCEPT ![p] = @ \ {link}]
    /\ seen' = seen \union {link}
    /\ pending' = pending + 1
    /\ task' = IF link \in seen THEN task ELSE [task EXCEPT ![link] = "submitted"]
    /\ UNCHANGED <<web, fetches, outcome, finished>>

\* the test, the mark, the count and the submit under the lock
Follow(p, link) ==
    /\ task[p] = "running" /\ link \in todo[p]
    /\ todo' = [todo EXCEPT ![p] = @ \ {link}]
    /\ IF link \in seen
       THEN UNCHANGED <<seen, pending, task>>
       ELSE /\ seen' = seen \union {link}
            /\ pending' = pending + 1
            /\ task' = [task EXCEPT ![link] = "submitted"]
    /\ UNCHANGED <<web, fetches, outcome, finished>>

End(p) ==
    /\ task[p] = "running" /\ todo[p] = {}
    /\ task' = [task EXCEPT ![p] = "ended"]
    /\ pending' = pending - 1
    /\ finished' = (finished \/ pending' = 0)
    /\ UNCHANGED <<web, seen, fetches, outcome, todo>>

\* wait() on the event returns; shutdown finds the pool drained
Return ==
    /\ outcome = "running" /\ finished
    /\ outcome' = "returned"
    /\ UNCHANGED <<web, seen, fetches, task, todo, pending, finished>>

Visit(p) == Run(p) \/ End(p) \/ \E link \in Pages : Follow(p, link)

Next == Return \/ \E p \in Pages : Visit(p)

Spec == Init /\ [][Next]_vars

-----------------------------------------------------------------------------
(* Properties *)

\* "pending counts tasks that exist but have not finished": those that died
\* are counted for ever.
PendingIsExact ==
    pending = Cardinality({p \in Pages : task[p] \in {"submitted", "running", "died"}})
=============================================================================
