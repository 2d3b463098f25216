---------------------------- MODULE QueueCrawler ----------------------------
(***************************************************************************)
(* Tier 4 of web_crawler: a fixed set of threads, a queue.Queue and its    *)
(* count of unfinished tasks.  A link is marked under the lock and put on  *)
(* the queue after it.  queue.Queue is external: put counts up, task_done  *)
(* counts down, and join waits for zero.                                   *)
(***************************************************************************)
EXTENDS Crawl, Sequences

CONSTANTS
    Workers,
    Sentinel    \* the None that ends a worker

VARIABLES
    queue, unfinished,
    at,         \* of each worker: "get", "look", "put", "gone", or "died"
                \* when get_urls raised in it
    todo,       \* the links it has still to look at
    found,      \* the link it is about to put, as a set
    joining     \* the main thread is in join of the queue

vars == <<crawl, queue, unfinished, at, todo, found, joining>>

Init ==
    /\ CrawlInit
    /\ queue = <<Start>> /\ unfinished = 1
    /\ at = [w \in Workers |-> "get"]
    /\ todo = [w \in Workers |-> {}]
    /\ found = [w \in Workers |-> {}]
    /\ joining = TRUE

Goto(w, from, to) == at[w] = from /\ at' = [at EXCEPT ![w] = to]

\* a worker that dies does not call task_done
Get(w) ==
    /\ queue # <<>> /\ Head(queue) # Sentinel
    /\ LET url == Head(queue) IN
       /\ Goto(w, "get", IF Broken(url) THEN "died" ELSE "look")
       /\ todo' = [todo EXCEPT ![w] = IF Broken(url) THEN {} ELSE Links(url)]
       /\ Fetched(url)
    /\ queue' = Tail(queue)
    /\ UNCHANGED <<web, seen, outcome, unfinished, found, joining>>

GetSentinel(w) ==
    /\ queue # <<>> /\ Head(queue) = Sentinel
    /\ Goto(w, "get", "gone")
    /\ queue' = Tail(queue)
    /\ unfinished' = unfinished - 1
    /\ UNCHANGED <<crawl, todo, found, joining>>

Look(w, link) ==
    /\ link \in todo[w]
    /\ todo' = [todo EXCEPT ![w] = @ \ {link}]
    /\ \/ link \in seen /\ Goto(w, "look", "look") /\ UNCHANGED <<seen, found>>
       \/ /\ link \notin seen
          /\ Goto(w, "look", "put")
          /\ seen' = seen \union {link}
          /\ found' = [found EXCEPT ![w] = {link}]
    /\ UNCHANGED <<web, fetches, outcome, queue, unfinished, joining>>

Put(w) ==
    /\ Goto(w, "put", "look")
    /\ \E link \in found[w] : queue' = Append(queue, link)
    /\ unfinished' = unfinished + 1
    /\ found' = [found EXCEPT ![w] = {}]
    /\ UNCHANGED <<crawl, todo, joining>>

\* a way back to the loop that leaves out task_done
DoneForgotten(w) ==
    /\ todo[w] = {} /\ Goto(w, "look", "get")
    /\ UNCHANGED <<crawl, queue, unfinished, todo, found, joining>>

Done(w) ==
    /\ todo[w] = {} /\ Goto(w, "look", "get")
    /\ unfinished' = unfinished - 1
    /\ UNCHANGED <<crawl, queue, todo, found, joining>>

\* join of the queue returns, and the main thread puts one None for each
\* worker; nobody else puts any more, so they are put in one step
JoinReturns ==
    /\ joining /\ unfinished = 0
    /\ joining' = FALSE
    /\ queue' = queue \o [i \in 1 .. Cardinality(Workers) |-> Sentinel]
    /\ unfinished' = unfinished + Cardinality(Workers)
    /\ UNCHANGED <<crawl, at, todo, found>>

\* every thread is joined
Return ==
    /\ outcome = "running"
    /\ ~joining /\ \A w \in Workers : at[w] \in {"gone", "died"}
    /\ outcome' = "returned"
    /\ UNCHANGED <<web, seen, fetches, queue, unfinished, at, todo, found, joining>>

Work(w) == Get(w) \/ GetSentinel(w) \/ Put(w) \/ Done(w) \/ \E link \in Pages : Look(w, link)

Next == JoinReturns \/ Return \/ \E w \in Workers : Work(w)

Spec == Init /\ [][Next]_vars

-----------------------------------------------------------------------------
(* Properties *)

\* The queue's count is what waits in it and what workers have in hand;
\* what a dead worker had in hand is counted for ever.
UnfinishedIsExact ==
    unfinished = Len(queue) + Cardinality({w \in Workers : at[w] \in {"look", "put", "died"}})
=============================================================================
