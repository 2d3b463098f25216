-------------------------- MODULE DuplicateFinders --------------------------
(***************************************************************************)
(* The finders of file_duplicates, which group the files of equal content: *)
(* by their content or a digest of it (Tiers 1 and 2), by a funnel of      *)
(* size, prefix and digest (Tier 3), and by a fleet of workers with a      *)
(* queue of directories and a shared index (Tier 4).  A content is a       *)
(* sequence of blocks, the first of which is what prefix_bytes covers, and *)
(* a digest is as good as the content.  The file system is external: it    *)
(* does not change during a search, but directories and files may raise.   *)
(***************************************************************************)
EXTENDS Integers, Sequences, FiniteSets

CONSTANTS
    Directories, Root,
    Files,
    Trees,          \* what may be searched
    Workers,
    NoMore          \* the None that ends a worker

\* what the file system is to a walk that follows no symlinks: an entry is in
\* one directory, and every directory is Root or below it
IsTree(inside) ==
    /\ \A d \in Directories : Root \notin inside[d]
    /\ \A d, e \in Directories : d # e => inside[d] \intersect inside[e] = {}
    /\ \A S \in SUBSET Directories :
          Root \in S /\ (\A d \in S : inside[d] \intersect Directories \subseteq S)
              => S = Directories

FinderConstants ==
    /\ Root \in Directories /\ Directories \intersect Files = {}
    /\ IsFiniteSet(Workers) /\ IsFiniteSet(Files) /\ NoMore \notin Directories
    /\ Trees \subseteq [inside : [Directories -> SUBSET (Directories \union Files)],
                        content : [Files -> Seq(Nat)],
                        broken : SUBSET (Directories \union Files)]
    /\ \A x \in Trees : IsTree(x.inside)

VARIABLES
    tree,
    jobs, unfinished,   \* the queue.Queue and its count
    scanner,            \* of each worker: "get", "scan", "gone", or "died"
                        \* when the file system raised in it
    entries,            \* what it has still to scan of its directory
    db,                 \* how often each file is in the bucket of its digest
    waiting,            \* find is in join of the queue
    answer              \* the groups, or NoMore before find returns

vars == <<tree, jobs, unfinished, scanner, entries, db, waiting, answer>>
queue_vars == <<jobs, unfinished, scanner, entries, db, waiting>>

Groups(buckets) == {g \in buckets : Cardinality(g) >= 2}

\* the files of a set by their content: Tiers 1 and 2 for the lines of a list,
\* and the last stage of Tier 3
ByContent(S) == {{g \in S : tree.content[g] = tree.content[f]} : f \in S}

\* Tiers 1 and 2: the buckets of each line join those of the lines before
LineBuckets(d) == ByContent(tree.inside[d] \intersect Files)
Listed == UNION {tree.inside[d] \intersect Files : d \in Directories}
Merged ==
    {UNION {b \in UNION {LineBuckets(d) : d \in Directories} :
              \E g \in b : tree.content[g] = tree.content[f]} : f \in Listed}

Size(f) == Len(tree.content[f])
Prefix(f) == SubSeq(tree.content[f], 1, 1)

\* the files of S that share a key with another one
Survivors(S, Key(_)) == {f \in S : \E g \in S \ {f} : Key(g) = Key(f)}

\* Tier 3: the prefix alone is the key of the second stage
OfSharedSize == Survivors(Listed, Size)
OfSharedPrefix == Survivors(OfSharedSize, Prefix)

Init ==
    /\ tree \in Trees
    /\ jobs = <<Root>> /\ unfinished = 1
    /\ scanner = [w \in Workers |-> "get"]
    /\ entries = [w \in Workers |-> {}]
    /\ db = [f \in Files |-> 0]
    /\ waiting = TRUE
    /\ answer = NoMore

\* find of Tiers 1 and 2, of a list
FindInList ==
    /\ answer = NoMore
    /\ answer' = Groups(Merged)
    /\ UNCHANGED <<tree, queue_vars>>

\* find of Tier 3, in a tree where nothing raises
FindByFunnel ==
    /\ tree.broken = {} /\ answer = NoMore
    /\ answer' = Groups(ByContent(OfSharedPrefix))
    /\ UNCHANGED <<tree, queue_vars>>

SequentialNext == FindInList \/ FindByFunnel

-----------------------------------------------------------------------------
(* The workers of Tier 4. *)

Becomes(w, from, to) == scanner[w] = from /\ scanner' = [scanner EXCEPT ![w] = to]

\* scandir may raise: a worker that dies does not call task_done
Get(w) ==
    /\ jobs # <<>> /\ Head(jobs) # NoMore
    /\ LET d == Head(jobs) IN
       /\ Becomes(w, "get", IF d \in tree.broken THEN "died" ELSE "scan")
       /\ entries' = [entries EXCEPT ![w] = IF d \in tree.broken THEN {} ELSE tree.inside[d]]
    /\ jobs' = Tail(jobs)
    /\ UNCHANGED <<tree, unfinished, db, waiting, answer>>

GetNoMore(w) ==
    /\ jobs # <<>> /\ Head(jobs) = NoMore
    /\ Becomes(w, "get", "gone")
    /\ jobs' = Tail(jobs)
    /\ unfinished' = unfinished - 1
    /\ UNCHANGED <<tree, entries, db, waiting, answer>>

Spawn(w, d) ==
    /\ scanner[w] = "scan" /\ d \in entries[w] \intersect Directories
    /\ entries' = [entries EXCEPT ![w] = @ \ {d}]
    /\ jobs' = Append(jobs, d)
    /\ unfinished' = unfinished + 1
    /\ UNCHANGED <<tree, scanner, db, waiting, answer>>

\* the read of the file may raise, before the lock of the index is taken
Index(w, f) ==
    /\ f \in entries[w] \intersect Files
    /\ \/ /\ f \in tree.broken
          /\ Becomes(w, "scan", "died")
          /\ entries' = [entries EXCEPT ![w] = {}]
          /\ UNCHANGED db
       \/ /\ f \notin tree.broken
          /\ Becomes(w, "scan", "scan")
          /\ entries' = [entries EXCEPT ![w] = @ \ {f}]
          /\ db' = [db EXCEPT ![f] = @ + 1]
    /\ UNCHANGED <<tree, jobs, unfinished, waiting, answer>>

\* the directory counts as done while entries of it are left
DoneEarly(w) ==
    /\ Cardinality(entries[w]) <= 1 /\ Becomes(w, "scan", "get")
    /\ entries' = [entries EXCEPT ![w] = {}]
    /\ unfinished' = unfinished - 1
    /\ UNCHANGED <<tree, jobs, db, waiting, answer>>

Done(w) ==
    /\ entries[w] = {} /\ Becomes(w, "scan", "get")
    /\ unfinished' = unfinished - 1
    /\ UNCHANGED <<tree, jobs, entries, db, waiting, answer>>

\* join of the queue returns: every job is done, and one None for each worker
\* follows
JoinReturns ==
    /\ waiting /\ unfinished = 0
    /\ waiting' = FALSE
    /\ jobs' = jobs \o [i \in 1 .. Cardinality(Workers) |-> NoMore]
    /\ unfinished' = unfinished + Cardinality(Workers)
    /\ UNCHANGED <<tree, scanner, entries, db, answer>>

Indexed == {f \in Files : db[f] > 0}

Return ==
    /\ ~waiting /\ answer = NoMore
    /\ \A w \in Workers : scanner[w] \in {"gone", "died"}
    /\ answer' = Groups(ByContent(Indexed))
    /\ UNCHANGED <<tree, queue_vars>>

Work(w) ==
    \/ Get(w) \/ GetNoMore(w) \/ Done(w)
    \/ \E d \in Directories : Spawn(w, d)
    \/ \E f \in Files : Index(w, f)

WorkersNext == JoinReturns \/ Return \/ \E w \in Workers : Work(w)

Next == SequentialNext \/ WorkersNext

Spec == Init /\ [][Next]_vars

-----------------------------------------------------------------------------
(* Properties *)

DuplicateGroups == Groups(ByContent(Listed))

\* "Every tier returns the same duplicate groups": merging line by line, the
\* funnel, and the workers, which have put every file in the index just once
\* by the time find returns.
FindersAgree ==
    answer # NoMore =>
        /\ answer = DuplicateGroups
        /\ ~waiting => \A f \in Files : db[f] = IF f \in Listed THEN 1 ELSE 0

\* The queue's count is what waits in it and what workers have in hand;
\* what a dead worker had in hand is counted for ever.
UnfinishedIsExact ==
    unfinished = Len(jobs) + Cardinality({w \in Workers : scanner[w] \in {"scan", "died"}})

\* find returns, unless the file system raised in a worker.
FindEnds == <>(answer # NoMore \/ \E w \in Workers : scanner[w] = "died")
=============================================================================
