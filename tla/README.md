# TLA+ models of Algos_Python

The repository is a collection of small Python components, each written as a
worked interview problem in *tiers*: a plain first version, then versions that
add locking, durability, garbage collection, leases. Most packages live in
`src/Algorithms/probe1/<package>/src/<package>/`, a second family in
`src/preparation/probe*/`. Packages do not call one another; what interacts is
inside a package: threads that share a lock or a condition, coroutines of one
event loop, workers that share a table, a handle and the set it was taken from.

This directory holds models of the packages in which an order of events, and
not only a computation, decides whether they are correct. Each is written from
the code and checked with TLC on small instances, and the safety of thirteen of
them is proved for all instances with TLAPS.

## 1. Inventory

| component | state it keeps | operations | what is hard | what makes it correct | here |
|---|---|---|---|---|---|
| `rwlock_semaphores` | 4 (2) semaphores, 2 (1) counters | acquire/release read/write, and exceptions raised inside a blocked acquire | nested acquires, hand-over between sides, interruption in the middle | exclusion, priority, nobody kept out by calls that are over, nothing left behind | modelled, proved |
| `producer_consumer_service` | bounded deque with two conditions; table of job rows; leases | enqueue, dequeue; submit, claim, complete, fail, sweep_stuck | lost wake-ups; workers that die, hang, answer late | exactly once in order; claims are atomic, retries bounded, every job settles | modelled, proved |
| `api_design` | job records, a deque, a map of idempotency keys; no lock | submit, process_next, get | check-then-act between request threads and between workers | each job is handled once and settles; a retry after an answer creates nothing | modelled, proved |
| `snapshot_set` | live set, per-element version history, pins | add, remove, snapshot, read, release | which version a write lands in; what a collection may cut | a snapshot reads what a copy would | modelled, proved (tiers 2, 3) |
| `event_logger` | buffer, sequence numbers, sink | append, flush, close; flusher thread | group commit between threads; a sink that raises | an append that returned is durable; close drains; nothing lost or reordered | tiers 2, 3 modelled, proved |
| `id_allocator` | freelist / bitmap / segment tree / locked shards | allocate, release | stale summaries, double release, threads on one shard | no id handed out twice, None only when full, lowest first | modelled; freelist, segment tree and shards proved |
| `token_bucket` | bucket, promised tokens, reservations, two conditions | fill, get, acquire, try_acquire, reserveN, wait, cancel | state read before an `await` and used after it; who notifies whom; refills that nobody notices | a claimed token goes to nobody else, claims are settled once, callers are served, nothing is minted | modelled; proved for calls that do not overlap |
| `preparation/probe6` circuit breaker | state, window of results, probe quota | call | the wrapped call runs outside the lock and ends in another state | three-state diagram with cooldown, quota, closes on recovery | modelled, proved (but for liveness) |
| `double_circuit_breaker` | state, failure count, time of opening | call | no lock at all: each of the three is read and written on its own | state and count agree when no call is under way, closes on recovery | modelled, proved (but for liveness) |
| `web_crawler` | visited set, frontier, pending count | crawl of six crawlers | termination of a pool that makes its own work; a parser that raises | each reachable page once, crawl returns | modelled, proved |
| `file_duplicates` | queue of directories, index of digests | find of four finders | the same termination; a funnel whose stages must not lose a group | every finder returns the same groups; find returns | modelled, proved |
| `kv_store`, `preparation/probe5` | map with expiry times; heap and versions; base map and overlay | put, get, delete, sweep; begin, commit, rollback | lazy eviction at the boundary, stale heap items; deletes inside a transaction | reads as if eviction were eager; all or nothing | all but `SimpleKV` modelled, proved |
| `hit_counter` | deque of seconds; ring of slots, locked and sharded | hit, get_hits | slots reused while they are summed | equals the hits in the window, or is bounded by them | modelled, proved |
| `lru` | map and linked list, expiry times | get, put | two structures changed in several statements | the list mirrors the map, in the order of the last uses | modelled, proved |
| `permissions_fs` | grants and cached answers | add, remove, has_access | answers far below a change go stale | a cached answer is what the walk would find | modelled, proved |
| `preparation/probe10` ledger | balances, a lock each | transfer | two locks per transfer | money is conserved, no circle of waits | modelled, proved |
| `preparation/probe7` load balancer | list of servers, round-robin index | register, unregister, get | the index against a list that changes | get hands out a server while there is one | modelled; types and distinct servers proved |
| not modelled | | | | | section 6 |

`PROJECT.json` repeats the list with the files of each part, and lists the
hazards line by line.

## 2. Modules

Per package there are component modules, an abstract specification where one
says the promise better than the code does. Five `MC...` modules hold the
instances, each for packages of one kind: `MCLocks`, `MCPipelines` (what hands
work or events from thread to thread), `MCStores` (what one process keeps and
hands out), `MCTraffic` (what decides whether a call may go ahead),
`MCCrawlers`. The proofs are in `Locks_proof`, `Pipelines_proof`,
`Stores_proof` and `Crawlers_proof`, each beside the `MC...` module whose
specification its theorems are about; a component that is instantiated under
other names carries its proofs itself (`ReaderPriorityRWLock`, `JobAPI`,
`CoWSnapshotSet`). Those of `MCTraffic` stand in that module itself.

A program constructs *one* tier of a package. The MC modules say the same: a
variable `tier` is chosen in the initial state, the steps are those of that
tier, and the other tiers' variables never move. One run then covers several
packages, its states are the sum and not the product of theirs, and a property
of one tier is not weakened by the presence of the others. Some properties of
the runs are therefore conjunctions, one conjunct per tier; the conjuncts are
stated in the component modules under the names used below.

**Grain.** A method that runs under one lock from beginning to end is one
action. Where the code gives the lock up (a `wait()`, a second semaphore, the
call of a user's function, an `await`) the action ends there. Loops around
`wait()` are two actions, one that finds the condition false and one that finds
it true. Payloads, job results, timestamps' absolute values and messages are
left out.

### rwlock_semaphores
- `RWLock`: many readers or one writer; the promise of every tier.
- `WriterPriorityRWLock` (tier 1a). One step is one semaphore operation with
  the counting that follows it under the lock. `pc` names the acquire a thread
  is blocked in, `raising` marks an `acquire_read` that unwinds through its
  `except` and `finally`. Readers' interruptions are repaired by the code,
  writers' are not; both are actions, each with the set of threads it may hit.
- `ReaderPriorityRWLock` (tier 1b), the same grain.

### producer_consumer_service
- `BoundedBlockingQueue` (tier 1): a condition is a sequence of waiters;
  `notify` moves its head to `woken`, and a woken thread competes for the lock
  with threads that never waited.
- `DBBackedQueue` (tier 2): the table. `held` is the worker's side: which
  attempt of which row it still means to answer for. `Die` is a crash between
  claim and answer.
- `LeasedQueue` (tier 3) EXTENDS it with `age` (the time since `claimed_at`,
  counted up to the lease), the sweep, and retries. Answers do not ask who
  holds the row now, in the code and in the model.

### snapshot_set
- `SimpleSnapshotSet` (tier 1): a snapshot is a copy. It is also the abstract
  specification of the other two.
- `CoWSnapshotSet` (tier 2): versions and histories; `Last` is what
  `bisect_right` finds in a sorted list.
- `GCSnapshotSet` (tier 3): pins, `release` with the collection it runs.

### event_logger
- `DurableLog`: the log on stable storage grows by groups, holds an event at
  most once, and an append returns only when its event is on it. What a crash
  leaves is `log`, so an invariant of `log` at every step is one of every crash.
- `BatchedLogger` (tier 2): a flush may raise after any number of writes, or in
  `fsync`; the buffer is cleared only behind it.
- `GroupCommitLogger` (tier 3): appenders, the flusher thread and the closer on
  one condition; the flusher waits out the batch window, then writes the group,
  syncs once, moves the watermark and notifies.

### id_allocator
- `IdAllocator`: an id that is free, or None when none is.
- `Allocator` (freelist), `BitmapAllocator`, `SegmentTreeAllocator` (a call frame
  is a node with its range; a descent is the frame at every depth, chosen by
  `ClaimBelow` or `FreeBelow`; summaries are refreshed on the way back),
  `ThreadSafeAllocator` (shards with a lock each; search and claim are two steps
  under it, nothing is locked between shards).

### api_design
- `JobAPI` (tiers 2 and 3): request threads and workers. Nothing is locked, so
  a step is what the interpreter does between two looks at shared state: the
  test of the key, the creation, the entry in the map; the test of the deque,
  its `popleft`. `again` marks a submit that began when its key was answered.

### token_bucket
- `ConcurrentTokenBucket` (tier 2): a count of tokens that whoever looks at it
  refills, and `acquire` with its timeout. `level` is a history variable: a
  bucket refilled all the time and drained by the same calls. Tier 1 is this
  module with one thread that only tries.
- `TokenBucket` (tier 3): coroutines of one event loop. A coroutine is `parked`
  in a condition, `woken`, `sleeping` until its tokens are due, or not started;
  what it does between two such points is one action. Time counts the periods
  in which one token is earned; `earned` is what a refill would add. A wait is
  an actor of its own (`Of` names its reservation), so that one reservation can
  be waited for twice; `CallsOverlap` says whether a cancel or a second wait may
  come while a wait is under way. `spinning` says that a coroutine loops without
  giving the event loop up, after which nothing runs any more.

### circuit_breaker (preparation/probe6) and double_circuit_breaker
- `CircuitBreakerStates`: the three-state diagram with the cooldown.
- `CircuitBreaker`: `running` is the state each call was admitted in; a call
  ends in whatever state the breaker has by then. `Recover` is the dependency
  getting well, from when on calls succeed.
- `SimpleCircuitBreaker`: consecutive failures and no lock, hence one step per
  access to an attribute or to the clock (`+=` is two), and what the caller does
  with it on its own. `at` is where each caller is and `read` what it has read.
  Instants are ages: `since_opened` is that of `opened_at`, `read` that of the
  reading of the clock with which a caller is about to compare or to write
  `opened_at`. The diagram is not claimed for it (see Findings).

### load balancer (preparation/probe7)
- `LoadBalancer`: both strategies; `outcome` is what the last `get` answered or
  raised.

### web_crawler
- `Crawl`: what every crawler is given and keeps (the links of each page, which
  pages raise when they are fetched (external), `seen`, how often each page was
  fetched), and the promise of every tier: links are followed from found pages
  on the host, no page is fetched twice, crawl returns when nothing is left to
  find, and may raise if a fetch did.
- `MainThreadCrawlers` (tiers 1, 2b, 3a and 3b: all state is the main
  thread's; in 2b the pool only fetches, in 3a and 3b, which differ in how they
  await a fetch, the coroutines of one loop do), `ThreadPoolCrawler` (tier 2;
  `task` is the pool's queue and its threads in one), `QueueCrawler` (tier 4;
  the test of `seen` is under the lock, the put after it).

### file_duplicates
- `DuplicateFinders`: tiers 1 to 3 are one step each, from the tree to the
  groups; a content is a sequence of blocks of which the prefix is the first,
  and a digest is as good as the content. Tier 4 is the workers with the queue
  protocol of `QueueCrawler`; a directory or a file may raise in them.

### kv_store and hit_counter
- `ExpiringStore`: a key leaves the store when its time is up. `TTLKV` holds
  tier 2 and the store of `preparation/probe5`, which keeps a heap of expiry
  times and a version per key; each implements it by a mapping: what the
  abstract store holds is what `get` would answer now.
- `AtomicStore`: what reads answer now and what they answer after a rollback.
  `TransactionalKV` (tier 3a) implements it, with `None` among the values. In
  both pairs `asked` records the last write, so that a write which does nothing
  is not taken for a step that changes nothing.
- `HitCounters`: the deque (tier 1), and threads on the locked and sharded rings
  (tiers 3 and 4, on the ring of tier 2) whose hits and slot reads are critical
  sections, between which others and the clock go on. `hits` is the number of
  hits recorded for each second, which only the properties read.

### lru, permissions_fs, ledger (preparation/probe10)
- `LRUCache`: `links` is the pointers, `cache` the map; `_unlink` and
  `_add_to_front` are functions of the pointers. Tier 2 is one lock around it,
  tier 1 is the store in which nothing expires.
- `CachedPermissions`: `kept` is the cached answers. `Above` and `Below` are
  what the loops of the walks come to, as closures, for any tree of folders.
- `Ledger`: a transfer lock by lock and balance by balance.

## 3. Runs

The passing runs. "Stops" says why a run does not check deadlock.

| run | instance | stops |
|---|---|---|
| `locks` | 4 threads: two only read, one only writes, one does either; one reader interruptible | yes: a writer that is interrupted leaves the lock taken for good |
| `pipelines` | buffer of 2, 3 producers of 2 items, 2 consumers; table with 3 workers, 3 jobs; leased table with 2 workers of which one may hang, 2 jobs, lease of 2 ticks, 2 attempts; batches of 3, 6 events, 2 broken flushes; 3 appenders; 2 request threads, 2 keys, 3 submits, 2 workers | yes: everything produced, submitted, appended and closed |
| `sets` | 2 elements, 3 snapshots; freelist of 5, tree of 6 ids, 2 threads on shards of 2 and 1 ids; 4 keys in a cache of 3, one of them mortal; 5 folders | no |
| `stores` | 2 keys, times to live of 0, 1, 2 and for ever, 2 versions a key; window of 2, 2 shards, 2 threads, 3 hits, clock to 4; 3 transfers at a time between 3 accounts | no |
| `bucket` | capacity 3, 2 getters, a filler, a try_acquire, 2 reservations of 2 and 3 tokens, the first waited for twice, all at once | yes: `spinning` |
| `traffic` | the same bucket by gets and fills alone, and by reservations and fills alone; 2 threads that acquire 3 and 2 of 3 tokens while another tries 4 times; windowed breaker with 3 callers, thresholds 2, quota 1; the one without a lock with 2 callers, threshold 2, cooldown 1; 3 servers for 2 places | yes: calls that were served |
| `crawl` | webs of 5 pages on two hosts with cycles, shared and self links, with 0 to 2 pages that raise; pools of 2; trees of 3 directories and 4 files, the content of the first fixed and those of the others all combinations of 4, and a directory or a file that raises | yes: crawl is over |

What they show:

- `locks`. *ImplementsRWLock*, *ReaderPriorityImplementsRWLock*: exclusion, also
  when acquires on either side are interrupted. *LocksAreSound*: when all calls
  are over, semaphores and counters are as constructed, although reads were
  interrupted at every acquire. *NoReaderJoinsBeforeWaitingWriter*: "NEW readers
  wait". *WaitersGetIn*: with no fairness of the semaphores, each
  call that waits gets in once no more calls and exceptions come, on either side
  of both locks; and when a writer is behind the closed gate some writer gets in
  although readers keep coming.
- `pipelines`. *QueuesAreSound*: in the buffer a notify of one waiter at a time
  is enough, also when newcomers overtake the woken, and items go through
  exactly once, in each producer's order; the table gives a job to one worker,
  FIFO; each job of the API is pending and once on the deque, or running in one
  worker, or settled, and its handler is called once, although two workers may
  race for the last job and one of them raises. *AttemptsBounded*,
  *ClaimsAreDistinct*: whatever late answers requeue, no row is attempted more
  than `max_attempts` times and no attempt has two workers. *WorkGetsDone*:
  everything is consumed; every job settles for good although one worker may
  hang and any may die. *RetriesCreateNothing*: only submits that overlap make
  a second job for a key. *ImplementsDurableLog*: an append that returned is on
  stable storage even when the sink raises. *WatermarkIsLSN*: numbers, records
  and watermark agree. *CloseDrains*, *CallsReturn*: the flusher drains before
  it ends, and nobody sleeps through the change it waits for; an append blocks
  for good only if the flusher is gone. *BatchedLogIsSound*: broken flushes
  lose nothing, and duplicate only what the retry writes again.
- `sets`. *ImplementsHeldCopies*, and *SetsImplementTheirSpecs* for tier 2: a
  version number reads what a copy would have kept, whatever is written or
  collected afterwards; the same property says that the freelist implements the
  abstract allocator. *PinsAreHeld*: pins count exactly the
  handles that are out. *CollectionReclaims*: history stays bounded by the
  oldest pin, and the last release leaves one record per live element.
  *TreeIsSound*: summaries are exact and the smallest free id is handed out.
  *ShardedHeldIsUsed*: threads hold distinct ids, exactly those their shards
  have marked, also in the smaller last shard. *LinksMirrorTheMap*,
  *LeastRecentGoes*: the list of the cache holds the keys of the map, reads the
  same in both directions, and is in the order of the last uses, so that what
  is evicted is what nobody used for longest. *CacheAgreesWithWalk*.
- `stores`. *StoresImplementTheirSpecs*: transactions are atomic, and neither
  lazy eviction nor a stale heap item is ever seen. *CountersAreExact*: an
  uninterrupted read is the number of hits in `(now - window, now]`, also when
  threads reach the lock in another order than that of their seconds.
  *InterruptedReadsAreBounded*: a read that hits and the clock interrupt answers
  no less than what was recorded before it and is still in the window at its
  end, and no more than what is recorded at its end from its window on.
  *LedgerIsSound*: but for what is between a debit and its credit the balances
  add up, none is negative, and some transfer can always go on.
- `bucket`. *PromisedIsOutstanding*: `_promised` is the number of tokens that
  open reservations claim.
  *ClaimsAreProtected*: only a reservation takes promised tokens.
- `traffic`. *FollowsTheDiagram*: the windowed breaker refines the three-state
  diagram although calls end in other states than they began. *ClosedAreHealthy*:
  while it is CLOSED it is never one failure past its threshold, and the one
  without a lock is CLOSED with a full count only while some caller is about to
  open it or to reset the count: state and count are written separately and
  agree again when the calls are over. *BothCloseWhenHealthy*: both close for
  good once the dependency is well, whatever promotions and times of opening
  come late. *TrafficIsSound*: types, and that the threaded bucket holds at every
  moment what a bucket refilled all the time would hold. *CallersAreServed*: gets return
  when only gets and fills are used, reservations that fit the capacity are
  honoured when only they and fills are, and `acquire` returns as long as
  tokens are earned, although nobody notifies of a refill by time.
- `crawl`. *ImplementsCrawl*: no page is fetched twice, none of another host is
  followed, and crawl does not return while a page is missing or in flight.
  *CountsAreExact*: `pending` and the counts of the two queues are the tasks
  that exist and have not finished, where a task that died of its fetch counts
  for ever. *FindersAgree*: all four finders return the same groups, and the
  workers have put each file in the index once. *CrawlEnds*: crawl returns, or
  raises where the pool's `map` or the TaskGroup passes the exception on; the
  pool, the queue crawler and the workers that search never end once a fetch
  or the file system raised.

Type invariants are checked in the same runs.

### Findings

Five runs state what a comment, a document or a test says and TLC finds it
violated. `PROJECT.json` quotes the lines.

- `bitmap`: `BitmapAllocator` sets the bit in a local variable and does not
  store it; the second `allocate` returns id 0 again.
- `tb_refund`: a reservation cancelled, or collected by another wait, while its
  `wait` is parked on the condition is settled twice. Here `CallsOverlap` is
  TRUE; the passing runs exclude it, because what follows is false accounting.
- `tb_stuck`: the lazy refill of `try_acquire` fills the bucket and notifies
  nobody; `fill` then parks on the full bucket and a parked `get` sleeps on.
- `starve`: "a continuous stream of readers can no longer keep writers out".
  The first writer acquires `reader_gate` like the readers it is to stop, and a
  `threading.Semaphore` serves whoever comes first, not who waits longest: two
  readers that come and go may take the gate before it again and again. The
  promise holds for the writer that has the gate, *WaitersGetIn*.
- `roundrobin`: the index of the round robin runs from 0 to `len(servers)`
  inclusive. After the first round `get` raises `IndexError`, and goes on doing
  so until as many servers are added.

Further behaviours met on the way, which the passing runs contain: a late
`fail` of a worker whose lease ran out may requeue a row that another worker
holds, or one that is already SUCCESS; submits of one key that overlap create
two jobs, and the map remembers the last; a call of the breaker admitted while
CLOSED that ends in HALF_OPEN gives back a probe place it never took, so that
two probes run under a quota of one; the breaker without a lock admits several
probes at once, is promoted from CLOSED or right after it opened again by a
caller that looked before, shows OPEN before it has written when it opened, so
that the cooldown is measured from the time before, and may lose a failure that
is counted by two callers at once (no document claims that it is thread-safe);
the second stage of the funnel keys by the prefix alone, so files are read in
full that share it with a file of another size only, which changes no group; a
hit that reached its slot a whole window late would wipe out the newer hits of
that slot; the sharded allocator may return None although an id is free (it was
released behind the scan); a reservation of more than the capacity is never
honoured; `get` spins without giving up the event loop while more is promised
than present; a successful `try_acquire` notifies a condition whose lock it
does not hold, which raises; an interrupted writer leaves the writer-priority
lock closed; a time to live of 0 means "at once" to `TTLKV` and "never" to the
store with the heap.

### Bounds, and why they are enough

- Locks: three readers and two writers are on hand at once, so there is a
  first, a middle and a last reader, and a writer queued behind a writer.
  `LeakBound` caps how often writers are interrupted (the counter only grows).
- Buffer: more producers than slots, so several wait at once and one slot is
  contended; `MaxItems` caps items. Leased table: a lease of two ticks has a
  tick inside it; two attempts have a first, a retry and an end.
- Snapshots: three handles are an oldest, a middle and a newest to release in
  any order; two elements let one be written while another is not.
- Loggers: six events are two full batches; two failures are a failed retry.
- Allocators: six ids make an unbalanced tree; the last shard is short.
- Breaker: the window is longer than the threshold; three callers are a probe,
  a rival for its place, and one left over from before.
- Breaker without a lock: two callers, of which one stops anywhere between two
  accesses while the other makes whole calls, opens, probes and closes. With a
  cooldown of one tick the clock makes the difference between too early and old
  enough. `MaxLag` bounds how old a reading of the clock becomes before it is
  used: one tick, as long as the cooldown; a count above the threshold and an age
  above `OldEnough` make no difference to any comparison.
- `starve`: two readers, so that one of them may be inside the gate's section at
  any time, and one writer; nothing is interrupted.
- Bucket: requests below, at and together above the capacity. `MaxEarned`
  bounds how much unclaimed credit builds up while nobody refills: as much as
  the bucket holds (`tb_refund` allows one more).
- Threaded bucket: a thread that needs the whole capacity against one that needs
  less and a third that takes any amount; four tries, so that tokens are taken
  away from a waiting thread more than once.
- Job API: two overlapping submits and a retry; two workers and up to three
  jobs race for the last one.
- Cache: one key more than fits, and one that is over when it is read. Folders:
  a chain of four, a fork, and a folder beside it.
- Ledger: three transfers in a circle; the third account begins empty, so a
  transfer from it is refused or not depending on the others.
- Trees: two sizes and two prefixes in all combinations, so that each of the
  stages alone is what tells two files apart.
- Crawlers: a page found on two ways at once, a page that links to itself and
  back, a page that only the other host links to; pages that raise first, last
  and beside each other. Two workers race; a third adds no new kind of step.
- Stores: a time to live that is over at once, one that a read meets at its
  very end, one that outlives a tick. A ring of two slots comes round twice
  before the clock stops; `MaxHits` is checked when a hit is called, so one
  more per thread may be on its way. Two versions of a key are an item that is
  stale and one that is current. A hit reaches its lock within the window
  (`Tick`): "hits arrive in chronological order".

### Fairness

Safety runs need none. Liveness assumes what the code's scheduling gives:

- Locks: weak fairness of every thread's next step (`Proceed`) and of the
  critical sections (`Release`), which users end. A thread that waits for a
  semaphore others keep taking is never sure to get it: `threading.Semaphore`
  promises no order of its waiters. Nobody has to call; that calls or
  interruptions stop is a premise of a property where it needs it.
- Queues: weak fairness per thread (a condition serves its longest waiter
  first); for the leased table of the clock, the monitor, and the live workers
  only. The other worker may hang for ever.
- Job API: weak fairness of the workers; nobody has to submit or to retry.
- Loggers: weak fairness of threads that were notified and of the flusher;
  nobody has to call append or close.
- Breakers: time passes, the wrapped function ends, and somebody keeps calling.
  It is not assumed that any particular caller does. In the breaker without a
  lock each call under way goes on (`Proceed`).
- Crawlers: some step is taken as long as one is possible; every fetch ends.
- Bucket: time passes, the loop runs every coroutine that is not parked, `fill`
  is called again and again. A reservation is waited for if it was made. The
  threads of the threaded bucket run when their timeout is over.

## 4. Proofs

A theorem is about `Init /\ [][Next]_vars`, of one component or of all that an
`MC...` module composes, for all values of the constants that satisfy the named
assumptions. The theorems of `Locks_proof`, `Pipelines_proof`, `Stores_proof`,
`Crawlers_proof` and `MCTraffic` are about the compositions, hence about the very formulas
the runs check: a lemma says that a step of the whole is a step of the component
or leaves it alone (`LocksTakeSteps`, `PipelinesTakeSteps`, `StoresTakeSteps`, `TrafficTakesSteps`),
and each component has its own inductive invariant.

**Assumptions.** Sets of threads, workers, accounts, pages and files are finite;
limits and sizes are positive; sentinels are objects of their own (`None`,
`_TOMBSTONE`, the ends of the LRU list, the flusher and the master are no
values, keys or threads); folders and directories form a tree. Each is an
`ASSUME` of the module that declares the constant, or a named operator
(`...Constants`) that an `ASSUME` of the `MC...` module asserts for the instance,
and TLC evaluates it in the runs. Two theorems assume more, in their statements,
and each for a reason that a violation run shows: `LocksLeaveNothing` that no
`acquire_write` is interrupted, and the theorems of the asyncio bucket that
calls on one reservation do not overlap (`~CallsOverlap`). With the instance of
the runs that check these properties both hold.

### Locks_proof, ReaderPriorityRWLock

Types, exclusion, writer priority and refinement of `RWLock` for the
writer-priority lock, with interruptions on both sides. That the lock excludes
does not follow from exclusion alone: the inductive invariant says who holds
each semaphore. `ReaderInv`: the count is the number of readers it stands for,
its lock has one holder, and the resource is held by the readers as a group or
by one writer. `GateInv`: from the first writer registered to the last one gone
the gate is closed and no reader is past it. The two sides are proved one after
the other, as `GateInv` is inductive by itself. Interrupted writers stay
counted, hence an inequality for `writer_count`.

*LocksAreSound* (calls that are over leave the semaphores as constructed) is
proved where it is true: `LocksLeaveNothing` assumes `WriteInterruptible = {}`.
Then `NothingLeft`, that nobody was interrupted while registered, joins the
invariant, and the inequality becomes an equation. In the runs the lock whose
writers are interrupted is a tier of its own and is left out of the property
there.

The reader-priority lock: `RPInv` is `ReaderInv` without the gate, and here the
books are exact on both sides, as an interrupted writer has none.

### Pipelines_proof, JobAPI

- Buffer (`WakeInv`). Every item goes through once, in its producer's order: what
  was consumed and what is queued is, for each producer, the beginning of what
  it produced. That no wake-up is lost is an argument about both conditions at
  once: while somebody waits in one, as many of his side are woken as there are
  slots (items) for them (`Served`). Whoever puts or takes uses up one slot and
  at most one woken thread of its own side, and gives the other side one item
  and one woken thread, so a notify of one at a time is enough (`Handover`).
- Table (`TableInv`): a row that is pending was not attempted; one that is
  claimed is held by one worker or by a dead one.
- Leased table: bounded retries, atomic claims, and a sweep that respects leases.
  `attempts` only grows in a claim, and a claim finds the row pending, so what
  has to be shown is that nothing, a late answer included, makes a row pending
  that has no attempt left.
- Group commit: the watermark is exact, close drains, and the refinement of
  `DurableLog`. `DurablePart`, which a failed sink cannot break, numbers the
  records up to the watermark; `GatheringPart`, which holds until the sink fails,
  continues the numbers in the buffer. With the first alone an append that
  returned is durable even after a partial write (`RaiseKeepsLog`).
- Batched log: the buffer holds the last events in a row (`InARow`), everything
  before them is durable (`SyncedIsDurable`), and an event is in the log as often
  as flushes broke, and once more when it is synced (`TriesCounted`). A write of
  the buffer, or of a beginning of it, keeps the order of first occurrences.
- Job API: `HandledInv` says of each job that it is once on the deque, in one
  worker, or settled with its handler called once; deque and records change in
  different steps, and the worker between `popleft` and the handler is what is
  counted. For the retries `MapInv` says that what map and threads remember are
  jobs made for that request_id. That the map is filled before the first answer,
  and never emptied, is what makes it inductive.

### Stores_proof, CoWSnapshotSet

- Sums over finite sets, for the ledger. `MapThenSumSet` of the community modules
  is a choice among recursive functions; the lemmas (a sum loses what the
  removed member had, a change of one member changes the sum by as much) come
  from a smallest counterexample in place of an induction.
- Ledger: the locks follow the stages (`LocksFollowStages`), the money in flight
  is that of the clients between debit and credit, and a client that is about to
  debit found enough and nobody else can have changed it. *SomebodyGoesOn*: if
  the transfer that waits for the greatest account had to wait for ever, its
  holder would hold that account as its first and wait for a greater one.
- Versioned set: a write keeps what earlier versions read (`RecordedKeepsPast`);
  a collection keeps what versions from the horizon on read (`KeptReads`). The
  invariant adds that captured versions are closed and that histories are sorted
  and end with the live set's membership. *CollectionReclaims*: every entry but
  the first is younger than the horizon (`Since`), which writes keep because
  versions only grow, and a collection restores when the horizon moves.
- Freelist: the ids minted are in use or in the pool, each once; the refinement
  of `IdAllocator` follows. Sharded allocator: an id is in one shard (`IdsSplit`,
  `IdsJoin`, `ShardsCover`: division with remainder, and the short last shard),
  a claim is made under the lock of its shard, and what is marked is what the
  threads hold, so that what the search under the lock found free still is.
- Segment tree. The frames of the tree are the members of every set that has the
  root and is closed under calls (`InTree`), so what is closed under calls holds of
  them: a node at a depth of `2^d` nodes has at most `(max_id - 1) / 2^d` ids
  beyond one, hence `4 * max_id` cells are enough (`FramesFit`); the descent to an
  id visits every frame whose range has it (`FreePathVisits`). What a descent
  keeps from depth to depth it keeps all along (`DepthByDepth`): it goes down to a
  leaf, and the claim keeps to frames that are not full with everything to their
  left in use (`ClaimEndsAtTheLowest`). The invariant is that every summary is
  the product of those below it (`SummariesFollow`); a change at a leaf disturbs
  only frames on the way to it, which the way back repairs from the lowest up
  (`RefreshedFollows`), and summaries that follow are exact (`SummariesAreOfIds`).
  The induction over the tree is each time a least counterexample, in depth, in
  the number of ids or in the number of a node.
- Transactions: an overlay hides the base key by key, tombstones included, and
  what a commit leaves is what reads answered before it. `With` and `Without`
  are the only writes.
- Expiring stores: the entries of `TTLKV` that are not over are what the abstract
  store holds, and a tick drops those whose time it is. With the heap, `KeyOK`
  says of each key that no version is newer than the newest handed out, that an
  entry that ends has its own item on the heap, and that an item with the
  entry's version has its time; so a sweep drops what is over and nothing else.
- Permissions: `AboveIsInverseOfBelow` says that the walk down reaches every
  folder whose walk up comes here; both are least fixed points, so the complement
  of a set closed downwards is closed upwards. Hence what a change makes wrong
  lies below it and is forgotten.
- LRU cache: `ListIs(l, o, n, S)` says that the pointers `l` are the sequence `o`
  of `n` different keys between the sentinels. Adding in front and unlinking are
  operations on `o` (`AddedInFront`, `UnlinkedBetween`), every call is made of
  these two, and the walk from the front finds `o` again (`NodesInOrder`). That is
  the mirror. *LeastRecentGoes*: composing the two operations, a move to the
  front is `o` with one key taken to its beginning (`UsedIsFirst`), and the node
  before `Back` is its last.
- Hit counters. Of the deque: for every time from the window's beginning on, the
  entries later than it are as many as the hits recorded later (`DequeInv`); a
  tick only asks for less, a purge drops a beginning of the deque, and what is
  left is found again shifted (`PurgedIsRecent`). Of the rings: for *every* time
  `u` from now on, what the shards would answer at `u` adds up to the hits of
  `u`'s window (`RingsHold`). Said of all times to come the clock changes
  nothing, and what has to be shown is that a hit is counted once, although it
  overwrites its slot: a slot with another second of the same remainder holds
  nothing that any window to come still sees (`RecordedCounts`). Hits of several
  threads come in any order within the window. A read that is interrupted
  (`ReadIsBounded`) has so far found, with what is `Left` from its position on at
  the second it was called for, no more than the hits of that window, and with
  what is left for any time to come no less than what was recorded before it.
  Positions are slots of shards counted in a row, hence sums over products
  (`PositionsSplit`, `SumByShard`).

### Crawlers_proof

All six crawlers implement `Crawl`, for every web, pool and set of pages that
raise. What they have in common is `Found` (what was not found was not fetched)
and `Settled`: of a page that was fetched all links are found. Each crawler adds
where the pages are that are found and not settled (stack, wave, task, queue, or
in the hands of a worker), and returns only when that is nowhere. For the pool
and the queue crawler this needs that their counts are those of the tasks under
way, *CountsAreExact*, which is proved with it, and for the queue that behind a
sentinel comes no page. *FindersAgree*: merging, the funnel and the direct
grouping are shown equal as functions of the tree (`MergedIsByContent`,
`FunnelKeepsGroups`), and the workers of tier 4 have indexed every file once
when `join` returns, as a directory is in the queue, in a worker or done, and in
a tree it is reached from one place.

### MCTraffic

- Asyncio bucket (`BucketInv`). What one coroutine claimed is taken by another
  coroutine that comes back from a sleep or a park, so the invariant relates
  three things: the count `_promised`, the reservations that are open, and the
  waits that are under way. `WaitsInv` says that a wait past its sleep is of an
  open reservation and that no reservation is waited for twice. With it the
  tokens of a wait that collects are among the promised, and each call that
  settles a claim (`ClaimSettled`) takes off exactly what the reservation put
  on. Counting is over a set of single tokens (`ClaimsAddUp`, `ClaimsGoAway`), so
  that no sum is needed. That calls do not overlap cannot be spared: a cancel
  under a parked wait takes the claim off twice, which the run `tb_refund` shows.
  *ClaimsAreProtected*: `get` and `try_acquire` look at `tokens - _promised`
  (`TakesAreFree`).
- Threaded bucket. *NeverOverspends*, that `level` is `tokens + earned` up to the
  capacity, is inductive as it stands once a refill is shown to be exact
  (`RefillsExactly`), for a refill at any moment by whichever call.
- Circuit breaker: *ClosedIsHealthy* and *FollowsTheDiagram*. The point is the window: a
  success that is pushed adds no failure even when the oldest result leaves
  (`SuccessAddsNoFailure`, an injection of the failures that are left into those
  that were), so only `Fail` can make it too bad, and it opens the breaker in the
  same step.
- `SimpleCircuitBreaker` (`SimpleInv`): inductive together with its types. What
  has to be shown is that whoever sets CLOSED is then about to reset the count,
  and whoever fills the count is then about to test it; a promotion or an opening
  in between leaves CLOSED (`SimpleStateMoves`, `SimpleCountMoves`). A caller that
  tests a full count goes on to open, so a full count is never left alone.
  *ClosedAreHealthy* is this and the invariant of the windowed breaker. That the
  breaker without a lock follows the diagram is not true and not stated.
- Load balancer: no server is registered twice and no index leaves its range.
  `unregister` is `list.remove`, which closes the list up behind the first
  occurrence (`RemovedOnce`), so the others stay different.

### Only model-checked

- All liveness: it depends on fairness, beyond the prover.
- The property of `bitmap` and those of the other findings, which fail.

Every other safety property of the passing runs is stated by a theorem.
*MonitorRespectsLease* is proved and not in a run.

## 5. Plan

All packages with state that outlives a call and an order of events to get wrong
are modelled, and the safety properties of the passing runs are proved. Liveness
stays with TLC.

A model that may still come: the crawl manager of `preparation/probe6`, whose
readers see a job record that a thread is writing.

## 6. Not modelled

- `SimpleLogger` (tier 1 of `event_logger`) writes and syncs inside one call and
  keeps nothing between calls; `SimpleKV` is a dict; tier 1 of `api_design` calls
  the handler and returns; `SimplePermissions` is the definition `Walk`.
- `preparation`: smaller editions of the packages above (crawlers, finders,
  counters, stores, buckets, allocators, the lock of probe3), which would repeat
  their models; the bookings of probe9, sequential code over intervals.
- `build_fs`: a tree with one lock around every operation.
- String and game puzzles (`byte_pattern`, `hangman`, `evil_hangman`,
  `word_guessing_feedback`), URL shortener, cart, LeetCode, CodeForces: functions
  of one input, or a few lines of dictionary code.
