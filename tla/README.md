# Verification of nginx's processes, locks, events and load balancing

The tree holds the sources of nginx 1.12.1 and lighttpd 1.4.47
(`src/projects/`) and 1972 mutated copies of files of six C programs
(`src/mutants/`, the inputs of a mutation study). This project models the parts of
nginx where several actors meet: worker processes in shared memory, the threads of a
worker's pool, events that arrive for connections already closed, and the master
with the signals and children it has to keep track of. That is a small part of the
tree; the inventory says what is left.

## Inventory

| component | operations | what makes it hard | status |
|---|---|---|---|
| reader-writer lock, `core/ngx_rwlock.c` | rlock, wlock, unlock | unlock infers its mode from the word | modelled, proved |
| mutex, `core/ngx_shmtx.c`, `os/unix/ngx_process.c` | trylock, lock, unlock, wakeup, force_unlock | lost wakeups, negative wait, killed owners | partly, proved |
| upstream balancers, `http/ngx_http_upstream_round_robin.c`, least_conn | get, free, retry | counters shared by workers, cached times, nested get | partly, proved |
| accept mutex, `event/ngx_event.c`, `ngx_event_accept.c` | round, trylock, enable and disable, accept | a worker that skips the mutex while it holds it | partly, proved |
| connection pool and events, `core/ngx_connection.c`, `ngx_epoll_module.c` | get, close, drain, post, expire | stale events for a reused slot | partly, proved |
| thread pool, `core/ngx_thread_pool.c` | post, cycle, handler, destroy | one link for three lists, notification, shutdown | modelled, proved |
| processes, `os/unix/ngx_process_cycle.c`, `ngx_process.c` | spawn, reap, reload, upgrade, quit | signals during other work | partly, proved |
| slab allocator, caches, resolver, limits, requests | | see `PROJECT.json` | not modelled |
| lighttpd | | sequential, or spread over plugin hooks | not modelled |
| strings, addresses, keyvalue, mail, stream, `src/mutants` | | text, repetitions, altered copies | not modelled |

## Modules

* `RWLock`, `Mutex`, `TaskService`: what a lock, a mutex and a thread pool promise.
* `NgxRwlock`: `ngx_rwlock.c`, one step per read, write or compare-and-set of the
  word. `WLOCK` stands for `(ngx_atomic_uint_t) -1`. `held` is a history of what
  each process was granted.
* `NgxShmtx`: `ngx_shmtx.c` with POSIX semaphores, again one step per access, and
  the master's `ngx_unlock_mutexes`. The spin loop is `SPIN` further attempts.
  `Init` also covers a failed `sem_init`. In the refinement ownership is read off
  the processes, not off the word; with the word itself as the owner, a word freed
  under a live owner would pass for the owner's own release.
* `NgxUpstreamRR`: get and free of round robin and least_conn, and the retry logic
  that calls them. Locks are used through the contract of `RWLock`. `conns` is
  loaded and stored in separate steps. `Answer` is the peer's answer
  (`ngx_http_upstream_next` or `_finalize_request`), `UpdateTime` a worker's cached
  time. A worker has one request; more requests are more workers. `Conf` is a set of
  upstreams to start from, so that one run covers several.
* `NgxUpstreamProbe`: the same with a history of requests to failing peers.
* `NgxSmoothWRR`: the choice as an algorithm, for all weights. `Sums`: sums over a
  set.
* `NgxAccept`: one round of the event loop per worker, from `accept_disabled` and
  `ngx_trylock_accept_mutex` through the wait to the handlers; the mutex is used
  through the contract of `Mutex`. `OWN` gives each worker a socket of its own
  (reuseport). `FILES` is the number of clients at which a worker is out of
  descriptors (EMFILE), `ENFILE` lets the whole system be out of files whatever the
  worker has open, and `RESERVED` are the connections it needs for other things. Any
  number of clients may leave (`Leave`) before a round ends.
* `NgxEvents`: the slots of a worker's connections, the instance bit, a batch of
  epoll events, posted events, timers and the queue of reusable connections. A
  handler may call any of the operations in any order. `reused` and the sockets in
  posted events and timers are histories.
* `NgxThreadPool`: the pool's lists are the code's linked lists, with one `next` per
  task; what happens under a mutex is one step. `asleep` are the threads blocked on
  the condition, and `Spurious` its spurious wakeups.
* `NgxProcessCycle`: the master blocks its signals except in `sigsuspend`, so a
  wakeup with all pending signals and everything up to the next `sigsuspend` is one
  step (`Wake`). `raised` are the pending signals, `ngx` the master's globals and
  the table of processes. The code's loops over the table touch each slot once, so
  they are functions of the slot; where a loop spawns processes, the n-th attempt is
  the one with n slots up to it (`Rank`), and `fail` says which attempt fails.
  `ngx_last_process` is not kept: the slots from it on are free like the others.
  Children obey what they were last told, crash or hang.
* `...Proofs`: the theorems. `MC...` and `*.cfg`: the instances for TLC.

Definitions named as mutants are faulty variants used to see that each property
can fail; they take no part in the specifications.

## Runs

| run | instance | shows |
|---|---|---|
| rwlock | 3 processes, killed anywhere, fair | a writer excludes; the word is exact; implements `RWLock`; granting goes on unless a holder was killed |
| shmtx | 3 processes, 1 spin, killed anywhere, fair | exclusion, conservation of waiters, bounded surplus, no lost wakeup, implements `Mutex`; progress; dead owners are released |
| upstream_rr | 2 workers, 2+1 peers, 2 tries, kills, 1 counted failure, fair; all peers, least_conn on two, one and its backup, a single peer | exact `conns`, `max_conns`, weights in range and balanced, no peer asked twice, no endless failover |
| upstream_probe | 2 workers, 1 peer, time to 4 | one check per fail_timeout, less `SKEW` |
| upstream_live | as above | violated, see Findings |
| smooth_wrr | 5 peers, weights to 6, two cycles | exact cycles, nobody ahead by a request |
| accept | 2 workers, a shared and an own socket each, multi_accept, 2 connections, 3 descriptors, ENFILE | one listener among the workers that tried |
| accept_live | 2 workers, 1 shared socket, 2 connections, 2 descriptors, ENFILE, 1 kill, fair | the mutex is owned within a round only, its owner listens, connections keep being accepted unless all workers are stranded |
| events | 3 slots, listening and 3 client sockets, batches of 2 | slots neither leak nor are freed twice, no event is misdelivered or lost, nothing is left to the next user |
| thread_pool | 2 threads, 3 tasks, max_queue 1, fair | one place per task, exact counter, no sleep over a task, clean destruction, implements `TaskService`; tasks complete and destruction ends |
| process | 1 worker, cache manager and loader, 4 slots, 3 signals, 1 fault, fair | the master outlives its children, staff is complete, it stops when told, old processes retire |
| process_orphans | 2 workers, 5 slots, 4 signals, HUP during an upgrade | violated, see Findings |

Bounds. Three processes are needed for two that race while a third waits or
unlocks; two workers suffice where two race for a counter. Time passes (`MaxTime`)
only in the two small upstreams of `upstream_rr`; `MAX_TIME` 4 in `upstream_probe`
lets a peer fail, be checked, be failed again by a lagging worker and be checked
again. `ProbeSpacing` is tight: without `SKEW` it fails in this instance. Three
slots let one be used again twice within a batch of two, which is what the instance
bit cannot tell apart. With three tasks and two threads a task waits in each list
while another is posted again; a limit of one makes the counter go below zero and
the queue overflow. `CONN`, `RESERVED` and
`FILES` are chosen so that connections run out, and in `accept_live` descriptors,
too. `KILL_AFTER`
replaces the 1000 ms after which TERM becomes KILL by 50, the first delay. A fault
is a failed fork, a crash or a child that hangs. `CHECK_DEADLOCK FALSE` is set where
the system may stop: all processes killed, time or rounds used up, the pool
destroyed, the master gone, all workers stranded, or nobody with a reason to call.

`smooth_wrr` bounds a peer's lead only. The lag is not below one request: TLC
refutes that in this same instance, with weights 1,1,1,6,6 (no run is kept for it,
since nothing in the repository claims it), although it holds for four peers with
weights to five.

## Fairness

Weak fairness of each process or thread inside the functions: the kernel schedules
what is runnable. Calls and requests are not fair: nobody has to ask. `Progress` of
the locks is a statement about the system, not each process: they are not fair.
`upstream_rr` assumes that peers answer, which timeouts ensure. After a kill where
the code has no recovery (inside the reader-writer lock, inside the mutex functions)
`Progress` claims nothing. `accept_live` adds strong fairness of the departure of a
client and of the timer that tries a full worker again, since each is possible only
in a part of a round, strong fairness of a successful `accept()`, which says that the
system is not out of files at every attempt, and weak fairness of respawning. Its
liveness is not claimed with `OWN` and `MULTI`: a worker that always finds
connections on its own socket may never handle the shared one. `thread_pool`
assumes that task handlers end. `process` assumes that pending signals are
delivered, that the alarm rings and that some child that can run does.

## Proofs

All hold for any number of processes, workers, peers, sockets, threads and tasks,
and for any values of the parameters that the named assumptions allow.

* `NgxRwlockProofs`: `IInv` joins the types, the word as the exact count, the mode
  seen by unlock and where a process is. Exclusion alone is not inductive: unlock's
  later store is harmless only because its earlier read was right.
* `NgxShmtxProofs`: `IInv` adds that killed processes are not running and that only
  a positive count is lowered. `wait + sem + posters = announced` gives the bound on
  the semaphore. The refinement uses `Exclusion` before and after the step.
* `NgxUpstreamRRProofs` has four invariants. They assume that the locks keep the
  contract of `RWLock`, which `RwlockRefines` proves of the code.
  `IInv` (`conns`, `max_conns`) joins what a worker holds where, exclusive locks,
  and loaded counters that are not stale. `StoreAlone` is its core: two workers
  about to store differ in their peer, by the list's lock if one is in get and by
  the peer's lock if both are in free.
  `AskInv` (`AskedOnce`) says of each request that the peers it was sent to in the
  present list are in `tried`, which is cleared when the list changes, that the peer
  just picked is none of them, and that requests sent and tries left add up.
  `WeightsInv` (`WeightsBalance`, and with the other two `TypeOK`) needs no more
  than the ranges of the weights; what it needs is that a pick raises all peers
  that take part and lowers one by the sum of the raises.
  `ProbeInv` (`ProbeSpacing`, over the specification with the history) says of a
  peer that was sent a request while failing that it still fails and that `checked`
  is no older than that request but for `SKEW`. A pick of a failing peer needs
  `now - checked > fail_timeout` on the worker's cached time, and only a step that
  marks the peer live forgets the request. `UpstreamProbeSpacing` is for workers
  that are not killed, as in the run.
* `SumProofs`: what the sum over a finite set is when an element is added, removed
  or changed, and when two functions are added. The facts about all finite sets are
  proved by the smallest counterexample, with the well-foundedness of the natural
  numbers; the recursive function inside the library's fold is shown to exist and to
  be unique in the same way.
* `NgxSmoothWRRProofs`: `current_weight[p] = round * weight[p] - Total * picks[p]`,
  the weights sum to zero and each is above `-Total`. The last needs that the chosen
  weight, a greatest one, is positive: the raised weights sum to `Total > 0`. At the
  end of a cycle each weight is a multiple of `Total`, none is negative, and they
  sum to zero, so all are zero. `FairForever` states it without the bound on rounds.
* `NgxProcessProofs` has the accept mutex and the master. For the mutex: a worker
  that has `held` listens on every shared socket, and the owner is within its round.
  `MasterInv` is the invariant at each `sigsuspend`. `Watched` says that a master
  whose `live` is 0 has no child alive; `ngx_reap_children` establishes it, and the
  reload and the restart keep it because they set `live`. The third place that
  starts processes, a reload with `ngx_new_binary` set, does not; it is never
  reached if SIGHUP is raised only without an upgrade and a request to reload is
  left over only in a master that ends, which the invariant adds. `MasterNoOrphans`
  therefore assumes `~RELOAD_IN_UPGRADE`; `process_orphans` refutes it without.
  `Manned` is `Staffed` of any state between two calls. A reload keeps it since the
  new processes are `just_spawn` and the signal to the old ones passes them by; the
  reaping frees nobody of the crew, and a new binary that exits turns `noaccepting`
  into a restart. `MasterStaffed` has no assumption on reloads. `Carries` is what
  each case of the loop does, so that the cases compose in the loop's order.
* `NgxEventsProofs`: `EventsInv` adds to the properties that open connections have
  different sockets, that epoll knows the present instance of each socket, and what
  an event still in the batch may be about (`EventKnown`).
* `NgxThreadPoolProofs`: the lists are walked by a recursive function; `ListOfIs`
  says that a chain without repetition is what the walk returns, and `TailChain` and
  `AddedChain` that taking the head and appending at `last` keep a chain one.
  `PoolInv` has the three lists chained and free of repetitions (`Lists`), disjoint
  from each other and from the threads' hands (`Apart`, `Hands`), the counter
  (`Counted`), where the exit task may be (`Exits`) and how many threads it has ended
  (`ExitsCounted`). Disjointness is what makes a write to one `next` harmless to the
  other lists. `PoolImplementsService` shows the refinement step by step: a post
  submits, a thread that takes a task starts it, and so on; the exit task, always
  last in the queue, is invisible.

The inductive invariants were checked with TLC on the instances of the runs before
they were proved.

Only model-checked: liveness (`Progress`, `DeadOwnerReleased`, `Accepted`,
`Completed`, `Destroyed`, `Stops`, `Retired`), which needs fairness.

## Findings

`ngx_http_upstream_round_robin.c:641` says "mark peer live if check passed". The
test `accessed < checked` does not ask whose request succeeded. In `upstream_live`
a request sent before the peer failed ends without failure while the check is
unanswered, and the peer is marked live. The effect is small: the peer did answer.

`ngx_process_cycle.c:229`: a HUP after USR2 and WINCH starts workers and continues
without `live = 1`. In `process_orphans` a TERM or QUIT that follows makes the master
exit while these workers go on.

Observations without a run, since no line of the repository says otherwise or the
model leaves the case out:

* Accept: a worker with `accept_disabled` that holds the mutex keeps listening;
  after EMFILE a reuseport socket is enabled again only with the mutex; an
  `epoll_ctl` that fails half way leaves `held` set. After EMFILE or ENFILE with
  accept_mutex a worker does not listen, and its next round is skipped
  (`ngx_event.c:219`) without the limit of `accept_mutex_delay`. If its clients left
  in the round that failed (255-259), or it had none, no timer is set and it sleeps
  until a signal or some other event. When this happens to all workers, waiting
  connections are not accepted. `Accepted` names this state (`Stranded`) and claims
  nothing once all workers are in it for good; without this exception TLC refutes it,
  also with `ENFILE` false. With `timer_resolution` the periodic signal would wake
  the workers.
* Events: one instance bit cannot tell a slot that was reused twice within one
  batch from one that was not (`NoMisdelivery` says "at most once").
* Processes: after a USR2 whose `execve` could not be tried, `ngx_new_binary` is
  -1, and later HUPs add workers instead of reloading; a new binary that exits after
  WINCH, HUP and USR2 leaves a second set of workers; a respawn that fails leaves
  closed descriptors in `channel`; a master that could not spawn any child, or
  has none with `worker_processes 0`, counts them as live and does not end on TERM
  (`Stops` excludes the first, and the runs have workers); a slot whose respawn
  failed is spawned again by a later reload.

## Not modelled

In the modelled files: TLS session saving, keepalive's cached connections (and the
extra try they get), hash, ip_hash and resolved names, the file-lock mutex,
`ngx_shmtx_destroy`, failures of `sem_wait` and `sem_post` other than those the
bound on the semaphore excludes, memory allocation failures, UDP, errors of
`epoll_ctl` and of the pthread functions, disabling events without closing,
channels between children, the single-process mode and pid files. A worker killed
with a balancer's lock leaves it locked; the code has no recovery.

Other components: `PROJECT.json` gives the reason for each. In short, the slab
allocator, the limits and lighttpd's chunk queues are sequential under a lock that
is modelled; the caches, the resolver, requests and lighttpd's connections depend on
files, timers or the hooks of all modules in a way that an excerpt would not be
faithful to.
