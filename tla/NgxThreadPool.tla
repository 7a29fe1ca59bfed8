--------------------------- MODULE NgxThreadPool ---------------------------
(***************************************************************************)
(* The thread pool of a worker (core/ngx_thread_pool.c) with the           *)
(* notification through an edge-triggered eventfd                          *)
(* (event/modules/ngx_epoll_module.c).  The main thread posts tasks and    *)
(* runs their completion handlers, which may post again; the threads of    *)
(* the pool run the tasks.  What happens under tp->mtx, and what happens   *)
(* under ngx_thread_pool_done_lock, is one step.  The lists are the linked *)
(* lists of the code: a task has one "next", whichever list it is in.      *)
(*                                                                         *)
(* Errors of the pthread functions need an invalid mutex or condition and  *)
(* are left out.                                                           *)
(***************************************************************************)
EXTENDS Integers, Sequences, FiniteSets, Functions

CONSTANTS
    Thread,      \* the threads of the pool
    Task,        \* the tasks of the requests of this worker
    Exit,        \* the task on the stack of ngx_thread_pool_destroy
    NULL,
    MAX_QUEUE    \* tp->max_queue

ASSUME PoolAssumption ==
    /\ IsFiniteSet(Thread) /\ Thread # {}
    /\ IsFiniteSet(Task)
    /\ Exit \notin Task
    /\ NULL \notin Task \cup {Exit}
    /\ MAX_QUEUE \in Nat

AnyTask == Task \cup {Exit}

VARIABLES
    next,       \* task->next
    active,     \* task->event.active
    queue,      \* tp->queue: first, and the task whose next is *last
    waiting,    \* tp->waiting
    done,       \* ngx_thread_pool_done
    asleep,     \* the threads blocked on tp->cond
    pc,         \* where each thread of the pool is
    task,       \* its local variable task, NULL outside
    notified,   \* the edge of notify_fd that epoll_wait has not yet returned
    main,       \* where the main thread is
    chain,      \* task in ngx_thread_pool_handler: the rest of the list taken
    lock,       \* lock in ngx_thread_pool_destroy
    exits       \* its counter n

vars == <<next, active, queue, waiting, done, asleep, pc, task, notified,
          main, chain, lock, exits>>
pool == <<next, queue, waiting, asleep>>
mainvars == <<main, chain, lock, exits>>

EmptyList == [first |-> NULL, last |-> NULL]

\* ngx_thread_pool_init_worker and ngx_thread_pool_init.
Init ==
    /\ next = [t \in AnyTask |-> NULL]
    /\ active = [t \in AnyTask |-> FALSE]
    /\ queue = EmptyList /\ done = EmptyList
    /\ waiting = 0
    /\ asleep = {}
    /\ pc = [th \in Thread |-> "lock"]
    /\ task = [th \in Thread |-> NULL]
    /\ notified = FALSE
    /\ main = "loop" /\ chain = NULL /\ lock = FALSE /\ exits = 0

\* *list.last = t; list.last = &t->next
Added(list, t) ==
    [first |-> IF list.last = NULL THEN t ELSE list.first, last |-> t]

\* The links after that; t->next was set to NULL before.
Linked(list, t) ==
    [u \in AnyTask |-> CASE u = t -> NULL
                         [] u = list.last -> t
                         [] OTHER -> next[u]]
-----------------------------------------------------------------------------
(* The main thread: ngx_thread_task_post *)

Overflow == waiting >= MAX_QUEUE

\* ngx_thread_cond_signal: some thread, if any, is no longer blocked.
Signal ==
    \/ asleep = {} /\ UNCHANGED asleep
    \/ \E th \in asleep : asleep' = asleep \ {th}

\* Mutant: a thread is signalled only for the first task of the queue.
EnqueueQuietly(t) ==
    /\ active' = [active EXCEPT ![t] = TRUE]
    /\ next' = Linked(queue, t)
    /\ queue' = Added(queue, t)
    /\ waiting' = waiting + 1
    /\ IF queue = EmptyList THEN Signal ELSE UNCHANGED asleep

\* What ngx_thread_task_post does to the pool when it does not return early.
Enqueue(t) ==
    /\ active' = [active EXCEPT ![t] = TRUE]
    /\ Signal
    /\ next' = Linked(queue, t)
    /\ queue' = Added(queue, t)
    /\ waiting' = waiting + 1

\* A request posts a task, from an event handler or from the completion
\* handler of a task; NGX_ERROR changes nothing.
Post(t) ==
    /\ main \in {"loop", "handler"}
    /\ ~active[t]
    /\ ~Overflow
    /\ Enqueue(t)
    /\ UNCHANGED <<done, pc, task, notified, mainvars>>
-----------------------------------------------------------------------------
(* The main thread: ngx_thread_pool_handler, called for the eventfd *)

\* epoll_wait returns the edge; the handler takes the list of tasks done.
Take ==
    /\ main = "loop" /\ notified
    /\ notified' = FALSE
    /\ chain' = done.first
    /\ done' = EmptyList
    /\ main' = "handler"
    /\ UNCHANGED <<pool, active, pc, task, lock, exits>>

\* Mutant of Complete: the next task is read after the completion handler,
\* which may have posted the task again.
CompleteLate ==
    /\ main = "handler" /\ chain # NULL
    /\ \/ /\ active' = [active EXCEPT ![chain] = FALSE]
          /\ chain' = next[chain]
          /\ UNCHANGED pool
       \/ /\ ~Overflow
          /\ Enqueue(chain)
          /\ chain' = next'[chain]
    /\ UNCHANGED <<done, pc, task, notified, main, lock, exits>>

\* One round of the loop: the next task is read first, then the completion
\* handler of this one runs and may post it or another (Post).
Complete ==
    /\ main = "handler" /\ chain # NULL
    /\ active' = [active EXCEPT ![chain] = FALSE]
    /\ chain' = next[chain]
    /\ UNCHANGED <<pool, done, pc, task, notified, main, lock, exits>>

HandlerEnds ==
    /\ main = "handler" /\ chain = NULL
    /\ main' = "loop"
    /\ UNCHANGED <<pool, active, done, pc, task, notified, chain, lock, exits>>
-----------------------------------------------------------------------------
(* The main thread: ngx_thread_pool_destroy, when the worker exits *)

ExitWorker ==
    /\ main = "loop"
    /\ main' = "destroy"
    /\ UNCHANGED <<pool, active, done, pc, task, notified, chain, lock, exits>>

\* The exit task is posted, or refused by a full queue: then the pool stays.
DestroyPost ==
    /\ main = "destroy" /\ exits < Cardinality(Thread)
    /\ \/ /\ Overflow
          /\ main' = "failed"
          /\ lock' = TRUE
          /\ UNCHANGED <<pool, active>>
       \/ /\ ~Overflow
          /\ Enqueue(Exit)
          /\ lock' = TRUE
          /\ main' = "yield"
    /\ UNCHANGED <<done, pc, task, notified, chain, exits>>

\* Mutant: the main thread does not wait for the exit handler.
DestroyHasty ==
    /\ main = "yield"
    /\ active' = [active EXCEPT ![Exit] = FALSE]
    /\ exits' = exits + 1
    /\ main' = "destroy"
    /\ UNCHANGED <<pool, done, pc, task, notified, chain, lock>>

\* while (lock) ngx_sched_yield(); task.event.active = 0
DestroyWait ==
    /\ main = "yield" /\ ~lock
    /\ active' = [active EXCEPT ![Exit] = FALSE]
    /\ exits' = exits + 1
    /\ main' = "destroy"
    /\ UNCHANGED <<pool, done, pc, task, notified, chain, lock>>

\* The condition and the mutex are destroyed.
DestroyEnds ==
    /\ main = "destroy" /\ exits = Cardinality(Thread)
    /\ main' = "destroyed"
    /\ UNCHANGED <<pool, active, done, pc, task, notified, chain, lock, exits>>
-----------------------------------------------------------------------------
(* A thread of the pool: ngx_thread_pool_cycle *)

Goto(th, to) == pc' = [pc EXCEPT ![th] = to]

\* The rest of the locked section: wait for a task, or take the first one.
WaitOrTake(th) ==
    \/ /\ queue.first = NULL
       /\ asleep' = asleep \cup {th}
       /\ Goto(th, "cond")
       /\ UNCHANGED <<queue, task>>
    \/ /\ queue.first # NULL
       /\ task' = [task EXCEPT ![th] = queue.first]
       /\ queue' = IF next[queue.first] = NULL
                   THEN EmptyList
                   ELSE [queue EXCEPT !.first = next[queue.first]]
       /\ Goto(th, "run")
       /\ UNCHANGED asleep

\* Mutant: the counter is lowered when a task is taken without waiting only.
LockMiscounts(th) ==
    /\ pc[th] = "lock"
    /\ waiting' = IF queue.first = NULL THEN waiting ELSE waiting - 1
    /\ WaitOrTake(th)
    /\ UNCHANGED <<next, active, done, notified, mainvars>>

Lock(th) ==
    /\ pc[th] = "lock"
    /\ waiting' = waiting - 1
    /\ WaitOrTake(th)
    /\ UNCHANGED <<next, active, done, notified, mainvars>>

\* pthread_cond_wait returned, after a signal or without one.
Wake(th) ==
    /\ pc[th] = "cond" /\ th \notin asleep
    /\ WaitOrTake(th)
    /\ UNCHANGED <<next, active, waiting, done, notified, mainvars>>

Spurious(th) ==
    /\ th \in asleep
    /\ asleep' = asleep \ {th}
    /\ UNCHANGED <<next, active, queue, waiting, done, pc, task, notified,
                   mainvars>>

\* Mutant of Run: the exit handler does not tell the main thread.
RunMute(th) ==
    /\ pc[th] = "run"
    /\ IF task[th] = Exit THEN Goto(th, "exited") ELSE Goto(th, "append")
    /\ UNCHANGED <<pool, active, done, task, notified, mainvars>>

\* task->handler(): a task of a request, or the exit handler.
Run(th) ==
    /\ pc[th] = "run"
    /\ \/ /\ task[th] # Exit
          /\ Goto(th, "append")
          /\ UNCHANGED <<task, lock>>
       \/ /\ task[th] = Exit
          /\ lock' = FALSE
          /\ task' = [task EXCEPT ![th] = NULL]
          /\ Goto(th, "exited")
    /\ UNCHANGED <<pool, active, done, notified, main, chain, exits>>

\* Under ngx_thread_pool_done_lock.
Finish(th) ==
    /\ pc[th] = "append"
    /\ next' = Linked(done, task[th])
    /\ done' = Added(done, task[th])
    /\ task' = [task EXCEPT ![th] = NULL]
    /\ Goto(th, "notify")
    /\ UNCHANGED <<active, queue, waiting, asleep, notified, mainvars>>

\* Mutant of Notify: only the task that starts the list is announced, as
\* the thread sees it now.
NotifyFirst(th) ==
    /\ pc[th] = "notify"
    /\ notified' = (notified \/ done.first = done.last)
    /\ Goto(th, "lock")
    /\ UNCHANGED <<pool, active, done, task, mainvars>>

\* ngx_notify(): write() to the eventfd makes an edge.
Notify(th) ==
    /\ pc[th] = "notify"
    /\ notified' = TRUE
    /\ Goto(th, "lock")
    /\ UNCHANGED <<pool, active, done, task, mainvars>>
-----------------------------------------------------------------------------
MainLoop == Take \/ Complete \/ HandlerEnds
Destroy == DestroyPost \/ DestroyWait \/ DestroyEnds
Cycle(th) == Lock(th) \/ Wake(th) \/ Run(th) \/ Finish(th) \/ Notify(th)

Next ==
    \/ \E t \in Task : Post(t)
    \/ MainLoop \/ ExitWorker \/ Destroy
    \/ \E th \in Thread : Cycle(th) \/ Spurious(th)

Spec == Init /\ [][Next]_vars

\* The threads are scheduled, and the handlers of the tasks end; the main
\* thread keeps running its loop, or destroys the pool.
FairSpec ==
    /\ Spec
    /\ WF_vars(MainLoop) /\ WF_vars(Destroy)
    /\ \A th \in Thread : WF_vars(Cycle(th))
-----------------------------------------------------------------------------
\* The tasks met from first on, and no more than there are.
ListOf(links, first) ==
    LET walk[n \in 0 .. Cardinality(AnyTask)] ==
            IF n = 0
            THEN <<>>
            ELSE LET s == walk[n - 1]
                     t == IF s = <<>> THEN first ELSE links[s[Len(s)]]
                 IN  IF t = NULL THEN s ELSE Append(s, t)
    IN  walk[Cardinality(AnyTask)]

\* The links lead from first through the tasks of s, in this order, and end.
Chained(links, first, s) ==
    /\ first = IF s = <<>> THEN NULL ELSE s[1]
    /\ \A i \in 1 .. Len(s) :
          links[s[i]] = IF i = Len(s) THEN NULL ELSE s[i + 1]

Queued == ListOf(next, queue.first)
Done == ListOf(next, done.first)
Rest == ListOf(next, chain)

LastOf(s) == IF s = <<>> THEN NULL ELSE s[Len(s)]

ButLast(s) == SubSeq(s, 1, Len(s) - 1)

\* Where a task is.
Homes(t) ==
    {<<"thread", th>> : th \in {x \in Thread : task[x] = t}}
    \cup {<<"list", l>> : l \in {x \in {"queue", "done", "rest"} :
            t \in Range(CASE x = "queue" -> Queued
                          [] x = "done" -> Done
                          [] x = "rest" -> Rest)}}

\* The lists end, and their "last" is the end: none runs into another or into
\* itself.  A task is in one list or in the hands of one thread from its post
\* until its completion handler, and nowhere else; so that "next", which the
\* lists share, is never used by two of them.  The handler of a completed task
\* may post it while the rest of the list is still to be handled.
OnePlace ==
    /\ Chained(next, queue.first, Queued)
    /\ Chained(next, done.first, Done)
    /\ Chained(next, chain, Rest)
    /\ queue.last = LastOf(Queued) /\ done.last = LastOf(Done)
    /\ \A t \in Task :
          IF active[t] THEN \E h \in Homes(t) : Homes(t) = {h} ELSE Homes(t) = {}

\* A thread inside the loop, that has lowered waiting for its next task and
\* has not taken it.
Expecting == {th \in Thread : pc[th] = "cond"}

\* The counter that decides whether the queue is full is the length of the
\* queue less the threads that wait for a task ("the number may become
\* negative"), and the queue never holds more than max_queue tasks more than
\* there are threads.
WaitingExact ==
    /\ waiting = Len(Queued) - Cardinality(Expecting)
    /\ Len(Queued) <= MAX_QUEUE + Cardinality(Expecting)

\* A thread that a post, or nothing, has woken and that has not yet taken the
\* mutex again.
Woken == Expecting \ asleep

\* No task waits for a busy thread while another thread sleeps: while some
\* thread is asleep, the tasks in the queue are no more than the threads
\* already woken.  A post wakes a thread even if the queue was not empty.
NoSleepOverQueue ==
    asleep # {} => Len(Queued) <= Cardinality(Woken)

\* When the condition and the mutex are destroyed no thread will use them
\* again, and no task is left behind in the queue.
DestroyedQuietly ==
    main = "destroyed" =>
        /\ \A th \in Thread : pc[th] = "exited"
        /\ queue.first = NULL

\* The queue without the exit task, which is the last one posted.
Stripped == IF LastOf(Queued) = Exit THEN ButLast(Queued) ELSE Queued

Service == INSTANCE TaskService WITH
    THREADS <- Cardinality(Thread),
    LIMIT <- MAX_QUEUE + Cardinality(Thread),
    fifo <- Stripped,
    running <- {task[th] : th \in Thread} \ {NULL, Exit},
    finished <- Range(Done) \cup Range(Rest)

\* The pool is such a service: tasks start in the order of their posts, run
\* once and are completed once.
ImplementsService == Service!Spec

\* Every task that was posted is completed, unless the worker exits first.
Completed ==
    \A t \in Task :
        active[t] ~> ~active[t] \/ main \notin {"loop", "handler"}

\* The destruction of the pool ends, with all threads gone or with the pool
\* left in place because its queue was full.
Destroyed == main = "destroy" ~> main \in {"destroyed", "failed"}
=============================================================================
