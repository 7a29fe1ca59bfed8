---------------------------- MODULE TaskService ----------------------------
(***************************************************************************)
(* What a thread pool promises: a submitted task is run once, after those  *)
(* submitted before it were started, by one of THREADS threads, and its    *)
(* completion is then delivered once.  The queue is bounded.               *)
(***************************************************************************)
EXTENDS Naturals, Sequences, FiniteSets

CONSTANTS Task, THREADS, LIMIT

VARIABLES
    fifo,      \* the tasks not yet started, in the order of submission
    running,   \* the tasks being run
    finished   \* the tasks run, whose completion is not yet delivered

avars == <<fifo, running, finished>>

Queued == {fifo[i] : i \in DOMAIN fifo}

Init == fifo = <<>> /\ running = {} /\ finished = {}

Submit(t) ==
    /\ t \notin Queued \cup running \cup finished
    /\ Len(fifo) < LIMIT
    /\ fifo' = Append(fifo, t)
    /\ UNCHANGED <<running, finished>>

Start ==
    /\ fifo # <<>>
    /\ Cardinality(running) < THREADS
    /\ running' = running \cup {Head(fifo)}
    /\ fifo' = Tail(fifo)
    /\ UNCHANGED finished

Finish(t) ==
    /\ t \in running
    /\ running' = running \ {t}
    /\ finished' = finished \cup {t}
    /\ UNCHANGED fifo

Deliver(t) ==
    /\ t \in finished
    /\ finished' = finished \ {t}
    /\ UNCHANGED <<fifo, running>>

Next == Start \/ \E t \in Task : Submit(t) \/ Finish(t) \/ Deliver(t)

Spec == Init /\ [][Next]_avars
=============================================================================
