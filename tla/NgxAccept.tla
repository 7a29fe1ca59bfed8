----------------------------- MODULE NgxAccept ------------------------------
(***************************************************************************)
(* How the workers share the listening sockets (event/ngx_event_accept.c   *)
(* and the loop of event/ngx_event.c): with accept_mutex only the worker   *)
(* that gets the mutex for its round listens on the shared sockets, a      *)
(* worker short of connections does not try for it, and one out of file    *)
(* descriptors stops listening for a while.  The mutex is used through the *)
(* contract of Mutex, which NgxShmtx implements: one owner, released by    *)
(* itself, or by the master once it is dead.                               *)
(*                                                                         *)
(* Listening sockets are level-triggered.  A client leaves some time after *)
(* it was accepted; before that its timer wakes the worker.  Nothing else  *)
(* does: timer_resolution is not set, and the worker has no other events.  *)
(* Errors of epoll_ctl and of accept() other than EMFILE, ENFILE and       *)
(* EAGAIN are left out.                                                    *)
(***************************************************************************)
EXTENDS Integers, FiniteSets

CONSTANTS
    Worker,
    Shared,         \* the listening sockets that all workers have
    Nobody,         \* the mutex is free
    OWN,            \* each worker has a reuseport socket of its own as well
    MULTI,          \* multi_accept
    CONN,           \* connection_n
    RESERVED,       \* connections the worker uses for other things, such as
                    \* its channel and idle connections to upstream servers
    FILES,          \* at so many clients the worker is out of descriptors
    ENFILE,         \* the whole system may be out of files, too
    MAX_PENDING,    \* bound on a socket's queue of connections
    MAX_KILLS       \* bound on the workers killed

ASSUME AcceptAssumption ==
    /\ IsFiniteSet(Shared)
    /\ Nobody \notin Worker
    /\ OWN \in BOOLEAN /\ MULTI \in BOOLEAN
    /\ CONN \in Nat /\ RESERVED \in Nat
    /\ FILES \in Nat /\ ENFILE \in BOOLEAN
    /\ MAX_PENDING \in Nat /\ MAX_KILLS \in Nat
    /\ Shared \cap Worker = {}

\* ls[i].worker == ngx_worker: the reuseport socket of a worker is named as
\* the worker.
Sockets(w) == IF OWN THEN Shared \cup {w} ELSE Shared

VARIABLES
    mutex,      \* ngx_use_accept_mutex, from the configuration
    pending,    \* connections the kernel has queued for a socket
    owner,      \* ngx_accept_mutex
    pc,         \* where w is in its round; "dead" until it is respawned
    held,       \* ngx_accept_mutex_held
    disabled,   \* ngx_accept_disabled
    active,     \* the sockets whose accept events are enabled
    ready,      \* accept events of this round not yet handled
    open,       \* connections accepted and not closed
    timer,      \* the socket whose event has the timer of the EMFILE case
    skipped,    \* w did not try for the mutex in this round
    kills

vars == <<mutex, pending, owner, pc, held, disabled, active, ready, open, timer,
          skipped, kills>>

TypeOK ==
    /\ mutex \in BOOLEAN
    /\ pending \in [Shared \cup Worker -> 0 .. MAX_PENDING]
    /\ owner \in Worker \cup {Nobody}
    /\ pc \in [Worker -> {"top", "wait", "handle", "dead"}]
    /\ held \in [Worker -> BOOLEAN]
    /\ disabled \in [Worker -> Int]
    /\ active \in [Worker -> SUBSET (Shared \cup Worker)]
    /\ ready \in [Worker -> SUBSET (Shared \cup Worker)]
    /\ \A w \in Worker : active[w] \cup ready[w] \subseteq Shared \cup {w}
    /\ open \in [Worker -> 0 .. FILES]
    /\ timer \in [Worker -> SUBSET (Shared \cup Worker)]
    /\ skipped \in [Worker -> BOOLEAN]
    /\ kills \in 0 .. MAX_KILLS

\* ngx_event_process_init: a socket that is not shared is enabled at once.
FirstActive(w) == IF mutex THEN Sockets(w) \ Shared ELSE Sockets(w)

Init ==
    /\ mutex \in BOOLEAN
    /\ pending = [l \in Shared \cup Worker |-> 0]
    /\ owner = Nobody
    /\ pc = [w \in Worker |-> "top"]
    /\ held = [w \in Worker |-> FALSE]
    /\ disabled = [w \in Worker |-> 0]
    /\ active = [w \in Worker |-> FirstActive(w)]
    /\ ready = [w \in Worker |-> {}]
    /\ open = [w \in Worker |-> 0]
    /\ timer = [w \in Worker |-> {}]
    /\ skipped = [w \in Worker |-> FALSE]
    /\ kills = 0

Goto(w, to) == pc' = [pc EXCEPT ![w] = to]
-----------------------------------------------------------------------------
(* ngx_process_events_and_timers *)

\* Without accept_mutex, or while accept_disabled counts down.
Skip(w) ==
    /\ pc[w] = "top"
    /\ ~mutex \/ disabled[w] > 0
    /\ disabled' = [disabled EXCEPT ![w] = IF mutex THEN @ - 1 ELSE @]
    /\ skipped' = [skipped EXCEPT ![w] = TRUE]
    /\ Goto(w, "wait")
    /\ UNCHANGED <<mutex, pending, owner, held, active, ready, open, timer,
                   kills>>

\* ngx_trylock_accept_mutex, got: listening goes on where it never stopped.
Locked(w) ==
    /\ pc[w] = "top"
    /\ mutex /\ disabled[w] <= 0
    /\ owner = Nobody
    /\ owner' = w
    /\ active' = IF held[w] THEN active ELSE [active EXCEPT ![w] = Sockets(w)]
    /\ held' = [held EXCEPT ![w] = TRUE]
    /\ skipped' = [skipped EXCEPT ![w] = FALSE]
    /\ Goto(w, "wait")
    /\ UNCHANGED <<mutex, pending, disabled, ready, open, timer, kills>>

\* Mutant: a worker whose turn is over goes on listening.
LostKeepsListening(w) ==
    /\ pc[w] = "top"
    /\ mutex /\ disabled[w] <= 0
    /\ owner # Nobody
    /\ held' = [held EXCEPT ![w] = FALSE]
    /\ skipped' = [skipped EXCEPT ![w] = FALSE]
    /\ Goto(w, "wait")
    /\ UNCHANGED <<mutex, pending, owner, active, disabled, ready, open, timer,
                   kills>>

\* Not got: a worker that listened in its last round stops, except on its own
\* socket.
Lost(w) ==
    /\ pc[w] = "top"
    /\ mutex /\ disabled[w] <= 0
    /\ owner # Nobody
    /\ active' = IF held[w] THEN [active EXCEPT ![w] = @ \ Shared] ELSE active
    /\ held' = [held EXCEPT ![w] = FALSE]
    /\ skipped' = [skipped EXCEPT ![w] = FALSE]
    /\ Goto(w, "wait")
    /\ UNCHANGED <<mutex, pending, owner, disabled, ready, open, timer, kills>>

\* ngx_process_events returns: accept events, timers of clients or of the
\* EMFILE case, or, without the mutex, accept_mutex_delay.
Wakes(w) ==
    \/ \E l \in active[w] : pending[l] > 0
    \/ open[w] > 0
    \/ timer[w] # {}
    \/ mutex /\ ~held[w] /\ ~skipped[w]

Wait(w) ==
    /\ pc[w] = "wait"
    /\ Wakes(w)
    /\ ready' = [ready EXCEPT ![w] = {l \in active[w] : pending[l] > 0}]
    /\ Goto(w, "handle")
    /\ UNCHANGED <<mutex, pending, owner, held, disabled, active, open, timer,
                   skipped, kills>>

\* A client leaves, and any number of them may in one round.  The events of
\* clients come after the accept events in a round with the mutex, whose
\* unlock in between they cannot see; in other rounds they come in any order.
Leave(w) ==
    /\ pc[w] = "handle" /\ open[w] > 0
    /\ held[w] /\ ~skipped[w] => ready[w] = {}
    /\ open' = [open EXCEPT ![w] = @ - 1]
    /\ UNCHANGED <<mutex, pending, owner, pc, held, disabled, active, ready,
                   timer, skipped, kills>>

\* The end of the round.  The unlock of a worker that does not own the mutex
\* finds another pid and does nothing.
End(w) ==
    /\ pc[w] = "handle" /\ ready[w] = {}
    /\ owner' = IF held[w] /\ owner = w THEN Nobody ELSE owner
    /\ Goto(w, "top")
    /\ UNCHANGED <<mutex, pending, held, disabled, active, ready, open, timer,
                   skipped, kills>>
-----------------------------------------------------------------------------
(* ngx_event_accept *)

\* accept() returned EAGAIN: another worker was faster.
AcceptAgain(w, l) ==
    /\ pc[w] = "handle" /\ l \in ready[w]
    /\ pending[l] = 0
    /\ ready' = [ready EXCEPT ![w] = @ \ {l}]
    /\ UNCHANGED <<mutex, pending, owner, pc, held, disabled, active, open,
                   timer, skipped, kills>>

FreeConnections(w) == CONN - Cardinality(Sockets(w)) - RESERVED - open[w]

\* accept() fails with EMFILE, or with ENFILE.
OutOfFiles(w) == open[w] >= FILES \/ ENFILE

\* A connection; without a free slot it is closed, or takes the place of a
\* reusable one.
Accept(w, l) ==
    /\ pc[w] = "handle" /\ l \in ready[w]
    /\ pending[l] > 0
    /\ open[w] < FILES
    /\ pending' = [pending EXCEPT ![l] = @ - 1]
    /\ disabled' = [disabled EXCEPT ![w] = CONN \div 8 - FreeConnections(w)]
    /\ \/ /\ FreeConnections(w) > 0
          /\ open' = [open EXCEPT ![w] = @ + 1]
          /\ ready' = IF MULTI THEN ready ELSE [ready EXCEPT ![w] = @ \ {l}]
       \/ /\ FreeConnections(w) = 0
          /\ ready' = [ready EXCEPT ![w] = @ \ {l}]
          /\ UNCHANGED open
    /\ UNCHANGED <<mutex, owner, pc, held, active, timer, skipped, kills>>

\* Mutants: the mutex is kept; ngx_accept_mutex_held is not cleared.
TooManyFilesKeeps(w, l) ==
    /\ pc[w] = "handle" /\ l \in ready[w]
    /\ pending[l] > 0
    /\ OutOfFiles(w)
    /\ active' = [active EXCEPT ![w] = {}]
    /\ held' = [held EXCEPT ![w] = FALSE]
    /\ disabled' = [disabled EXCEPT ![w] = 1]
    /\ ready' = [ready EXCEPT ![w] = @ \ {l}]
    /\ UNCHANGED <<mutex, owner, pending, pc, open, timer, skipped, kills>>
TooManyFilesHeld(w, l) ==
    /\ pc[w] = "handle" /\ l \in ready[w]
    /\ pending[l] > 0
    /\ OutOfFiles(w)
    /\ active' = [active EXCEPT ![w] = {}]
    /\ owner' = IF owner = w THEN Nobody ELSE owner
    /\ disabled' = [disabled EXCEPT ![w] = 1]
    /\ ready' = [ready EXCEPT ![w] = @ \ {l}]
    /\ UNCHANGED <<mutex, held, pending, pc, open, timer, skipped, kills>>

\* All accept events are disabled, and the turn, if any, is given up.
TooManyFiles(w, l) ==
    /\ pc[w] = "handle" /\ l \in ready[w]
    /\ pending[l] > 0
    /\ OutOfFiles(w)
    /\ active' = [active EXCEPT ![w] = {}]
    /\ \/ /\ mutex
          /\ owner' = IF held[w] /\ owner = w THEN Nobody ELSE owner
          /\ held' = [held EXCEPT ![w] = FALSE]
          /\ disabled' = [disabled EXCEPT ![w] = 1]
          /\ UNCHANGED timer
       \/ /\ ~mutex
          /\ timer' = [timer EXCEPT ![w] = @ \cup {l}]
          /\ UNCHANGED <<owner, held, disabled>>
    /\ ready' = [ready EXCEPT ![w] = @ \ {l}]
    /\ UNCHANGED <<mutex, pending, pc, open, skipped, kills>>

\* The timer: the handler enables all sockets and tries to accept.
Timeout(w, l) ==
    /\ pc[w] = "handle" /\ l \in timer[w]
    /\ timer' = [timer EXCEPT ![w] = @ \ {l}]
    /\ active' = [active EXCEPT ![w] = Sockets(w)]
    /\ ready' = [ready EXCEPT ![w] = @ \cup {l}]
    /\ UNCHANGED <<mutex, pending, owner, pc, held, disabled, open, skipped,
                   kills>>
-----------------------------------------------------------------------------
(* Clients, and the master *)

Arrive(l) ==
    /\ pending[l] < MAX_PENDING
    /\ pending' = [pending EXCEPT ![l] = @ + 1]
    /\ UNCHANGED <<mutex, owner, pc, held, disabled, active, ready, open,
                   timer, skipped, kills>>

Kill(w) ==
    /\ pc[w] # "dead" /\ kills < MAX_KILLS
    /\ kills' = kills + 1
    /\ Goto(w, "dead")
    /\ UNCHANGED <<mutex, pending, owner, held, disabled, active, ready, open,
                   timer, skipped>>

\* Mutant: the mutex of the dead worker stays locked.
RespawnForgets(w) ==
    /\ pc[w] = "dead"
    /\ Goto(w, "top")
    /\ held' = [held EXCEPT ![w] = FALSE]
    /\ disabled' = [disabled EXCEPT ![w] = 0]
    /\ active' = [active EXCEPT ![w] = FirstActive(w)]
    /\ ready' = [ready EXCEPT ![w] = {}]
    /\ open' = [open EXCEPT ![w] = 0]
    /\ timer' = [timer EXCEPT ![w] = {}]
    /\ skipped' = [skipped EXCEPT ![w] = FALSE]
    /\ UNCHANGED <<mutex, pending, owner, kills>>

\* The master reaps the worker, which frees its mutex, and starts another in
\* its place.
Respawn(w) ==
    /\ pc[w] = "dead"
    /\ owner' = IF owner = w THEN Nobody ELSE owner
    /\ Goto(w, "top")
    /\ held' = [held EXCEPT ![w] = FALSE]
    /\ disabled' = [disabled EXCEPT ![w] = 0]
    /\ active' = [active EXCEPT ![w] = FirstActive(w)]
    /\ ready' = [ready EXCEPT ![w] = {}]
    /\ open' = [open EXCEPT ![w] = 0]
    /\ timer' = [timer EXCEPT ![w] = {}]
    /\ skipped' = [skipped EXCEPT ![w] = FALSE]
    /\ UNCHANGED <<mutex, pending, kills>>
-----------------------------------------------------------------------------
Round(w) == Skip(w) \/ Locked(w) \/ Lost(w) \/ Wait(w)

Handle(w) ==
    \E l \in Sockets(w) : \/ AcceptAgain(w, l) \/ Accept(w, l)
                          \/ TooManyFiles(w, l) \/ Timeout(w, l)

Next ==
    \/ \E w \in Worker : \/ Round(w) \/ Handle(w) \/ Leave(w) \/ End(w)
                         \/ Kill(w) \/ Respawn(w)
    \/ \E l \in Shared \cup (IF OWN THEN Worker ELSE {}) : Arrive(l)

Spec == Init /\ [][Next]_vars

\* The workers run, clients leave and timers expire some time, the system is
\* not out of files at every attempt, and the master respawns.
FairSpec ==
    /\ Spec
    /\ \A w \in Worker :
        /\ WF_vars(Round(w) \/ Handle(w) \/ End(w))
        /\ SF_vars(Leave(w))
        /\ SF_vars(\E l \in Sockets(w) : Timeout(w, l))
        /\ SF_vars(\E l \in Sockets(w) : Accept(w, l))
        /\ WF_vars(Respawn(w))
-----------------------------------------------------------------------------
\* The mutex is owned only from the start of a round to its end, or by a dead
\* worker until the master sees to it: no path through accept leaves it
\* locked by a worker that is not about to unlock it.
OwnedInRound ==
    \A w \in Worker : owner = w =>
        pc[w] = "dead" \/ (pc[w] \in {"wait", "handle"} /\ held[w])

\* The worker with the mutex listens on all shared sockets while it waits:
\* nobody keeps the others from accepting without accepting itself.
HolderListens ==
    \A w \in Worker : owner = w /\ pc[w] = "wait" => Shared \subseteq active[w]

\* Among the workers that wait, only the owner of the mutex listens on shared
\* sockets, apart from those that did not try for it in this round because
\* they are short of connections, and listen on if they did before.
OneListener ==
    mutex => \A w \in Worker :
        pc[w] = "wait" /\ ~skipped[w] /\ active[w] \cap Shared # {} => owner = w

\* What these follow from, with the type invariant: where w stopped listening
\* it does not think that it holds the mutex, and conversely, and from one
\* round to the next only a round that is skipped keeps the two apart.
HeldListens ==
    \A w \in Worker :
        /\ held[w] => mutex /\ Shared \subseteq active[w]
        /\ mutex /\ ~held[w] => active[w] \cap Shared = {}
        /\ held[w] /\ pc[w] = "wait" /\ ~skipped[w] => owner = w
        /\ mutex => timer[w] = {}

IInv == TypeOK /\ OwnedInRound /\ HeldListens

\* After EMFILE or ENFILE with accept_mutex a worker does not listen, and it
\* skips its next round without the limit of accept_mutex_delay.  When all of
\* its clients left before that, nothing wakes it again.
Stranded(w) ==
    pc[w] = "wait" /\ mutex /\ skipped[w] /\ ~held[w] /\ open[w] = 0

\* Connections that wait on a shared socket keep being accepted, although
\* workers run out of descriptors and connections and are killed with the
\* mutex, as long as not every worker is stranded after EMFILE or ENFILE
\* (TooManyFiles and the next round, Skip, of ngx_event_accept and
\* ngx_process_events_and_timers).
Accepted ==
    \A l \in Shared :
        \/ []<>(pending[l] = 0)
        \/ []<><<pending'[l] < pending[l]>>_vars
        \/ <>[](\A w \in Worker : Stranded(w))
=============================================================================
