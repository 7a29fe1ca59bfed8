----------------------------- MODULE NgxEvents -----------------------------
(***************************************************************************)
(* The connections of one worker and the delivery of their events:         *)
(* core/ngx_connection.c, the loop of event/ngx_event.c over               *)
(* event/modules/ngx_epoll_module.c, and the posted events.  A batch of    *)
(* events that epoll_wait returned is handled one by one; a handler may    *)
(* close any connection, its own included, and get a connection for a new  *)
(* socket, which takes the slot that was freed last.  The instance bit     *)
(* tells the events of the old socket from those of the new one.           *)
(*                                                                         *)
(* A descriptor is an identity here, not a number: one that the batch      *)
(* still mentions is not used again, so that events keep naming the socket *)
(* they are about.  What handlers do to the data is left out; when, and in *)
(* which order, they call the operations below is open.                    *)
(***************************************************************************)
EXTENDS Integers, Sequences, FiniteSetsExt, Functions

CONSTANTS
    CONNECTIONS,  \* cycle->connection_n
    Sock,      \* sockets
    LISTEN,    \* the listening socket
    NONE,      \* no socket: fd -1
    BATCH      \* nevents

ASSUME EventsAssumption ==
    /\ CONNECTIONS \in Nat \ {0}
    /\ IsFiniteSet(Sock) /\ LISTEN \in Sock
    /\ NONE \notin Sock
    /\ BATCH \in Nat \ {0}

\* cycle->connections
Conn == 1 .. CONNECTIONS

VARIABLES
    free,      \* cycle->free_connections, a list through c->data
    fd,        \* c->fd
    instance,  \* c->read->instance, the same as c->write->instance
    active,    \* c->read->active and c->write->active
    ptr,       \* data.ptr in epoll: the connection and the instance
    batch,     \* the events of event_list not yet handled
    post,      \* flags & NGX_POST_EVENTS: the worker has the accept mutex
    posted,    \* the posted events as a set, each with the socket it is for
    timer,     \* the socket for which c->read has its timer set
    reusable,  \* cycle->reusable_connections_queue, the head first
    pc,        \* where the loop is
    reused     \* history: gets of a slot since epoll_wait returned, up to 2

vars == <<free, fd, instance, active, ptr, batch, post, posted, timer, reusable,
          pc, reused>>
conns == <<free, fd, instance, active, ptr, timer, reusable, reused>>

Open == {c \in Conn : fd[c] # NONE}

\* Inside a handler.
Handling == {"in", "out", "accept", "timer", "post"}

\* ngx_event_process_init: the listening socket takes the first slot.
Init ==
    /\ free = [i \in 1 .. CONNECTIONS - 1 |-> i + 1]
    /\ fd = [c \in Conn |-> IF c = 1 THEN LISTEN ELSE NONE]
    /\ instance = [c \in Conn |-> c # 1]
    /\ active = [c \in Conn |-> c = 1]
    /\ ptr = [s \in Sock |-> IF s = LISTEN THEN <<1, FALSE>> ELSE NONE]
    /\ batch = <<>> /\ post = FALSE /\ posted = {} /\ reusable = <<>>
    /\ timer = [c \in Conn |-> NONE]
    /\ pc = "wait"
    /\ reused = [c \in Conn |-> 0]
-----------------------------------------------------------------------------
(* Connections *)

\* ngx_queue_remove, if c is in the queue.
Without(seq, c) ==
    IF c \in Range(seq)
    THEN LET i == CHOOSE k \in DOMAIN seq : seq[k] = c
         IN  SubSeq(seq, 1, i - 1) \o SubSeq(seq, i + 1, Len(seq))
    ELSE seq

\* A queue walked from its last element.
Reverse(seq) == [i \in 1 .. Len(seq) |-> seq[Len(seq) - i + 1]]

\* Mutant: the events of the connection stay posted.
ClosingKeepsPosted(S) ==
    /\ active' = [c \in Conn |-> active[c] /\ c \notin S]
    /\ ptr' = [s \in Sock |-> IF \E c \in S : fd[c] = s THEN NONE ELSE ptr[s]]
    /\ timer' = [c \in Conn |-> IF c \in S THEN NONE ELSE timer[c]]
    /\ UNCHANGED posted

\* What ngx_close_connection does to the connections S besides their
\* descriptors: timers, epoll (which forgets a closed descriptor by itself),
\* posted events.
Closing(S) ==
    /\ active' = [c \in Conn |-> active[c] /\ c \notin S]
    /\ ptr' = [s \in Sock |-> IF \E c \in S : fd[c] = s THEN NONE ELSE ptr[s]]
    /\ timer' = [c \in Conn |-> IF c \in S THEN NONE ELSE timer[c]]
    /\ posted' = {e \in posted : e[1] \notin S}

\* Mutant: a connection that is closed already is closed again.
CloseAgain(c) ==
    /\ pc \in Handling
    /\ fd[c] # LISTEN
    /\ Len(free) <= Cardinality(Conn)
    /\ Closing({c})
    /\ reusable' = Without(reusable, c)
    /\ fd' = [fd EXCEPT ![c] = NONE]
    /\ free' = <<c>> \o free
    /\ UNCHANGED <<instance, batch, post, pc, reused>>

\* ngx_close_connection; the listening socket stays open.
Close(c) ==
    /\ pc \in Handling
    /\ fd[c] \notin {NONE, LISTEN}
    /\ Closing({c})
    /\ reusable' = Without(reusable, c)
    /\ fd' = [fd EXCEPT ![c] = NONE]
    /\ free' = <<c>> \o free
    /\ UNCHANGED <<instance, batch, post, pc, reused>>

\* ngx_drain_connections: the oldest reusable connections, which are closed
\* by their own handlers, in the order in which they are closed.
Drained ==
    LET n == Max({Min({32, Len(reusable) \div 8}), 1})
    IN  SubSeq(Reverse(reusable), 1, Min({n, Len(reusable)}))

\* The socket is not open and no event still to be handled names it.
Fresh(s) ==
    /\ \A c \in Conn : fd[c] # s
    /\ \A i \in DOMAIN batch : batch[i].sock # s

\* Mutant: the instance of a slot that was just freed is kept.
OtherNever(b) == b

\* rev->instance = !instance
Other(b) == ~b

\* ngx_get_connection, for an accepted or connecting socket.  If no slot is
\* free the oldest reusable connections are closed; without any the caller
\* closes the socket.
Get(s) ==
    /\ pc \in Handling
    /\ Fresh(s)
    /\ LET closed == IF free = <<>> THEN Drained ELSE <<>>
           list == Reverse(closed) \o free
           c == Head(list)
       IN  /\ list # <<>>
           /\ Closing(Range(closed))
           /\ reusable' = SubSeq(reusable, 1, Len(reusable) - Len(closed))
           /\ free' = Tail(list)
           /\ fd' = [d \in Conn |-> IF d = c THEN s
                                    ELSE IF d \in Range(closed) THEN NONE
                                    ELSE fd[d]]
           /\ instance' = [instance EXCEPT ![c] = Other(@)]
           /\ reused' = [reused EXCEPT ![c] = Min({@ + 1, 2})]
    /\ UNCHANGED <<batch, post, pc>>

\* Mutant: epoll is given the instance of the slot's last use.
AddEventOld(c) ==
    /\ pc \in Handling
    /\ fd[c] # NONE /\ ~active[c]
    /\ active' = [active EXCEPT ![c] = TRUE]
    /\ ptr' = [ptr EXCEPT ![fd[c]] = <<c, ~instance[c]>>]
    /\ UNCHANGED <<free, fd, instance, batch, post, posted, timer, reusable,
                   pc, reused>>

\* ngx_handle_read_event and ngx_epoll_add_event, or ngx_epoll_add_connection.
AddEvent(c) ==
    /\ pc \in Handling
    /\ fd[c] # NONE /\ ~active[c]
    /\ active' = [active EXCEPT ![c] = TRUE]
    /\ ptr' = [ptr EXCEPT ![fd[c]] = <<c, instance[c]>>]
    /\ UNCHANGED <<free, fd, instance, batch, post, posted, timer, reusable,
                   pc, reused>>

\* ngx_add_timer
AddTimer(c) ==
    /\ pc \in Handling
    /\ fd[c] \notin {NONE, LISTEN} /\ timer[c] = NONE
    /\ timer' = [timer EXCEPT ![c] = fd[c]]
    /\ UNCHANGED <<free, fd, instance, active, ptr, batch, post, posted, reusable,
                   pc, reused>>

\* Mutant: a connection that is reusable already is queued again.
ReusableTwice(c, b) ==
    /\ pc \in Handling
    /\ fd[c] \notin {NONE, LISTEN}
    /\ Len(reusable) < Cardinality(Conn)
    /\ reusable' = IF b THEN <<c>> \o reusable ELSE Without(reusable, c)
    /\ UNCHANGED <<free, fd, instance, active, ptr, batch, post, posted, timer, pc,
                   reused>>

\* ngx_reusable_connection
Reusable(c, b) ==
    /\ pc \in Handling
    /\ fd[c] \notin {NONE, LISTEN}
    /\ reusable' = (IF b THEN <<c>> ELSE <<>>) \o Without(reusable, c)
    /\ UNCHANGED <<free, fd, instance, active, ptr, batch, post, posted, timer, pc,
                   reused>>

\* ngx_post_event for the read or the write event of c; posted once only.
Post(c, k) == posted' = posted \cup {<<c, k, fd[c]>>}

\* A handler posts an event of a client's connection; only the read event is
\* chosen, since a write event fares alike.
PostEvent(c) ==
    /\ pc \in Handling
    /\ fd[c] \notin {NONE, LISTEN}
    /\ Post(c, "in")
    /\ UNCHANGED <<conns, batch, post, pc>>
-----------------------------------------------------------------------------
(* ngx_process_events_and_timers and ngx_epoll_process_events *)

\* epoll_wait returns events of registered sockets, in some order.  Whether
\* they are posted is decided before, by trying for the accept mutex.
EpollWait ==
    /\ pc = "wait"
    /\ post' \in BOOLEAN
    /\ \E n \in 0 .. BATCH :
        \E order \in Injection(1 .. n, {s \in Sock : ptr[s] # NONE}),
           what \in [1 .. n -> {{"in"}, {"out"}, {"in", "out"}}] :
            /\ \A i \in 1 .. n : order[i] = LISTEN => what[i] = {"in"}
            /\ batch' = [i \in 1 .. n |->
                    [conn |-> ptr[order[i]][1], inst |-> ptr[order[i]][2],
                     sock |-> order[i], what |-> what[i]]]
    /\ reused' = [c \in Conn |-> 0]
    /\ pc' = "next"
    /\ UNCHANGED <<free, fd, instance, active, ptr, posted, timer, reusable>>

\* "the stale event from a file descriptor that was just closed in this
\* iteration"
Stale(e) == fd[e.conn] = NONE \/ instance[e.conn] # e.inst

Skip ==
    /\ pc = "next" /\ batch # <<>>
    /\ Stale(Head(batch))
    /\ batch' = Tail(batch)
    /\ UNCHANGED <<conns, post, posted, pc>>

\* The read event is posted, or its handler is called.
Read ==
    /\ pc = "next" /\ batch # <<>>
    /\ LET e == Head(batch)
       IN  /\ ~Stale(e)
           /\ \/ /\ "in" \in e.what /\ active[e.conn] /\ post
                 /\ pc' = "write"
                 /\ Post(e.conn, "in")
              \/ /\ "in" \in e.what /\ active[e.conn] /\ ~post
                 /\ pc' = "in"
                 /\ UNCHANGED posted
              \/ /\ "in" \notin e.what \/ ~active[e.conn]
                 /\ pc' = "write"
                 /\ UNCHANGED posted
    /\ UNCHANGED <<conns, batch, post>>

\* The write event; the read handler may have closed the connection.
Write ==
    /\ pc = "write"
    /\ LET e == Head(batch)
           due == "out" \in e.what /\ active[e.conn] /\ ~Stale(e)
       IN  \/ due /\ post /\ Post(e.conn, "out") /\ pc' = "next"
           \/ due /\ ~post /\ pc' = "out" /\ UNCHANGED posted
           \/ ~due /\ pc' = "next" /\ UNCHANGED posted
    /\ batch' = Tail(batch)
    /\ UNCHANGED <<conns, post>>

\* The accept event, posted to a queue of its own, is handled first, then the
\* timers.
BatchEnds ==
    /\ pc = "next" /\ batch = <<>>
    /\ LET accept == {e \in posted : e[3] = LISTEN}
       IN  /\ posted' = posted \ accept
           /\ pc' = IF accept # {} THEN "accept" ELSE "timers"
    /\ post' = FALSE
    /\ UNCHANGED <<conns, batch>>

\* ngx_event_expire_timers
Expire(c) ==
    /\ pc = "timers" /\ timer[c] # NONE
    /\ timer' = [timer EXCEPT ![c] = NONE]
    /\ pc' = "timer"
    /\ UNCHANGED <<free, fd, instance, active, ptr, batch, post, posted, reusable,
                   reused>>

TimersEnd ==
    /\ pc = "timers"
    /\ pc' = "posted"
    /\ UNCHANGED <<conns, batch, post, posted>>

\* ngx_event_process_posted
Posted ==
    /\ pc = "posted"
    /\ \/ \E e \in posted : posted' = posted \ {e} /\ pc' = "post"
       \/ posted = {} /\ UNCHANGED posted /\ pc' = "wait"
    /\ UNCHANGED <<conns, batch, post>>

\* A handler returns to where it was called from.
Return ==
    /\ \/ pc = "in" /\ pc' = "write"
       \/ pc = "out" /\ pc' = "next"
       \/ pc \in {"accept", "timer"} /\ pc' = "timers"
       \/ pc = "post" /\ pc' = "posted"
    /\ UNCHANGED <<conns, batch, post, posted>>
-----------------------------------------------------------------------------
Handler ==
    \/ \E s \in Sock : Get(s)
    \/ \E c \in Conn :
        \/ Close(c) \/ AddEvent(c) \/ AddTimer(c) \/ PostEvent(c)
        \/ \E b \in BOOLEAN : Reusable(c, b)

Loop ==
    \/ EpollWait \/ Skip \/ Read \/ Write \/ BatchEnds \/ TimersEnd \/ Posted
    \/ Return
    \/ \E c \in Conn : Expire(c)

Next == Handler \/ Loop

Spec == Init /\ [][Next]_vars
-----------------------------------------------------------------------------
\* A slot is free exactly when it has no socket, and is in the list once:
\* nothing is freed twice, and nothing leaks, also when slots are freed by
\* the very call that needs one.
FreeExact == IsInjective(free) /\ Range(free) = Conn \ Open

\* Only open connections wait to be reused, each once, so that closing one
\* always gives a slot.
ReusableOpen == IsInjective(reusable) /\ Range(reusable) \subseteq Open

\* A posted event, and a timer, is about the socket that the connection has
\* now: closing a connection leaves nothing behind that would reach the next
\* user of its slot.
NothingLeftBehind ==
    /\ \A e \in posted : fd[e[1]] = e[3]
    /\ \A c \in Conn : timer[c] # NONE => fd[c] = timer[c]

\* An event that passes the test for stale events is about the socket that
\* the connection has now, if the slot was used again at most once since
\* epoll_wait returned.  (The bit cannot tell a second reuse.)
NoMisdelivery ==
    \A i \in DOMAIN batch :
        LET e == batch[i]
        IN  ~Stale(e) /\ reused[e.conn] <= 1 => fd[e.conn] = e.sock

\* No event of a socket that is still open is taken for a stale one: epoll
\* is edge-triggered and would not report it again.
NoLostEvent ==
    \A i \in DOMAIN batch :
        LET e == batch[i]
        IN  e.sock \in {fd[c] : c \in Conn} => fd[e.conn] = e.sock /\ ~Stale(e)
=============================================================================
