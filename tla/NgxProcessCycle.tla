-------------------------- MODULE NgxProcessCycle --------------------------
(***************************************************************************)
(* The master process and its children (os/unix/ngx_process_cycle.c,       *)
(* ngx_process.c): start, respawn, reload, binary upgrade, graceful and    *)
(* fast shutdown.  The master blocks its signals except in sigsuspend(),   *)
(* where the handlers of all pending ones run; what it does from there to  *)
(* the next sigsuspend() is one step (Wake), since it learns of its        *)
(* children in the handlers only.                                          *)
(*                                                                         *)
(* A process stays in the slot of ngx_processes that the master gave it,   *)
(* and the slot stands for its pid: pids are not reused while a slot has   *)
(* them.  The slots from ngx_last_process on are free like the others that *)
(* nobody has.  The loops over the slots touch each slot once, so they are *)
(* functions of the slot; where they spawn processes, in the order of the  *)
(* slots, the n-th attempt is the one with n of them up to it (Rank).      *)
(*                                                                         *)
(* The master is a daemon, not itself started by an upgrade.  The channels *)
(* that the children have to each other are left out.                      *)
(***************************************************************************)
EXTENDS Integers, FiniteSetsExt

CONSTANTS
    Conf,               \* the configurations a reload can find
    NGX_MAX_PROCESSES,  \* the slots of ngx_processes
    RELOAD_IN_UPGRADE,  \* the operator may send HUP during an upgrade
    KILL_AFTER,         \* the delay beyond which TERM becomes KILL: 1000
    MAX_SIGNALS,        \* bound on the signals sent by the operator
    MAX_FAULTS          \* bound on spawns that fail, and on children that
                        \* die by themselves or hang

ASSUME CycleAssumption ==
    /\ Conf \subseteq [workers : Nat, manager : BOOLEAN, loader : BOOLEAN]
    /\ \A c \in Conf : c.loader => c.manager
    /\ NGX_MAX_PROCESSES \in Nat \ {0}
    /\ RELOAD_IN_UPGRADE \in BOOLEAN
    /\ KILL_AFTER \in Nat /\ MAX_SIGNALS \in Nat /\ MAX_FAULTS \in Nat

VARIABLES
    ngx,        \* the globals of the master, and the locals of its cycle
    raised,     \* its pending signals
    signals,    \* how many signals the operator has sent
    faults,     \* how many spawns have failed, children died or hung
    exited      \* it has exited

masterVars == <<ngx, raised, signals, faults, exited>>

INVALID_PID == -1

\* A configuration with which ngx_init_cycle fails: one that is not in Conf,
\* for there is no cache loader without a cache manager.
Broken == [workers |-> 0, manager |-> FALSE, loader |-> TRUE]
-----------------------------------------------------------------------------
(* ngx_processes, with the state of the process in the slot:              *)
(* run, shutting (ngx_exiting), hung, zombie, fatal (a zombie with exit   *)
(* code 2), gone (waited for).  "told" is the strongest command or signal *)
(* it has not yet obeyed; "old": its configuration was replaced.          *)

NoProcess ==
    [kind |-> "none", state |-> "gone", told |-> "none", old |-> FALSE,
     exiting |-> FALSE, exited |-> FALSE, detached |-> FALSE,
     respawn |-> FALSE, just_spawn |-> FALSE]

Process(k, detached, respawn, just_spawn) ==
    [NoProcess EXCEPT !.kind = k, !.state = "run", !.detached = detached,
                      !.respawn = respawn, !.just_spawn = just_spawn]

\* pid != -1
Used(p) == p.kind # "none"

Slot == 1 .. NGX_MAX_PROCESSES

FreeSlots(s) == {i \in Slot : ~Used(s.processes[i])}

\* The place of i in S, in the order of the slots.
Rank(i, S) == Cardinality({j \in S : j <= i})

\* s.fail: the attempt to spawn, from now on, that fails; 0 for none.
\* s.short: history, a process to be respawned was not spawned, or exited
\* with code 2.
After(n, fail) == IF fail > n THEN fail - n ELSE 0

\* The choices for s.fail, and whether it happened.
Failing(already) == IF already < MAX_FAULTS THEN 0 .. NGX_MAX_PROCESSES ELSE {0}
Failed(fail, s) == IF fail > 0 /\ s.fail = 0 THEN 1 ELSE 0

\* The processes that are to be respawned.
CrewOf(ccf) == ccf.workers + IF ccf.manager THEN 1 ELSE 0

\* How many processes are started, and what the n-th of them is.
Number(ccf) == CrewOf(ccf) + IF ccf.manager /\ ccf.loader THEN 1 ELSE 0

Nth(ccf, n, just) ==
    Process(CASE n <= ccf.workers -> "worker"
              [] n = ccf.workers + 1 -> "manager"
              [] OTHER -> "loader",
            FALSE, n <= CrewOf(ccf), just)

\* The attempt that takes the free slot i: ngx_spawn_process looks for the
\* first one, and takes none if it fails.
Attempt(s, i) ==
    LET r == Rank(i, FreeSlots(s)) IN IF s.fail \in 1 .. r THEN r + 1 ELSE r

\* ngx_start_worker_processes and ngx_start_cache_manager_processes: the
\* type of the processes is RESPAWN or JUST_RESPAWN, that of the cache loader
\* NORESPAWN or JUST_SPAWN.
Start(s, just) ==
    [s EXCEPT
        !.processes =
            [i \in Slot |->
                IF i \in FreeSlots(s) /\ Attempt(s, i) <= Number(s.ccf)
                THEN Nth(s.ccf, Attempt(s, i), just) ELSE s.processes[i]],
        !.fail = After(Number(s.ccf), @),
        !.short = \/ @ \/ s.fail \in 1 .. CrewOf(s.ccf)
                  \/ Cardinality(FreeSlots(s)) < CrewOf(s.ccf)]

MasterInit ==
    /\ \E c \in Conf, fail \in Failing(0) :
          \E s \in {Start([processes |-> [i \in Slot |-> NoProcess], ccf |-> c,
                           fail |-> fail, short |-> FALSE,
                           terminate |-> FALSE, quit |-> FALSE, reap |-> FALSE,
                           sigalrm |-> FALSE, todo |-> {}, new_binary |-> 0,
                           noaccepting |-> FALSE, live |-> TRUE, delay |-> 0,
                           sigio |-> 0], FALSE)} :
              /\ ngx = [s EXCEPT !.fail = 0]
              /\ faults = Failed(fail, s)
    /\ raised = {}
    /\ signals = 0
    /\ exited = FALSE
-----------------------------------------------------------------------------
(* ngx_signal_handler, for all pending signals *)

Operator == {"TERM", "QUIT", "HUP", "WINCH", "USR1", "USR2"}

Asked(s) ==
    (IF "HUP" \in raised THEN {"reconfigure"} ELSE {})
    \cup (IF "WINCH" \in raised THEN {"noaccept"} ELSE {})
    \cup (IF "USR1" \in raised THEN {"reopen"} ELSE {})
    \cup (IF "USR2" \in raised /\ s.new_binary <= 0 THEN {"change_binary"} ELSE {})

Dead(p) == p.state \in {"zombie", "fatal"}

\* What waitpid() says of a process.
Waited(p) ==
    IF Dead(p)
    THEN [p EXCEPT !.state = "gone", !.exited = TRUE,
                   !.respawn = @ /\ p.state # "fatal"]
    ELSE p

\* ngx_process_get_status: one signal may stand for several children.
GetStatus(s) ==
    [s EXCEPT !.processes = [i \in Slot |-> Waited(s.processes[i])],
              !.short = @ \/ \E i \in Slot : s.processes[i].state = "fatal"]

Handled(s) ==
    LET t == [s EXCEPT !.terminate = @ \/ "TERM" \in raised,
                       !.quit = @ \/ "QUIT" \in raised,
                       !.sigalrm = @ \/ "ALRM" \in raised,
                       !.reap = @ \/ "CHLD" \in raised,
                       !.todo = @ \cup Asked(s)]
    IN  IF "CHLD" \in raised THEN GetStatus(t) ELSE t
-----------------------------------------------------------------------------
(* ngx_reap_children *)

\* Mutant of BinaryExited: the restart is forgotten.
BinaryForgotten(s) == [s EXCEPT !.new_binary = 0, !.noaccepting = FALSE]

\* The new binary has exited: the old workers are started again if they were
\* told to go.
BinaryExited(s) ==
    [s EXCEPT !.new_binary = 0,
              !.todo = IF s.noaccepting THEN @ \cup {"restart"} ELSE @,
              !.noaccepting = FALSE]

\* The processes to be spawned again, in their slots.
ToRespawn(s) ==
    {i \in Slot : /\ Used(s.processes[i]) /\ s.processes[i].exited
                  /\ s.processes[i].respawn /\ ~s.processes[i].exiting
                  /\ ~s.terminate /\ ~s.quit}

\* One that cannot be spawned again keeps its slot, as exited.
Respawned(s) == {i \in ToRespawn(s) : Rank(i, ToRespawn(s)) # s.fail}

\* The processes that are over.
Over(s) == {i \in Slot : Used(s.processes[i]) /\ s.processes[i].exited} \ ToRespawn(s)

ReapChildren(s) ==
    [(IF s.new_binary \in Over(s) THEN BinaryExited(s) ELSE s) EXCEPT
        !.processes =
            [i \in Slot |->
                IF i \in Over(s) THEN NoProcess
                ELSE IF i \in Respawned(s)
                THEN [s.processes[i] EXCEPT !.state = "run", !.told = "none",
                                            !.old = FALSE, !.exited = FALSE]
                ELSE s.processes[i]],
        !.live =
            \/ Respawned(s) # {}
            \/ \E i \in Slot :
                  /\ Used(s.processes[i]) /\ ~s.processes[i].exited
                  /\ s.processes[i].exiting \/ ~s.processes[i].detached,
        !.fail = After(Cardinality(ToRespawn(s)), @),
        !.short = @ \/ Respawned(s) # ToRespawn(s)]

\* if (ngx_reap) live = ngx_reap_children()
Reap(s) == IF s.reap THEN ReapChildren([s EXCEPT !.reap = FALSE]) ELSE s
-----------------------------------------------------------------------------
(* ngx_signal_worker_processes *)

Addressed(p, sig) ==
    Used(p) /\ ~p.detached /\ ~p.just_spawn /\ ~(p.exiting /\ sig = "quit")

\* A process that hangs, or is dead, hears nothing but KILL.
Heard(p, sig) ==
    IF sig = "kill" THEN IF Dead(p) THEN "none" ELSE sig
    ELSE IF p.state \in {"run", "shutting"} /\ p.told # "terminate" THEN sig
    ELSE p.told

\* The command goes through the channel, or as a signal when that is full;
\* kill() fails with ESRCH for a process that was waited for.
Told(p, sig) ==
    IF p.state = "gone" THEN [p EXCEPT !.exited = TRUE, !.exiting = FALSE]
    ELSE IF sig = "reopen" THEN p
    ELSE [p EXCEPT !.exiting = TRUE, !.told = Heard(p, sig)]

\* Mutant of Signalled: a process that was just spawned stays just spawned.
SignalledNever(p, sig) == IF Addressed(p, sig) THEN Told(p, sig) ELSE p

Signalled(p, sig) ==
    IF Addressed(p, sig) THEN Told(p, sig) ELSE [p EXCEPT !.just_spawn = FALSE]

Signal(s, sig) ==
    [s EXCEPT !.processes = [i \in Slot |-> Signalled(s.processes[i], sig)],
              !.reap = @ \/ \E i \in Slot : /\ Addressed(s.processes[i], sig)
                                            /\ s.processes[i].state = "gone"]
-----------------------------------------------------------------------------
(* ngx_master_process_cycle *)

\* ngx_terminate: the signal is repeated, and becomes KILL.
Terminate(s) ==
    LET delay == IF s.delay = 0 THEN 50 ELSE s.delay
        t == [s EXCEPT !.delay = delay]
    IN  IF s.sigio > 0 THEN [t EXCEPT !.sigio = @ - 1]
        ELSE Signal([t EXCEPT !.sigio = s.ccf.workers + 2],
                    IF delay > KILL_AFTER THEN "kill" ELSE "terminate")

Done(s, flag) == [s EXCEPT !.todo = @ \ {flag}]

\* The processes of the old configuration.
Outdate(s) ==
    [s EXCEPT !.processes =
        [i \in Slot |-> [s.processes[i] EXCEPT !.old = Used(s.processes[i])]]]

\* Mutant of Reload: live is left as it was.
ReloadStale(s, c) == Signal(Start([Outdate(s) EXCEPT !.ccf = c], TRUE), "quit")

\* Reload: the processes of the old configuration are told to go.
Reload(s, c) ==
    Signal([Start([Outdate(s) EXCEPT !.ccf = c], TRUE) EXCEPT !.live = TRUE], "quit")

Restart(s) ==
    IF "restart" \notin s.todo THEN s
    ELSE [Start(Done(s, "restart"), FALSE) EXCEPT !.live = TRUE]

Reopen(s) ==
    IF "reopen" \notin s.todo THEN s ELSE Signal(Done(s, "reopen"), "reopen")

\* ngx_exec_new_binary
ChangeBinary(s) ==
    LET t == [Done(s, "change_binary") EXCEPT !.fail = After(1, @)]
        i == Min(FreeSlots(s))
    IN  IF "change_binary" \notin s.todo THEN s
        ELSE IF s.fail = 1 \/ FreeSlots(s) = {}
        THEN [t EXCEPT !.new_binary = INVALID_PID]
        ELSE [t EXCEPT !.new_binary = i,
                       !.processes[i] = Process("binary", TRUE, FALSE, FALSE)]

NoAccept(s) ==
    IF "noaccept" \notin s.todo THEN s
    ELSE Signal([Done(s, "noaccept") EXCEPT !.noaccepting = TRUE], "quit")

\* The cases of the loop, up to its continue statements; c is what
\* ngx_init_cycle finds.
Obey(s, c) ==
    LET rest(t) == NoAccept(ChangeBinary(Reopen(Restart(t))))
        t == Done(s, "reconfigure")
    IN  IF s.terminate THEN Terminate(s)
        ELSE IF s.quit THEN Signal(s, "quit")
        ELSE IF "reconfigure" \notin s.todo THEN rest(s)
        ELSE IF s.new_binary # 0
        THEN [Start(t, FALSE) EXCEPT !.noaccepting = FALSE]
        ELSE IF c = Broken THEN t ELSE rest(Reload(t, c))

\* The delay grows without bound in the code; only delay > 1000 is tested.
Longest == 2 * KILL_AFTER

\* Mutant of Timed: the delay stays as it is.
TimedConstant(s) ==
    IF s.delay > 0 /\ s.sigalrm
    THEN [s EXCEPT !.sigio = 0, !.sigalrm = FALSE] ELSE s

\* The top of the loop; the timer is set again if there is a delay.
Timed(s) ==
    IF s.delay > 0 /\ s.sigalrm
    THEN [s EXCEPT !.sigio = 0, !.sigalrm = FALSE,
                   !.delay = IF 2 * @ > Longest THEN Longest ELSE 2 * @]
    ELSE s

\* sigsuspend() returns.
Wake ==
    /\ ~exited /\ raised # {}
    /\ raised' = {}
    /\ UNCHANGED signals
    /\ \E fail \in Failing(faults),
          c \in IF "HUP" \in raised THEN Conf \cup {Broken} ELSE {ngx.ccf} :
          \E s \in {Reap(Handled([ngx EXCEPT !.fail = fail]))} :
              \/ /\ ~s.live /\ (s.terminate \/ s.quit)
                 /\ exited' = TRUE
                 /\ ngx' = [s EXCEPT !.fail = 0]
                 /\ UNCHANGED faults
              \/ /\ s.live \/ ~(s.terminate \/ s.quit)
                 /\ \E t \in {Timed(Obey(s, c))} :
                       /\ ngx' = [t EXCEPT !.fail = 0]
                       /\ faults' = faults + Failed(fail, t)
                 /\ UNCHANGED exited

\* The timer of setitimer().
Alarm ==
    /\ ~exited /\ ngx.delay > 0 /\ "ALRM" \notin raised
    /\ raised' = raised \cup {"ALRM"}
    /\ UNCHANGED <<ngx, signals, faults, exited>>

\* The operator sends a signal.  SIGIO, and what the operator sends after TERM
\* or after QUIT, only wakes the master, as SIGCHLD does too.
Send(sig) ==
    /\ ~exited /\ sig \notin raised
    /\ ~ngx.terminate /\ (ngx.quit => sig = "TERM")
    /\ signals < MAX_SIGNALS
    /\ signals' = signals + 1
    /\ sig = "HUP" /\ ngx.new_binary # 0 => RELOAD_IN_UPGRADE
    /\ raised' = raised \cup {sig}
    /\ UNCHANGED <<ngx, faults, exited>>
-----------------------------------------------------------------------------
(* The children *)

Becomes(i, state) ==
    ngx' = [ngx EXCEPT !.processes[i] = [@ EXCEPT !.state = state, !.told = "none"]]

\* The process exits: SIGCHLD.
Dies(i, state) ==
    /\ Becomes(i, state)
    /\ raised' = raised \cup {"CHLD"}
    /\ UNCHANGED <<signals, exited>>

\* It runs its event loop; what it does after the master is not modelled.
Loops(p) == ~exited /\ Used(p) /\ p.state \in {"run", "shutting"}

\* ngx_worker_process_cycle, with what ngx_channel_handler or the signal
\* handler has set.
WorkerCycle(i) ==
    LET p == ngx.processes[i]
    IN  /\ p.kind = "worker" /\ Loops(p)
        /\ \/ /\ p.told = "terminate"
              /\ Dies(i, "zombie")
           \/ /\ p.told = "quit"
              /\ Becomes(i, "shutting")
              /\ UNCHANGED <<raised, signals, exited>>
           \/ /\ p.told = "none" /\ p.state = "shutting"   \* no timers left
              /\ Dies(i, "zombie")

\* ngx_cache_manager_process_cycle; the loader exits when it has loaded.
CacheCycle(i) ==
    LET p == ngx.processes[i]
    IN  /\ p.kind \in {"manager", "loader"} /\ Loops(p)
        /\ p.told # "none" \/ p.kind = "loader"
        /\ Dies(i, "zombie")

Killed(i) ==
    /\ ~exited /\ ngx.processes[i].told = "kill"
    /\ Dies(i, "zombie")

Fault == faults < MAX_FAULTS /\ faults' = faults + 1

\* A child dies by itself; exit code 2 says that it is not to be respawned.
Crash(i) ==
    LET p == ngx.processes[i]
    IN  /\ Loops(p)
        /\ Fault
        /\ \/ Dies(i, "zombie")
           \/ p.respawn /\ Dies(i, "fatal")

\* A handler never returns.
Hang(i) ==
    /\ Loops(ngx.processes[i]) /\ ~ngx.processes[i].detached
    /\ Fault
    /\ Becomes(i, "hung")
    /\ UNCHANGED <<raised, signals, exited>>

Run(i) ==
    /\ WorkerCycle(i) \/ CacheCycle(i) \/ Killed(i)
    /\ UNCHANGED faults

MasterNext ==
    \/ Wake \/ Alarm \/ \E sig \in Operator : Send(sig)
    \/ \E i \in Slot : Run(i) \/ Crash(i) \/ Hang(i)

MasterSpec == MasterInit /\ [][MasterNext]_masterVars

\* Wake, as seen from the signals: no other step leaves none pending.
Resume == ~exited /\ raised # {} /\ raised' = {}

\* Signals are delivered, children that do not hang run, and the signals
\* leave the timer the time to expire.
FairMasterSpec ==
    /\ MasterSpec
    /\ WF_raised(Resume) /\ WF_masterVars(Alarm)
    /\ WF_masterVars(\E i \in Slot : Run(i))
-----------------------------------------------------------------------------
Alive(i) == ngx.processes[i].state \in {"run", "shutting", "hung"}

\* The new binary is no child to wait for.
Childless == \A i \in Slot : ~Alive(i) \/ ngx.processes[i].detached

Hung == \E i \in Slot : ngx.processes[i].state = "hung"

\* The master exits only after its children: "live", which is computed when
\* children were reaped and used on later wakeups, is not out of date.
NoOrphans == exited => Childless

\* The processes that serve, or that will be spawned again.
Staff ==
    {i \in Slot : ngx.processes[i].respawn /\ ~ngx.processes[i].exiting}

\* From one configuration to the next, through crashes and an upgrade that is
\* called off, the configured processes are there or about to be spawned
\* again, unless the operator wanted them gone or a spawn failed: a reload
\* does not shut down the processes that it has just started, and a child
\* that dies while others are told to go is not forgotten.
Staffed ==
    ~(ngx.terminate \/ ngx.quit \/ ngx.noaccepting \/ ngx.short
        \/ "restart" \in ngx.todo)
    => Cardinality(Staff) >= CrewOf(ngx.ccf)

\* SIGTERM ends the master even if children hang; SIGQUIT ends it unless one
\* hangs: one SIGCHLD may stand for several children, and the last one must
\* be noticed.  A master that could not spawn its children is left out: it
\* counts them as live and waits for a SIGCHLD of theirs.
Stops ==
    (ngx.terminate \/ ngx.quit)
        ~> \/ exited
           \/ Hung /\ ~ngx.terminate
           \/ ngx.short /\ Childless

Outdated == \E i \in Slot : Alive(i) /\ ngx.processes[i].old

\* After a reload the processes of the old configuration go, and are not
\* spawned again, unless one hangs or the next reload is already asked for.
Retired == Outdated ~> ~Outdated \/ Hung \/ "HUP" \in raised
=============================================================================
