---------------------------- MODULE HelperDaemon ----------------------------
(***************************************************************************)
(* Linux: the proxy engine lives in a helper daemon that outlives the app  *)
(* (crates/core/src/proxy/helper.rs), and every process of Gate reaches it *)
(* over a control socket (helper_client.rs, control.rs) from its own       *)
(* ProxyManager (manager_linux.rs).                                        *)
(*                                                                         *)
(* The daemon serves each connection with a task of a multi-threaded       *)
(* runtime.  A task is where its connection has got to; the task of a peer *)
(* that is gone goes on, with whatever request it had not read yet.  A     *)
(* process runs one operation at a time: its client mutex is held across   *)
(* every round trip, but for disable, which takes the handle out first so  *)
(* that the others find none and do nothing.                               *)
(*                                                                         *)
(* All processes here are of one build.  A daemon of another build can be  *)
(* there from the start; it answers Hello with another fingerprint, or     *)
(* ("deaf") with nothing a client of ours understands.                     *)
(***************************************************************************)
EXTENDS Naturals, FiniteSets

CONSTANTS
    Procs,      \* processes of Gate
    Cli,        \* those that run one command detached and exit; the rest are apps
    Faults,     \* what may go wrong, by name
    Calls,      \* the operations each process may call
    MaxGone     \* bound: connections whose peer is gone at one time

Operations == {"enable", "disable", "switch", "status", "push"}

ASSUME CliAssumption == Cli \subseteq Procs
ASSUME ProcsAssumption == IsFiniteSet(Procs)
ASSUME LockAssumption == "free" \notin Procs
ASSUME QuietAssumption == "none" \notin Procs
ASSUME CallsAssumption == Calls \in [Procs -> SUBSET Operations]
ASSUME GoneAssumption == MaxGone \in Nat

Requests == {"arm", "armDetached", "pass"}
\* A request is read (and `detached` stored) before the engine's lock is had.
Halfway == {"arm2", "armDetached2", "pass2"}
Counted == Requests \cup Halfway \cup {"idle"}
Leaving == Counted \cup {"last", "disarm"}

VARIABLES
    dropin,     \* the environment.d file names the engine
    snap,       \* a snapshot is on disk: engine_likely_running
    lock,       \* holder of op.lock, or "free"
    daemon,     \* "down", "starting" (has proxyd.lock, no socket yet), "up"
    build,      \* of the daemon: "own", "other", "deaf"
    engine,     \* in the daemon: "none", "passing", "armed"
    detached,   \* the daemon's flag: stay armed when the clients are gone
    clients,    \* its counter of connections
    task,       \* each process's connection: "none", or where its task is
    gone,       \* how many tasks without a peer are in each state
    held,       \* the process's ProxyManager has a client, dead or alive
    pc, op,     \* where each process is, and in which operation
    quiet,      \* history: an app whose reconcile nothing has disturbed, or "none"
    before      \* history: per process, the engine its shutdown met still runs, and
                \* nothing has kept it from ending the daemon

disk == <<dropin, snap>>
host == <<daemon, build>>
served == <<engine, detached, clients, task, gone>>
history == <<quiet, before>>
vars == <<dropin, snap, lock, daemon, build, engine, detached, clients, task,
          gone, held, pc, op, quiet, before>>

Labels == {"down", "idle", "exit", "enable", "reach", "oust", "spawn", "await",
           "arm", "arming", "point", "unpoint", "unpointing", "status", "push",
           "pushing", "disable", "revert", "stop", "stopping", "shut",
           "shutDone", "unlock", "reconcile", "clean", "sweep", "sweeping", "forceOff",
           "forget"}

TypeOK ==
    /\ dropin \in BOOLEAN /\ snap \in BOOLEAN
    /\ lock \in Procs \cup {"free"}
    /\ daemon \in {"down", "starting", "up"}
    /\ build \in {"own", "other", "deaf"}
    /\ engine \in {"none", "passing", "armed"}
    /\ detached \in BOOLEAN
    /\ clients \in Nat
    /\ task \in [Procs -> Counted \cup {"none", "ok", "failed"}]
    /\ gone \in [Leaving -> Nat]
    /\ held \in [Procs -> BOOLEAN]
    /\ pc \in [Procs -> Labels]
    /\ op \in [Procs -> Operations \cup {"none", "launch"}]
    /\ quiet \in Procs \cup {"none"}
    /\ before \in [Procs -> BOOLEAN]

Nobody == [s \in Leaving |-> 0]

\* An earlier version's command line may have left routing on.
Init ==
    /\ \/ daemon = "down" /\ build = "own" /\ engine = "none" /\ detached = FALSE
          /\ dropin = FALSE /\ snap = FALSE
       \/ daemon = "up" /\ build \in {"other", "deaf"} /\ engine = "armed"
          /\ detached = TRUE /\ dropin = TRUE /\ snap = TRUE
    /\ lock = "free" /\ clients = 0
    /\ task = [p \in Procs |-> "none"]
    /\ gone = Nobody
    /\ held = [p \in Procs |-> FALSE]
    /\ pc = [p \in Procs |-> IF p \in Cli THEN "idle" ELSE "down"]
    /\ op = [p \in Procs |-> "none"]
    /\ quiet = "none"
    /\ before = [p \in Procs |-> FALSE]

-----------------------------------------------------------------------------
(* The daemon. *)

\* A client's SetIntercept or SetPassthrough, as its task reads it.
Wants(p) == IF p \in Cli THEN "armDetached" ELSE "arm"
Read(s) == IF s = "arm" THEN "arm2" ELSE IF s = "armDetached" THEN "armDetached2" ELSE "pass2"

\* handle_request, first half: the flag is stored before anything is checked.
Store(s) ==
    /\ s \in Requests
    /\ detached' = (s = "armDetached")
    /\ UNCHANGED engine

\* Its second half, under the engine's lock: arm what runs or start an engine,
\* which may fail; or disarm.
Apply(s, ok) ==
    /\ s \in Halfway
    /\ ok \/ (s # "pass2" /\ engine = "none" /\ "noEngine" \in Faults)
    /\ engine' = IF s # "pass2" THEN (IF ok THEN "armed" ELSE engine)
                 ELSE IF engine = "none" THEN "none" ELSE "passing"
    /\ UNCHANGED detached

Task(p) ==
    /\ daemon = "up"
    /\ \/ Store(task[p]) /\ task' = [task EXCEPT ![p] = Read(@)]
       \/ \E ok \in BOOLEAN :
             Apply(task[p], ok) /\ task' = [task EXCEPT ![p] = IF ok THEN "ok" ELSE "failed"]
    /\ UNCHANGED <<dropin, snap, lock, daemon, build, clients, gone, held, pc, op,
                   quiet, before>>

Move(s, t) == gone' = [gone EXCEPT ![s] = @ - 1, ![t] = @ + 1]
Remove(s) == gone' = [gone EXCEPT ![s] = @ - 1]

\* The request of a peer that is gone is served all the same; the reply fails.
LateTask(s) ==
    /\ daemon = "up" /\ gone[s] > 0
    /\ \/ Store(s) /\ Move(s, Read(s))
       \/ \E ok \in BOOLEAN : Apply(s, ok) /\ Move(s, "idle")
    /\ UNCHANGED <<dropin, snap, lock, daemon, build, clients, task, held, pc, op,
                   quiet, before>>

\* Mistake: fetch_sub taken to return the count after the decrement.
LastAfter(count) == count = 0
\* fetch_sub returns the count before the decrement.
WasLast(count) == count = 1

\* A disconnect: the counter goes down, and the last one out looks at the flag
\* and disarms.  Nothing holds the engine's lock across the three.
Leave ==
    /\ daemon = "up" /\ gone["idle"] > 0
    /\ clients' = clients - 1
    /\ IF WasLast(clients) THEN Move("idle", "last") ELSE Remove("idle")
    /\ UNCHANGED <<dropin, snap, lock, daemon, build, engine, detached, task, held, pc,
                   op, quiet, before>>

LastOut ==
    /\ daemon = "up" /\ gone["last"] > 0
    /\ IF detached THEN Remove("last") ELSE Move("last", "disarm")
    /\ UNCHANGED <<dropin, snap, lock, daemon, build, engine, detached, clients, task,
                   held, pc, op, quiet, before>>

Disarm ==
    /\ daemon = "up" /\ gone["disarm"] > 0
    /\ engine' = IF engine = "none" THEN "none" ELSE "passing"
    /\ Remove("disarm")
    /\ UNCHANGED <<dropin, snap, lock, daemon, build, detached, clients, task, held, pc,
                   op, quiet, before>>

\* serve, past proxyd.lock, which a second daemon does not get: the socket is
\* bound, and nothing runs yet.
DaemonUp ==
    /\ daemon = "starting" /\ daemon' = "up"
    /\ UNCHANGED <<dropin, snap, lock, build, engine, detached, clients, task, gone, held,
                   pc, op, quiet, before>>

\* The process is over, and with it every connection.
Ended ==
    /\ daemon' = "down" /\ build' = "own"
    /\ engine' = "none" /\ detached' = FALSE /\ clients' = 0
    /\ task' = [p \in Procs |-> "none"]
    /\ gone' = Nobody
    /\ before' = [p \in Procs |-> FALSE]

DaemonDies ==
    /\ "daemon" \in Faults /\ daemon # "down"
    /\ Ended
    /\ quiet' = "none"
    /\ UNCHANGED <<dropin, snap, lock, held, pc, op>>

EngineDies ==
    /\ "engine" \in Faults /\ engine # "none"
    /\ engine' = "none"
    /\ before' = [p \in Procs |-> FALSE]
    /\ quiet' = "none"
    /\ UNCHANGED <<dropin, snap, lock, daemon, build, detached, clients, task, gone, held,
                   pc, op>>

-----------------------------------------------------------------------------
(* The client. *)

Goto(p, label) == pc' = [pc EXCEPT ![p] = label]
At(p, label) == pc[p] = label

\* connect_and_classify: a connection is counted as it is accepted.
Reaches(p, builds) == daemon = "up" /\ build \in builds /\ task[p] = "none"
Connect(p) ==
    /\ task' = [task EXCEPT ![p] = "idle"]
    /\ clients' = clients + 1
    /\ UNCHANGED <<engine, detached, gone>>

\* Connections without a peer that the daemon still counts, and all of them.
Late == gone["arm"] + gone["armDetached"] + gone["pass"] + gone["arm2"]
        + gone["armDetached2"] + gone["pass2"] + gone["idle"]
Closing == Late + gone["last"] + gone["disarm"]

\* Dropping a client, or losing it with its process: its task notices later.
Drop(p) ==
    LET s == IF task[p] \in {"ok", "failed"} THEN "idle" ELSE task[p] IN
    /\ task' = [task EXCEPT ![p] = "none"]
    /\ IF task[p] = "none" THEN UNCHANGED gone
       ELSE Closing < MaxGone /\ gone' = [gone EXCEPT ![s] = @ + 1]
    /\ UNCHANGED <<engine, detached, clients>>

\* A connection that is accepted and given up: the control token cannot be read, or
\* the daemon does not take it.
GiveUp ==
    /\ daemon = "up" /\ Closing < MaxGone
    /\ clients' = clients + 1
    /\ gone' = [gone EXCEPT !["idle"] = @ + 1]
    /\ UNCHANGED <<engine, detached, task>>

Refused == "token" \in Faults /\ GiveUp

\* History: what follows is a shutdown that could not ask, or could not kill.
Excused(p) == before' = [before EXCEPT ![p] = FALSE]

Send(p, request) ==
    /\ task' = [task EXCEPT ![p] = request]
    /\ UNCHANGED <<engine, detached, clients, gone>>

Answered(p, reply) == task[p] = reply
TakeReply(p) ==
    /\ task' = [task EXCEPT ![p] = "idle"]
    /\ UNCHANGED <<engine, detached, clients, gone>>

\* A round trip that fails: no daemon any more, or no answer in time.
Lost(p) ==
    \/ task[p] = "none"
    \/ "slow" \in Faults /\ task[p] \in Requests \cup Halfway

\* A command, a window or the session loop's tick (which pushes).
Call(p, o) ==
    /\ At(p, "idle")
    /\ op' = [op EXCEPT ![p] = o]
    /\ IF o \in {"enable", "disable", "switch"} THEN lock = "free" /\ lock' = p
       ELSE UNCHANGED lock
    /\ Goto(p, IF o = "switch" THEN "disable" ELSE o)
    /\ before' = [before EXCEPT ![p] = o = "switch" /\ engine # "none"]
    /\ quiet' = "none"
    /\ UNCHANGED <<disk, host, served, held>>

\* The end of an operation: op.lock is let go; a command exits.
Finish(p) ==
    /\ lock' = IF lock = p THEN "free" ELSE lock
    /\ Goto(p, IF p \in Cli THEN "exit" ELSE "idle")
    /\ op' = [op EXCEPT ![p] = "none"]

\* enable, once op.lock is held: nothing to do with a client in hand.  The
\* snapshot goes to disk before the daemon is reached.
Enable(p) ==
    /\ At(p, "enable")
    /\ IF held[p]
       THEN Goto(p, "unlock") /\ UNCHANGED snap
       ELSE Goto(p, "reach") /\ snap' = TRUE
    /\ UNCHANGED <<dropin, lock, host, served, held, op, history>>

\* connect_or_spawn.  A daemon of another build is told to leave; one that
\* does not answer Hello is waited for and killed; one that cannot be asked is
\* taken for none.
Reach(p) ==
    /\ At(p, "reach")
    /\ \/ Reaches(p, {"own"}) /\ Connect(p) /\ Goto(p, "arm")
       \/ /\ ~Reaches(p, {"own"}) /\ UNCHANGED served
          /\ Goto(p, IF daemon = "up" THEN "oust" ELSE "spawn")
       \/ Refused /\ Goto(p, "spawn")
    /\ UNCHANGED <<disk, lock, host, held, op, history>>

\* Mistake: a daemon that does not answer Hello is taken for none.
OustAnswering(p, next) ==
    /\ IF daemon = "up" /\ build # "deaf" THEN Ended ELSE UNCHANGED <<host, served, before>>
    /\ Goto(p, next)

\* ensure_daemon_gone, after the Shutdown request if Hello was answered: the
\* daemon ends by itself or by SIGKILL, or is there after both waits: its pid
\* could not be read or killed.
Oust(p, next) ==
    /\ \/ daemon = "up" /\ Ended
       \/ daemon # "up" /\ UNCHANGED <<host, served, before>>
       \/ "stays" \in Faults /\ GiveUp /\ Excused(p) /\ UNCHANGED host
    /\ Goto(p, next)

OustStale(p) ==
    /\ At(p, "oust")
    /\ Oust(p, "spawn")
    /\ UNCHANGED <<disk, lock, held, op, quiet>>

\* A second daemon finds proxyd.lock taken and exits.
Spawn(p) ==
    /\ At(p, "spawn")
    /\ daemon' = IF daemon = "down" THEN "starting" ELSE daemon
    /\ Goto(p, "await")
    /\ UNCHANGED <<disk, lock, build, served, held, op, history>>

\* Mistake: the launch leaves a machine it could not re-honour as it found it.
FailedAsIs(p) == Finish(p)

\* enable's error: a launch then forces everything off; to another caller it is
\* only reported, and one before the daemon is reached leaves the snapshot.
Failed(p) ==
    IF op[p] = "launch"
    THEN Goto(p, "clean") /\ lock' = "free" /\ UNCHANGED op
    ELSE Finish(p)

\* The retries after a spawn.
Await(p) ==
    /\ At(p, "await")
    /\ \/ Reaches(p, {"own"}) /\ Connect(p) /\ Goto(p, "arm") /\ UNCHANGED <<lock, op>>
       \/ Refused /\ (Failed(p) \/ UNCHANGED <<pc, lock, op>>)
       \/ /\ daemon = "down" \/ build # "own" \/ "slow" \in Faults
          /\ Failed(p) /\ UNCHANGED served
    /\ UNCHANGED <<disk, host, held, history>>

\* set_intercept and what enable makes of its answer.
Arm(p) ==
    /\ At(p, "arm")
    /\ IF task[p] = "idle" THEN Send(p, Wants(p)) ELSE UNCHANGED served
    /\ Goto(p, "arming")
    /\ UNCHANGED <<disk, lock, host, held, op, history>>

Arming(p) ==
    /\ At(p, "arming")
    /\ \/ Answered(p, "ok") /\ TakeReply(p) /\ Goto(p, "point") /\ UNCHANGED <<snap, lock, op>>
       \/ /\ Answered(p, "failed") \/ Lost(p)
          /\ Drop(p) /\ snap' = FALSE /\ Failed(p)
    /\ UNCHANGED <<dropin, host, held, history>>

\* system_proxy::enable writes the drop-in last of all.
Point(p) ==
    /\ At(p, "point")
    /\ \/ /\ dropin' = TRUE /\ held' = [held EXCEPT ![p] = TRUE]
          /\ Goto(p, "unlock")
       \/ /\ "unwritable" \in Faults
          /\ Goto(p, "unpoint") /\ UNCHANGED <<dropin, held>>
    /\ UNCHANGED <<snap, lock, host, served, op, history>>

Unpoint(p) ==
    /\ At(p, "unpoint")
    /\ IF task[p] = "idle" THEN Send(p, "pass") ELSE UNCHANGED served
    /\ Goto(p, "unpointing")
    /\ UNCHANGED <<disk, lock, host, held, op, history>>

Unpointing(p) ==
    /\ At(p, "unpointing")
    /\ Answered(p, "ok") \/ Lost(p)
    /\ Drop(p) /\ snap' = FALSE /\ Failed(p)
    /\ UNCHANGED <<dropin, host, held, history>>

\* The lock goes before status is asked.
Unlock(p) ==
    /\ At(p, "unlock")
    /\ lock' = "free" /\ Goto(p, "status")
    /\ UNCHANGED <<disk, host, served, held, op, history>>

\* status: adopt a running daemon when a snapshot says one is likely; replace a
\* client whose daemon is gone, or let it go.
Status(p) ==
    /\ At(p, "status")
    /\ LET adopts == IF held[p] THEN task[p] = "none" ELSE snap IN
       \/ adopts /\ Reaches(p, {"own"}) /\ Connect(p) /\ held' = [held EXCEPT ![p] = TRUE]
       \/ /\ IF adopts THEN Refused \/ (~Reaches(p, {"own"}) /\ UNCHANGED served)
             ELSE UNCHANGED served
          /\ held' = [held EXCEPT ![p] = @ /\ task[p] # "none"]
    /\ Finish(p)
    /\ UNCHANGED <<disk, host, history>>

\* A push of the configuration: a session tick (refresh_token, refresh_org, ...)
\* to the client in hand; a domain toggle adopts a daemon first, without asking
\* whether routing is on.
Push(p) ==
    /\ At(p, "push")
    /\ \/ /\ held[p] /\ task[p] = "idle"
          /\ Send(p, Wants(p)) /\ Goto(p, "pushing") /\ UNCHANGED <<lock, op, held>>
       \/ /\ ~held[p] /\ Reaches(p, {"own"})
          /\ Connect(p) /\ held' = [held EXCEPT ![p] = TRUE] /\ UNCHANGED <<pc, lock, op>>
       \/ /\ IF held[p] THEN task[p] = "none" ELSE ~Reaches(p, {"own"})
          /\ Finish(p) /\ UNCHANGED <<served, held>>
       \/ ~held[p] /\ Refused /\ Finish(p) /\ UNCHANGED held
    /\ UNCHANGED <<disk, host, history>>

Pushing(p) ==
    /\ At(p, "pushing")
    /\ \/ \E r \in {"ok", "failed"} : Answered(p, r) /\ TakeReply(p)
       \/ task[p] = "none" /\ UNCHANGED served
    /\ Finish(p)
    /\ UNCHANGED <<disk, host, held, history>>

\* connect_existing_to_stop, without a handle: any daemon that answers Hello.
AdoptToStop(p) ==
    /\ held' = [held EXCEPT ![p] = FALSE]
    /\ LET adopts == ~held[p] /\ Reaches(p, {"own", "other"}) IN
       \/ adopts /\ Connect(p)
       \/ ~adopts /\ UNCHANGED served
       \/ ~held[p] /\ Refused

\* disable_inner: take the handle, or adopt one.
Disable(p) ==
    /\ At(p, "disable")
    /\ AdoptToStop(p)
    /\ Goto(p, "revert")
    /\ UNCHANGED <<disk, lock, host, op, history>>

\* restore or force_off: the drop-in is deleted, or the delete fails; a shutdown
\* then goes no further than a disable, and answers with the error.
Revert(p) ==
    /\ At(p, "revert")
    /\ \/ dropin' = FALSE /\ UNCHANGED op
       \/ "unwritable" \in Faults /\ op' = [op EXCEPT ![p] = "disable"] /\ UNCHANGED dropin
    /\ Goto(p, "stop")
    /\ UNCHANGED <<snap, lock, host, served, held, history>>

Stop(p) ==
    /\ At(p, "stop")
    /\ IF task[p] = "idle" THEN Send(p, "pass") ELSE UNCHANGED served
    /\ Goto(p, "stopping")
    /\ UNCHANGED <<disk, lock, host, held, op, history>>

\* The answer is not looked at; the connection and the snapshot go whatever
\* became of the delete.
Stopping(p) ==
    /\ At(p, "stopping")
    /\ Answered(p, "ok") \/ Lost(p)
    /\ Drop(p)
    /\ snap' = FALSE
    /\ IF op[p] = "switch" THEN Goto(p, "shut") /\ UNCHANGED <<lock, op>> ELSE Finish(p)
    /\ UNCHANGED <<dropin, host, held, quiet, before>>

\* shutdown_daemon, for a gateway switch or an untrust, still under op.lock.  A
\* daemon that cannot be asked is taken for none.
Shut(p) ==
    /\ At(p, "shut")
    /\ \/ Oust(p, "shutDone")
       \/ Refused /\ Excused(p) /\ Goto(p, "shutDone") /\ UNCHANGED host
    /\ UNCHANGED <<disk, lock, held, op, quiet>>

ShutDone(p) ==
    /\ At(p, "shutDone")
    /\ Finish(p)
    /\ UNCHANGED <<disk, host, served, held, history>>

-----------------------------------------------------------------------------
(* Processes come and go. *)

\* A command is over: its client goes with it.
Exit(p) ==
    /\ At(p, "exit")
    /\ Drop(p)
    /\ held' = [held EXCEPT ![p] = FALSE]
    /\ Goto(p, "idle")
    /\ UNCHANGED <<disk, lock, host, op, history>>

\* Killed anywhere, or an app that quits: on Linux nothing runs at the exit.
Kill(p) ==
    /\ ~At(p, "down")
    /\ "kill" \in Faults \/ (p \notin Cli /\ At(p, "idle"))
    /\ Drop(p)
    /\ held' = [held EXCEPT ![p] = FALSE]
    /\ lock' = IF lock = p THEN "free" ELSE lock
    /\ Goto(p, IF p \in Cli THEN "idle" ELSE "down")
    /\ op' = [op EXCEPT ![p] = "none"]
    /\ before' = [before EXCEPT ![p] = FALSE]
    /\ quiet' = "none"
    /\ UNCHANGED <<disk, host>>

\* reconcile_on_startup: nothing recorded, nothing to do; a snapshot is honoured
\* again (an enable) unless the root is no longer trusted.
Launch(p) ==
    /\ At(p, "down") /\ p \notin Cli
    /\ Goto(p, "reconcile") /\ op' = [op EXCEPT ![p] = "launch"]
    /\ quiet' = IF snap /\ \A q \in Procs \ {p} : pc[q] \in {"down", "idle"} THEN p ELSE "none"
    /\ UNCHANGED <<disk, lock, host, served, held, before>>

Reconcile(p) ==
    /\ At(p, "reconcile")
    /\ \/ ~snap /\ Finish(p)
       \/ /\ snap /\ lock = "free" /\ lock' = p
          /\ Goto(p, "enable") /\ UNCHANGED op
       \/ /\ snap /\ "untrusted" \in Faults
          /\ Goto(p, "clean") /\ UNCHANGED <<lock, op>>
    /\ UNCHANGED <<disk, host, served, held, quiet, before>>

\* force_clean_slate, which does not take op.lock: disarm, force off, forget.
Clean(p) ==
    /\ At(p, "clean")
    /\ AdoptToStop(p)
    /\ Goto(p, "sweep")
    /\ UNCHANGED <<disk, lock, host, op, history>>

Sweep(p) ==
    /\ At(p, "sweep")
    /\ IF task[p] = "idle" THEN Send(p, "pass") ELSE UNCHANGED served
    /\ Goto(p, "sweeping")
    /\ UNCHANGED <<disk, lock, host, held, op, history>>

Sweeping(p) ==
    /\ At(p, "sweeping")
    /\ Answered(p, "ok") \/ Lost(p)
    /\ Drop(p)
    /\ Goto(p, "forceOff")
    /\ UNCHANGED <<disk, lock, host, held, op, history>>

\* A drop-in that cannot be deleted keeps its snapshot here, and the launch says
\* that it failed.
ForceOff(p) ==
    /\ At(p, "forceOff")
    /\ \/ dropin' = FALSE /\ Goto(p, "forget") /\ UNCHANGED <<lock, op, quiet>>
       \/ "unwritable" \in Faults /\ Finish(p) /\ quiet' = "none" /\ UNCHANGED dropin
    /\ UNCHANGED <<snap, host, served, held, before>>

Forget(p) ==
    /\ At(p, "forget")
    /\ snap' = FALSE
    /\ Finish(p)
    /\ UNCHANGED <<dropin, host, served, held, history>>

-----------------------------------------------------------------------------

Process(p) ==
    \/ \E o \in Calls[p] : Call(p, o)
    \/ Enable(p) \/ Reach(p) \/ OustStale(p) \/ Spawn(p) \/ Await(p) \/ Arm(p) \/ Arming(p)
    \/ Point(p) \/ Unpoint(p) \/ Unpointing(p) \/ Unlock(p) \/ Status(p) \/ Push(p) \/ Pushing(p)
    \/ Disable(p) \/ Revert(p) \/ Stop(p) \/ Stopping(p) \/ Shut(p) \/ ShutDone(p)
    \/ Exit(p) \/ Kill(p) \/ Launch(p) \/ Reconcile(p)
    \/ Clean(p) \/ Sweep(p) \/ Sweeping(p) \/ ForceOff(p) \/ Forget(p)

Daemon ==
    \/ \E p \in Procs : Task(p)
    \/ \E s \in Leaving : LateTask(s)
    \/ Leave \/ LastOut \/ Disarm \/ DaemonUp \/ DaemonDies \/ EngineDies

Next == Daemon \/ \E p \in Procs : Process(p)

Spec == Init /\ [][Next]_vars

-----------------------------------------------------------------------------

Connected == {p \in Procs : task[p] # "none"}

\* The daemon never goes on intercepting for nobody (helper.rs:178): when it is
\* armed and was not asked to stay, a client is connected, or the task of one
\* that left has yet to disarm it.
NoOrphanedInterception ==
    engine = "armed" /\ ~detached =>
        Connected # {} \/ \E s \in Leaving : gone[s] > 0

\* A gateway switch or an untrust for which shutdown_engine answers Ok does not come
\* back while the engine it met still runs, whatever build its daemon is of and
\* whether or not that daemon answers (manager_linux.rs:288); but for a shutdown whose
\* own attempt the daemon's token or its pid stopped (helper_client.rs:166, 359).
ShutdownEnds == \A p \in Procs : At(p, "shutDone") => ~before[p]

\* A launch over whatever a kill left recorded, with nobody else about, ends with
\* the session either pointed at a running engine, and that recorded, or pointed
\* nowhere (reconcile_on_startup).
LaunchHeals ==
    \A p \in Procs : quiet = p /\ At(p, "idle") /\ dropin => snap /\ engine # "none"
=============================================================================
