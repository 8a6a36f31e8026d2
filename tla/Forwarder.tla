----------------------------- MODULE Forwarder ------------------------------
(***************************************************************************)
(* macOS: the environment forwarder, a small process that outlives Gate    *)
(* and answers on the address tools and variables name                     *)
(* (crates/core/src/proxy/forwarder.rs, crates/forwarder/src/main.rs).     *)
(* launchd holds its port from login on, by an agent Gate installs; where  *)
(* that does not work Gate starts it directly.  A marker file says whether *)
(* it is wanted, and every forwarder polls it.                             *)
(*                                                                         *)
(* ENSURE_LOCK serialises the operations of one process: the app's thread  *)
(* for what the user does, and the watcher.  A command line is a process   *)
(* of its own, which that lock does not reach; the code accepts what two   *)
(* processes at once may do, and here their operations do not overlap.     *)
(* One label is one file written or one call to launchd, with what is      *)
(* waited for after it; forwarders, launchd and kills come between.        *)
(* Tokens, logs, and what a forwarder does with a connection are left out; *)
(* so is which relay port it holds, but not the rewrite of the agent for   *)
(* it.                                                                     *)
(***************************************************************************)
EXTENDS Naturals, FiniteSets

CONSTANTS
    Ports,      \* the band a forwarder can bind
    NoPort,     \* nothing persisted, loaded or held
    Calls,      \* the operations each thread may call
    Faults      \* what may go wrong, by name

Threads == {"fore", "watch", "cli"}
Operations == {"ensure", "supervise", "stop", "drain"}

ASSUME PortsAssumption == NoPort \notin Ports
ASSUME CallsAssumption == Calls \in [Threads -> SUBSET Operations]

VARIABLES
    marker,     \* forwarder-wanted: "none", "wanted" (empty), "draining"
    plist,      \* the port the agent's file declares
    portfile,   \* forwarder-port
    job,        \* the port launchd holds for the loaded agent
    agent,      \* its process: not started, up, of an old build, hung
    lingering,  \* a port launchd has still to hand back after a bootout
    direct,     \* forwarders started outside launchd, by the port they hold
    spawning,   \* one is started and has not bound yet
    up,         \* the app runs
    pc, op,     \* where each thread is, and in which operation
    local,      \* its was_draining, whether it is adding the relay socket, and the
                \* port it chose
    spent,      \* ADOPT_SPENT, RETIRED and ASKED of each process
    \* history
    word,       \* what Gate was last told, and could record, to do with the forwarder
    torn        \* an install has failed partway, and the files may not agree since

disk == <<marker, plist, portfile>>
launchd == <<job, agent, lingering>>
spawned == <<direct, spawning>>
threads == <<pc, op, local>>
history == <<word, torn>>
vars == <<marker, plist, portfile, job, agent, lingering, direct, spawning, up,
          pc, op, local, spent, word, torn>>

Labels == {"idle", "mark", "restore", "probe", "retire", "retireOut", "retireFile", "retired",
           "install", "reload", "bootstrap", "await", "restart", "abandonOut", "abandonFile",
           "freed", "spawn", "answer", "adopt", "adopting", "stop", "stopOut", "stopFile",
           "drain", "forget"}
Once == {"adopt", "retire", "relay"}
Home(t) == IF t = "cli" THEN "cli" ELSE "app"

Fresh == [drained |-> FALSE, fronting |-> FALSE, port |-> NoPort]

TypeOK ==
    /\ marker \in {"none", "wanted", "draining"}
    /\ {plist, portfile, job, lingering} \subseteq Ports \cup {NoPort}
    /\ agent \in {"idle", "up", "old", "hung"} /\ (job = NoPort => agent = "idle")
    /\ direct \in [Ports -> {"none", "up", "old"}] /\ spawning \in BOOLEAN
    /\ up \in BOOLEAN
    /\ pc \in [Threads -> Labels] /\ op \in [Threads -> Operations]
    /\ local \in [Threads -> [drained : BOOLEAN, fronting : BOOLEAN, port : Ports \cup {NoPort}]]
    /\ spent \in [{"app", "cli"} -> SUBSET Once]
    /\ word \in {"none", "ensure", "stop", "drain", "over"}
    /\ torn \in BOOLEAN

Init ==
    /\ marker = "none" /\ plist = NoPort /\ portfile = NoPort
    /\ job = NoPort /\ agent = "idle" /\ lingering = NoPort
    /\ direct = [p \in Ports |-> "none"] /\ spawning = FALSE
    /\ up = FALSE
    /\ pc = [t \in Threads |-> "idle"] /\ op = [t \in Threads |-> "ensure"]
    /\ local = [t \in Threads |-> Fresh]
    /\ spent = [x \in {"app", "cli"} |-> {}]
    /\ word = "none" /\ torn = FALSE

At(t, label) == pc[t] = label
GotoWith(t, label, mine) ==
    pc' = [pc EXCEPT ![t] = label] /\ local' = [local EXCEPT ![t] = mine] /\ UNCHANGED op
Goto(t, label) == GotoWith(t, label, local[t])
Return(t) ==
    pc' = [pc EXCEPT ![t] = "idle"] /\ local' = [local EXCEPT ![t] = Fresh]
    /\ op' = [op EXCEPT ![t] = "ensure"]

-----------------------------------------------------------------------------
(* The forwarder and launchd. *)

Holds(p) == p # NoPort /\ (direct[p] # "none" \/ job = p)
Live(p) == p # NoPort /\ (Holds(p) \/ lingering = p)

\* bind_preferred, and bind_fresh where the port is taken; then the port is
\* recorded.
Bind ==
    /\ spawning
    /\ \E p \in Ports :
         /\ ~Live(p)
         /\ (portfile # NoPort /\ ~Live(portfile)) => p = portfile
         /\ direct' = [direct EXCEPT ![p] = "up"] /\ portfile' = p
    /\ spawning' = FALSE
    /\ UNCHANGED <<marker, plist, launchd, up, threads, spent, history>>

\* A forwarder without a marker goes, and lets go of its port first.
Notice ==
    /\ marker = "none"
    /\ \/ \E p \in Ports : direct[p] # "none" /\ direct' = [direct EXCEPT ![p] = "none"] /\ UNCHANGED agent
       \/ agent \in {"up", "old"} /\ agent' = "idle" /\ UNCHANGED direct
    /\ UNCHANGED <<disk, job, lingering, spawning, up, threads, spent, history>>

\* launchd is external: a connection starts the agent's process, which records
\* the port it was handed.  What connects has the recorded address, or one that was
\* recorded when a failed install left the agent behind.
Wake ==
    /\ job # NoPort /\ agent = "idle"
    /\ job = portfile \/ (portfile # NoPort /\ "uninstallable" \in Faults)
    /\ agent' = "up" /\ portfile' = job
    /\ UNCHANGED <<marker, plist, job, lingering, spawned, up, threads, spent, history>>

Release ==
    /\ lingering # NoPort /\ lingering' = NoPort
    /\ UNCHANGED <<disk, job, agent, spawned, up, threads, spent, history>>

BootedOut ==
    /\ job' = NoPort /\ agent' = "idle"
    /\ lingering' = IF job = NoPort THEN lingering ELSE job

-----------------------------------------------------------------------------
(* Calls.  A thread that meets the lock waits; the watcher skips its pass. *)
(* Without the fault "slow", a forwarder that was started has bound before *)
(* the next call.                                                          *)

Begin(t, o, label) ==
    /\ \A other \in Threads : At(other, "idle")
    /\ ~spawning \/ "slow" \in Faults
    /\ o \in Calls[t]
    /\ Home(t) = "app" => up
    /\ pc' = [pc EXCEPT ![t] = label] /\ op' = [op EXCEPT ![t] = o]
    /\ UNCHANGED local
    /\ spent' = IF t = "cli" THEN [spent EXCEPT !["cli"] = {}] ELSE spent
    /\ UNCHANGED <<disk, launchd, spawned, up, torn>>

\* Mistake: an ensure that does not take the lock.
EnsureUnlocked(t) ==
    /\ At(t, "idle") /\ "ensure" \in Calls[t] /\ (Home(t) = "app" => up)
    /\ pc' = [pc EXCEPT ![t] = "mark"] /\ word' = "ensure"
    /\ UNCHANGED <<disk, launchd, spawned, up, op, local, spent, torn>>

Ensure(t) ==
    /\ Begin(t, "ensure", "mark")
    /\ word' = "ensure"

\* Mistake: a pass that does not ask whether a forwarder is wanted.
SuperviseBlind(t) ==
    /\ Begin(t, "supervise", "mark")
    /\ UNCHANGED word

\* The marker is read under the lock; stopped or draining is left alone.
Supervise(t) ==
    /\ marker = "wanted"
    /\ Begin(t, "supervise", "mark")
    /\ UNCHANGED word

Stop(t) ==
    /\ Begin(t, "stop", "stop")
    /\ word' = "none"

Drain(t) ==
    /\ Begin(t, "drain", "drain")
    /\ word' = "none"

-----------------------------------------------------------------------------
(* ensure_running_locked *)

\* What was asked for is given up with the operation, or with the session.
Unheard == word' = IF word = "ensure" THEN "none" ELSE word

\* A marker that cannot be written ends the ensure.
Mark(t) ==
    /\ At(t, "mark")
    /\ \/ /\ marker' = "wanted"
          /\ GotoWith(t, IF marker = "draining" THEN "restore" ELSE "probe",
                      [local[t] EXCEPT !.drained = marker = "draining"])
          /\ UNCHANGED word
       \/ "unmarked" \in Faults /\ Return(t) /\ Unheard /\ UNCHANGED marker
    /\ UNCHANGED <<plist, portfile, launchd, spawned, up, spent, torn>>

\* choose_port: the persisted one, else a free one.
Chosen(p) == IF portfile # NoPort THEN p = portfile ELSE ~Live(p)

\* restore_file, for the job that a drain left loaded; that it fails is only logged.
Restore(t) ==
    /\ At(t, "restore")
    /\ \/ plist = NoPort /\ job # NoPort /\ \E p \in Ports : Chosen(p) /\ plist' = p
       \/ (plist # NoPort \/ job = NoPort \/ "uninstallable" \in Faults) /\ UNCHANGED plist
    /\ Goto(t, "probe")
    /\ UNCHANGED <<marker, portfile, launchd, spawned, up, spent, history>>

\* What answers on the persisted port; a connection starts the agent.
Build == IF portfile = NoPort THEN "none"
         ELSE IF direct[portfile] # "none" THEN direct[portfile]
         ELSE IF job = portfile THEN IF agent = "idle" THEN "up" ELSE agent
         ELSE "none"

Spend(t, what) == spent' = [spent EXCEPT ![Home(t)] = @ \cup {what}]

\* A forwarder of an old build is replaced, once per process; one that holds the
\* relay port is written into the agent, once; one outside launchd is handed
\* back to it, once, by a caller in the foreground.
Probe(t) ==
    /\ At(t, "probe")
    /\ agent' = IF Build = "up" /\ job = portfile /\ agent = "idle" THEN "up" ELSE agent
    /\ \/ Build \in {"none", "hung"} /\ Goto(t, "install") /\ UNCHANGED spent
       \/ /\ Build = "old" /\ "retire" \notin spent[Home(t)]
          /\ Spend(t, "retire") /\ Goto(t, "retire")
       \/ /\ Build = "old" /\ "retire" \in spent[Home(t)]
          /\ Return(t) /\ UNCHANGED spent
       \/ /\ Build = "up" /\ plist # NoPort /\ "relay" \notin spent[Home(t)]
          /\ Spend(t, "relay")
          /\ GotoWith(t, "install", [local[t] EXCEPT !.fronting = TRUE])
       \/ /\ Build = "up"
          /\ IF op[t] = "ensure" /\ ~local[t].drained /\ plist = NoPort /\ job = NoPort
                /\ "adopt" \notin spent[Home(t)]
             THEN Spend(t, "adopt") /\ Goto(t, "adopt")
             ELSE Return(t) /\ UNCHANGED spent
    /\ UNCHANGED <<disk, job, lingering, spawned, up, history>>

\* The marker goes, then the agent; the port is waited for.
Unmark(t, next) ==
    /\ marker' = "none"
    /\ Goto(t, next)
    /\ UNCHANGED <<plist, portfile, launchd, spawned, up, spent, history>>

Retire(t) == At(t, "retire") /\ Unmark(t, "retireOut")
Adopt(t) == At(t, "adopt") /\ Unmark(t, "adopting")

\* launch_agent::remove: out of launchd, then off the disk.
Bootout(t, next) ==
    /\ BootedOut
    /\ Goto(t, next)
    /\ UNCHANGED <<disk, spawned, up, spent, history>>

Unlist(t, next) ==
    /\ plist' = NoPort
    /\ Goto(t, next)
    /\ UNCHANGED <<marker, portfile, launchd, spawned, up, spent, history>>

RetireOut(t) == At(t, "retireOut") /\ Bootout(t, "retireFile")
RetireFile(t) == At(t, "retireFile") /\ Unlist(t, "retired")
AbandonOut(t) == At(t, "abandonOut") /\ Bootout(t, "abandonFile")
AbandonFile(t) == At(t, "abandonFile") /\ Unlist(t, "freed")

\* await_port_free; without the fault "slow" the port comes free in time.
Waited == ~Live(portfile) \/ "slow" \in Faults

\* Mistake: the marker is not put back for the forwarder that comes.
RetiredUnmarked(t) ==
    /\ At(t, "retired") /\ Waited
    /\ Goto(t, "install")
    /\ UNCHANGED <<disk, launchd, spawned, up, spent, history>>

\* The marker is put back; where it cannot be, the ensure ends.
Retired(t) ==
    /\ At(t, "retired") /\ Waited
    /\ \/ marker' = "wanted" /\ Goto(t, "install") /\ UNCHANGED word
       \/ "unmarked" \in Faults /\ Return(t) /\ Unheard /\ UNCHANGED marker
    /\ UNCHANGED <<plist, portfile, launchd, spawned, up, spent, torn>>

\* Here the ensure goes on, with or without the marker.
Adopting(t) ==
    /\ At(t, "adopting") /\ Waited
    /\ \/ marker' = "wanted" /\ UNCHANGED word
       \/ "unmarked" \in Faults /\ Unheard /\ UNCHANGED marker
    /\ IF Live(portfile) THEN Return(t) ELSE Goto(t, "install")
    /\ UNCHANGED <<plist, portfile, launchd, spawned, up, spent, torn>>

\* Past the ladder of the relay socket there is the ladder without it.
Replace(t) ==
    IF local[t].fronting
    THEN GotoWith(t, "install", [local[t] EXCEPT !.fronting = FALSE])
    ELSE Goto(t, "spawn")

\* launch_agent::install.  A file that changes, by its port or by the relay
\* socket, has the loaded job booted out.  Where it cannot be written (one cut short
\* is taken for none) the agent is left as it is, and the next way is tried.
Install(t) ==
    /\ At(t, "install")
    /\ \/ \E p \in Ports :
            /\ Chosen(p)
            /\ plist' = p
            /\ \E next \in {"reload"} \cup {"bootstrap" : x \in {plist} \cap {p}} :
                  GotoWith(t, next, [local[t] EXCEPT !.port = p])
            /\ UNCHANGED torn
       \/ /\ "uninstallable" \in Faults
          /\ plist' \in {plist, NoPort} /\ torn' = TRUE
          /\ Replace(t)
    /\ UNCHANGED <<marker, portfile, launchd, spawned, up, spent, word>>

Reload(t) == At(t, "reload") /\ Bootout(t, "bootstrap")

\* Over a loaded job a bootstrap is refused; the port is recorded after it, or cannot
\* be.
Bootstrap(t) ==
    /\ At(t, "bootstrap")
    /\ IF job # NoPort \/ plist = NoPort \/ Holds(plist)
       THEN UNCHANGED launchd
       ELSE /\ job' = plist /\ agent' = "idle"
            /\ lingering' = IF lingering = plist THEN NoPort ELSE lingering
    /\ \/ portfile' = local[t].port /\ Goto(t, "await") /\ UNCHANGED torn
       \/ "uninstallable" \in Faults /\ torn' = TRUE /\ Replace(t) /\ UNCHANGED portfile
    /\ UNCHANGED <<marker, plist, spawned, up, spent, word>>

\* await_health: a job's process that is not hung answers, unless the agent does
\* not work.
Await(t) ==
    /\ At(t, "await")
    /\ \/ /\ Build \in {"up", "old"}
          /\ agent' = IF job = portfile /\ agent = "idle" THEN "up" ELSE agent
          /\ Return(t)
       \/ /\ Build \in {"none", "hung"} \/ "agent" \in Faults
          /\ Goto(t, "restart") /\ UNCHANGED agent
    /\ UNCHANGED <<disk, job, lingering, spawned, up, spent, history>>

\* restart_agent: kickstart keeps the socket, and the process records it; then
\* await_health again.
Restart(t) ==
    /\ At(t, "restart")
    /\ IF job = NoPort THEN UNCHANGED <<agent, portfile>> ELSE agent' = "up" /\ portfile' = job
    /\ \/ job = portfile /\ Return(t)
       \/ (job # portfile \/ "agent" \in Faults) /\ Goto(t, "abandonOut")
    /\ UNCHANGED <<marker, plist, job, lingering, spawned, up, spent, history>>

\* Mistake: the direct start does not wait for launchd to hand the port back.
FreedAtOnce(t) ==
    /\ At(t, "freed")
    /\ Replace(t)
    /\ UNCHANGED <<disk, launchd, spawned, up, spent, history>>

Freed(t) ==
    /\ At(t, "freed") /\ Waited
    /\ Replace(t)
    /\ UNCHANGED <<disk, launchd, spawned, up, spent, history>>

Spawn(t) ==
    /\ At(t, "spawn")
    /\ spawning' = TRUE
    /\ Spend(t, "adopt")
    /\ Goto(t, "answer")
    /\ UNCHANGED <<disk, launchd, direct, up, history>>

\* It answers on the persisted port, or the wait is over.
Answer(t) ==
    /\ At(t, "answer")
    /\ ~spawning \/ "slow" \in Faults
    /\ Return(t)
    /\ UNCHANGED <<disk, launchd, spawned, up, spent, history>>

-----------------------------------------------------------------------------
(* stop and drain *)

StopMarker(t) == At(t, "stop") /\ Unmark(t, "stopOut")
StopOut(t) == At(t, "stopOut") /\ Bootout(t, "stopFile")

StopFile(t) ==
    /\ At(t, "stopFile")
    /\ plist' = NoPort
    /\ Return(t)
    /\ word' = "stop"
    /\ UNCHANGED <<marker, portfile, launchd, spawned, up, spent, torn>>

\* Nothing that was not wanted is drained; a marker that cannot be marked goes.
DrainMarker(t) ==
    /\ At(t, "drain")
    /\ \/ marker = "none" /\ Return(t) /\ UNCHANGED marker
       \/ marker # "none" /\ marker' = "draining" /\ Goto(t, "forget")
       \/ /\ marker # "none" /\ "unwritable" \in Faults
          /\ marker' = "none" /\ Goto(t, "stopOut")
    /\ UNCHANGED <<plist, portfile, launchd, spawned, up, spent, history>>

\* Mistake: the agent is taken down as a stop does.
ForgetAll(t) ==
    /\ At(t, "forget")
    /\ BootedOut /\ plist' = NoPort
    /\ Return(t)
    /\ word' = IF Holds(portfile) THEN "drain" ELSE word
    /\ UNCHANGED <<marker, portfile, spawned, up, spent, torn>>

\* launch_agent::forget leaves the job loaded.
Forget(t) ==
    /\ At(t, "forget")
    /\ plist' = NoPort
    /\ Return(t)
    /\ word' = IF Holds(portfile) THEN "drain" ELSE word
    /\ UNCHANGED <<marker, portfile, launchd, spawned, up, spent, torn>>

-----------------------------------------------------------------------------
(* What happens around it. *)

\* The process a tool would reach dies, or hangs under launchd.
Dies ==
    /\ \/ /\ \E p \in Ports : direct[p] # "none" /\ direct' = [direct EXCEPT ![p] = "none"]
          /\ word' = IF word = "drain" THEN "none" ELSE word
          /\ UNCHANGED <<agent, spawning>>
       \/ /\ spawning /\ spawning' = FALSE
          /\ UNCHANGED <<agent, direct, history>>
       \/ /\ job # NoPort /\ agent' \in {"idle", "hung"}
          /\ UNCHANGED <<spawned, history>>
    /\ UNCHANGED <<disk, job, lingering, up, threads, spent, torn>>

\* An update replaces the binary; what runs is of the build before it.
Update ==
    /\ direct' = [p \in Ports |-> IF direct[p] = "up" THEN "old" ELSE direct[p]]
    /\ agent' = IF agent = "up" THEN "old" ELSE agent
    /\ UNCHANGED <<disk, job, lingering, spawning, up, threads, spent, history>>

Launch ==
    /\ ~up
    /\ up' = TRUE
    /\ spent' = [spent EXCEPT !["app"] = {}]
    /\ UNCHANGED <<disk, launchd, spawned, threads, history>>

Stopped(x) ==
    /\ pc' = [t \in Threads |-> IF Home(t) = x THEN "idle" ELSE pc[t]]
    /\ op' = [t \in Threads |-> IF Home(t) = x THEN "ensure" ELSE op[t]]
    /\ local' = [t \in Threads |-> IF Home(t) = x THEN Fresh ELSE local[t]]

\* The app is killed, or quits without anything to take back; a command is
\* interrupted.  Without the fault "cut", not between a marker and the agent's
\* file it speaks for, nor in a first install before its port is on record.
Kill(x) ==
    /\ IF x = "app" THEN up /\ up' = FALSE ELSE ~At("cli", "idle") /\ UNCHANGED up
    /\ "cut" \in Faults \/ \A t \in Threads :
          /\ pc[t] \notin {"restore", "stopOut"}
          /\ pc[t] \in {"reload", "bootstrap"} => portfile # NoPort
    /\ Stopped(x)
    /\ Unheard
    /\ UNCHANGED <<disk, launchd, spawned, spent, torn>>

\* Logout ends everything; login loads the agent whose file is there.  Where that
\* file and the port's agree, what a failed install left is over.
Relogin ==
    /\ \A t \in Threads : At(t, "idle")
    /\ up' = FALSE
    /\ job' = plist /\ agent' = "idle" /\ lingering' = NoPort
    /\ direct' = [p \in Ports |-> "none"] /\ spawning' = FALSE
    /\ word' = IF word = "drain" THEN "over" ELSE IF word = "ensure" THEN "none" ELSE word
    /\ torn' = (torn /\ plist \notin {NoPort, portfile})
    /\ UNCHANGED <<disk, threads, spent>>

-----------------------------------------------------------------------------

Thread(t) ==
    \/ Mark(t) \/ Restore(t) \/ Probe(t)
    \/ Retire(t) \/ RetireOut(t) \/ RetireFile(t) \/ Retired(t)
    \/ Adopt(t) \/ Adopting(t)
    \/ Install(t) \/ Reload(t) \/ Bootstrap(t) \/ Await(t) \/ Restart(t)
    \/ AbandonOut(t) \/ AbandonFile(t) \/ Freed(t) \/ Spawn(t) \/ Answer(t)
    \/ StopMarker(t) \/ StopOut(t) \/ StopFile(t) \/ DrainMarker(t) \/ Forget(t)

Call(t) == Ensure(t) \/ Supervise(t) \/ Stop(t) \/ Drain(t)
System == Bind \/ Notice \/ Release
Fault == Dies \/ Update \/ Kill("app") \/ Kill("cli")

Next ==
    \/ \E t \in Threads : Call(t) \/ Thread(t)
    \/ System \/ Wake \/ Launch \/ Relogin \/ Fault

Spec == Init /\ [][Next]_vars

\* A thread inside an operation goes on, the watcher's timer goes on, forwarders
\* poll, and launchd hands ports back.
FairSpec ==
    /\ Spec
    /\ \A t \in Threads : WF_vars(Thread(t))
    /\ WF_vars(Supervise("watch")) /\ WF_vars(Bind) /\ WF_vars(Notice) /\ WF_vars(Release)

-----------------------------------------------------------------------------

\* Once a stop is done, and until somebody asks for a forwarder, nothing of Gate
\* makes one start: no supervisory pass puts back the marker, the agent or its
\* file (forwarder.rs:794).
LetGo == word = "stop" => marker = "none" /\ job = NoPort /\ plist = NoPort

\* A drain leaves everyone served who was, until the session ends, and nothing
\* after it (forwarder.rs:1169).
Drained ==
    /\ word = "drain" => Holds(portfile)
    /\ word \in {"drain", "over"} => plist = NoPort
    /\ word = "over" => \A p \in Ports : ~Holds(p)

\* There is one forwarder at a time, not one of launchd's and one outside it, nor two
\* outside (forwarder.rs:127), but after an install that failed partway (883, 927),
\* until a login finds the files agreeing.
OneForwarder ==
    ~torn =>
    Cardinality({p \in Ports : direct[p] # "none"}) + (IF job = NoPort THEN 0 ELSE 1) <= 1

\* The port tools hold is never given up: whatever dies, is replaced, handed back
\* or abandoned, the forwarder comes back on it (forwarder.rs:44), with the same
\* exception.
PortKept == [][portfile # NoPort /\ ~torn' => portfile' = portfile]_vars

\* As long as the app is up, a forwarder is wanted and on record as such, and no
\* install has failed partway, one that died is back.
Revives ==
    <>[][~Fault]_vars =>
        (word = "ensure" /\ up ~> word # "ensure" \/ ~up \/ torn \/ Build \in {"up", "old"})
=============================================================================
