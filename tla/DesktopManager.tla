--------------------------- MODULE DesktopManager ---------------------------
(***************************************************************************)
(* The macOS/Windows proxy manager: DesktopManager in                      *)
(* crates/core/src/proxy/manager_core.rs.  One process hosts the engine    *)
(* and turns routing on and off; the system-proxy setting, the exported    *)
(* variables and the snapshot of each outlive it.                          *)
(*                                                                         *)
(* Actors: the threads that call the manager's operations, the crash       *)
(* callback that runs on a dying engine's own thread, the forwarder        *)
(* watcher, the user, and the power switch.  Every operation is one action *)
(* per step whose effect another actor, or a kill, can land after; `lock'  *)
(* is the engine mutex, held across the steps that hold it in the code.    *)
(*                                                                         *)
(* Left out: credentials and domains pushed into a running engine, the     *)
(* `forwarder_answering' flag and everything else only `status' reads, the *)
(* routing-intent file (written after an untrust, read by nothing here),   *)
(* audit records, and which port number the relay binds.                   *)
(***************************************************************************)
EXTENDS Naturals, FiniteSets

CONSTANTS
    Threads,      \* threads that may call the manager at once
    Ops,          \* the operations they may call
    Faults,       \* what may go wrong, by name (see Fails)
    UserProxies,  \* system-proxy settings that are the user's own
    UserEnvs,     \* values of HTTPS_PROXY that are the user's own
    FwdPorts,     \* ports a forwarder can be listening on
    EnginePort,   \* the engine's own listening port
    OptedIn,      \* env_export_opted_in: export the variables at all
    Gateways      \* gateway environments an account can belong to

Ports == FwdPorts \union {EnginePort}

\* The crash callback runs on the thread of an engine that is in the routing
\* slot (or in the hands of the operation holding the lock), in the dormant
\* slot, or in neither any more.
Callbacks == {"engine", "parked", "orphan"}

ASSUME SettingsAssumption ==
    /\ "off" \in UserProxies /\ "gate" \notin UserProxies /\ "none" \notin UserProxies
    /\ "unset" \in UserEnvs /\ "none" \notin UserEnvs /\ "gate" \notin UserEnvs

ASSUME PortsAssumption ==
    /\ "none" \notin Ports /\ Ports \intersect UserEnvs = {}
    /\ EnginePort \notin FwdPorts

ASSUME ActorsAssumption ==
    /\ Threads \intersect (Callbacks \union {"free"}) = {}
    /\ Ops \subseteq {"enable", "disable", "quit", "switch", "untrust"}
    /\ OptedIn \in BOOLEAN

VARIABLES
    lock,       \* holder of the engine mutex, or "free"
    pc,         \* where each thread is in its operation
    op,         \* the operation each thread is in, or was last in
    cb,         \* where the crash callback of each engine is
    guard,      \* engine.is_some(): this process hosts a routing engine
    eng,        \* the engine in the slot, being started, or taken by its stopper
    engGw,      \* the gateway that engine pinned at start
    dormant,    \* the parked engine
    exited,     \* disable_quiet has been called
    trusted,    \* the CA is trusted by the machine
    account,    \* the gateway the stored account belongs to
    sysproxy,   \* the system-proxy setting
    snap,       \* the system-proxy snapshot on disk, or "none"
    own,        \* history: the last system-proxy setting that was not Gate's
    env,        \* HTTPS_PROXY in the user's session
    envSnap,    \* the recorded prior value on disk, or "none"
    envOwn,     \* history: the last HTTPS_PROXY that was not Gate's
    exported,   \* exported_port, or "none"
    fwd,        \* the port the forwarder answers on, or "none"
    wanted,     \* the forwarder's marker file says one is wanted
    fport,      \* enable's forwarder_port
    pacTarget,  \* the port the served PAC names for Gate's hosts
    tickPort,   \* the port the watcher's pass in progress found
    watcher,    \* the forwarder watcher
    proc        \* the process: "down", at startup reconcile, or "up"

ctlVars    == <<lock, pc, op, cb>>
engineVars == <<guard, eng, engGw, dormant>>
proxyVars  == <<sysproxy, snap, own>>
envVars    == <<env, envSnap, envOwn, exported>>
fwdVars    == <<fwd, wanted, fport, pacTarget, tickPort, watcher>>
restVars   == <<exited, trusted, account, proc>>
vars == <<ctlVars, engineVars, proxyVars, envVars, fwdVars, restVars>>

-----------------------------------------------------------------------------
Free == lock = "free"

\* A step that may fail does so in the model only when its fault is named:
\*   precondition  no account, another host, preflight, CA or snapshot refused
\*   forwarder     the forwarder process dies     forwarderStart  it will not start
\*   taken         another Gate parked on the relay port
\*   start, startThread   engine::start fails before, or on, its own thread
\*   crash         an engine thread ends without being stopped
\*   point, pointPartial  setting the PAC fails, cleanly or after it took effect
\*   restore, unreadable  reverting the system proxy fails, its snapshot is unreadable
\*   env           writing or reverting the exported variables fails
\*   untrust       removing the root fails
\*   kill          the process is killed        cli   one starts without reconcile
\*   override      the user edits the setting while it is Gate's
\*   lateEdit      the user edits it while an operation holds the lock
\*   earlyEnable   operations are called while the startup reconcile runs
Fails(fault) == fault \in Faults

Goto(t, label) == pc' = [pc EXCEPT ![t] = label]
Finish(t, label) == lock' = "free" /\ Goto(t, label)

SetProxy(setting) ==
    /\ sysproxy' = setting
    /\ own' = IF setting = "gate" THEN own ELSE setting

\* Mistake: force the proxy off although a snapshot is there.
RevertTargetForcesOff == {"off"}

\* restore(snapshot), or force_off when there is none to read.  A failed
\* revert may or may not have reached the setting.
RevertTarget == {IF snap # "none" THEN snap ELSE "off"}
                \union (IF Fails("unreadable") THEN {"off"} ELSE {})
Revert(ok) ==
    /\ ok \/ Fails("restore")
    /\ \E setting \in RevertTarget \union (IF ok THEN {} ELSE {sysproxy}) : SetProxy(setting)

\* Mistake: record the variables again on every export.
ExportEnvRerecords(port, before) ==
    envSnap' = env /\ env' = port /\ exported' = port /\ UNCHANGED envOwn

\* system_proxy::enable_env: record what the variables held, unless a record
\* exists, then write ours; exported_port keeps `before' when that fails.
ExportEnv(port, before) ==
    /\ envSnap' = IF envSnap = "none" THEN env ELSE envSnap
    /\ \/ env' = port /\ exported' = port
       \/ Fails("env") /\ env' = env /\ exported' = before
    /\ UNCHANGED envOwn

\* system_proxy::disable_env: put the recorded value back, or clear; the record
\* goes either way.
WithdrawEnv ==
    /\ \/ env' = IF envSnap # "none" THEN envSnap ELSE "unset"
       \/ Fails("env") /\ env' = env
    /\ envSnap' = "none"
    /\ envOwn' = IF env' \in Ports THEN envOwn ELSE env'
    /\ UNCHANGED exported

\* An answering forwarder is reused, otherwise one is started.
Ensure(port) ==
    /\ \/ fwd # "none" /\ port = fwd
       \/ fwd = "none" /\ port \in FwdPorts
       \/ fwd = "none" /\ port = "none" /\ Fails("forwarderStart")
    /\ fwd' = port

\* RunningEngine::stop joins the engine's thread, and so its crash callback.
Joined(c) == cb[c] = "idle"

\* RunningEngine::is_finished: the thread is gone, its callback included.
Finished == eng = "dead" /\ Joined("engine")

Init ==
    /\ lock = "free" /\ pc = [t \in Threads |-> "idle"]
    /\ op = [t \in Threads |-> "enable"] /\ cb = [c \in Callbacks |-> "idle"]
    /\ guard = FALSE /\ eng = "none" /\ dormant = "none"
    /\ account \in Gateways /\ engGw = account
    /\ exited = FALSE /\ trusted = FALSE /\ proc = "starting"
    /\ sysproxy \in UserProxies /\ snap = "none" /\ own = sysproxy
    /\ env \in UserEnvs /\ envSnap = "none" /\ envOwn = env /\ exported = "none"
    /\ fwd = "none" /\ wanted = FALSE /\ fport = "none"
    /\ pacTarget = EnginePort /\ tickPort = "none" /\ watcher = "off"

-----------------------------------------------------------------------------
(* Calls.  disable_quiet marks the manager exited before it asks for the     *)
(* lock; untrust reads the slot under it and lets it go again.               *)

FirstStep(o) == CASE o = "enable" -> "enLock" [] o = "untrust" -> "utCheck" [] OTHER -> "disLock"

Call(t) ==
    /\ pc[t] = "idle"
    /\ proc = "up" \/ (Fails("earlyEnable") /\ proc \in {"starting", "reconciling"})
    /\ \E o \in Ops :
         /\ op' = [op EXCEPT ![t] = o]
         /\ Goto(t, FirstStep(o))
         /\ exited' = (exited \/ o = "quit")
    /\ UNCHANGED <<lock, cb, engineVars, proxyVars, envVars, fwdVars, trusted, account, proc>>

-----------------------------------------------------------------------------
(* enable, the engine mutex held from EnableLock to the step that frees it   *)

\* Mistake: enable does not look at `exited'.
EnableLockAfterExit(t) ==
    /\ pc[t] = "enLock" /\ Free /\ ~guard
    /\ lock' = t /\ trusted' = TRUE /\ engGw' = account /\ snap' = sysproxy
    /\ Goto(t, "enForwarder")
    /\ UNCHANGED <<op, cb, guard, eng, dormant, sysproxy, own, envVars, fwdVars, exited, account, proc>>

\* The refusals, the account read, the CA trust and the snapshot of the
\* user's setting.  A refusal after ca_ensure_trusted leaves the CA trusted.
EnableLock(t) ==
    /\ pc[t] = "enLock" /\ Free
    /\ \/ /\ exited \/ guard
          /\ Goto(t, "idle") /\ UNCHANGED <<lock, trusted, engGw, snap>>
       \/ /\ ~exited /\ ~guard /\ Fails("precondition")
          /\ UNCHANGED trusted \/ trusted' = TRUE
          /\ Goto(t, "idle") /\ UNCHANGED <<lock, engGw, snap>>
       \/ /\ ~exited /\ ~guard
          /\ lock' = t /\ trusted' = TRUE /\ engGw' = account /\ snap' = sysproxy
          /\ Goto(t, "enForwarder")
    /\ UNCHANGED <<op, cb, guard, eng, dormant, sysproxy, own, envVars, fwdVars, exited, account, proc>>

\* Mistake: the new engine starts while the parked one stays.
EnableForwarderKeepsPark(t) ==
    /\ pc[t] = "enForwarder"
    /\ \E port \in FwdPorts \union {"none"} : Ensure(port) /\ fport' = port
    /\ wanted' = TRUE /\ Goto(t, "enStart")
    /\ UNCHANGED <<lock, op, cb, engineVars, proxyVars, envVars, pacTarget, tickPort, watcher, restVars>>

\* The forwarder, then the parked engine's ports, then the refusal when
\* another Gate still answers on them (which leaves the snapshot on disk).
EnableForwarder(t) ==
    /\ pc[t] = "enForwarder" /\ Joined("parked")
    /\ \E port \in FwdPorts \union {"none"} : Ensure(port) /\ fport' = port
    /\ wanted' = TRUE /\ dormant' = "none"
    /\ \/ Goto(t, "enStart") /\ UNCHANGED lock
       \/ Fails("taken") /\ Finish(t, "idle")
    /\ UNCHANGED <<op, cb, guard, eng, engGw, proxyVars, envVars, pacTarget, tickPort, watcher, restVars>>

\* engine::start.  A thread that fails after it was spawned ends without
\* `stopping' set, so its crash callback runs although start returned Err.
EnableStart(t) ==
    /\ pc[t] = "enStart"
    /\ \/ /\ eng' = "up" /\ Goto(t, "enPoint")
          /\ pacTarget' = IF fport = "none" THEN EnginePort ELSE fport
          /\ UNCHANGED <<lock, cb>>
       \/ /\ Fails("start") /\ Finish(t, "idle") /\ UNCHANGED <<eng, pacTarget, cb>>
       \/ /\ Fails("startThread") /\ cb["orphan"] = "idle"
          /\ cb' = [cb EXCEPT !["orphan"] = "trying"]
          /\ Finish(t, "idle") /\ UNCHANGED <<eng, pacTarget>>
    /\ UNCHANGED <<op, guard, engGw, dormant, proxyVars, envVars, fwd, wanted, fport, tickPort, watcher, restVars>>

\* A failed point stops the engine and clears the snapshot without a restore.
EnablePoint(t) ==
    /\ pc[t] = "enPoint"
    /\ \/ /\ SetProxy("gate") /\ Goto(t, "enExport") /\ UNCHANGED <<lock, eng, snap>>
       \/ /\ Fails("point") /\ Joined("engine")
          /\ \E setting \in {sysproxy} \union (IF Fails("pointPartial") THEN {"gate"} ELSE {}) :
               SetProxy(setting)
          /\ eng' = "none" /\ snap' = "none" /\ Finish(t, "idle")
    /\ UNCHANGED <<op, cb, guard, engGw, dormant, envVars, fwdVars, restVars>>

\* The variables, the slot and the watcher.
EnableInstall(t) ==
    /\ pc[t] = "enExport"
    /\ IF OptedIn THEN ExportEnv(IF fport = "none" THEN EnginePort ELSE fport, "none")
                  ELSE exported' = "none" /\ UNCHANGED <<env, envSnap, envOwn>>
    /\ guard' = TRUE /\ fport' = "none"
    /\ watcher' = IF watcher = "off" THEN "asleep" ELSE watcher
    /\ Goto(t, "enCheck")
    /\ UNCHANGED <<lock, op, cb, eng, engGw, dormant, proxyVars, fwd, wanted, pacTarget, tickPort, restVars>>

\* Mistake: a dead engine is reaped and nothing is reverted.
EnableCheckOnlyReaps(t) ==
    /\ pc[t] = "enCheck"
    /\ IF Finished THEN guard' = FALSE /\ eng' = "none" ELSE UNCHANGED <<guard, eng>>
    /\ Finish(t, "idle")
    /\ UNCHANGED <<op, cb, engGw, dormant, proxyVars, envVars, fwdVars, restVars>>

\* The re-check for an engine that died meanwhile: a revert of the system
\* proxy, and of nothing else.
EnableCheck(t) ==
    /\ pc[t] = "enCheck"
    /\ IF Finished
       THEN /\ guard' = FALSE /\ eng' = "none"
            /\ \E ok \in BOOLEAN : Revert(ok) /\ snap' = IF ok THEN "none" ELSE snap
       ELSE UNCHANGED <<guard, eng, proxyVars>>
    /\ Finish(t, "idle")
    /\ UNCHANGED <<op, cb, engGw, dormant, envVars, fwdVars, restVars>>

Enable(t) == \/ EnableLock(t) \/ EnableForwarder(t) \/ EnableStart(t)
             \/ EnablePoint(t) \/ EnableInstall(t) \/ EnableCheck(t)

-----------------------------------------------------------------------------
(* disable_inner, for disable (parks), and for disable_quiet, shutdown_engine *)
(* and untrust (stop)                                                         *)

\* The engine leaves the slot and the variables are withdrawn first.
DisableTake(t) ==
    /\ pc[t] = "disLock" /\ Free
    /\ lock' = t /\ guard' = FALSE /\ WithdrawEnv
    /\ Goto(t, "disRevert")
    /\ UNCHANGED <<op, cb, eng, engGw, dormant, proxyVars, fwdVars, restVars>>

DisableRevert(t) ==
    /\ pc[t] = "disRevert"
    /\ \E ok \in BOOLEAN : Revert(ok) /\ Goto(t, IF ok THEN "disDown" ELSE "disFailed")
    /\ UNCHANGED <<lock, op, cb, engineVars, snap, envVars, fwdVars, restVars>>

AfterDisable(o, ok) == CASE o = "switch" /\ ok -> "swAccount"
                         [] o = "untrust" -> "utRelease"
                         [] OTHER -> "idle"

Park ==
    /\ Joined("parked") /\ dormant' = eng
    /\ cb' = [cb EXCEPT !["parked"] = cb["engine"], !["engine"] = "idle"]

\* Park or stop what was taken; with nothing taken, a stop takes down what an
\* earlier disable parked.  Only a revert that worked clears the snapshot.
DisableDown(t) ==
    /\ pc[t] \in {"disDown", "disFailed"}
    /\ LET ok == pc[t] = "disDown"
           park == op[t] = "disable" /\ ok
       IN  /\ CASE eng # "none" /\ park    -> Park
                [] eng # "none" /\ ~park   -> Joined("engine") /\ UNCHANGED <<dormant, cb>>
                [] eng = "none" /\ ~park   -> Joined("parked") /\ dormant' = "none" /\ UNCHANGED cb
                [] OTHER                   -> UNCHANGED <<dormant, cb>>
           /\ snap' = IF ok THEN "none" ELSE snap
           /\ Finish(t, AfterDisable(op[t], ok))
    /\ eng' = "none"
    /\ UNCHANGED <<op, guard, engGw, sysproxy, own, envVars, fwdVars, restVars>>

\* switch_gateway moves the account once the engine is down.
SwitchAccount(t) ==
    /\ pc[t] = "swAccount"
    /\ account' \in Gateways /\ Goto(t, "idle")
    /\ UNCHANGED <<lock, op, cb, engineVars, proxyVars, envVars, fwdVars, exited, trusted, proc>>

Disable(t) == DisableTake(t) \/ DisableRevert(t) \/ DisableDown(t) \/ SwitchAccount(t)

-----------------------------------------------------------------------------
(* untrust_with: stop, release what Gate holds, untrust, look again.  No     *)
(* lock is held between these steps.                                         *)

UntrustCheck(t) ==
    /\ pc[t] = "utCheck" /\ Free
    /\ Goto(t, IF guard THEN "disLock" ELSE "utRelease")
    /\ UNCHANGED <<lock, op, cb, engineVars, proxyVars, envVars, fwdVars, restVars>>

\* stop_dormant takes the parked engine out of its slot and then joins it; a
\* callback running on its thread meanwhile finds the slot empty.
UntrustRelease(t) ==
    /\ pc[t] = "utRelease"
    /\ Joined("orphan")
    /\ dormant' = "none"
    /\ cb' = [cb EXCEPT !["orphan"] = cb["parked"], !["parked"] = "idle"]
    /\ Goto(t, "utJoin")
    /\ UNCHANGED <<lock, op, guard, eng, engGw, proxyVars, envVars, fwdVars, restVars>>

UntrustJoin(t) ==
    /\ pc[t] = "utJoin" /\ Joined("orphan")
    /\ fwd' = "none" /\ wanted' = FALSE
    /\ Goto(t, "utUntrust")
    /\ UNCHANGED <<lock, op, cb, engineVars, proxyVars, envVars, fport, pacTarget, tickPort, watcher, restVars>>

UntrustRun(t) ==
    /\ pc[t] = "utUntrust"
    /\ \/ trusted' = FALSE /\ Goto(t, "utRaced")
       \/ Fails("untrust") /\ Goto(t, "idle") /\ UNCHANGED trusted
    /\ UNCHANGED <<lock, op, cb, engineVars, proxyVars, envVars, fwdVars, exited, account, proc>>

\* Mistake: the engine is not looked at again after the untrust.
UntrustRacedBlind(t) ==
    /\ pc[t] = "utRaced" /\ Goto(t, "idle")
    /\ UNCHANGED <<lock, op, cb, engineVars, proxyVars, envVars, fwdVars, restVars>>

UntrustRaced(t) ==
    /\ pc[t] = "utRaced" /\ Free
    /\ IF guard THEN Goto(t, "disLock") /\ op' = [op EXCEPT ![t] = "untrustAgain"]
                ELSE Goto(t, "idle") /\ UNCHANGED op
    /\ UNCHANGED <<lock, cb, engineVars, proxyVars, envVars, fwdVars, restVars>>

Untrust(t) == \/ UntrustCheck(t) \/ UntrustRelease(t) \/ UntrustJoin(t)
              \/ UntrustRun(t) \/ UntrustRaced(t)

-----------------------------------------------------------------------------
(* The engine threads and handle_engine_crash                                *)

EngineDies ==
    /\ Fails("crash") /\ eng = "up"
    /\ eng' = "dead" /\ cb' = [cb EXCEPT !["engine"] = "trying"]
    /\ UNCHANGED <<lock, pc, op, guard, engGw, dormant, proxyVars, envVars, fwdVars, restVars>>

ParkedDies ==
    /\ Fails("crash") /\ dormant = "up"
    /\ dormant' = "dead" /\ cb' = [cb EXCEPT !["parked"] = "trying"]
    /\ UNCHANGED <<lock, pc, op, guard, eng, engGw, proxyVars, envVars, fwdVars, restVars>>

\* Mistake: after its tries it goes ahead without the lock.
CallbackLockForces(c) ==
    /\ cb[c] = "trying"
    /\ lock' = c /\ guard' = FALSE /\ cb' = [cb EXCEPT ![c] = "env"]
    /\ UNCHANGED <<pc, op, eng, engGw, dormant, proxyVars, envVars, fwdVars, restVars>>

\* Mistake: it stands down unless is_finished, which its own thread never sees.
CallbackLockStandsDown(c) ==
    /\ cb[c] = "trying" /\ Free
    /\ cb' = [cb EXCEPT ![c] = "idle"]
    /\ UNCHANGED <<lock, guard, pc, op, eng, engGw, dormant, proxyVars, envVars, fwdVars, restVars>>

\* try_lock succeeds: stand down for a parked engine, else take the slot.
CallbackLock(c) ==
    /\ cb[c] = "trying" /\ Free
    /\ IF ~guard /\ dormant # "none"
       THEN cb' = [cb EXCEPT ![c] = "idle"] /\ UNCHANGED <<lock, guard>>
       ELSE lock' = c /\ guard' = FALSE /\ cb' = [cb EXCEPT ![c] = "env"]
    /\ UNCHANGED <<pc, op, eng, engGw, dormant, proxyVars, envVars, fwdVars, restVars>>

\* Mistake: it waits for the lock as long as it takes.
CallbackNeverDefers(c) == cb[c] = "deferred" /\ UNCHANGED vars

\* All of its tries found the lock held: defer to the holder, and end.
CallbackDefers(c) ==
    /\ \/ cb[c] = "trying" /\ ~Free /\ cb' = [cb EXCEPT ![c] = "deferred"]
       \/ cb[c] = "deferred" /\ cb' = [cb EXCEPT ![c] = "idle"]
    /\ UNCHANGED <<lock, pc, op, engineVars, proxyVars, envVars, fwdVars, restVars>>

\* Stop the engine it took, without joining its own thread, and withdraw the
\* variables.
CallbackStop(c) ==
    /\ cb[c] = "env" /\ (c = "engine" \/ Joined("engine"))
    /\ eng' = "none" /\ WithdrawEnv
    /\ cb' = [cb EXCEPT ![c] = "proxy"]
    /\ UNCHANGED <<lock, pc, op, guard, engGw, dormant, proxyVars, fwdVars, restVars>>

\* Revert the system proxy, ignoring failures, and clear the snapshot.
CallbackRevert(c) ==
    /\ cb[c] = "proxy"
    /\ \E ok \in BOOLEAN : Revert(ok)
    /\ snap' = "none" /\ lock' = "free"
    /\ cb' = [cb EXCEPT ![c] = "idle"]
    /\ UNCHANGED <<pc, op, engineVars, envVars, fwdVars, restVars>>

Callback(c) == CallbackLock(c) \/ CallbackDefers(c) \/ CallbackStop(c) \/ CallbackRevert(c)

-----------------------------------------------------------------------------
(* forwarder_tick, and the forwarder process                                 *)

\* The watcher retires under the lock acquisition that saw the slot empty.
TickCheck ==
    /\ watcher = "asleep" /\ Free
    /\ watcher' = IF guard THEN "supervise" ELSE "off"
    /\ UNCHANGED <<ctlVars, engineVars, proxyVars, envVars, fwd, wanted, fport, pacTarget, tickPort, restVars>>

\* ensure_running_supervised, outside the lock: busy while an enable is in its
\* own ensure, declined when no forwarder is wanted.
TickSupervise ==
    /\ watcher = "supervise"
    /\ \/ /\ ~wanted \/ \E t \in Threads : pc[t] = "enForwarder"
          /\ watcher' = "asleep" /\ UNCHANGED <<fwd, tickPort>>
       \/ /\ wanted
          /\ \E port \in FwdPorts \union {"none"} :
               /\ Ensure(port)
               /\ tickPort' = port
               /\ watcher' = IF port = "none" THEN "asleep" ELSE "repoint"
    /\ UNCHANGED <<ctlVars, engineVars, proxyVars, envVars, wanted, fport, pacTarget, restVars>>

\* Mistake: the variables follow the forwarder and the PAC does not.
TickRepointOnlyEnv ==
    /\ watcher = "repoint" /\ Free
    /\ watcher' = IF guard /\ OptedIn THEN "export" ELSE "asleep"
    /\ UNCHANGED <<ctlVars, engineVars, proxyVars, envVars, fwd, wanted, fport, pacTarget, tickPort, restVars>>

\* The PAC is repointed under the lock; the export is decided there too, and
\* made after the lock is dropped.
TickRepoint ==
    /\ watcher = "repoint" /\ Free
    /\ pacTarget' = IF guard THEN tickPort ELSE pacTarget
    /\ watcher' = IF guard /\ OptedIn THEN "export" ELSE "asleep"
    /\ UNCHANGED <<ctlVars, engineVars, proxyVars, envVars, fwd, wanted, fport, tickPort, restVars>>

TickExport ==
    /\ watcher = "export"
    /\ IF exported # tickPort THEN ExportEnv(tickPort, exported) ELSE UNCHANGED envVars
    /\ watcher' = "asleep" /\ tickPort' = "none"
    /\ UNCHANGED <<ctlVars, engineVars, proxyVars, fwd, wanted, fport, pacTarget, restVars>>

Tick == TickCheck \/ TickSupervise \/ TickRepoint \/ TickExport

ForwarderDies ==
    /\ Fails("forwarder") /\ fwd # "none"
    /\ fwd' = "none"
    /\ UNCHANGED <<ctlVars, engineVars, proxyVars, envVars, wanted, fport, pacTarget, tickPort, watcher, restVars>>

-----------------------------------------------------------------------------
(* The user, the power switch and the next launch                            *)

UserEdits ==
    /\ Free \/ Fails("lateEdit")
    /\ sysproxy # "gate" \/ Fails("override")
    /\ \E setting \in UserProxies \ {sysproxy} : SetProxy(setting)
    /\ UNCHANGED <<ctlVars, engineVars, snap, envVars, fwdVars, restVars>>

\* `launchctl setenv', while the variable is not Gate's.
UserSetsEnv ==
    /\ env \notin Ports
    /\ env' \in UserEnvs \ {env} /\ envOwn' = env'
    /\ UNCHANGED <<ctlVars, engineVars, proxyVars, envSnap, exported, fwdVars, restVars>>

\* What is in the process's memory goes; what is on disk or in the session
\* stays, and so does the forwarder, a process of its own.
Kill ==
    /\ Fails("kill") /\ proc # "down"
    /\ proc' = "down"
    /\ lock' = "free" /\ pc' = [t \in Threads |-> "idle"] /\ cb' = [c \in Callbacks |-> "idle"]
    /\ guard' = FALSE /\ eng' = "none" /\ dormant' = "none"
    /\ exported' = "none" /\ exited' = FALSE
    /\ fport' = "none" /\ tickPort' = "none" /\ watcher' = "off"
    /\ UNCHANGED <<op, engGw, proxyVars, env, envSnap, envOwn, fwd, wanted, pacTarget, trusted, account>>

\* The app reconciles before anything else; the CLI does not.
Launch ==
    /\ proc = "down"
    /\ proc' \in {"starting"} \union (IF Fails("cli") THEN {"up"} ELSE {})
    /\ UNCHANGED <<ctlVars, engineVars, proxyVars, envVars, fwdVars, exited, trusted, account>>

ReconcileEnv ==
    /\ proc = "starting"
    /\ WithdrawEnv /\ proc' = "reconciling"
    /\ UNCHANGED <<ctlVars, engineVars, proxyVars, fwdVars, exited, trusted, account>>

\* clear_stranded_loopback switches off a loopback PAC nothing listens behind.
Swept(setting) == IF setting = "gate" /\ eng # "up" THEN "off" ELSE setting

\* A leftover snapshot is restored, an unreadable one forces the proxy off; a
\* failure of either keeps the snapshot and skips the sweep.
ReconcileProxy ==
    /\ proc = "reconciling"
    /\ \/ /\ snap = "none" /\ SetProxy(Swept(sysproxy)) /\ UNCHANGED snap
       \/ /\ snap # "none" /\ snap' = "none"
          /\ \E setting \in RevertTarget : SetProxy(Swept(setting))
       \/ /\ snap # "none" /\ Revert(FALSE) /\ UNCHANGED snap
    /\ proc' = "up"
    /\ UNCHANGED <<ctlVars, engineVars, envVars, fwdVars, exited, trusted, account>>

-----------------------------------------------------------------------------
Step(t) == Call(t) \/ Enable(t) \/ Disable(t) \/ Untrust(t)

Next == \/ \E t \in Threads : Step(t)
        \/ \E c \in Callbacks : Callback(c)
        \/ EngineDies \/ ParkedDies
        \/ Tick \/ ForwarderDies
        \/ UserEdits \/ UserSetsEnv \/ Kill \/ Launch \/ ReconcileEnv \/ ReconcileProxy

Spec == Init /\ [][Next]_vars

\* The scheduler runs every thread, and a thread that keeps asking for the
\* engine mutex gets it; nothing makes a thread call an operation.
Operation(t) == Enable(t) \/ Disable(t) \/ Untrust(t)

FairSpec ==
    /\ Spec
    /\ \A t \in Threads : SF_vars(Operation(t))
    /\ \A c \in Callbacks : WF_vars(Callback(c))
    /\ SF_vars(Tick)
    /\ WF_vars(Launch \/ ReconcileEnv \/ ReconcileProxy)

-----------------------------------------------------------------------------
TypeOK ==
    /\ lock \in Threads \union Callbacks \union {"free"}
    /\ pc \in [Threads -> {"idle", "enLock", "enForwarder", "enStart", "enPoint", "enExport",
                           "enCheck", "disLock", "disRevert", "disDown", "disFailed", "swAccount",
                           "utCheck", "utRelease", "utJoin", "utUntrust", "utRaced"}]
    /\ op \in [Threads -> {"enable", "disable", "quit", "switch", "untrust", "untrustAgain"}]
    /\ cb \in [Callbacks -> {"idle", "trying", "deferred", "env", "proxy"}]
    /\ guard \in BOOLEAN /\ eng \in {"none", "up", "dead"} /\ dormant \in {"none", "up", "dead"}
    /\ engGw \in Gateways /\ account \in Gateways
    /\ exited \in BOOLEAN /\ trusted \in BOOLEAN
    /\ proc \in {"down", "starting", "reconciling", "up"}
    /\ sysproxy \in UserProxies \union {"gate"} /\ own \in UserProxies
    /\ snap \in UserProxies \union {"gate", "none"}
    /\ env \in UserEnvs \union Ports /\ envOwn \in UserEnvs /\ envSnap \in UserEnvs \union Ports \union {"none"}
    /\ fwd \in FwdPorts \union {"none"} /\ fport \in FwdPorts \union {"none"}
    /\ tickPort \in FwdPorts \union {"none"}
    /\ exported \in Ports \union {"none"} /\ pacTarget \in Ports
    /\ wanted \in BOOLEAN
    /\ watcher \in {"off", "asleep", "supervise", "repoint", "export"}

\* Whenever the machine points at Gate, the disk holds exactly the setting
\* Gate replaced, so a disable, a crash callback or the next launch's
\* reconcile can give it back.
Restorable == sysproxy = "gate" => snap = own

\* Nothing of Gate's is ever recorded as the setting to restore.
SnapshotIsTheUsers == snap # "gate"

\* With no operation under way in a live process, a machine that points at
\* Gate is one whose process holds the engine.
NotStranded == sysproxy = "gate" /\ Free /\ proc = "up" => guard

\* Once the exit's revert has run, nothing in this process points the machine
\* at Gate again.
ExitIsFinal ==
    exited /\ Free /\ (\A t \in Threads : op[t] = "quit" => pc[t] = "idle") => sysproxy # "gate"

\* When an untrust has returned, no engine routes on the root it removed.
NothingRoutesUntrusted ==
    guard /\ ~trusted =>
        \E t \in Threads : pc[t] = "utRaced" \/ (op[t] = "untrustAgain" /\ pc[t] = "disLock")

\* A routing engine always has a forwarder watcher, however enables and
\* disables fall against the watcher's retirement.
HostedIsWatched == guard => watcher # "off"

\* The routing slot and the dormant slot are never both occupied.
OneEngine == guard => dormant = "none"

\* While the variables name Gate, the value they had before is on record.
EnvRestorable == env \in Ports => envSnap = envOwn

\* The crash fail-safe never takes down an engine that is alive.
HealthyEngineSurvives ==
    [][\A c \in Callbacks : cb[c] = "trying" /\ cb'[c] = "env" /\ guard => eng = "dead"]_vars

\* Every operation comes back: none waits for ever on the mutex, nor on joining
\* an engine thread whose callback wants that mutex.
OperationsEnd == \A t \in Threads : pc[t] # "idle" ~> pc[t] = "idle"

\* An engine that dies while no operation holds the lock always gets the
\* machine's setting given back.
CrashReverted ==
    eng = "dead" /\ cb["engine"] = "trying" /\ Free ~> sysproxy # "gate" \/ proc = "down"

\* While routing is on the PAC comes to name the port the forwarder answers on.
PacFollows ==
    \A port \in FwdPorts : guard /\ fwd = port ~> ~guard \/ fwd # port \/ pacTarget = port

\* While routing is on a forwarder that died is started again.
ForwarderRevived == guard /\ wanted /\ fwd = "none" ~> ~guard \/ ~wanted \/ fwd # "none"

\* What the comments promise and the code does not keep.

\* With routing off and nothing under way, the variables do not name Gate.
EnvWithdrawn ==
    env \in Ports /\ Free /\ proc = "up" /\ watcher \in {"off", "asleep"}
      /\ (\A c \in Callbacks : cb[c] = "idle") => guard

Custody == INSTANCE ProxyCustody WITH Settings <- UserProxies, Gate <- "gate",
                                      setting <- sysproxy, replaced <- own
CustodySpec == Custody!Spec
=============================================================================
