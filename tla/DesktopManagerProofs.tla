------------------------ MODULE DesktopManagerProofs ------------------------
(***************************************************************************)
(* What DesktopManager keeps for every set of threads, settings, ports and *)
(* faults, and what it keeps when some of the faults are left out.         *)
(***************************************************************************)
EXTENDS DesktopManager, TLAPS

\* A pass of the watcher that found a forwarder knows its port.
TickKnowsPort == watcher \in {"repoint", "export"} => tickPort # "none"

TypeInv == TypeOK /\ TickKnowsPort

\* The engine mutex: which steps of an operation or a callback hold it, and
\* whether the routing slot is occupied at them.
HeldPcs == {"enForwarder", "enStart", "enPoint", "enExport", "enCheck",
            "disRevert", "disDown", "disFailed"}

Mutex ==
    /\ \A t \in Threads : pc[t] \in HeldPcs <=> lock = t
    /\ \A c \in Callbacks : cb[c] \in {"env", "proxy"} <=> lock = c

Hosting ==
    /\ \A t \in Threads : pc[t] \in HeldPcs \ {"enCheck"} => ~guard
    /\ \A t \in Threads : pc[t] = "enCheck" => guard
    /\ \A c \in Callbacks : cb[c] \in {"env", "proxy"} => ~guard

\* From the release of the parked engine on, an enable finds none.
OneInv ==
    /\ OneEngine
    /\ \A t \in Threads : pc[t] \in {"enStart", "enPoint", "enExport", "enCheck"} => dormant = "none"

\* An engine exists from its start to the end of whatever takes it down, and
\* only a dead one has a callback; a parked engine's never gets past the lock.
Engines ==
    /\ Free /\ ~guard => eng = "none"
    /\ \A t \in Threads : pc[t] \in {"enForwarder", "enStart"} => eng = "none"
    /\ \A c \in Callbacks : cb[c] = "proxy" => eng = "none"
    /\ eng = "up" => cb["engine"] = "idle"
    /\ eng = "none" => cb["engine"] \in {"idle", "proxy"}
    /\ dormant # "dead" => cb["parked"] = "idle"
    /\ cb["parked"] \in {"idle", "trying", "deferred"}

LockInv == TypeInv /\ Mutex /\ Hosting /\ OneInv /\ Engines

\* An untrust that removed the root under an engine, or under an enable that is
\* bringing one up, has still to look again.
EnablingPcs == {"enForwarder", "enStart", "enPoint", "enExport"}
LooksAgain == \E t \in Threads : pc[t] = "utRaced" \/ (op[t] = "untrustAgain" /\ pc[t] = "disLock")
UntrustInv == ~trusted /\ (guard \/ \E t \in Threads : pc[t] \in EnablingPcs) => LooksAgain

\* The faults that are a failed or forestalled revert of the system proxy, or
\* someone else's change of a setting Gate is holding.
Disorders == {"restore", "pointPartial", "cli", "override", "lateEdit", "earlyEnable"}
Orderly == Faults \intersect Disorders = {}

\* A process that is not up has nothing running.
Quiet == proc # "up" =>
    /\ lock = "free" /\ ~guard /\ eng = "none" /\ dormant = "none"
    /\ \A t \in Threads : pc[t] = "idle"
    /\ \A c \in Callbacks : cb[c] = "idle"

\* Where the system-proxy setting and its snapshot stand at every step.
Custodial ==
    /\ sysproxy # "gate" => own = sysproxy
    /\ snap # "gate"
    /\ Restorable
    /\ NotStranded
    /\ \A t \in Threads : pc[t] \in {"enForwarder", "enStart", "enPoint"} => sysproxy # "gate" /\ snap = sysproxy
    /\ \A t \in Threads : pc[t] = "disDown" => sysproxy # "gate"
    /\ \A t \in Threads : pc[t] # "disFailed"

CustodyInv == LockInv /\ Quiet /\ Custodial

\* After disable_quiet has marked the manager exited, whatever points the
\* machine at Gate is followed by that call's own revert.
QuitPending == \E t \in Threads : op[t] = "quit" /\ pc[t] = "disLock"
ExitInv == exited =>
    /\ sysproxy = "gate" => \/ QuitPending
                            \/ \E t \in Threads : pc[t] = "disRevert"
                            \/ \E c \in Callbacks : cb[c] \in {"env", "proxy"}
    /\ (\E t \in Threads : pc[t] \in {"enForwarder", "enStart", "enPoint"}) => QuitPending

\* The exported variables and their record.
EnvInv == IF env \in Ports THEN envSnap = envOwn ELSE envSnap = "none" /\ envOwn = env

-----------------------------------------------------------------------------
\* The program starts in a state of the right type.
LEMMA TypeInit == Init => TypeInv
  BY SettingsAssumption, PortsAssumption, ActorsAssumption
     DEF Init, TypeInv, TypeOK, TickKnowsPort, Ports, Callbacks

USE SettingsAssumption, PortsAssumption, ActorsAssumption

\* Every step of a call keeps the types: each assignment of enable is in range
\* because the forwarder's port is one, or none, when it is recorded.
LEMMA TypeEnable == ASSUME TypeInv, NEW t \in Threads, Enable(t) PROVE TypeInv'
  <1> USE DEF TypeInv, TypeOK, TickKnowsPort, Ports, Goto, Finish, SetProxy,
              engineVars, proxyVars, envVars, fwdVars, restVars,
              Free, Fails, Joined, Finished
  <1>1. CASE EnableLock(t) 
    <2>1. trusted' \in BOOLEAN BY <1>1 DEF EnableLock
    <2>2. lock' \in {lock, t} /\ engGw' \in {engGw, account} BY <1>1 DEF EnableLock
    <2>3. snap' \in {snap, sysproxy} BY <1>1 DEF EnableLock
    <2>4. pc' \in {[pc EXCEPT ![t] = "idle"], [pc EXCEPT ![t] = "enForwarder"]} BY <1>1 DEF EnableLock
    <2>5. UNCHANGED <<op, cb, guard, eng, dormant, sysproxy, own, envVars, fwdVars, exited, account, proc>>
        BY <1>1 DEF EnableLock
    <2> QED BY <2>1, <2>2, <2>3, <2>4, <2>5
  <1>2. CASE EnableForwarder(t) BY <1>2 DEF EnableForwarder, Ensure
  <1>3. CASE EnableStart(t) BY <1>3 DEF EnableStart, Callbacks
  <1>4. CASE EnablePoint(t) BY <1>4 DEF EnablePoint
  <1>5. CASE EnableInstall(t) BY <1>5 DEF EnableInstall, ExportEnv
  <1>6. CASE EnableCheck(t) 
    <2>1. guard' \in BOOLEAN BY <1>6 DEF EnableCheck
    <2>2. eng' \in {"none", "up", "dead"} BY <1>6 DEF EnableCheck
    <2>3. sysproxy' \in UserProxies \union {"gate"} /\ own' \in UserProxies
          /\ snap' \in UserProxies \union {"gate", "none"}
      BY <1>6 DEF EnableCheck, Revert, RevertTarget
    <2>4. lock' = "free" BY <1>6 DEF EnableCheck
    <2>5. UNCHANGED <<op, cb, engGw, dormant, envVars, fwdVars, restVars>> BY <1>6 DEF EnableCheck
    <2>6. pc' = [pc EXCEPT ![t] = "idle"] BY <1>6 DEF EnableCheck
    <2> QED BY <2>1, <2>2, <2>3, <2>4, <2>5, <2>6
  <1> QED BY <1>1, <1>2, <1>3, <1>4, <1>5, <1>6 DEF Enable

\* A teardown keeps the types, whichever setting its revert reaches and
\* whichever engine it parks.
LEMMA TypeDisable == ASSUME TypeInv, NEW t \in Threads, Disable(t) PROVE TypeInv'
  <1> USE DEF TypeInv, TypeOK, TickKnowsPort, Ports, Goto, Finish, SetProxy,
              engineVars, proxyVars, envVars, fwdVars, restVars,
              Free, Fails, Joined, Finished
  <1>1. CASE DisableTake(t) 
    <2>1. env' \in UserEnvs \union Ports /\ envOwn' \in UserEnvs /\ envSnap' = "none"
      BY <1>1 DEF DisableTake, WithdrawEnv
    <2>2. lock' = t /\ pc' = [pc EXCEPT ![t] = "disRevert"]
      BY <1>1 DEF DisableTake
    <2>3. guard' \in BOOLEAN BY <1>1 DEF DisableTake
    <2>4. UNCHANGED <<op, cb, eng, engGw, dormant, proxyVars, fwdVars, restVars, exported>>
      BY <1>1 DEF DisableTake, WithdrawEnv
    <2> QED BY <2>1, <2>2, <2>3, <2>4
  <1>2. CASE DisableRevert(t) BY <1>2 DEF DisableRevert, Revert, RevertTarget
  <1>3. CASE DisableDown(t)
    <2>1. dormant' \in {"none", "up", "dead"} BY <1>3 DEF DisableDown, Park
    <2>2. cb' \in [Callbacks -> {"idle", "trying", "deferred", "env", "proxy"}]
      BY <1>3 DEF DisableDown, Park, Callbacks
    <2>3. snap' \in {snap, "none"} BY <1>3 DEF DisableDown
    <2>4. PICK label \in {"swAccount", "utRelease", "idle"} : pc' = [pc EXCEPT ![t] = label]
      BY <1>3 DEF DisableDown, AfterDisable
    <2>5. lock' = "free" /\ eng' = "none" BY <1>3 DEF DisableDown
    <2>6. UNCHANGED <<op, guard, engGw, sysproxy, own, envVars, fwdVars, restVars>>
      BY <1>3 DEF DisableDown
    <2> QED BY <2>1, <2>2, <2>3, <2>4, <2>5, <2>6
  <1>4. CASE SwitchAccount(t) BY <1>4 DEF SwitchAccount
  <1> QED BY <1>1, <1>2, <1>3, <1>4 DEF Disable

\* An untrust keeps the types.
LEMMA TypeUntrust == ASSUME TypeInv, NEW t \in Threads, Untrust(t) PROVE TypeInv'
  <1> USE DEF TypeInv, TypeOK, TickKnowsPort, Ports, Goto, Finish,
              engineVars, proxyVars, envVars, fwdVars, restVars,
              Free, Fails, Joined, Callbacks
  <1>1. CASE UntrustCheck(t) BY <1>1 DEF UntrustCheck
  <1>2. CASE UntrustRelease(t) BY <1>2 DEF UntrustRelease
  <1>3. CASE UntrustJoin(t) 
    <2>1. fwd' = "none" /\ wanted' \in BOOLEAN /\ pc' = [pc EXCEPT ![t] = "utUntrust"]
      BY <1>3 DEF UntrustJoin
    <2>2. UNCHANGED <<lock, op, cb, engineVars, proxyVars, envVars, fport, pacTarget,
                      tickPort, watcher, restVars>>
      BY <1>3 DEF UntrustJoin
    <2> QED BY <2>1, <2>2
  <1>4. CASE UntrustRun(t) 
    <2>1. trusted' \in BOOLEAN BY <1>4 DEF UntrustRun
    <2>2. PICK label \in {"utRaced", "idle"} : pc' = [pc EXCEPT ![t] = label]
      BY <1>4 DEF UntrustRun
    <2>3. UNCHANGED <<lock, op, cb, engineVars, proxyVars, envVars, fwdVars, exited, account, proc>>
      BY <1>4 DEF UntrustRun
    <2> QED BY <2>1, <2>2, <2>3
  <1>5. CASE UntrustRaced(t) BY <1>5 DEF UntrustRaced
  <1> QED BY <1>1, <1>2, <1>3, <1>4, <1>5 DEF Untrust

\* A call names an operation and a first step that exist.
LEMMA TypeCall == ASSUME TypeInv, NEW t \in Threads, Call(t) PROVE TypeInv'
  <1> USE DEF TypeInv, TypeOK, TickKnowsPort
  <1>1. PICK o \in Ops : op' = [op EXCEPT ![t] = o] /\ Goto(t, FirstStep(o))
    BY DEF Call
  <1>2. pc' \in [Threads -> {"idle", "enLock", "enForwarder", "enStart", "enPoint", "enExport",
                             "enCheck", "disLock", "disRevert", "disDown", "disFailed", "swAccount",
                             "utCheck", "utRelease", "utJoin", "utUntrust", "utRaced"}]
    BY <1>1 DEF Goto, FirstStep
  <1>3. op' \in [Threads -> {"enable", "disable", "quit", "switch", "untrust", "untrustAgain"}]
    BY <1>1
  <1>4. exited' \in BOOLEAN BY DEF Call
  <1>5. UNCHANGED <<lock, cb, engineVars, proxyVars, envVars, fwdVars, trusted, account, proc>>
    BY DEF Call
  <1> QED BY <1>2, <1>3, <1>4, <1>5 DEF engineVars, proxyVars, envVars, fwdVars

\* A crash callback keeps the types.
LEMMA TypeCallback == ASSUME TypeInv, NEW c \in Callbacks, Callback(c) PROVE TypeInv'
  <1> USE DEF TypeInv, TypeOK, TickKnowsPort, Ports, SetProxy,
              engineVars, proxyVars, envVars, fwdVars, restVars,
              Free, Fails, Joined
  <1>1. CASE CallbackLock(c) 
    <2>1. guard' \in BOOLEAN /\ lock' \in {lock, c} BY <1>1 DEF CallbackLock
    <2>2. PICK label \in {"idle", "env"} : cb' = [cb EXCEPT ![c] = label]
      BY <1>1 DEF CallbackLock
    <2>3. UNCHANGED <<pc, op, eng, engGw, dormant, proxyVars, envVars, fwdVars, restVars>>
      BY <1>1 DEF CallbackLock
    <2> QED BY <2>1, <2>2, <2>3
  <1>2. CASE CallbackDefers(c) BY <1>2 DEF CallbackDefers
  <1>3. CASE CallbackStop(c) BY <1>3 DEF CallbackStop, WithdrawEnv
  <1>4. CASE CallbackRevert(c) BY <1>4 DEF CallbackRevert, Revert, RevertTarget
  <1> QED BY <1>1, <1>2, <1>3, <1>4 DEF Callback

\* A pass of the watcher keeps the types: it repoints and exports only a port
\* its ensure came back with.
LEMMA TypeTick == ASSUME TypeInv, Tick PROVE TypeInv'
  <1> USE DEF TypeInv, TypeOK, TickKnowsPort, Ports,
              ctlVars, engineVars, proxyVars, envVars, fwdVars, restVars, Free, Fails
  <1>1. CASE TickCheck BY <1>1 DEF TickCheck
  <1>2. CASE TickSupervise BY <1>2 DEF TickSupervise, Ensure
  <1>3. CASE TickRepoint BY <1>3 DEF TickRepoint
  <1>4. CASE TickExport BY <1>4 DEF TickExport, ExportEnv
  <1> QED BY <1>1, <1>2, <1>3, <1>4 DEF Tick

\* What the engines, the user, the power switch and a launch do keeps the types.
LEMMA TypeWorld ==
  ASSUME TypeInv,
         EngineDies \/ ParkedDies \/ ForwarderDies \/ UserEdits \/ UserSetsEnv
           \/ Kill \/ Launch \/ ReconcileEnv \/ ReconcileProxy
  PROVE  TypeInv'
  <1> USE DEF TypeInv, TypeOK, TickKnowsPort, Ports, SetProxy,
              ctlVars, engineVars, proxyVars, envVars, fwdVars, restVars, Free, Fails, Callbacks
  <1>1. CASE EngineDies BY <1>1 DEF EngineDies
  <1>2. CASE ParkedDies BY <1>2 DEF ParkedDies
  <1>3. CASE ForwarderDies BY <1>3 DEF ForwarderDies
  <1>4. CASE UserEdits BY <1>4 DEF UserEdits
  <1>5. CASE UserSetsEnv BY <1>5 DEF UserSetsEnv
  <1>6. CASE Kill
    <2>1. pc' = [t \in Threads |-> "idle"] /\ cb' = [c \in Callbacks |-> "idle"]
      BY <1>6 DEF Kill
    <2>2. lock' = "free" /\ eng' = "none" /\ dormant' = "none" /\ exported' = "none" /\ proc' = "down"
          /\ fport' = "none" /\ tickPort' = "none" /\ watcher' = "off"
      BY <1>6 DEF Kill
    <2>3. UNCHANGED <<op, engGw, proxyVars, env, envSnap, envOwn, fwd, wanted, pacTarget,
                      trusted, account>>
      BY <1>6 DEF Kill
    <2>4. guard' \in BOOLEAN /\ exited' \in BOOLEAN BY <1>6 DEF Kill
    <2> QED BY <2>1, <2>2, <2>3, <2>4
  <1>7. CASE Launch BY <1>7 DEF Launch
  <1>8. CASE ReconcileEnv BY <1>8 DEF ReconcileEnv, WithdrawEnv
  <1>9. CASE ReconcileProxy BY <1>9 DEF ReconcileProxy, Revert, RevertTarget, Swept
  <1> QED BY <1>1, <1>2, <1>3, <1>4, <1>5, <1>6, <1>7, <1>8, <1>9

\* No step of any actor leaves the types.
LEMMA TypeNext == TypeInv /\ [Next]_vars => TypeInv'
  <1> SUFFICES ASSUME TypeInv, [Next]_vars PROVE TypeInv'
    OBVIOUS
  <1>1. ASSUME NEW t \in Threads, Step(t) PROVE TypeInv'
    BY <1>1, TypeCall, TypeEnable, TypeDisable, TypeUntrust DEF Step
  <1>2. CASE UNCHANGED vars
    BY <1>2 DEF vars, ctlVars, engineVars, proxyVars, envVars, fwdVars, restVars,
                TypeInv, TypeOK, TickKnowsPort
  <1> QED BY <1>1, <1>2, TypeCallback, TypeTick, TypeWorld DEF Next

\* Every variable keeps to its range, whatever fails and however many threads
\* call the manager.
THEOREM TypeCorrect == Spec => []TypeOK
  <1>1. TypeInv => TypeOK
    BY DEF TypeInv
  <1> QED BY <1>1, TypeInit, TypeNext, PTL DEF Spec

-----------------------------------------------------------------------------
(* The engine mutex, the two engine slots and the callbacks                  *)

\* What a step has to keep of LockInv besides the types.
LockStep == Mutex' /\ Hosting' /\ OneInv' /\ Engines'

\* At the start nobody holds the mutex and there is no engine.
LEMMA LockInit == Init => LockInv
  BY TypeInit DEF Init, LockInv, Mutex, Hosting, HeldPcs, OneInv, OneEngine, Engines, Callbacks

\* An enable holds the mutex from the snapshot on, and starts its engine only
\* after the parked one is gone.
LEMMA LockEnable == ASSUME LockInv, NEW t \in Threads, Enable(t) PROVE LockStep
  <1> USE DEF LockInv, TypeInv, TypeOK, Mutex, Hosting, HeldPcs, OneInv, OneEngine, Engines, Free, Fails, Joined,
     Goto, Finish
  <1>1. CASE EnableLock(t)
    <2>1. Mutex'
      <3>1. lock = "free" /\ pc[t] = "enLock" /\ cb' = cb BY <1>1 DEF EnableLock
      <3>2. \/ pc' = [pc EXCEPT ![t] = "idle"] /\ lock' = lock
            \/ pc' = [pc EXCEPT ![t] = "enForwarder"] /\ lock' = t
        BY <1>1 DEF EnableLock
      <3> QED BY <3>1, <3>2, ActorsAssumption DEF Callbacks
    <2>2. Hosting' BY <1>1 DEF EnableLock, engineVars
    <2>3. OneInv' BY <1>1 DEF EnableLock, engineVars
    <2>4. Engines' BY <1>1 DEF EnableLock, engineVars
    <2> QED BY <2>1, <2>2, <2>3, <2>4 DEF LockStep
  <1>2. CASE EnableForwarder(t)
    <2>1. Mutex' BY <1>2 DEF EnableForwarder, engineVars, Callbacks
    <2>2. Hosting' BY <1>2 DEF EnableForwarder, engineVars, Callbacks
    <2>3. OneInv' BY <1>2 DEF EnableForwarder, engineVars, Callbacks
    <2>4. Engines' BY <1>2 DEF EnableForwarder, engineVars, Callbacks
    <2> QED BY <2>1, <2>2, <2>3, <2>4 DEF LockStep
  <1>3. CASE EnableStart(t)
    <2>1. Mutex' BY <1>3 DEF EnableStart, engineVars, Callbacks
    <2>2. Hosting' BY <1>3 DEF EnableStart, engineVars, Callbacks
    <2>3. OneInv' BY <1>3 DEF EnableStart, engineVars, Callbacks
    <2>4. Engines' BY <1>3 DEF EnableStart, engineVars, Callbacks
    <2> QED BY <2>1, <2>2, <2>3, <2>4 DEF LockStep
  <1>4. CASE EnablePoint(t)
    <2>1. Mutex'
      <3>1. pc[t] = "enPoint" /\ cb' = cb BY <1>4 DEF EnablePoint
      <3>2. \/ pc' = [pc EXCEPT ![t] = "enExport"] /\ lock' = lock
            \/ pc' = [pc EXCEPT ![t] = "idle"] /\ lock' = "free"
        BY <1>4 DEF EnablePoint
      <3> QED BY <3>1, <3>2, ActorsAssumption DEF Callbacks
    <2>2. Hosting' BY <1>4 DEF EnablePoint, engineVars
    <2>3. OneInv' BY <1>4 DEF EnablePoint, engineVars
    <2>4. Engines' BY <1>4 DEF EnablePoint, engineVars
    <2> QED BY <2>1, <2>2, <2>3, <2>4 DEF LockStep
  <1>5. CASE EnableInstall(t)
    <2>1. Mutex' BY <1>5 DEF EnableInstall
    <2>2. Hosting' BY <1>5 DEF EnableInstall
    <2>3. OneInv' BY <1>5 DEF EnableInstall
    <2>4. Engines' BY <1>5 DEF EnableInstall
    <2> QED BY <2>1, <2>2, <2>3, <2>4 DEF LockStep
  <1>6. CASE EnableCheck(t)
    <2>1. Mutex'
      <3>1. pc[t] = "enCheck" /\ cb' = cb BY <1>6 DEF EnableCheck
      <3>2. pc' = [pc EXCEPT ![t] = "idle"] /\ lock' = "free" BY <1>6 DEF EnableCheck
      <3> QED BY <3>1, <3>2, ActorsAssumption DEF Callbacks
    <2>2. Hosting' BY <1>6 DEF EnableCheck, Finished
    <2>3. OneInv' BY <1>6 DEF EnableCheck, Finished
    <2>4. Engines' BY <1>6 DEF EnableCheck, Finished
    <2> QED BY <2>1, <2>2, <2>3, <2>4 DEF LockStep
  <1> QED BY <1>1, <1>2, <1>3, <1>4, <1>5, <1>6 DEF Enable

\* A teardown holds the mutex from emptying the slot to the engine's end.
LEMMA LockDisable == ASSUME LockInv, NEW t \in Threads, Disable(t) PROVE LockStep
  <1> USE DEF LockInv, TypeInv, TypeOK, Mutex, Hosting, HeldPcs, OneInv, OneEngine, Engines, Free, Fails, Joined,
     Goto, Finish
  <1>1. CASE DisableTake(t)
    <2>1. Mutex'
      <3>1. lock = "free" /\ pc[t] = "disLock" /\ cb' = cb BY <1>1 DEF DisableTake
      <3>2. pc' = [pc EXCEPT ![t] = "disRevert"] /\ lock' = t BY <1>1 DEF DisableTake
      <3> QED BY <3>1, <3>2, ActorsAssumption DEF Callbacks
    <2>2. Hosting' BY <1>1 DEF DisableTake
    <2>3. OneInv' BY <1>1 DEF DisableTake
    <2>4. Engines' BY <1>1 DEF DisableTake
    <2> QED BY <2>1, <2>2, <2>3, <2>4 DEF LockStep
  <1>2. CASE DisableRevert(t)
    <2>1. Mutex' BY <1>2 DEF DisableRevert, engineVars
    <2>2. Hosting' BY <1>2 DEF DisableRevert, engineVars
    <2>3. OneInv' BY <1>2 DEF DisableRevert, engineVars
    <2>4. Engines' BY <1>2 DEF DisableRevert, engineVars
    <2> QED BY <2>1, <2>2, <2>3, <2>4 DEF LockStep
  <1>3. CASE DisableDown(t)
    <2>1. Mutex' BY <1>3 DEF DisableDown, Park, AfterDisable, Callbacks
    <2>2. Hosting' BY <1>3 DEF DisableDown, Park, AfterDisable, Callbacks
    <2>3. OneInv' BY <1>3 DEF DisableDown, Park, AfterDisable, Callbacks
    <2>4. Engines' BY <1>3 DEF DisableDown, Park, AfterDisable, Callbacks
    <2> QED BY <2>1, <2>2, <2>3, <2>4 DEF LockStep
  <1>4. CASE SwitchAccount(t)
    <2>1. Mutex' BY <1>4 DEF SwitchAccount, engineVars
    <2>2. Hosting' BY <1>4 DEF SwitchAccount, engineVars
    <2>3. OneInv' BY <1>4 DEF SwitchAccount, engineVars
    <2>4. Engines' BY <1>4 DEF SwitchAccount, engineVars
    <2> QED BY <2>1, <2>2, <2>3, <2>4 DEF LockStep
  <1> QED BY <1>1, <1>2, <1>3, <1>4 DEF Disable

\* An untrust holds the mutex for no step, and its release of the parked engine
\* leaves at most an orphan's callback that has not got the mutex.
LEMMA LockUntrust == ASSUME LockInv, NEW t \in Threads, Untrust(t) PROVE LockStep
  <1> USE DEF LockInv, TypeInv, TypeOK, Mutex, Hosting, HeldPcs, OneInv, OneEngine, Engines, Free, Fails, Joined,
     Goto, Finish
  <1>1. CASE UntrustCheck(t)
    <2>1. Mutex' BY <1>1 DEF UntrustCheck, engineVars
    <2>2. Hosting' BY <1>1 DEF UntrustCheck, engineVars
    <2>3. OneInv' BY <1>1 DEF UntrustCheck, engineVars
    <2>4. Engines' BY <1>1 DEF UntrustCheck, engineVars
    <2> QED BY <2>1, <2>2, <2>3, <2>4 DEF LockStep
  <1>2. CASE UntrustRelease(t)
    <2>1. Mutex' BY <1>2 DEF UntrustRelease, Callbacks
    <2>2. Hosting' BY <1>2 DEF UntrustRelease, Callbacks
    <2>3. OneInv' BY <1>2 DEF UntrustRelease, Callbacks
    <2>4. Engines' BY <1>2 DEF UntrustRelease, Callbacks
    <2> QED BY <2>1, <2>2, <2>3, <2>4 DEF LockStep
  <1>3. CASE UntrustJoin(t)
    <2>1. Mutex' BY <1>3 DEF UntrustJoin, engineVars
    <2>2. Hosting' BY <1>3 DEF UntrustJoin, engineVars
    <2>3. OneInv' BY <1>3 DEF UntrustJoin, engineVars
    <2>4. Engines' BY <1>3 DEF UntrustJoin, engineVars
    <2> QED BY <2>1, <2>2, <2>3, <2>4 DEF LockStep
  <1>4. CASE UntrustRun(t)
    <2>1. Mutex' BY <1>4 DEF UntrustRun, engineVars
    <2>2. Hosting' BY <1>4 DEF UntrustRun, engineVars
    <2>3. OneInv' BY <1>4 DEF UntrustRun, engineVars
    <2>4. Engines' BY <1>4 DEF UntrustRun, engineVars
    <2> QED BY <2>1, <2>2, <2>3, <2>4 DEF LockStep
  <1>5. CASE UntrustRaced(t)
    <2>1. Mutex' BY <1>5 DEF UntrustRaced, engineVars
    <2>2. Hosting' BY <1>5 DEF UntrustRaced, engineVars
    <2>3. OneInv' BY <1>5 DEF UntrustRaced, engineVars
    <2>4. Engines' BY <1>5 DEF UntrustRaced, engineVars
    <2> QED BY <2>1, <2>2, <2>3, <2>4 DEF LockStep
  <1> QED BY <1>1, <1>2, <1>3, <1>4, <1>5 DEF Untrust

\* A callback that got the mutex has emptied the slot before it does anything.
LEMMA LockCallback == ASSUME LockInv, NEW c \in Callbacks, Callback(c) PROVE LockStep
  <1> USE DEF LockInv, TypeInv, TypeOK, Mutex, Hosting, HeldPcs, OneInv, OneEngine, Engines, Free, Fails, Joined,
     Goto, Finish
  <1>1. CASE CallbackLock(c)
    <2>1. Mutex' BY <1>1 DEF CallbackLock, Callbacks
    <2>2. Hosting' BY <1>1 DEF CallbackLock, Callbacks
    <2>3. OneInv' BY <1>1 DEF CallbackLock, Callbacks
    <2>4. Engines' BY <1>1 DEF CallbackLock, Callbacks
    <2> QED BY <2>1, <2>2, <2>3, <2>4 DEF LockStep
  <1>2. CASE CallbackDefers(c)
    <2>1. Mutex' BY <1>2 DEF CallbackDefers, engineVars, Callbacks
    <2>2. Hosting' BY <1>2 DEF CallbackDefers, engineVars, Callbacks
    <2>3. OneInv' BY <1>2 DEF CallbackDefers, engineVars, Callbacks
    <2>4. Engines' BY <1>2 DEF CallbackDefers, engineVars, Callbacks
    <2> QED BY <2>1, <2>2, <2>3, <2>4 DEF LockStep
  <1>3. CASE CallbackStop(c)
    <2>1. Mutex' BY <1>3 DEF CallbackStop, Callbacks
    <2>2. Hosting' BY <1>3 DEF CallbackStop, Callbacks
    <2>3. OneInv' BY <1>3 DEF CallbackStop, Callbacks
    <2>4. Engines' BY <1>3 DEF CallbackStop, Callbacks
    <2> QED BY <2>1, <2>2, <2>3, <2>4 DEF LockStep
  <1>4. CASE CallbackRevert(c)
    <2>1. Mutex' BY <1>4 DEF CallbackRevert, engineVars, Callbacks
    <2>2. Hosting' BY <1>4 DEF CallbackRevert, engineVars, Callbacks
    <2>3. OneInv' BY <1>4 DEF CallbackRevert, engineVars, Callbacks
    <2>4. Engines' BY <1>4 DEF CallbackRevert, engineVars, Callbacks
    <2> QED BY <2>1, <2>2, <2>3, <2>4 DEF LockStep
  <1> QED BY <1>1, <1>2, <1>3, <1>4 DEF Callback

\* The remaining steps change neither the mutex nor who is in which slot, but
\* for an engine's death, a kill and a call.
LEMMA LockElse ==
  ASSUME LockInv,
         \/ \E t \in Threads : Call(t)
         \/ EngineDies \/ ParkedDies \/ Tick \/ ForwarderDies \/ UserEdits \/ UserSetsEnv
         \/ Kill \/ Launch \/ ReconcileEnv \/ ReconcileProxy
  PROVE  LockStep
  <1> USE DEF LockInv, TypeInv, TypeOK, Mutex, Hosting, HeldPcs, OneInv, OneEngine, Engines, Free, Fails, Joined,
     Goto, Finish
  <1>1. CASE EngineDies
    <2>1. Mutex' BY <1>1 DEF EngineDies, Callbacks
    <2>2. Hosting' BY <1>1 DEF EngineDies, Callbacks
    <2>3. OneInv' BY <1>1 DEF EngineDies, Callbacks
    <2>4. Engines' BY <1>1 DEF EngineDies, Callbacks
    <2> QED BY <2>1, <2>2, <2>3, <2>4 DEF LockStep
  <1>2. CASE ParkedDies
    <2>1. Mutex' BY <1>2 DEF ParkedDies, Callbacks
    <2>2. Hosting' BY <1>2 DEF ParkedDies, Callbacks
    <2>3. OneInv' BY <1>2 DEF ParkedDies, Callbacks
    <2>4. Engines' BY <1>2 DEF ParkedDies, Callbacks
    <2> QED BY <2>1, <2>2, <2>3, <2>4 DEF LockStep
  <1>3. CASE Kill
    <2>1. Mutex' BY <1>3 DEF Kill, Callbacks
    <2>2. Hosting' BY <1>3 DEF Kill, Callbacks
    <2>3. OneInv' BY <1>3 DEF Kill, Callbacks
    <2>4. Engines' BY <1>3 DEF Kill, Callbacks
    <2> QED BY <2>1, <2>2, <2>3, <2>4 DEF LockStep
  <1>4. CASE \E t \in Threads : Call(t)
    <2> PICK t \in Threads : Call(t) BY <1>4
    <2>1. Mutex' BY DEF Call, FirstStep
    <2>2. Hosting' BY DEF Call, FirstStep, engineVars
    <2>3. OneInv' BY DEF Call, FirstStep, engineVars
    <2>4. Engines' BY DEF Call, FirstStep, engineVars
    <2> QED BY <2>1, <2>2, <2>3, <2>4 DEF LockStep
  <1>5. CASE Tick \/ ForwarderDies \/ UserEdits \/ UserSetsEnv \/ Launch \/ ReconcileEnv \/ ReconcileProxy
    <2>1. UNCHANGED <<ctlVars, engineVars>>
      BY <1>5 DEF Tick, TickCheck, TickSupervise, TickRepoint, TickExport, ForwarderDies,
                  UserEdits, UserSetsEnv, Launch, ReconcileEnv, ReconcileProxy
    <2> QED BY <2>1 DEF LockStep, ctlVars, engineVars
  <1> QED BY <1>1, <1>2, <1>3, <1>4, <1>5

\* Mutex, slots and callbacks stay in step with each other, whoever moves.
LEMMA LockNext == LockInv /\ [Next]_vars => LockInv'
  <1> SUFFICES ASSUME LockInv, [Next]_vars PROVE LockStep
    BY TypeNext DEF LockInv, LockStep
  <1>1. ASSUME NEW t \in Threads, Step(t) PROVE LockStep
    BY <1>1, LockElse, LockEnable, LockDisable, LockUntrust DEF Step
  <1>2. CASE UNCHANGED vars
    BY <1>2 DEF vars, ctlVars, engineVars, LockInv, TypeInv, TypeOK, Mutex, Hosting, HeldPcs, OneInv, OneEngine,
       Engines, Free, Fails, Joined, Goto, Finish, LockStep
  <1> QED BY <1>1, <1>2, LockCallback, LockElse DEF Next

\* The steps between taking the engine mutex and giving it back are never two
\* actors' at once, and while a step of a teardown or of a crash callback holds
\* it the routing slot is empty.
THEOREM MutexHeld == Spec => [](Mutex /\ Hosting)
  <1>1. LockInv => Mutex /\ Hosting
    BY DEF LockInv
  <1> QED BY <1>1, LockInit, LockNext, PTL DEF Spec

\* The routing slot and the dormant slot are never both occupied, whatever
\* fails: an enable joins the parked engine before it starts its own.
THEOREM OneEngineOnly == Spec => []OneEngine
  <1>1. LockInv => OneEngine
    BY DEF LockInv, OneInv
  <1> QED BY <1>1, LockInit, LockNext, PTL DEF Spec

-----------------------------------------------------------------------------
(* The forwarder watcher                                                     *)

\* The slot is filled and the watcher started in one step under the mutex.
LEMMA WatchedNext == HostedIsWatched /\ [Next]_vars => HostedIsWatched'
  <1> SUFFICES ASSUME HostedIsWatched, [Next]_vars PROVE HostedIsWatched'
    OBVIOUS
  <1> USE DEF HostedIsWatched
  <1>1. ASSUME NEW t \in Threads, EnableInstall(t) PROVE HostedIsWatched'
    BY <1>1 DEF EnableInstall
  <1>2. ASSUME NEW t \in Threads, Enable(t), ~EnableInstall(t) PROVE HostedIsWatched'
    <2>1. watcher' = watcher /\ (guard' => guard)
      BY <1>2 DEF Enable, EnableLock, EnableForwarder, EnableStart, EnablePoint, EnableCheck,
                  engineVars, fwdVars
    <2> QED BY <2>1
  <1>3. ASSUME NEW t \in Threads, Disable(t) \/ Untrust(t) \/ Call(t) PROVE HostedIsWatched'
    <2>1. watcher' = watcher /\ (guard' => guard)
      BY <1>3 DEF Disable, DisableTake, DisableRevert, DisableDown, SwitchAccount, Untrust,
                  UntrustCheck, UntrustRelease, UntrustJoin, UntrustRun, UntrustRaced, Call,
                  engineVars, fwdVars
    <2> QED BY <2>1
  <1>4. ASSUME NEW c \in Callbacks, Callback(c) PROVE HostedIsWatched'
    <2>1. watcher' = watcher /\ (guard' => guard)
      BY <1>4 DEF Callback, CallbackLock, CallbackDefers, CallbackStop, CallbackRevert,
                  engineVars, fwdVars
    <2> QED BY <2>1
  <1>5. CASE Tick
    BY <1>5 DEF Tick, TickCheck, TickSupervise, TickRepoint, TickExport, engineVars
  <1>6. CASE Kill
    BY <1>6 DEF Kill
  <1>7. CASE EngineDies \/ ParkedDies \/ ForwarderDies \/ UserEdits \/ UserSetsEnv \/ Launch
              \/ ReconcileEnv \/ ReconcileProxy
    <2>1. watcher' = watcher /\ guard' = guard
      BY <1>7 DEF EngineDies, ParkedDies, ForwarderDies, UserEdits, UserSetsEnv, Launch,
                  ReconcileEnv, ReconcileProxy, engineVars, fwdVars
    <2> QED BY <2>1
  <1>8. CASE UNCHANGED vars
    BY <1>8 DEF vars, engineVars, fwdVars
  <1> QED BY <1>1, <1>2, <1>3, <1>4, <1>5, <1>6, <1>7, <1>8 DEF Next, Step

\* A routing engine always has a forwarder watcher: it retires only under the
\* mutex, having seen the slot empty, and every enable starts one if there is none.
THEOREM AlwaysWatched == Spec => []HostedIsWatched
  <1>1. Init => HostedIsWatched
    BY DEF Init, HostedIsWatched
  <1> QED BY <1>1, WatchedNext, PTL DEF Spec

-----------------------------------------------------------------------------
(* Untrust against enable                                                    *)

\* Removing the root under an enable or an engine leaves an untrust with its
\* second look to take.
LEMMA UntrustNext == LockInv /\ UntrustInv /\ [Next]_vars => UntrustInv'
  <1> SUFFICES ASSUME LockInv, UntrustInv, [Next]_vars, ~trusted',
                      guard' \/ \E t \in Threads : pc'[t] \in EnablingPcs
               PROVE  LooksAgain'
    BY DEF UntrustInv
  <1> USE DEF LockInv, TypeInv, TypeOK, EnablingPcs, Goto, Finish
  <1>1. ASSUME NEW t \in Threads, EnableLock(t) PROVE LooksAgain'
    <2>1. LooksAgain /\ op' = op
      BY <1>1 DEF EnableLock, UntrustInv
    <2> QED BY <1>1, <2>1 DEF EnableLock, LooksAgain
  <1>2. ASSUME NEW t \in Threads, Enable(t), ~EnableLock(t) PROVE LooksAgain'
    <2>1. trusted' = trusted /\ op' = op
      BY <1>2 DEF Enable, EnableForwarder, EnableStart, EnablePoint, EnableInstall, EnableCheck, restVars
    <2>2. pc[t] \in EnablingPcs \/ guard
      BY <1>2 DEF Enable, EnableForwarder, EnableStart, EnablePoint, EnableInstall, EnableCheck, Hosting
    <2>3. \E u \in Threads : u # t /\ (pc[u] = "utRaced" \/ (op[u] = "untrustAgain" /\ pc[u] = "disLock"))
      BY <1>2, <2>1, <2>2 DEF UntrustInv, LooksAgain, Enable, EnableForwarder, EnableStart, EnablePoint,
                              EnableInstall, EnableCheck
    <2>4. \A u \in Threads : u # t => pc'[u] = pc[u]
      BY <1>2 DEF Enable, EnableForwarder, EnableStart, EnablePoint, EnableInstall, EnableCheck
    <2> QED BY <2>1, <2>3, <2>4 DEF LooksAgain
  <1>3. ASSUME NEW t \in Threads, Disable(t) PROVE LooksAgain'
    <2>1. guard' = FALSE \/ guard' = guard
      BY <1>3 DEF Disable, DisableTake, DisableRevert, DisableDown, SwitchAccount, engineVars
    <2> QED BY <1>3, <2>1 DEF Disable, DisableTake, DisableRevert, DisableDown, SwitchAccount, AfterDisable,
              UntrustInv, LooksAgain, Mutex, Hosting, HeldPcs, Free, engineVars, restVars
  <1>4. ASSUME NEW t \in Threads, Untrust(t) PROVE LooksAgain'
    <2>1. CASE UntrustRun(t) BY <1>4, <2>1 DEF UntrustRun, UntrustInv, LooksAgain, engineVars
    <2>2. CASE UntrustRaced(t)
      BY <1>4, <2>2 DEF UntrustRaced, UntrustInv, LooksAgain, Mutex, HeldPcs, Free, engineVars, restVars
    <2>3. CASE UntrustCheck(t) \/ UntrustRelease(t) \/ UntrustJoin(t)
      BY <2>3 DEF UntrustCheck, UntrustRelease, UntrustJoin, UntrustInv, LooksAgain, engineVars, restVars
    <2> QED BY <1>4, <2>1, <2>2, <2>3 DEF Untrust
  <1>5. ASSUME NEW t \in Threads, Call(t) PROVE LooksAgain'
    BY <1>5 DEF Call, FirstStep, UntrustInv, LooksAgain, engineVars
  <1>6. ASSUME NEW c \in Callbacks, Callback(c) PROVE LooksAgain'
    <2>1. UNCHANGED <<pc, op, trusted>> /\ (guard' => guard)
      BY <1>6 DEF Callback, CallbackLock, CallbackDefers, CallbackStop, CallbackRevert, engineVars, restVars
    <2> QED BY <2>1 DEF UntrustInv, LooksAgain
  <1>7. CASE Kill
    BY <1>7 DEF Kill
  <1>8. CASE EngineDies \/ ParkedDies \/ Tick \/ ForwarderDies \/ UserEdits \/ UserSetsEnv \/ Launch
              \/ ReconcileEnv \/ ReconcileProxy \/ UNCHANGED vars
    <2>1. UNCHANGED <<pc, op, trusted, guard>>
      BY <1>8 DEF EngineDies, ParkedDies, Tick, TickCheck, TickSupervise, TickRepoint, TickExport,
                  ForwarderDies, UserEdits, UserSetsEnv, Launch, ReconcileEnv, ReconcileProxy,
                  vars, ctlVars, engineVars, restVars
    <2> QED BY <2>1 DEF UntrustInv, LooksAgain
  <1> QED BY <1>1, <1>2, <1>3, <1>4, <1>5, <1>6, <1>7, <1>8 DEF Next, Step

\* Whenever an engine routes on a root that was removed, the untrust that
\* removed it has still to look at the slot again and will stop it.
THEOREM UntrustLooksAgain == Spec => []NothingRoutesUntrusted
  <1>1. Init => LockInv /\ UntrustInv
    BY LockInit DEF Init, UntrustInv, EnablingPcs
  <1>2. UntrustInv => NothingRoutesUntrusted
    BY DEF UntrustInv, LooksAgain, NothingRoutesUntrusted
  <1> QED BY <1>1, <1>2, LockNext, UntrustNext, PTL DEF Spec

-----------------------------------------------------------------------------
(* The exported variables                                                    *)

\* An export records what the variables hold only when nothing is recorded,
\* and a withdrawal that does not fail leaves no record and no port of Gate's.
LEMMA EnvNext == TypeInv /\ EnvInv /\ "env" \notin Faults /\ [Next]_vars => EnvInv'
  <1> SUFFICES ASSUME TypeInv, EnvInv, "env" \notin Faults, [Next]_vars PROVE EnvInv'
    OBVIOUS
  <1> USE DEF EnvInv
  <1>1. ASSUME NEW port \in Ports, NEW before, ExportEnv(port, before) PROVE EnvInv'
    BY <1>1 DEF ExportEnv, Fails, TypeInv, TypeOK
  <1>2. ASSUME WithdrawEnv PROVE EnvInv'
    BY <1>2 DEF WithdrawEnv, Fails, TypeInv, TypeOK
  <1>3. ASSUME UNCHANGED <<env, envSnap, envOwn>> PROVE EnvInv'
    BY <1>3
  <1>4. ASSUME NEW t \in Threads, EnableInstall(t) PROVE EnvInv'
    <2>1. CASE OptedIn
      <3>1. (IF fport = "none" THEN EnginePort ELSE fport) \in Ports
        BY DEF TypeInv, TypeOK, Ports
      <3> QED BY <1>1, <1>4, <2>1, <3>1 DEF EnableInstall
    <2>2. CASE ~OptedIn BY <1>3, <1>4, <2>2 DEF EnableInstall
    <2> QED BY <2>1, <2>2
  <1>5. ASSUME NEW t \in Threads, Enable(t), ~EnableInstall(t) PROVE EnvInv'
    BY <1>3, <1>5 DEF Enable, EnableLock, EnableForwarder, EnableStart, EnablePoint, EnableCheck, envVars
  <1>6. ASSUME NEW t \in Threads, Disable(t) PROVE EnvInv'
    BY <1>2, <1>3, <1>6 DEF Disable, DisableTake, DisableRevert, DisableDown, SwitchAccount, envVars
  <1>7. ASSUME NEW t \in Threads, Untrust(t) \/ Call(t) PROVE EnvInv'
    BY <1>3, <1>7 DEF Untrust, UntrustCheck, UntrustRelease, UntrustJoin, UntrustRun, UntrustRaced,
                      Call, envVars
  <1>8. ASSUME NEW c \in Callbacks, Callback(c) PROVE EnvInv'
    BY <1>2, <1>3, <1>8 DEF Callback, CallbackLock, CallbackDefers, CallbackStop, CallbackRevert, envVars
  <1>9. CASE Tick
    <2>1. CASE TickExport
      <3>1. tickPort \in Ports BY <2>1 DEF TickExport, TypeInv, TypeOK, TickKnowsPort, Ports
      <3> QED BY <1>1, <1>3, <2>1, <3>1 DEF TickExport, envVars
    <2>2. CASE TickCheck \/ TickSupervise \/ TickRepoint
      BY <1>3, <2>2 DEF TickCheck, TickSupervise, TickRepoint, envVars
    <2> QED BY <1>9, <2>1, <2>2 DEF Tick
  <1>10. CASE UserSetsEnv
    BY <1>10 DEF UserSetsEnv
  <1>11. CASE ReconcileEnv
    BY <1>2, <1>11 DEF ReconcileEnv
  <1>12. CASE EngineDies \/ ParkedDies \/ ForwarderDies \/ UserEdits \/ Kill \/ Launch
               \/ ReconcileProxy \/ UNCHANGED vars
    BY <1>3, <1>12 DEF EngineDies, ParkedDies, ForwarderDies, UserEdits, Kill, Launch,
                       ReconcileProxy, envVars, vars
  <1> QED BY <1>4, <1>5, <1>6, <1>7, <1>8, <1>9, <1>10, <1>11, <1>12 DEF Next, Step

\* As long as writing the variables does not fail, the value they had before
\* Gate took them is on record whenever they name Gate, through crashes, kills,
\* forwarders that move, and exports that come late.
THEOREM EnvKept == ASSUME "env" \notin Faults PROVE Spec => []EnvRestorable
  <1>1. Init => TypeInv /\ EnvInv
    BY TypeInit DEF Init, EnvInv, Ports
  <1>2. EnvInv => EnvRestorable
    BY DEF EnvInv, EnvRestorable
  <1>3. TypeInv /\ EnvInv /\ [Next]_vars => TypeInv' /\ EnvInv'
    BY TypeNext, EnvNext
  <1> QED BY <1>1, <1>2, <1>3, PTL DEF Spec

-----------------------------------------------------------------------------
(* Custody of the system proxy                                               *)

\* A revert that does not fail leaves a setting that is not Gate's.
LEMMA RevertGivesBack ==
  ASSUME TypeInv, Orderly, snap # "gate", NEW ok \in BOOLEAN, Revert(ok)
  PROVE  ok /\ sysproxy' # "gate" /\ own' = sysproxy'
  BY DEF Revert, RevertTarget, SetProxy, Fails, Orderly, Disorders, TypeInv, TypeOK

\* At the start the setting is the user's and nothing is running.
LEMMA CustodyInit == Init => CustodyInv
  BY LockInit DEF Init, CustodyInv, Quiet, Custodial, Restorable, NotStranded

\* Enable takes the setting over only with the user's own on disk.
LEMMA CustodyEnable ==
  ASSUME CustodyInv, Orderly, NEW t \in Threads, Enable(t) PROVE Quiet' /\ Custodial'
  <1> USE DEF CustodyInv, LockInv, Quiet, Custodial, Restorable, NotStranded, TypeInv, TypeOK,
              Mutex, Hosting, HeldPcs, Goto, Finish, Free, SetProxy, proxyVars, restVars
  <1>1. pc[t] # "idle" /\ proc = "up" /\ proc' = "up"
    BY DEF Enable, EnableLock, EnableForwarder, EnableStart, EnablePoint, EnableInstall, EnableCheck
  <1>2. CASE EnableLock(t)
    <2>1. lock = "free" /\ pc[t] = "enLock" /\ sysproxy' = sysproxy /\ own' = own /\ guard' = guard
      BY <1>2 DEF EnableLock
    <2>2. \/ pc' = [pc EXCEPT ![t] = "idle"] /\ lock' = lock /\ snap' = snap
          \/ pc' = [pc EXCEPT ![t] = "enForwarder"] /\ lock' = t /\ snap' = sysproxy /\ ~guard
      BY <1>2 DEF EnableLock
    <2> QED BY <1>1, <2>1, <2>2
  <1>3. CASE EnableForwarder(t) BY <1>1, <1>3 DEF EnableForwarder
  <1>4. CASE EnableStart(t) BY <1>1, <1>4 DEF EnableStart
  <1>5. CASE EnablePoint(t) BY <1>1, <1>5 DEF EnablePoint, Fails, Orderly, Disorders
  <1>6. CASE EnableInstall(t) BY <1>1, <1>6 DEF EnableInstall
  <1>7. CASE EnableCheck(t)
    <2>1. CASE Finished
      <3>1. sysproxy' # "gate" /\ own' = sysproxy' /\ snap' = "none"
        BY <1>7, <2>1, RevertGivesBack DEF EnableCheck
      <3> QED BY <1>1, <1>7, <3>1 DEF EnableCheck
    <2>2. CASE ~Finished BY <1>1, <1>7, <2>2 DEF EnableCheck
    <2> QED BY <2>1, <2>2
  <1> QED BY <1>2, <1>3, <1>4, <1>5, <1>6, <1>7 DEF Enable

\* A teardown clears the snapshot only once the setting is no longer Gate's.
LEMMA CustodyDisable ==
  ASSUME CustodyInv, Orderly, NEW t \in Threads, Disable(t) PROVE Quiet' /\ Custodial'
  <1> USE DEF CustodyInv, LockInv, Quiet, Custodial, Restorable, NotStranded, TypeInv, TypeOK,
              Mutex, Hosting, HeldPcs, Goto, Finish, Free, proxyVars, restVars
  <1>1. pc[t] # "idle" /\ proc = "up" /\ proc' = "up"
    BY DEF Disable, DisableTake, DisableRevert, DisableDown, SwitchAccount
  <1>2. CASE DisableTake(t) BY <1>1, <1>2 DEF DisableTake
  <1>3. CASE DisableRevert(t)
    <2>1. sysproxy' # "gate" /\ own' = sysproxy' /\ snap' = snap /\ pc' = [pc EXCEPT ![t] = "disDown"]
      BY <1>3, RevertGivesBack DEF DisableRevert
    <2>2. UNCHANGED <<lock, guard>> BY <1>3 DEF DisableRevert, engineVars
    <2> QED BY <1>1, <1>3, <2>1, <2>2 DEF DisableRevert
  <1>4. CASE DisableDown(t)
    <2>1. sysproxy' = sysproxy /\ own' = own /\ snap' = "none" /\ lock' = "free" /\ lock = t
      BY <1>4 DEF DisableDown
    <2>2. pc[t] = "disDown" BY <1>4 DEF DisableDown
    <2>3. PICK label \in {"swAccount", "utRelease", "idle"} : pc' = [pc EXCEPT ![t] = label]
      BY <1>4 DEF DisableDown, AfterDisable
    <2> QED BY <1>1, <2>1, <2>2, <2>3
  <1>5. CASE SwitchAccount(t) BY <1>1, <1>5 DEF SwitchAccount, engineVars
  <1> QED BY <1>2, <1>3, <1>4, <1>5 DEF Disable

\* A crash callback that reverts leaves no snapshot and nothing of Gate's.
LEMMA CustodyCallback ==
  ASSUME CustodyInv, Orderly, NEW c \in Callbacks, Callback(c) PROVE Quiet' /\ Custodial'
  <1> USE DEF CustodyInv, LockInv, Quiet, Custodial, Restorable, NotStranded, TypeInv, TypeOK,
              Mutex, Hosting, HeldPcs, Free, proxyVars, restVars
  <1>1. cb[c] # "idle" /\ proc = "up" /\ proc' = "up"
    BY DEF Callback, CallbackLock, CallbackDefers, CallbackStop, CallbackRevert
  <1>2. CASE CallbackLock(c)
    <2>1. UNCHANGED <<pc, proxyVars>> BY <1>2 DEF CallbackLock
    <2>2. lock = "free" /\ (UNCHANGED <<lock, guard>> \/ lock' = c) BY <1>2 DEF CallbackLock
    <2> QED BY <1>1, <2>1, <2>2 DEF Callbacks
  <1>3. CASE CallbackDefers(c) BY <1>1, <1>3 DEF CallbackDefers, engineVars
  <1>4. CASE CallbackStop(c) BY <1>1, <1>4 DEF CallbackStop
  <1>5. CASE CallbackRevert(c)
    <2>1. sysproxy' # "gate" /\ own' = sysproxy' /\ snap' = "none" /\ pc' = pc
      BY <1>5, RevertGivesBack DEF CallbackRevert
    <2>2. lock = c BY <1>5 DEF CallbackRevert
    <2> QED BY <1>1, <2>1, <2>2 DEF Callbacks
  <1> QED BY <1>2, <1>3, <1>4, <1>5 DEF Callback

\* The steps that are not an operation's or a callback's: a call, an untrust,
\* the watcher, a death, the user, a kill, and the launch that reconciles.
LEMMA CustodyElse ==
  ASSUME CustodyInv, Orderly,
         \/ \E t \in Threads : Call(t) \/ Untrust(t)
         \/ EngineDies \/ ParkedDies \/ Tick \/ ForwarderDies \/ UserEdits \/ UserSetsEnv
         \/ Kill \/ Launch \/ ReconcileEnv \/ ReconcileProxy
  PROVE  Quiet' /\ Custodial'
  <1> USE DEF CustodyInv, LockInv, Quiet, Custodial, Restorable, NotStranded, TypeInv, TypeOK,
              Mutex, HeldPcs, Free, proxyVars, restVars
  <1>1. CASE \E t \in Threads : Call(t)
    <2> PICK t \in Threads : Call(t) BY <1>1
    <2>1. proc = "up" /\ proc' = "up" BY DEF Call, Fails, Orderly, Disorders
    <2>2. PICK label \in {"enLock", "utCheck", "disLock"} : pc' = [pc EXCEPT ![t] = label]
      BY DEF Call, Goto, FirstStep
    <2>3. UNCHANGED <<lock, guard, proxyVars>> BY DEF Call, engineVars
    <2> QED BY <2>1, <2>2, <2>3
  <1>2. CASE \E t \in Threads : Untrust(t)
    <2> PICK t \in Threads : Untrust(t) BY <1>2
    <2>1. proc = "up" /\ proc' = "up"
      BY DEF Untrust, UntrustCheck, UntrustRelease, UntrustJoin, UntrustRun, UntrustRaced
    <2>2. PICK label \in {"disLock", "utRelease", "utJoin", "utUntrust", "utRaced", "idle"} :
            pc' = [pc EXCEPT ![t] = label]
      BY DEF Untrust, UntrustCheck, UntrustRelease, UntrustJoin, UntrustRun, UntrustRaced, Goto
    <2>3. UNCHANGED <<lock, guard, proxyVars>>
      BY DEF Untrust, UntrustCheck, UntrustRelease, UntrustJoin, UntrustRun, UntrustRaced, engineVars
    <2> QED BY <2>1, <2>2, <2>3
  <1>3. CASE EngineDies \/ ParkedDies
    BY <1>3 DEF EngineDies, ParkedDies
  <1>4. CASE Tick \/ ForwarderDies \/ UserSetsEnv
    <2>1. UNCHANGED <<ctlVars, engineVars, proxyVars, restVars>>
      BY <1>4 DEF Tick, TickCheck, TickSupervise, TickRepoint, TickExport, ForwarderDies, UserSetsEnv
    <2> QED BY <2>1 DEF ctlVars, engineVars
  <1>5. CASE UserEdits
    <2>1. lock = "free" /\ sysproxy # "gate" /\ sysproxy' # "gate" /\ own' = sysproxy'
      BY <1>5 DEF UserEdits, SetProxy, Fails, Orderly, Disorders
    <2> QED BY <1>5, <2>1 DEF UserEdits, ctlVars, engineVars
  <1>6. CASE Kill
    BY <1>6 DEF Kill
  <1>7. CASE Launch \/ ReconcileEnv
    BY <1>7 DEF Launch, ReconcileEnv, ctlVars, engineVars, Fails, Orderly, Disorders
  <1>8. CASE ReconcileProxy
    <2>1. UNCHANGED <<ctlVars, engineVars>> /\ proc # "up" /\ proc' = "up"
      BY <1>8 DEF ReconcileProxy
    <2>2. sysproxy' # "gate" /\ own' = sysproxy' /\ (snap' = snap \/ snap' = "none")
      BY <1>8 DEF ReconcileProxy, SetProxy, Swept, Revert, RevertTarget, Fails, Orderly, Disorders
    <2> QED BY <2>1, <2>2 DEF ctlVars, engineVars
  <1> QED BY <1>1, <1>2, <1>3, <1>4, <1>5, <1>6, <1>7, <1>8

\* Custody of the setting survives every step but a disorderly one.
LEMMA CustodyNext == CustodyInv /\ Orderly /\ [Next]_vars => CustodyInv'
  <1> SUFFICES ASSUME CustodyInv, Orderly, [Next]_vars PROVE Quiet' /\ Custodial'
    BY LockNext DEF CustodyInv
  <1>1. ASSUME NEW t \in Threads, Step(t) PROVE Quiet' /\ Custodial'
    BY <1>1, CustodyElse, CustodyEnable, CustodyDisable DEF Step
  <1>2. CASE UNCHANGED vars
    BY <1>2 DEF vars, ctlVars, engineVars, proxyVars, restVars, CustodyInv, Quiet, Custodial,
                Restorable, NotStranded, Free
  <1> QED BY <1>1, <1>2, CustodyCallback, CustodyElse DEF Next

\* In any number of threads, through crashes, kills and refused enables, and as
\* long as no revert fails and nobody edits a setting Gate is holding: what Gate
\* replaced is on disk while the machine points at Gate, a snapshot is never
\* Gate's own setting, and no idle process leaves the machine on a dead engine.
THEOREM CustodyKept == ASSUME Orderly PROVE Spec => [](Restorable /\ SnapshotIsTheUsers /\ NotStranded)
  <1>1. CustodyInv => Restorable /\ SnapshotIsTheUsers /\ NotStranded
    BY DEF CustodyInv, Custodial, SnapshotIsTheUsers
  <1>2. CustodyInv /\ [Next]_vars => CustodyInv'
    BY CustodyNext
  <1> QED BY <1>1, <1>2, CustodyInit, PTL DEF Spec

\* Of that, what a user would notice: between operations, a live process that has
\* the machine pointing at Gate holds the engine behind it.
THEOREM NothingStranded == ASSUME Orderly PROVE Spec => []NotStranded
  <1>1. Spec => [](Restorable /\ SnapshotIsTheUsers /\ NotStranded)
    BY CustodyKept
  <1> QED BY <1>1, PTL

-----------------------------------------------------------------------------
(* The exit                                                                  *)

\* Nothing but an enable that was under way when the quit was called points the
\* machine at Gate, and the quit's own teardown comes after it.
LEMMA ExitNext == CustodyInv /\ Orderly /\ ExitInv /\ [Next]_vars => ExitInv'
  <1> SUFFICES ASSUME CustodyInv, Orderly, ExitInv, [Next]_vars, exited' PROVE ExitInv'
    BY DEF ExitInv
  <1> USE DEF CustodyInv, Custodial, LockInv, TypeInv, TypeOK, Mutex, HeldPcs, ExitInv, QuitPending,
              Goto, Finish, Free
  <1>1. ASSUME NEW t \in Threads, Call(t) PROVE ExitInv'
    <2>1. PICK o \in Ops : op' = [op EXCEPT ![t] = o] /\ pc' = [pc EXCEPT ![t] = FirstStep(o)]
                           /\ exited' = (exited \/ o = "quit")
      BY <1>1 DEF Call
    <2>2. pc[t] = "idle" /\ UNCHANGED <<cb, sysproxy>> BY <1>1 DEF Call, proxyVars
    <2>3. CASE o = "quit"
      <3>1. op'[t] = "quit" /\ pc'[t] = "disLock" BY <2>1, <2>3 DEF FirstStep
      <3> QED BY <3>1
    <2>4. CASE o # "quit"
      <3>1. exited BY <2>1, <2>4
      <3>2. FirstStep(o) \in {"enLock", "utCheck", "disLock"} BY DEF FirstStep
      <3>3. QuitPending => QuitPending' BY <2>1, <2>2
      <3> QED BY <2>1, <2>2, <3>1, <3>2, <3>3
    <2> QED BY <2>3, <2>4
  <1>2. ASSUME NEW t \in Threads, Enable(t) PROVE ExitInv'
    <2>1. exited BY <1>2 DEF Enable, EnableLock, EnableForwarder, EnableStart, EnablePoint, EnableInstall,
                           EnableCheck, restVars
    <2>2. op' = op /\ pc[t] # "disLock"
      BY <1>2 DEF Enable, EnableLock, EnableForwarder, EnableStart, EnablePoint, EnableInstall, EnableCheck
    <2>3. QuitPending => QuitPending'
      <3>1. PICK label : pc' = [pc EXCEPT ![t] = label]
        <4> HIDE DEF CustodyInv, Custodial, LockInv, TypeInv, TypeOK, Mutex, ExitInv, QuitPending
        <4>1. CASE EnableLock(t) BY <4>1 DEF EnableLock
        <4>2. CASE Enable(t) /\ ~EnableLock(t)
          BY <4>2 DEF Enable, EnableForwarder, EnableStart, EnablePoint, EnableInstall, EnableCheck
        <4> QED BY <1>2, <4>1, <4>2
      <3> QED BY <2>2, <3>1
    <2>4. CASE EnableLock(t)
      <3>1. pc' = [pc EXCEPT ![t] = "idle"] /\ UNCHANGED <<cb, sysproxy>> /\ pc[t] = "enLock"
        BY <2>1, <2>4 DEF EnableLock
      <3> QED BY <2>1, <2>3, <3>1
    <2>5. CASE EnableForwarder(t) \/ EnableStart(t) \/ EnablePoint(t)
      <3>1. QuitPending
        BY <2>1, <2>5 DEF EnableForwarder, EnableStart, EnablePoint
      <3> QED BY <2>3, <3>1
    <2>6. CASE EnableInstall(t)
      <3>1. pc' = [pc EXCEPT ![t] = "enCheck"] /\ UNCHANGED <<cb, sysproxy>> /\ pc[t] = "enExport"
        BY <2>6 DEF EnableInstall, proxyVars
      <3> QED BY <2>1, <2>3, <3>1
    <2>7. CASE EnableCheck(t)
      <3>1. pc' = [pc EXCEPT ![t] = "idle"] /\ cb' = cb /\ pc[t] = "enCheck" BY <2>7 DEF EnableCheck
      <3>2. sysproxy' # "gate" \/ sysproxy' = sysproxy
        BY <2>7, RevertGivesBack DEF EnableCheck, proxyVars
      <3> QED BY <2>1, <2>3, <3>1, <3>2
    <2> QED BY <1>2, <2>4, <2>5, <2>6, <2>7 DEF Enable
  <1>3. ASSUME NEW t \in Threads, Disable(t) PROVE ExitInv'
    <2>1. exited /\ op' = op
      BY <1>3 DEF Disable, DisableTake, DisableRevert, DisableDown, SwitchAccount, restVars
    <2>2. CASE DisableTake(t)
      <3>1. lock = "free" /\ pc' = [pc EXCEPT ![t] = "disRevert"] BY <2>2 DEF DisableTake
      <3>2. \A u \in Threads : pc'[u] \notin {"enForwarder", "enStart", "enPoint"} BY <3>1
      <3>3. pc'[t] = "disRevert" BY <3>1
      <3> QED BY <3>2, <3>3
    <2>3. CASE DisableRevert(t)
      <3>1. sysproxy' # "gate" /\ lock = t /\ pc' = [pc EXCEPT ![t] = "disDown"]
        BY <2>3, RevertGivesBack DEF DisableRevert
      <3>2. \A u \in Threads : pc'[u] \notin {"enForwarder", "enStart", "enPoint"} BY <3>1
      <3> QED BY <3>1, <3>2
    <2>4. CASE DisableDown(t)
      <3>1. sysproxy' = sysproxy /\ pc[t] = "disDown" /\ lock = t BY <2>4 DEF DisableDown
      <3>2. PICK label \in {"swAccount", "utRelease", "idle"} : pc' = [pc EXCEPT ![t] = label]
        BY <2>4 DEF DisableDown, AfterDisable
      <3>3. \A u \in Threads : pc'[u] \notin {"enForwarder", "enStart", "enPoint"} BY <3>1, <3>2
      <3> QED BY <3>1, <3>3
    <2>5. CASE SwitchAccount(t)
      <3>1. pc' = [pc EXCEPT ![t] = "idle"] /\ UNCHANGED <<cb, sysproxy>> /\ pc[t] = "swAccount"
        BY <2>5 DEF SwitchAccount, proxyVars
      <3> QED BY <2>1, <3>1
    <2> QED BY <1>3, <2>2, <2>3, <2>4, <2>5 DEF Disable
  <1>4. ASSUME NEW t \in Threads, Untrust(t) PROVE ExitInv'
    <2>1. exited /\ sysproxy' = sysproxy /\ pc[t] \notin HeldPcs /\ pc[t] # "disLock"
      BY <1>4 DEF Untrust, UntrustCheck, UntrustRelease, UntrustJoin, UntrustRun, UntrustRaced,
                  restVars, proxyVars
    <2>2. \A u \in Threads : u # t => op'[u] = op[u]
      <3>1. op' = op \/ op' = [op EXCEPT ![t] = "untrustAgain"]
        <4> HIDE DEF CustodyInv, Custodial, LockInv, TypeInv, TypeOK, Mutex, ExitInv, QuitPending
        <4> QED BY <1>4 DEF Untrust, UntrustCheck, UntrustRelease, UntrustJoin, UntrustRun, UntrustRaced
      <3> QED BY <3>1
    <2>3. PICK label \in {"disLock", "utRelease", "utJoin", "utUntrust", "utRaced", "idle"} :
            pc' = [pc EXCEPT ![t] = label]
      <3> HIDE DEF CustodyInv, Custodial, LockInv, TypeInv, TypeOK, Mutex, ExitInv, QuitPending
      <3> QED BY <1>4 DEF Untrust, UntrustCheck, UntrustRelease, UntrustJoin, UntrustRun, UntrustRaced
    <2>4. \A c \in Callbacks : cb[c] \in {"env", "proxy"} => cb'[c] \in {"env", "proxy"}
      <3>1. CASE UntrustRelease(t) BY <3>1 DEF UntrustRelease, Joined, Callbacks, Engines
      <3>2. CASE ~UntrustRelease(t)
        BY <1>4, <3>2 DEF Untrust, UntrustCheck, UntrustJoin, UntrustRun, UntrustRaced
      <3> QED BY <3>1, <3>2
    <2> QED BY <2>1, <2>2, <2>3, <2>4
  <1>5. ASSUME NEW c \in Callbacks, Callback(c) PROVE ExitInv'
    <2>1. exited /\ UNCHANGED <<pc, op>>
      BY <1>5 DEF Callback, CallbackLock, CallbackDefers, CallbackStop, CallbackRevert, restVars
    <2>2. CASE CallbackRevert(c)
      <3>1. sysproxy' # "gate" BY <2>2, RevertGivesBack DEF CallbackRevert
      <3> QED BY <2>1, <3>1
    <2>3. CASE CallbackLock(c) BY <2>1, <2>3 DEF CallbackLock, proxyVars
    <2>4. CASE CallbackDefers(c) BY <2>1, <2>4 DEF CallbackDefers, proxyVars
    <2>5. CASE CallbackStop(c) BY <2>1, <2>5 DEF CallbackStop, proxyVars
    <2> QED BY <1>5, <2>2, <2>3, <2>4, <2>5 DEF Callback
  <1>6. CASE Kill
    BY <1>6 DEF Kill
  <1>7. CASE EngineDies \/ ParkedDies
    <2>1. UNCHANGED <<pc, op, exited, sysproxy>> BY <1>7 DEF EngineDies, ParkedDies, proxyVars, restVars
    <2>2. \A c \in Callbacks : cb[c] \in {"env", "proxy"} => cb'[c] \in {"env", "proxy"}
      BY <1>7 DEF EngineDies, ParkedDies, Engines, Callbacks
    <2> QED BY <2>1, <2>2
  <1>8. CASE UserEdits \/ ReconcileProxy
    <2>1. UNCHANGED <<pc, op, cb, exited>> BY <1>8 DEF UserEdits, ReconcileProxy, ctlVars, restVars
    <2>2. CASE UserEdits
      <3>1. sysproxy' # "gate" BY <2>2 DEF UserEdits, SetProxy
      <3> QED BY <2>1, <3>1
    <2>3. CASE ReconcileProxy
      <3>1. sysproxy' # "gate"
        <4>1. CASE snap = "none" BY <2>3, <4>1 DEF ReconcileProxy, SetProxy, Swept, Restorable
        <4>2. CASE snap # "none"
          BY <2>3, <4>2 DEF ReconcileProxy, SetProxy, Swept, Revert, RevertTarget, Fails, Orderly, Disorders
        <4> QED BY <4>1, <4>2
      <3> QED BY <2>1, <3>1
    <2> QED BY <1>8, <2>2, <2>3
  <1>9. CASE Tick \/ ForwarderDies \/ UserSetsEnv \/ Launch \/ ReconcileEnv \/ UNCHANGED vars
    <2>1. UNCHANGED <<pc, op, cb, exited, sysproxy>>
      BY <1>9 DEF Tick, TickCheck, TickSupervise, TickRepoint, TickExport, ForwarderDies, UserSetsEnv,
                  Launch, ReconcileEnv, vars, ctlVars, proxyVars, restVars
    <2> QED BY <2>1
  <1> QED BY <1>1, <1>2, <1>3, <1>4, <1>5, <1>6, <1>7, <1>8, <1>9 DEF Next, Step

\* Once the exit's disable_quiet has returned, the machine does not point at
\* Gate again while the process lasts, whichever enables were under way.
THEOREM ExitKept == ASSUME Orderly PROVE Spec => []ExitIsFinal
  <1>1. Init => CustodyInv /\ ExitInv
    BY CustodyInit DEF Init, ExitInv
  <1>2. CustodyInv /\ ExitInv => ExitIsFinal
    BY ActorsAssumption DEF CustodyInv, LockInv, Mutex, HeldPcs, ExitInv, QuitPending, ExitIsFinal, Free, Callbacks
  <1>3. CustodyInv /\ ExitInv /\ [Next]_vars => CustodyInv' /\ ExitInv'
    BY CustodyNext, ExitNext
  <1> QED BY <1>1, <1>2, <1>3, PTL DEF Spec

-----------------------------------------------------------------------------
(* The manager implements the custody it promises                            *)

\* A revert gives back what was replaced, or changes a setting that is not Gate's.
LEMMA RevertMoves ==
  ASSUME CustodyInv, Orderly, "unreadable" \notin Faults, NEW ok \in BOOLEAN, Revert(ok)
  PROVE  Custody!GiveBack \/ Custody!Change
  BY DEF Revert, RevertTarget, SetProxy, Fails, Orderly, Disorders, CustodyInv, Custodial, Restorable,
         LockInv, TypeInv, TypeOK, Custody!GiveBack, Custody!Change

\* Every step is one of ProxyCustody or leaves the setting alone.
LEMMA CustodyMoves ==
  CustodyInv /\ Orderly /\ "unreadable" \notin Faults /\ [Next]_vars => [Custody!Next]_(Custody!vars)
  <1> SUFFICES ASSUME CustodyInv, Orderly, "unreadable" \notin Faults, [Next]_vars,
                      ~UNCHANGED <<sysproxy, own>>
               PROVE  Custody!Next
    BY DEF Custody!vars
  <1> USE DEF Custody!Next, proxyVars
  <1>1. ASSUME NEW t \in Threads, Enable(t) PROVE Custody!Next
    <2>1. CASE EnablePoint(t)
      BY <2>1 DEF EnablePoint, SetProxy, Fails, Orderly, Disorders, CustodyInv, Custodial,
                  LockInv, TypeInv, TypeOK, Custody!TakeOver
    <2>2. CASE EnableCheck(t) BY <2>2, RevertMoves DEF EnableCheck
    <2> QED BY <1>1, <2>1, <2>2 DEF Enable, EnableLock, EnableForwarder, EnableStart, EnableInstall
  <1>2. ASSUME NEW t \in Threads, Disable(t) PROVE Custody!Next
    <2>1. CASE DisableRevert(t) BY <2>1, RevertMoves DEF DisableRevert
    <2> QED BY <1>2, <2>1 DEF Disable, DisableTake, DisableDown, SwitchAccount
  <1>3. ASSUME NEW c \in Callbacks, Callback(c) PROVE Custody!Next
    <2>1. CASE CallbackRevert(c) BY <2>1, RevertMoves DEF CallbackRevert
    <2> QED BY <1>3, <2>1 DEF Callback, CallbackLock, CallbackDefers, CallbackStop
  <1>4. CASE UserEdits
    BY <1>4 DEF UserEdits, SetProxy, Fails, Orderly, Disorders, CustodyInv, LockInv, TypeInv, TypeOK,
                Custody!Change
  <1>5. CASE ReconcileProxy
    BY <1>5 DEF ReconcileProxy, SetProxy, Swept, Revert, RevertTarget, Fails, Orderly, Disorders,
                CustodyInv, Custodial, Restorable, LockInv, TypeInv, TypeOK,
                Custody!GiveBack, Custody!Change
  <1>6. ASSUME NEW t \in Threads, Call(t) \/ Untrust(t) PROVE Custody!Next
    BY <1>6 DEF Call, Untrust, UntrustCheck, UntrustRelease, UntrustJoin, UntrustRun, UntrustRaced
  <1>7. CASE EngineDies \/ ParkedDies \/ Tick \/ ForwarderDies \/ UserSetsEnv \/ Kill \/ Launch
              \/ ReconcileEnv \/ UNCHANGED vars
    BY <1>7 DEF EngineDies, ParkedDies, Tick, TickCheck, TickSupervise, TickRepoint, TickExport,
                ForwarderDies, UserSetsEnv, Kill, Launch, ReconcileEnv, vars
  <1> QED BY <1>1, <1>2, <1>3, <1>4, <1>5, <1>6, <1>7 DEF Next, Step

\* When no revert fails, no snapshot is unreadable and nobody edits a setting
\* Gate is holding, every step of every actor is one of ProxyCustody: the setting
\* leaves Gate's hands only as exactly what Gate replaced.
THEOREM ImplementsCustody ==
  ASSUME Orderly, "unreadable" \notin Faults PROVE Spec => CustodySpec
  <1>1. Init => Custody!Init
    BY DEF Init, Custody!Init
  <1>2. CustodyInv /\ [Next]_vars => [Custody!Next]_(Custody!vars)
    BY CustodyMoves
  <1>3. CustodyInv /\ [Next]_vars => CustodyInv'
    BY CustodyNext
  <1> QED BY <1>1, <1>2, <1>3, CustodyInit, PTL DEF Spec, CustodySpec, Custody!Spec
=============================================================================
