----------------------------- MODULE LoginItem -----------------------------
(***************************************************************************)
(* macOS: how Gate comes back after it died while routing was on.  Three   *)
(* things on disk decide it: the login item (a LaunchAgent), which starts  *)
(* Gate at login; the crash-restart policy inside that file, for which     *)
(* launchd starts it again after a crash; and a marker saying that the     *)
(* login item is there only for safety, the user's choice being off.       *)
(* crates/core/src/proxy/autostart_optout.rs, crates/core/src/             *)
(* crash_restart.rs, and the shell that uses them (src-tauri/src/lib.rs,   *)
(* commands.rs).                                                           *)
(*                                                                         *)
(* The main thread runs the setup, the Settings toggle and the exit; a     *)
(* startup thread ("boot") and a thread of a routing command ("work") run  *)
(* beside it.  One label is one file written or one call to the system,    *)
(* so that a kill can fall between any two.  Who hosts the engine and what *)
(* becomes of the system proxy's setting is DesktopManager's matter; here  *)
(* it is one bit, with its snapshot.                                       *)
(***************************************************************************)
EXTENDS Naturals

CONSTANTS
    MaxUnclean, \* MAX_UNCLEAN_STARTS
    Faults      \* what may go wrong, by name

ASSUME UncleanAssumption == MaxUnclean \in Nat \ {0}

VARIABLES
    item,       \* the LaunchAgent's file is there
    policy,     \* it asks launchd to restart after a crash
    marker,     \* autostart-pending-disable
    defaulted,  \* autostart-defaulted
    intent,     \* the routing intent
    pointed,    \* the system proxy names Gate's engine, and a snapshot says so
    open, streak,   \* crash-restart.json: session_open, unclean_streak
    aged,       \* MIN_HEALTHY_SECONDS have passed since its started_ms
    pc,         \* where each thread is
    silent,     \* the process was started with --silent
    restarting, \* it exits for an updater's relaunch
    exited,     \* the manager enables no more
    crashed,    \* the process is down because it crashed
    choice,     \* history: launch at login as the user last had it
    exposed,    \* history: routing came up and has not got its safety net yet
    autos       \* history: relaunches in a row, each soon after a start that crashed

file == <<item, policy>>
record == <<open, streak, aged>>
process == <<silent, restarting, exited, crashed>>
history == <<choice, exposed, autos>>
vars == <<item, policy, marker, defaulted, intent, pointed, open, streak, aged, pc,
          silent, restarting, exited, crashed, choice, exposed, autos>>

Threads == {"main", "boot", "work"}
Setup == {"record", "policy", "default", "defaultArm", "defaultMark"}
Labels == Setup \cup {"none", "ready", "onItem", "onArm", "offItem", "exit", "revert", "finish",
                      "finishMark", "reconcile", "check", "ask", "enable", "point", "net",
                      "netItem", "netArm", "disable", "forget"}

TypeOK ==
    /\ item \in BOOLEAN /\ marker \in BOOLEAN /\ defaulted \in BOOLEAN
    /\ policy \in BOOLEAN /\ (policy => item)
    /\ intent \in BOOLEAN /\ pointed \in BOOLEAN
    /\ open \in BOOLEAN /\ aged \in BOOLEAN /\ streak \in 0 .. MaxUnclean + 1
    /\ pc \in [Threads -> Labels]
    /\ silent \in BOOLEAN /\ restarting \in BOOLEAN /\ exited \in BOOLEAN /\ crashed \in BOOLEAN
    /\ choice \in {"on", "off", "unknown"}
    /\ exposed \in BOOLEAN
    /\ autos \in 0 .. MaxUnclean + 1
    \* The startup thread and the commands come after the setup.
    /\ pc["main"] \in Setup \cup {"none"} => pc["boot"] = "none" /\ pc["work"] = "none"

At(t, label) == pc[t] = label
Goto(t, label) == pc' = [pc EXCEPT ![t] = label]
Up == ~At("main", "none")

\* Nothing of Gate on the machine yet.
Init ==
    /\ item = FALSE /\ policy = FALSE /\ marker = FALSE /\ defaulted = FALSE
    /\ intent = FALSE /\ pointed = FALSE
    /\ open = FALSE /\ streak = 0 /\ aged = FALSE
    /\ pc = [t \in Threads |-> "none"]
    /\ silent = FALSE /\ restarting = FALSE /\ exited = FALSE /\ crashed = FALSE
    /\ choice = "off" /\ exposed = FALSE /\ autos = 0

\* Several threads read one of these files and then write another, with no lock
\* between the two.  Each such section is a few file operations long, where what
\* would have to fall inside it takes seconds: without the fault "preempt" it
\* does not.
Sections == {"onItem", "onArm", "offItem", "netItem", "netArm", "check", "finish", "finishMark",
             "forget"}
Alone(t) == "preempt" \in Faults \/ \A u \in Threads \ {t} : pc[u] \notin Sections

-----------------------------------------------------------------------------
(* Launches.  launchd is external: it starts the login item at login, and    *)
(* again after a crash while the file asks for it.                           *)

Launched(withSilent) ==
    /\ ~Up
    /\ Goto("main", "record")
    /\ silent' = withSilent /\ crashed' = FALSE
    /\ UNCHANGED <<file, marker, defaulted, intent, pointed, record, restarting, exited,
                   choice, exposed>>

\* The user, or the relaunch an updater asked for.
Open == Launched(FALSE) /\ autos' = 0

Login == item /\ Launched(TRUE) /\ autos' = 0

Relaunch ==
    /\ crashed /\ policy
    /\ Launched(TRUE)
    /\ autos' = IF ~open THEN 0 ELSE IF aged THEN 1 ELSE IF autos > MaxUnclean THEN autos ELSE autos + 1

-----------------------------------------------------------------------------
(* Setup, on the main thread. *)

\* unclean_streak of a start, from what the file says of the one before.
Streak(wasOpen, long, before) ==
    IF ~wasOpen THEN 0
    ELSE IF long THEN 1
    ELSE IF before > MaxUnclean THEN before ELSE before + 1

\* Mistake: one launch more than the limit.
ExhaustedLate(count) == count > MaxUnclean
Exhausted(count) == count >= MaxUnclean

\* record_start.  When the file cannot be written the policy is left as it is.
Record ==
    /\ At("main", "record")
    /\ \/ /\ open' = TRUE /\ aged' = FALSE
          /\ streak' = Streak(open, aged, streak)
          /\ Goto("main", "policy")
       \/ /\ "unrecorded" \in Faults
          /\ Goto("main", "default") /\ UNCHANGED record
    /\ UNCHANGED <<file, marker, defaulted, intent, pointed, process, history>>

\* The plugin writes the LaunchAgent from its template, which has no policy.
Register == item' = TRUE /\ policy' = FALSE
\* Adding the policy leaves a LaunchAgent that is not there alone.
Arm == policy' = item /\ UNCHANGED item
Deregister == item' = FALSE /\ policy' = FALSE

\* arm_crash_restart or disarm_crash_restart.
Policy ==
    /\ At("main", "policy")
    /\ IF Exhausted(streak) THEN policy' = FALSE /\ UNCHANGED item ELSE Arm
    /\ Goto("main", "default")
    /\ UNCHANGED <<marker, defaulted, intent, pointed, record, process, history>>

\* Mistake: the opt-out is looked at before the system proxy is put back.
SetUpHasty == pc' = [pc EXCEPT !["main"] = "ready", !["boot"] = "check"]
SetUp == pc' = [pc EXCEPT !["main"] = "ready", !["boot"] = "reconcile"]

\* Launch at login is on by default, once.
Default ==
    /\ At("main", "default")
    /\ IF defaulted THEN SetUp /\ UNCHANGED <<file, choice, autos>>
       ELSE \/ Register /\ choice' = "on" /\ autos' = 0 /\ Goto("main", "defaultArm")
            \/ /\ "register" \in Faults
               /\ Goto("main", "defaultMark") /\ UNCHANGED <<file, choice, autos>>
    /\ UNCHANGED <<marker, defaulted, intent, pointed, record, process, exposed>>

DefaultArm ==
    /\ At("main", "defaultArm")
    /\ Arm /\ Goto("main", "defaultMark")
    /\ UNCHANGED <<marker, defaulted, intent, pointed, record, process, history>>

DefaultMark ==
    /\ At("main", "defaultMark")
    /\ defaulted' = TRUE /\ SetUp
    /\ UNCHANGED <<file, marker, intent, pointed, record, process, history>>

-----------------------------------------------------------------------------
(* The Settings toggle, on the main thread: set_launch_at_login. *)

ToggleOn ==
    /\ At("main", "ready") /\ Alone("main")
    /\ marker' = FALSE
    /\ Goto("main", "onItem")
    /\ autos' = 0
    /\ UNCHANGED <<file, defaulted, intent, pointed, record, process, choice, exposed>>

OnItem ==
    /\ At("main", "onItem")
    /\ \/ Register /\ Goto("main", "onArm") /\ UNCHANGED choice
       \/ /\ "register" \in Faults
          /\ Goto("main", "ready") /\ choice' = "unknown" /\ UNCHANGED file
    /\ UNCHANGED <<marker, defaulted, intent, pointed, record, process, exposed, autos>>

OnArm ==
    /\ At("main", "onArm")
    /\ Arm /\ choice' = "on"
    /\ Goto("main", "ready")
    /\ UNCHANGED <<marker, defaulted, intent, pointed, record, process, exposed, autos>>

\* Mistake: only the intent, whose write may have failed, is asked.
RoutingIntended == intent
\* record_disable: routing is on by its intent or by the snapshot.
RoutingOn == intent \/ pointed

ToggleOff ==
    /\ At("main", "ready") /\ Alone("main")
    /\ marker' = RoutingOn
    /\ IF RoutingOn THEN choice' = "off" /\ UNCHANGED pc
       ELSE Goto("main", "offItem") /\ UNCHANGED choice
    /\ autos' = 0
    /\ UNCHANGED <<file, defaulted, intent, pointed, record, process, exposed>>

OffItem ==
    /\ At("main", "offItem")
    /\ \/ Deregister /\ choice' = "off"
       \/ "register" \in Faults /\ choice' = "unknown" /\ UNCHANGED file
    /\ Goto("main", "ready")
    /\ UNCHANGED <<marker, defaulted, intent, pointed, record, process, exposed, autos>>

-----------------------------------------------------------------------------
(* complete_pending_autostart_disable, wherever it is called. *)

\* After a quit the process is over; after a silent launch it is told to exit.
Ended == pc' = [t \in Threads |-> "none"]
After(t) == IF t = "main" THEN Ended ELSE Goto(t, IF t = "boot" THEN "ask" ELSE "none")
Leaving(t) ==
    IF t = "main" THEN exited' = FALSE /\ silent' = FALSE /\ UNCHANGED <<restarting, crashed>>
    ELSE UNCHANGED process

Finish(t) ==
    /\ At(t, "finish")
    /\ \/ marker /\ Deregister /\ Goto(t, "finishMark") /\ UNCHANGED process
       \/ ~marker /\ After(t) /\ Leaving(t) /\ UNCHANGED file
       \/ /\ marker /\ item /\ "register" \in Faults
          /\ After(t) /\ Leaving(t) /\ UNCHANGED file
    /\ UNCHANGED <<marker, defaulted, intent, pointed, record, history>>

FinishMark(t) ==
    /\ At(t, "finishMark")
    /\ marker' = FALSE
    /\ After(t) /\ Leaving(t)
    /\ UNCHANGED <<file, defaulted, intent, pointed, record, history>>

-----------------------------------------------------------------------------
(* The startup thread, and routing commands. *)

\* A system proxy that was left pointed at a dead port is put back.
Unpoint ==
    \/ pointed' = FALSE /\ exposed' = FALSE
    \/ "revert" \in Faults /\ UNCHANGED <<pointed, exposed>>

Reconcile ==
    /\ At("boot", "reconcile") /\ Alone("boot")
    /\ Unpoint
    /\ Goto("boot", "check")
    /\ UNCHANGED <<file, marker, defaulted, intent, record, process, choice, autos>>

\* A login launch that finds the opt-out pending finishes it and exits; any
\* other goes on to route, if there is an account.
Check ==
    /\ At("boot", "check")
    /\ \/ silent /\ marker /\ Goto("boot", "finish")
       \/ ~(silent /\ marker) /\ Goto("boot", "enable")
       \/ ~(silent /\ marker) /\ "noAccount" \in Faults /\ Goto("boot", "none")
    /\ UNCHANGED <<file, marker, defaulted, intent, pointed, record, process, history>>

\* handle.exit(0) reaches the main thread's event loop.
Ask ==
    /\ At("boot", "ask") /\ At("main", "ready")
    /\ pc' = [pc EXCEPT !["main"] = "exit", !["boot"] = "none"]
    /\ UNCHANGED <<file, marker, defaulted, intent, pointed, record, process, history>>

\* routing::enable: the intent first, then the engine and the system proxy.
Enable(t) ==
    /\ At(t, "enable")
    /\ intent' = TRUE \/ ("intent" \in Faults /\ UNCHANGED intent)
    /\ Goto(t, "point")
    /\ UNCHANGED <<file, marker, defaulted, pointed, record, process, history>>

Point(t) ==
    /\ At(t, "point")
    /\ \/ /\ ~exited /\ Alone(t)
          /\ pointed' = TRUE /\ exposed' = TRUE /\ Goto(t, "net")
       \/ /\ exited \/ "engine" \in Faults
          /\ Goto(t, "none") /\ UNCHANGED <<pointed, exposed>>
    /\ UNCHANGED <<file, marker, defaulted, intent, record, process, choice, autos>>

\* Mistake: the registration is not marked first.
NetUnmarked(t) ==
    /\ At(t, "net") /\ Alone(t)
    /\ IF item THEN Goto(t, "none") /\ UNCHANGED item ELSE Goto(t, "netItem") /\ item' = TRUE
    /\ exposed' = FALSE
    /\ UNCHANGED <<policy, marker, defaulted, intent, pointed, record, process, choice, autos>>

\* arm_crash_safety_net: a login item that is there, whoever wanted it, is net
\* enough; otherwise the marker goes before the registration.
Net(t) ==
    /\ At(t, "net") /\ Alone(t)
    /\ \/ item /\ Goto(t, "none") /\ exposed' = FALSE /\ UNCHANGED marker
       \/ ~item /\ Goto(t, "netItem") /\ marker' = TRUE /\ UNCHANGED exposed
       \/ "register" \in Faults /\ Goto(t, "none") /\ UNCHANGED <<marker, exposed>>
    /\ UNCHANGED <<file, defaulted, intent, pointed, record, process, choice, autos>>

NetItem(t) ==
    /\ At(t, "netItem")
    /\ \/ Register /\ exposed' = FALSE /\ Goto(t, "netArm") /\ UNCHANGED marker
       \/ /\ "register" \in Faults
          /\ marker' = FALSE /\ Goto(t, "none") /\ UNCHANGED <<file, exposed>>
    /\ UNCHANGED <<defaulted, intent, pointed, record, process, choice, autos>>

NetArm(t) ==
    /\ At(t, "netArm")
    /\ Arm /\ Goto(t, "none")
    /\ UNCHANGED <<marker, defaulted, intent, pointed, record, process, history>>

\* The user turns routing on or off.
Command ==
    /\ At("main", "ready") /\ At("work", "none")
    /\ \E label \in {"enable", "disable"} : Goto("work", label)
    /\ autos' = 0
    /\ UNCHANGED <<file, marker, defaulted, intent, pointed, record, process, choice, exposed>>

\* routing::disable: the system proxy, then the intent; the opt-out after both.
Disable ==
    /\ At("work", "disable") /\ Alone("work")
    /\ \/ pointed' = FALSE /\ exposed' = FALSE /\ Goto("work", "forget")
       \/ "revert" \in Faults /\ Goto("work", "none") /\ UNCHANGED <<pointed, exposed>>
    /\ UNCHANGED <<file, marker, defaulted, intent, record, process, choice, autos>>

Forget ==
    /\ At("work", "forget")
    /\ intent' = FALSE \/ ("intent" \in Faults /\ UNCHANGED intent)
    /\ Goto("work", "finish")
    /\ UNCHANGED <<file, marker, defaulted, pointed, record, process, history>>

-----------------------------------------------------------------------------
(* Exit, on the main thread. *)

\* A quit, a logout, or an updater's restart.
Quit ==
    /\ At("main", "ready")
    /\ restarting' \in BOOLEAN
    /\ Goto("main", "exit")
    /\ autos' = 0
    /\ UNCHANGED <<file, marker, defaulted, intent, pointed, record, silent, exited, crashed,
                   choice, exposed>>

\* record_clean_exit, before anything is reverted.
CleanExit ==
    /\ At("main", "exit")
    /\ \/ open' = FALSE /\ streak' = 0 /\ aged' = FALSE
       \/ "unrecorded" \in Faults /\ UNCHANGED record
    /\ Goto("main", "revert")
    /\ UNCHANGED <<file, marker, defaulted, intent, pointed, process, history>>

\* disable_quiet, whose failure is only printed.
Revert ==
    /\ At("main", "revert") /\ Alone("main")
    /\ Unpoint
    /\ IF restarting
       THEN Ended /\ restarting' = FALSE /\ silent' = FALSE /\ UNCHANGED exited
       ELSE Goto("main", "finish") /\ exited' = TRUE /\ UNCHANGED <<silent, restarting>>
    /\ UNCHANGED <<file, marker, defaulted, intent, record, crashed, choice, autos>>

-----------------------------------------------------------------------------
(* What happens to the process. *)

\* The callback of an engine that dies reverts the system proxy.
EngineDies ==
    /\ pc["boot"] # "reconcile" /\ ~At("main", "none") /\ pc["main"] \notin Setup
    /\ pointed
    /\ pointed' = FALSE /\ exposed' = FALSE
    /\ UNCHANGED <<file, marker, defaulted, intent, record, pc, process, choice, autos>>

Dies ==
    /\ Up
    /\ Ended
    /\ silent' = FALSE /\ restarting' = FALSE /\ exited' = FALSE
    /\ choice' = IF pc["main"] \in {"onItem", "onArm", "offItem"} THEN "unknown" ELSE choice
    /\ UNCHANGED <<file, marker, defaulted, intent, pointed, exposed, autos>>

\* An abort or a signal.  Before and between the first file operations of the
\* setup there is nothing that could crash by itself.
Crash ==
    /\ "early" \in Faults \/ pc["main"] \notin Setup \ {"default"}
    /\ Dies /\ crashed' = TRUE
    /\ UNCHANGED record

\* Force Quit, a logout that does not wait, a power loss; a file being written
\* is then empty, which reads as a clean slate.
Kill ==
    /\ Dies /\ crashed' = FALSE
    /\ \/ UNCHANGED record
       \/ At("main", "record") /\ open' = FALSE /\ streak' = 0 /\ aged' = FALSE

\* A relaunch reaches record_start within the minute.
Age ==
    /\ open /\ ~aged /\ ~At("main", "record")
    /\ aged' = TRUE
    /\ UNCHANGED <<file, marker, defaulted, intent, pointed, open, streak, pc, process, history>>

-----------------------------------------------------------------------------

Main ==
    \/ Record \/ Policy \/ Default \/ DefaultArm \/ DefaultMark
    \/ OnItem \/ OnArm \/ OffItem
    \/ CleanExit \/ Revert \/ Finish("main") \/ FinishMark("main")

Boot ==
    \/ Reconcile \/ Check \/ Ask
    \/ Enable("boot") \/ Point("boot") \/ Net("boot") \/ NetItem("boot") \/ NetArm("boot")
    \/ Finish("boot") \/ FinishMark("boot")

Work ==
    \/ Enable("work") \/ Point("work") \/ Net("work") \/ NetItem("work") \/ NetArm("work")
    \/ Disable \/ Forget \/ Finish("work") \/ FinishMark("work")

User == Open \/ ToggleOn \/ ToggleOff \/ Command \/ Quit

Next ==
    \/ User \/ Main \/ Boot \/ Work
    \/ Login \/ Relaunch \/ EngineDies \/ Crash \/ Kill \/ Age

Spec == Init /\ [][Next]_vars

\* A thread goes on; launchd does its part, and somebody logs in again.  Strong
\* for the startup thread, because Alone stands for sections that last no time
\* and is not a lock that could be missed again and again.
FairSpec == Spec /\ WF_vars(Main) /\ SF_vars(Boot) /\ WF_vars(Work) /\ WF_vars(Login)

-----------------------------------------------------------------------------

\* Routing that has its safety net never outlives it: whatever is killed
\* whenever, a system proxy left pointed at a dead port has a login item that
\* will heal it (autostart_optout.rs:1).
Netted == pointed /\ ~exposed => item

\* Launch at login reads, at every moment nothing is changing it, as the user
\* left it: a registration that is only the net is marked, and what the user
\* wants is neither marked nor taken away (lib.rs:871).
ChoiceStands ==
    pc["main"] \notin {"onItem", "onArm", "offItem"} =>
        /\ choice = "on" => item /\ ~marker
        /\ choice = "off" /\ item => marker

\* A start that crashes again and again, with nobody touching the app, is not
\* relaunched for ever (crash_restart.rs:50).  What does not count here nor in
\* the code: a crash in an exit that has recorded the session as over; and a
\* first launch, which registers afresh.
LoopStops == autos <= MaxUnclean

\* Every registration erases the policy; once the one who registered is done
\* the next crash is restarted again, unless the streak is spent (lib.rs:1003).
StaysArmed ==
    At("main", "ready") /\ item /\ (\A t \in Threads : ~At(t, "netArm")) =>
        policy \/ Exhausted(streak)

\* A system proxy left pointed at the port of a dead process is put back by
\* the login that follows, with nobody opening Gate (lib.rs:871).  A process
\* that dies over and over before its startup thread has looked keeps it; once
\* that stops, it heals.
StrandedHeals == <>[][~(Crash \/ Kill)]_vars => (~Up /\ pointed /\ ~exposed ~> ~pointed)
=============================================================================
