------------------------------ MODULE MasterSwitch ------------------------------
(***************************************************************************)
(* The "Route through Gate" switch over tools and provider families        *)
(* (provider.rs, routing.rs): the quit sweep takes Gate out of every       *)
(* configuration and writes down what was on; the next launch's restore    *)
(* puts it back in two passes around the engine start.  Three files carry  *)
(* the promise from one process to the next: the families to bring back,   *)
(* the members of those families to leave off, and the tools swept one by  *)
(* one.  One process; each step below is one file written.                 *)
(***************************************************************************)
EXTENDS FiniteSets

CONSTANTS
    Families, Tools, Domains,   \* providers, tools and proxy domains
    ToolsOf, DomainsOf,         \* the members of each family
    RequiresEngine,             \* tools whose configuration names the engine
    Faults                      \* what may go wrong, by name (see Fails)

Members == Tools \cup Domains
NoFamily == "none"
MembersOf(f) == ToolsOf[f] \cup DomainsOf[f]

ASSUME CatalogAssumption ==
    /\ ToolsOf \in [Families -> SUBSET Tools]
    /\ DomainsOf \in [Families -> SUBSET Domains]
    /\ RequiresEngine \subseteq Tools
    /\ NoFamily \notin Families

\* providers(): no member of one family is a member of another, and a family has
\* at most one tool.
ASSUME FamiliesAssumption ==
    /\ Tools \cap Domains = {}
    /\ \A f, g \in Families : f # g => MembersOf(f) \cap MembersOf(g) = {}
    /\ \A f \in Families : \A s, t \in ToolsOf[f] : s = t

VARIABLES
    \* on disk
    on,          \* members that are on: tool configurations naming Gate, domain flags
    provSnap,    \* restore-snapshot.json: families to bring back
    skip,        \* restore-skip-members.json: members to leave off meanwhile
    swept,       \* restore-tools-snapshot.json: tools to reconnect
    \* in the process
    up,          \* the process is running
    engine,      \* the engine is routing
    exiting,     \* EXITING
    boot,        \* where routing::enable stands
    parking,     \* where routing::disable stands after its pass
    failed,      \* tools the exit sweep could not put back
    asked,       \* tools whose connect waits for the lock
    job,         \* what holds MASTER_FLOW_LOCK, and how far it is
    \* history
    want,        \* members last switched on, by hand or by the reconcile
    held,        \* those of them no off-flow has read as switched off
    blurred      \* a death has left families recorded and not their members

disk    == <<provSnap, skip, swept>>
process == <<up, engine, exiting, boot, parking, failed, asked>>
history == <<want, held, blurred>>
vars == <<on, disk, process, job, history>>

Jobs == {"free", "restore", "sweep", "park"}
Steps == {"save", "skip", "families", "done", "clear", "tools"}

Free == [op |-> "free", step |-> "done", queue |-> {}, fams |-> {},
         cur |-> NoFamily, left |-> {}, keep |-> {}, tools |-> {},
         owed |-> {}, turn |-> "none"]

\* A step that not every instance admits is named:
\*   pending  the user works a switch while anything waits to be restored
Fails(fault) == fault \in Faults

NeedsEngine(t) == t \in RequiresEngine /\ ~engine
Connected(t) == t \in on /\ ~NeedsEngine(t)

\* state: any tool connected or any cascade domain on.
Enabled(f) == (\E t \in ToolsOf[f] : Connected(t)) \/ DomainsOf[f] \cap on # {}

\* off_members: a tool whose status is not Connected counts as off, drift included.
OffMembers(f) ==
    {t \in ToolsOf[f] : ~Connected(t)} \cup (DomainsOf[f] \ on)

Init ==
    /\ on = {} /\ provSnap = {} /\ skip = {} /\ swept = {}
    /\ up = TRUE /\ engine = FALSE /\ exiting = FALSE
    /\ boot = "done" /\ parking = "no" /\ failed = {} /\ asked = {} /\ job = Free
    /\ want = {} /\ held = {} /\ blurred = FALSE

------------------------------------------------------------------------------
(* restore_all and restore_one *)

Unlocked == up /\ job.op = "free"

\* The engine-down plan has nothing to do: no tool this pass may configure and
\* no engine to enable a domain in.
NotYet(f) == ToolsOf[f] \subseteq skip /\ ~engine

\* Mistake: a restore that does not look at the exit mark.
RestoreAllBlind(turn) ==
    job' = [Free EXCEPT !.op = "restore", !.step = "families", !.turn = turn,
                        !.queue = provSnap, !.fams = provSnap, !.tools = swept]

\* The lock, then both queues.  Nothing at all once the exit sweep has begun.
RestoreAll(turn) ==
    IF exiting
    THEN UNCHANGED job
    ELSE job' = [Free EXCEPT !.op = "restore", !.step = "families", !.turn = turn,
                             !.queue = provSnap, !.fams = provSnap, !.tools = swept]

\* Retry of one entry: a family if it is recorded as one, else a tool.
RestoreOne ==
    /\ Unlocked /\ ~exiting
    /\ \/ \E f \in provSnap :
            job' = [Free EXCEPT !.op = "restore", !.step = "families",
                                !.queue = {f}, !.fams = {f}]
       \/ \E t \in swept :
            job' = [Free EXCEPT !.op = "restore", !.step = "tools", !.tools = {t}]
    /\ UNCHANGED <<on, disk, process, history>>

\* Mistake: the family comes back with every member.
RestoreWholeFamily ==
    /\ job.op = "restore" /\ job.step = "families" /\ job.cur = NoFamily
    /\ \E f \in job.fams :
         job' = [job EXCEPT !.fams = @ \ {f}, !.cur = f, !.left = MembersOf(f)]
    /\ UNCHANGED <<on, disk, process, history>>

\* enable_inner on the next family: declined, or its members that are not
\* skipped are to be switched on.
RestoreFamily ==
    /\ job.op = "restore" /\ job.step = "families" /\ job.cur = NoFamily
    /\ \E f \in job.fams :
         IF NotYet(f)
         THEN job' = [job EXCEPT !.fams = @ \ {f}, !.keep = @ \cup {f}]
         ELSE job' = [job EXCEPT !.fams = @ \ {f}, !.cur = f,
                                 !.left = MembersOf(f) \ skip]
    /\ UNCHANGED <<on, disk, process, history>>

\* The tools of the family come before its domains.
NextMembers == IF job.left \cap Tools # {} THEN job.left \cap Tools ELSE job.left

\* One member written, or refused: a refusal ends the family and keeps it queued.
RestoreMember ==
    /\ job.op = "restore" /\ job.cur # NoFamily
    /\ \E m \in NextMembers :
         \/ /\ ~NeedsEngine(m)
            /\ on' = on \cup {m}
            /\ job' = [job EXCEPT !.left = @ \ {m}]
         \/ /\ UNCHANGED on
            /\ job' = [job EXCEPT !.left = {}, !.cur = NoFamily, !.keep = @ \cup {job.cur}]
    /\ UNCHANGED <<disk, process, history>>

\* Every member was attempted: the family leaves the queue only if it reads as on.
RestoreFamilyEnd ==
    /\ job.op = "restore" /\ job.cur # NoFamily /\ job.left = {}
    /\ job' = [job EXCEPT !.cur = NoFamily,
                          !.keep = IF Enabled(job.cur) THEN @ ELSE @ \cup {job.cur}]
    /\ UNCHANGED <<on, disk, process, history>>

\* The family snapshot is rewritten; emptied, the skip list goes after it.
RestoreSave ==
    /\ job.op = "restore" /\ job.step = "families"
    /\ job.cur = NoFamily /\ job.fams = {}
    /\ provSnap' = (provSnap \ job.queue) \cup job.keep
    /\ job' = [job EXCEPT !.step = IF provSnap' = {} THEN "clear" ELSE "tools",
                          !.queue = {}, !.keep = {}]
    /\ UNCHANGED <<on, skip, swept, process, history>>

RestoreClearSkip ==
    /\ job.op = "restore" /\ job.step = "clear"
    /\ skip' = {}
    /\ job' = [job EXCEPT !.step = "tools"]
    /\ UNCHANGED <<on, provSnap, swept, process, history>>

\* restore_swept_tools, one entry: deferred for the engine, refused, or connected.
RestoreTool ==
    /\ job.op = "restore" /\ job.step = "tools"
    /\ \E t \in job.tools :
         \/ /\ UNCHANGED on
            /\ job' = [job EXCEPT !.tools = @ \ {t}, !.owed = @ \cup {t},
                                  !.queue = @ \cup {t}]
         \/ /\ ~NeedsEngine(t)
            /\ on' = on \cup {t}
            /\ job' = [job EXCEPT !.tools = @ \ {t}, !.queue = @ \cup {t}]
    /\ UNCHANGED <<disk, process, history>>

\* The tool snapshot is rewritten once, after the last entry; the lock goes.
RestoreEnd ==
    /\ job.op = "restore" /\ job.step = "tools" /\ job.tools = {}
    /\ swept' = (swept \ job.queue) \cup job.owed
    /\ job' = Free
    /\ boot' = CASE job.turn = "first" -> "engine"
                 [] job.turn = "second" -> "done"
                 [] OTHER -> boot
    /\ UNCHANGED <<on, provSnap, skip, up, engine, exiting, parking, failed, asked, history>>

------------------------------------------------------------------------------
(* routing::enable: first pass, engine, second pass *)

RoutingOn ==
    /\ up /\ boot = "done" /\ ~engine
    /\ boot' = "first"
    /\ UNCHANGED <<on, disk, up, engine, exiting, parking, failed, asked, job, history>>

FirstPass ==
    /\ Unlocked /\ boot = "first"
    /\ RestoreAll("first")
    /\ boot' = IF exiting THEN "engine" ELSE boot
    /\ UNCHANGED <<on, disk, up, engine, exiting, parking, failed, asked, history>>

\* A start that fails ends the sequence; so does one that meets the exit's mark.
StartEngine ==
    /\ up /\ boot = "engine"
    /\ \/ ~exiting /\ engine' = TRUE /\ boot' = "second"
       \/ UNCHANGED engine /\ boot' = "done"
    /\ UNCHANGED <<on, disk, up, exiting, parking, failed, asked, job, history>>

SecondPass ==
    /\ Unlocked /\ boot = "second"
    /\ RestoreAll("second")
    /\ boot' = IF exiting THEN "done" ELSE boot
    /\ UNCHANGED <<on, disk, up, engine, exiting, parking, failed, asked, history>>

------------------------------------------------------------------------------
(* The sweep of a quit, and the park of the routing switch *)

EnabledFamilies == {f \in Families : Enabled(f)}

\* Mistake: the snapshot is overwritten with what is on now.
RecordOver(op) ==
    /\ provSnap' = EnabledFamilies
    /\ job' = [Free EXCEPT !.op = op, !.step = "skip",
                        !.queue = provSnap, !.fams = EnabledFamilies,
                        !.tools = IF op = "sweep" THEN Tools ELSE {}]

\* Recording the families is a union: an existing file is a pending restore.
Record(op) ==
    /\ provSnap' = provSnap \cup EnabledFamilies
    /\ job' = [Free EXCEPT !.op = op, !.step = "skip",
                        !.queue = provSnap, !.fams = EnabledFamilies,
                        !.tools = IF op = "sweep" THEN Tools ELSE {}]

\* The quit claims the teardown once per process, under the lock.
SweepBegin ==
    /\ Unlocked /\ ~exiting
    /\ exiting' = TRUE
    /\ Record("sweep")
    /\ UNCHANGED <<on, skip, swept, up, engine, boot, parking, failed, asked, history>>

ParkBegin ==
    /\ Unlocked /\ parking = "no"
    /\ asked = {}
    /\ Record("park")
    /\ UNCHANGED <<on, skip, swept, process, history>>

\* The members already off in those families, read before the loop that turns
\* the others off.  History follows the code's reading: a tool read as drifted
\* counts as switched off, and so does every member left on the skip list when a
\* family that was already waiting to be restored is swept again.
RecordSkip ==
    /\ job.step = "skip"
    /\ LET off == UNION {OffMembers(f) : f \in job.fams}
       IN  /\ skip' = skip \cup off
           /\ held' = held \ ((off \cap on) \cup
                 (skip' \cap UNION {MembersOf(f) : f \in job.fams \cap job.queue}))
    /\ job' = [job EXCEPT !.step = "families", !.queue = {}]
    /\ UNCHANGED <<on, provSnap, swept, process, want, blurred>>

\* disable_inner: the tools whose configuration is Gate's, unless it is kept,
\* then the domains.  Families and tools are taken in catalogue order.
Disabling == job.op \in {"sweep", "park"} /\ job.step = "families"

Leave(f, left) ==
    job' = [job EXCEPT !.fams = @ \ {f}, !.left = left,
                       !.cur = IF left = {} THEN NoFamily ELSE f]

DisableFamily ==
    /\ Disabling /\ job.cur = NoFamily /\ job.fams # {}
    /\ LET f == CHOOSE x \in job.fams : TRUE
       IN  Leave(f, DomainsOf[f] \cup IF job.op = "park" THEN {} ELSE ToolsOf[f] \cap on)
    /\ UNCHANGED <<on, disk, process, history>>

\* A tool that cannot be put back ends its family; a domain that cannot be
\* switched off does not.
DisableMember ==
    /\ Disabling /\ job.cur # NoFamily
    /\ \E m \in NextMembers :
         \/ on' = on \ {m} /\ Leave(job.cur, job.left \ {m})
         \/ /\ UNCHANGED on
            /\ Leave(job.cur, IF m \in Tools THEN {} ELSE job.left \ {m})
    /\ UNCHANGED <<disk, process, history>>

\* The registry pass, tool by tool: one still on Gate is recorded before it is
\* disconnected.
SweepRecord ==
    /\ job.op = "sweep" /\ Disabling
    /\ job.cur = NoFamily /\ job.fams = {} /\ job.left = {} /\ job.tools # {}
    /\ LET t == CHOOSE x \in job.tools : TRUE
       IN  /\ swept' = swept \cup ({t} \cap on)
           /\ job' = [job EXCEPT !.tools = @ \ {t}, !.left = {t} \cap on]
    /\ UNCHANGED <<on, provSnap, skip, process, history>>

SweepTool ==
    /\ job.op = "sweep" /\ job.cur = NoFamily
    /\ \E t \in job.left :
         \/ on' = on \ {t} /\ UNCHANGED failed
         \/ UNCHANGED on /\ failed' = failed \cup {t}
    /\ job' = [job EXCEPT !.left = {}]
    /\ UNCHANGED <<disk, up, engine, exiting, boot, parking, asked, history>>

\* The sweep is over and the lock is free; the process is still winding down.
SweepEnd ==
    /\ job.op = "sweep" /\ Disabling
    /\ job.cur = NoFamily /\ job.fams = {} /\ job.left = {} /\ job.tools = {}
    /\ job' = Free
    /\ UNCHANGED <<on, disk, process, history>>

\* routing::disable after its pass has given the lock back: the engine parks,
\* or the attempt fails and it goes on routing.
ParkEnd ==
    /\ job.op = "park" /\ Disabling /\ job.cur = NoFamily /\ job.fams = {}
    /\ job' = Free
    /\ parking' = "engine"
    /\ UNCHANGED <<on, disk, up, engine, exiting, boot, failed, asked, history>>

ParkEngine ==
    /\ parking = "engine"
    /\ engine' \in {FALSE, engine} /\ parking' = "no"
    /\ UNCHANGED <<on, disk, up, exiting, boot, failed, asked, job, history>>

------------------------------------------------------------------------------
(* The user's switches, the reconcile, and the life of the process *)

\* The user's switches are not recorded, so a restore that is still owed does
\* not know of them.
MayTouch ==
    /\ up /\ job.op = "free"
    /\ Fails("pending") \/ (provSnap = {} /\ skip = {} /\ swept = {})

\* connect_tool: the engine first; the write waits for the lock.
AskConnect ==
    /\ MayTouch
    /\ asked = {}
    /\ \E t \in Tools :
         \/ /\ engine \/ ~exiting
            /\ engine' = TRUE
            /\ asked' = asked \cup {t}
         \/ ~engine /\ UNCHANGED <<engine, asked>>
    /\ UNCHANGED <<on, disk, up, exiting, boot, parking, failed, job, history>>

\* unless_exiting: refused once the exit sweep has begun.
Connect ==
    /\ Unlocked
    /\ \E t \in asked :
         /\ asked' = asked \ {t}
         /\ \/ /\ ~exiting /\ ~NeedsEngine(t)
               /\ on' = on \cup {t} /\ want' = want \cup {t} /\ held' = held \cup {t}
            \/ UNCHANGED <<on, want, held>>
    /\ UNCHANGED <<disk, up, engine, exiting, boot, parking, failed, job, blurred>>

\* disconnect_tool and proxy_set_domain take no lock.
SwitchOff ==
    /\ MayTouch
    /\ \E m \in on : on' = on \ {m} /\ want' = want \ {m} /\ held' = (held \cap on) \ {m}
    /\ UNCHANGED <<disk, process, job, blurred>>

DomainOn ==
    /\ MayTouch
    /\ \E d \in Domains \ on : on' = on \cup {d} /\ want' = want \cup {d} /\ held' = held \cup {d}
    /\ UNCHANGED <<disk, process, job, blurred>>

\* reconcile_enabled, at startup and on focus: an installed tool that is not on
\* is connected when a domain of its family is; the lock is held for the pass.
Reconcile ==
    /\ Unlocked /\ ~exiting
    /\ \E ts \in SUBSET {t \in Tools \ on : ~NeedsEngine(t) /\
                           \E f \in Families : t \in ToolsOf[f] /\ DomainsOf[f] \cap on # {}} :
         on' = on \cup ts /\ want' = want \cup ts /\ held' = held \cup ts
    /\ UNCHANGED <<disk, process, job, blurred>>

Ended ==
    /\ up' = FALSE /\ engine' = FALSE /\ exiting' = FALSE /\ boot' = "done"
    /\ parking' = "no" /\ failed' = {} /\ asked' = {} /\ job' = Free
    /\ UNCHANGED <<on, disk, want, held>>

\* The process ends after its sweep.
Quit ==
    /\ Unlocked /\ exiting
    /\ Ended
    /\ UNCHANGED blurred

\* It is killed, relaunched by the updater without a sweep, or quits without one
\* because another operation holds the lock for QUIT_GUARD_WAIT.  A death between
\* the two records of an off-flow leaves families recorded and not which of their
\* members were off.
Die ==
    /\ up
    /\ Ended
    /\ blurred' = (blurred \/ job.step = "skip")

\* Every launch turns routing on; the persisted intent is not read.
Launch ==
    /\ ~up
    /\ up' = TRUE
    /\ boot' = "first"
    /\ UNCHANGED <<on, disk, engine, exiting, parking, failed, asked, job, history>>

Next ==
    \/ RestoreOne \/ RestoreFamily \/ RestoreMember \/ RestoreFamilyEnd
    \/ RestoreSave \/ RestoreClearSkip \/ RestoreTool \/ RestoreEnd
    \/ RoutingOn \/ FirstPass \/ StartEngine \/ SecondPass
    \/ SweepBegin \/ ParkBegin \/ RecordSkip
    \/ DisableFamily \/ DisableMember \/ SweepRecord \/ SweepTool \/ SweepEnd
    \/ ParkEnd \/ ParkEngine
    \/ AskConnect \/ Connect \/ SwitchOff \/ DomainOn \/ Reconcile
    \/ Quit \/ Die \/ Launch

Spec == Init /\ [][Next]_vars

------------------------------------------------------------------------------
JobRecords ==
    [op : Jobs, step : Steps, queue : SUBSET (Families \cup Tools),
     fams : SUBSET Families, cur : Families \cup {NoFamily},
     left : SUBSET Members, keep : SUBSET Families, tools : SUBSET Tools,
     owed : SUBSET Tools, turn : {"first", "second", "none"}]

TypeOK ==
    /\ on \subseteq Members /\ want \subseteq Members /\ held \subseteq want
    /\ blurred \in BOOLEAN
    /\ provSnap \subseteq Families /\ skip \subseteq Members /\ swept \subseteq Tools
    /\ up \in BOOLEAN /\ engine \in BOOLEAN /\ exiting \in BOOLEAN
    /\ boot \in {"first", "engine", "second", "done"}
    /\ parking \in {"no", "engine"}
    /\ failed \subseteq Tools /\ asked \subseteq Tools
    /\ job \in JobRecords

\* What the files on disk will bring back: a swept tool, a member of a recorded
\* family that is not to be left off, and a tool the reconcile connects because
\* a domain of its family is on or will be.
Recorded(m) ==
    \/ m \in swept
    \/ m \notin skip /\ \E f \in provSnap : m \in MembersOf(f)

Licensed(t) ==
    \E f \in Families : t \in ToolsOf[f] /\ \E d \in DomainsOf[f] : d \in on \/ Recorded(d)

\* At every moment, a member last switched on is on or the files bring it back:
\* what a death at any point of a sweep, a park or a restore leaves on disk loses
\* nothing (provider.rs:949-950, 1299-1303).
NothingForgotten ==
    \A m \in held : m \in on \/ Recorded(m) \/ Licensed(m)

\* Once the exit sweep is over, a tool whose configuration names Gate is one the
\* sweep reported: no restore, reconcile, retry or connect that was waiting puts
\* one back before the process is gone (provider.rs:942-948).
ExitStands ==
    exiting /\ job.op = "free" => on \cap Tools \subseteq failed

\* A restore, a retry or the startup's second pass switches on only what was on: a
\* member off when its family was swept does not come back with the family
\* (provider.rs:871-882), through any deaths until one falls between the record of the
\* families and that of their members (1049, 1071).
NothingUnasked ==
    [][~blurred => \A m \in on' \ on : m \in want']_vars
==============================================================================
