---------------------------- MODULE ToolSettings ----------------------------
(***************************************************************************)
(* The settings of one coding tool, which Gate and the user both write.    *)
(* Gate connects the tool, takes it back out, puts it on Gate models or    *)
(* back on its own (tool_models.rs), each operation a sequence of writes   *)
(* that a kill or a refused write may cut short.  The user edits the same  *)
(* files between two operations: the compare-before-rename of              *)
(* config_changes.rs turns an edit during one into a run of it again.      *)
(***************************************************************************)
EXTENDS ToolValues

CONSTANTS
    Tools,         \* the tools a behaviour is about, one in each
    Sets,          \* the sets of Gate models a user may choose
    Faults         \* "torn": a cut between a tool's file and Gate's record of
                   \* it; "taken": a connect over a user's later value;
                   \* "mistaken": a cut whose half a later read takes for a drift

ASSUME ToolsKnown == Tools \subseteq {"claude", "codex", "opencode", "hermes", "openclaw"}
ASSUME SetsServed == Sets \subseteq Seq(Ids) \ {<<>>}

VARIABLES
    tool,          \* which tool
    disk,          \* its files and the stored choice
    todo,          \* the writes the running operation has left
    op,            \* the running operation or, with nothing left, the last
    chosen,        \* a choice whose drift is settled and that is not stored yet
    port,          \* where Gate listens
    own,           \* per slot, the value the user last gave it
    moved          \* the user moved the tool since Gate last settled it

vars == <<tool, disk, todo, op, chosen, port, own, moved>>

C == INSTANCE ClaudeCode
X == INSTANCE Codex
O == INSTANCE OpenCode
H == INSTANCE Hermes
W == INSTANCE OpenClaw

(* A value of the user's, or none, is not one of Gate's.                   *)
ASSUME Apart ==
    /\ None \notin Ports \cup Ids \cup UserModels \cup UserRoutes \cup Seq(Ids)
    /\ Ports \cap UserRoutes = {} /\ Ids \cap UserModels = {}
    /\ \A p \in Ports : {Served(p), Relay(p)} \cap (UserRoutes \cup {None}) = {}
    /\ {X!Gate, X!Ours, X!Stub} \cap (UserRoutes \cup {None}) = {}
ASSUME NoRecord == None \notin C!Records \cup C!Models \cup X!Records \cup X!Models

Slots(t) == CASE t = "claude" -> C!Slots [] t = "codex" -> X!Slots
              [] t = "opencode" -> O!Slots [] t = "hermes" -> H!Slots
              [] t = "openclaw" -> W!Slots

HasModels(t) == t # "openclaw"

Connect(d) ==
    CASE tool = "claude" -> C!Connect(d, port) [] tool = "codex" -> X!Connect(d, port)
      [] tool = "opencode" -> O!Connect(d, port) [] tool = "hermes" -> H!Connect(d, port)
      [] tool = "openclaw" -> W!Connect(d, port)

Disconnect(d) ==
    CASE tool = "claude" -> C!Disconnect(d) [] tool = "codex" -> X!Disconnect(d)
      [] tool = "opencode" -> O!Disconnect(d) [] tool = "hermes" -> H!Disconnect(d)
      [] tool = "openclaw" -> W!Disconnect(d)

Leave(d) ==
    CASE tool = "claude" -> C!Leave(d) [] tool = "codex" -> X!Leave(d, port)
      [] tool = "opencode" -> O!Leave(d) [] tool = "hermes" -> H!Leave(d)

Managed(d) ==
    CASE tool = "claude" -> C!Managed(d) [] tool = "codex" -> X!Managed(d)
      [] tool = "opencode" -> O!Managed(d) [] tool = "hermes" -> H!Managed(d)
      [] tool = "openclaw" -> W!Managed(d)

Drifted(d) ==
    CASE tool = "claude" -> C!Drifted(d) [] tool = "codex" -> X!Drifted(d)
      [] tool = "opencode" -> O!Drifted(d) [] tool = "hermes" -> H!Drifted(d)
      [] OTHER -> FALSE

GateModels(d) ==
    CASE tool = "claude" -> C!GateModels(d) [] tool = "codex" -> X!GateModels(d)
      [] tool = "opencode" -> O!GateModels(d) [] tool = "hermes" -> H!GateModels(d)
      [] OTHER -> None

Refused(d) ==
    CASE tool = "opencode" -> O!Refused(d) [] tool = "hermes" -> H!Refused(d)
      [] OTHER -> FALSE

Overwrites(d) ==
    CASE tool = "opencode" -> O!Overwrites(d) [] tool = "hermes" -> H!Overwrites(d)
      [] tool = "openclaw" -> W!Overwrites(d) [] OTHER -> FALSE

Aimed(d) ==
    CASE tool = "claude" -> C!Aimed(d, port) [] tool = "codex" -> X!Aimed(d, port)
      [] tool = "opencode" -> O!Aimed(d, port) [] tool = "hermes" -> H!Aimed(d, port)
      [] tool = "openclaw" -> W!Aimed(d, port)

Dangling(d) ==
    CASE tool = "claude" -> C!Dangling(d) [] tool = "codex" -> X!Dangling(d)
      [] tool = "opencode" -> O!Dangling(d) [] tool = "hermes" -> H!Dangling(d)
      [] OTHER -> FALSE

Clean(d) ==
    CASE tool = "claude" -> C!Clean(d) [] tool = "codex" -> X!Clean(d)
      [] tool = "opencode" -> O!Clean(d) [] tool = "hermes" -> H!Clean(d)
      [] tool = "openclaw" -> W!Clean(d)

(***************************************************************************)
(* The tool's files before Gate ever wrote them.                           *)
(***************************************************************************)
Value(d, s) == IF s \in DOMAIN d.env THEN d.env[s] ELSE d.cfg[s]

(* What a user may put in a slot.  Taking out a model, or a base URL Gate  *)
(* has taken out already, is left out: the tools read it as Gate's doing   *)
(* or, Claude Code of a model, as the first row of its picker.             *)
May(s) == CASE s = "model" -> UserModels
            [] s \in {"base", "catalog"} -> UserRoutes
            [] OTHER -> UserRoutes \cup {None}

Gates(t) ==
    CASE t = "codex" -> [block |-> None]
      [] t = "opencode" -> [block |-> None]
      [] t = "hermes" -> [block |-> None, header |-> FALSE]
      [] OTHER -> <<>>

InEnv(t) == CASE t = "hermes" -> {"proxy", "ca"} [] t = "openclaw" -> {"ca"} [] OTHER -> {}

Found(t, values) ==
    LET cfg == Slots(t) \ InEnv(t) IN
    [pref |-> None, rec |-> None, cat |-> None,
     env |-> [s \in InEnv(t) |-> values[s]],
     cfg |-> [s \in cfg \cup DOMAIN Gates(t) |-> IF s \in cfg THEN values[s] ELSE Gates(t)[s]]]

Init ==
    /\ tool \in Tools
    /\ own \in [Slots(tool) -> UserModels \cup UserRoutes \cup {None}]
    /\ \A s \in Slots(tool) : own[s] \in May(s) \cup {None}
    /\ disk = Found(tool, own)
    /\ todo = <<>> /\ op = "none" /\ chosen = None /\ moved = FALSE
    /\ port \in Ports
-----------------------------------------------------------------------------
Idle == todo = <<>>

Begin(name, writes) ==
    /\ op' = name /\ todo' = writes
    /\ UNCHANGED <<tool, disk, port, own>>

Accepted(d, name) == IF Refused(d) THEN "refused" ELSE name

(* A connect: the user's, a reconcile's or a restore's.                    *)
StartConnect ==
    /\ Idle
    /\ "taken" \in Faults \/ ~ Overwrites(disk)
    /\ Begin(Accepted(disk, "connect"), Connect(disk))
    /\ moved' = (moved /\ Connect(disk) # <<>>)
    /\ UNCHANGED chosen

StartDisconnect ==
    /\ Idle
    /\ Begin("disconnect", Disconnect(disk))
    /\ UNCHANGED <<moved, chosen>>

Drift(d) == Write(d, Settled(d)) \o Leave(Settled(d))

(* states: a read of the tools' cards folds a drift it sees.               *)
States ==
    /\ Idle /\ chosen = None
    /\ Drifted(disk)
    /\ Begin("leave", Drift(disk))
    /\ UNCHANGED <<moved, chosen>>

(* choose: drift left by the last choice first, then the new one.          *)
Choose(ids) ==
    /\ Idle /\ HasModels(tool) /\ chosen = None
    /\ chosen' = <<ids>>
    /\ Begin("settle", IF Drifted(disk) THEN Drift(disk) ELSE <<>>)
    /\ UNCHANGED moved

Store ==
    /\ Idle /\ chosen # None
    /\ LET d == [disk EXCEPT !.pref = chosen[1]] IN
       /\ "taken" \in Faults \/ ~ (Managed(d) /\ Overwrites(d))
       /\ disk' = d
       /\ todo' = IF Managed(d) THEN Connect(d) ELSE <<>>
       /\ op' = IF Managed(d) THEN Accepted(d, "choose") ELSE "stored"
       /\ moved' = (moved /\ Drifted(d))
    /\ chosen' = None
    /\ UNCHANGED <<tool, port, own>>

Step ==
    /\ ~ Idle
    /\ disk' = Head(todo) /\ todo' = Tail(todo)
    /\ moved' = (moved /\ ~ (Len(todo) = 1 /\ op \in {"connect", "choose"}))
    /\ UNCHANGED <<tool, op, chosen, port, own>>

(* Between a file of the tool's and Gate's record of it, where the first   *)
(* of the two writes alone cannot be told from the user's doing: Hermes    *)
(* and OpenClaw add a value and then own up to it, OpenClaw owns up to a   *)
(* new address before it writes it, OpenCode forgets its models before it  *)
(* takes them out.                                                         *)
Torn(d, next) ==
    /\ op \in {"connect", "choose"}
    /\ \/ tool = "hermes" /\ next.rec # d.rec
       \/ tool = "openclaw" /\ (next.rec # d.rec \/ d.cfg.url \in Ports)
       \/ tool = "opencode" /\ GateModels(d) = None /\ d.cfg.block # None

(* Models recorded and not in the settings, with a choice stored or about  *)
(* to be: the next connect or read of the cards finds a drift and drops    *)
(* the choice, though nobody moved the tool.                               *)
Mistaken(d) ==
    tool \in {"opencode", "hermes"} /\ Drifted(d) /\ (d.pref # None \/ chosen # None)

(* The cuts a run is about.                                                *)
Admitted ==
    /\ "torn" \in Faults \/ ~ Torn(disk, Head(todo))
    /\ "mistaken" \in Faults \/ ~ Mistaken(disk)

Cut ==
    /\ ~ Idle /\ Admitted
    /\ todo' = <<>>
    /\ UNCHANGED <<tool, disk, port, own, moved>>

Kill == Cut /\ op' = "none" /\ chosen' = None

(* A write is refused: the operation returns its error, and a choice of    *)
(* the tool's own models still takes Gate's out.                           *)
Fail ==
    /\ ~ (op = "choose" /\ disk.pref = None)
    /\ Cut
    /\ op' = "none"
    /\ chosen' = IF op = "settle" THEN None ELSE chosen

FailBack ==
    /\ ~ Idle /\ op = "choose" /\ disk.pref = None /\ Admitted
    /\ todo' = Leave(disk) /\ op' = "leave"
    /\ UNCHANGED <<tool, disk, chosen, port, own, moved>>

Put(s, v) ==
    disk' = IF s \in DOMAIN disk.env THEN [disk EXCEPT !.env[s] = v]
                                     ELSE [disk EXCEPT !.cfg[s] = v]

(* The user changes a value of the tool, in its files or from inside it.   *)
Edit(s, v) ==
    /\ Idle /\ v # Value(disk, s)
    /\ Put(s, v)
    /\ own' = [own EXCEPT ![s] = v]
    /\ moved' = TRUE /\ op' = "none"
    /\ UNCHANGED <<tool, todo, chosen, port>>

(* The user picks another of the Gate models in the tool's own picker.     *)
Pick(id) ==
    /\ Idle /\ HasModels(tool)
    /\ GateModels(disk) # None /\ ~ Drifted(disk)
    /\ id \in Members(GateModels(disk).ids) \ {disk.cfg.model}
    /\ Put("model", id)
    /\ op' = "none"
    /\ UNCHANGED <<tool, todo, chosen, port, own, moved>>

(* The forwarder and the relay come back on another port.                  *)
Move ==
    /\ Idle
    /\ port' \in Ports \ {port}
    /\ op' = "none"
    /\ UNCHANGED <<tool, disk, todo, chosen, own, moved>>

Next ==
    \/ StartConnect \/ StartDisconnect \/ States \/ Store \/ Step
    \/ Kill \/ Fail \/ FailBack \/ Move
    \/ \E ids \in Sets \cup {None} : Choose(ids)
    \/ \E s \in Slots(tool) : \E v \in May(s) : Edit(s, v)
    \/ \E id \in Ids : Pick(id)

Spec == Init /\ [][Next]_vars
-----------------------------------------------------------------------------
(***************************************************************************)
(* Properties.                                                             *)
(***************************************************************************)

(* Whenever no operation runs, a disconnect would give every slot the      *)
(* value the user last gave it, before Gate or over Gate's, whatever was   *)
(* chosen or picked since and whichever operation was cut short (but for   *)
(* the cuts of `Torn`); and leave nothing of Gate's.                       *)
GivesBack ==
    Idle => LET d == After(disk, Disconnect(disk)) IN
            Clean(d) /\ \A s \in Slots(tool) : Value(d, s) = own[s]

(* Until the user moves the tool themselves, no write of an operation and  *)
(* no cut leaves it naming a catalog that is not there, or a Gate model on *)
(* a route that does not serve it.                                         *)
NeverDangling == moved \/ ~ Dangling(disk)

(* An operation that ran to its end did all of its work: after a connect   *)
(* the tool is at Gate's current address (Hermes: or at a proxy line of    *)
(* the user's, which a connect keeps) and on Gate models exactly if they   *)
(* are chosen, and another connect has nothing to write; after the models  *)
(* are left, no Gate model is in the tool.                                 *)
Repairs ==
    Idle =>
      /\ op \in {"connect", "choose"} => Aimed(disk) /\ Connect(disk) = <<>>
      /\ op = "leave" => GateModels(disk) = None /\ disk.cfg.model \notin Ids

(* A choice of Gate models is given up by another choice, or because the   *)
(* user moved the tool off them: never by picking another of the set, by a *)
(* new address, by a connect or by a kill (but for those of `Mistaken`).   *)
ChoiceHeld ==
    [][disk.pref # None /\ disk'.pref = None => moved \/ chosen # None]_vars
=============================================================================
