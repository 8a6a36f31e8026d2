----------------------------- MODULE ClaudeCode -----------------------------
(***************************************************************************)
(* integrations/claude_code.rs: one file, settings.json, holds the user's  *)
(* values and Gate's record of them, so each operation is one write.       *)
(* `https` stands for the keys Gate sets in `env`, `base` for those it     *)
(* takes out, `model` for the slots Gate models fill.                      *)
(***************************************************************************)
EXTENDS ToolValues

Slots == {"https", "base", "model"}
Keys == {"https", "base"}

(* Gate's record: the address it wrote, the user's values under its keys,  *)
(* and of the Gate models the set, the route and the user's own model.     *)
Models == [ids : Seq(Ids), served : {Served(p) : p \in Ports}, previous : UserModels \cup {None}]
Records == [wrote : Ports, prev : [Keys -> UserRoutes \cup {None}], models : Models \cup {None}]

GateModels(d) == IF d.rec = None THEN None ELSE d.rec.models

Managed(d) == d.rec # None

(* The user moved Claude Code off the Gate models Gate wrote.              *)
Drifted(d) ==
    /\ GateModels(d) # None
    /\ ~ (IsServed(d.cfg.base) /\ d.cfg.model \in Members(GateModels(d).ids))

(* The value of a managed key is still the one Gate left there.            *)
Holds(d, k) ==
    IF k = "base" THEN d.cfg.base = None \/ IsServed(d.cfg.base)
                  ELSE d.cfg.https = d.rec.wrote

Revert(d) ==
    LET gm == GateModels(d) IN
    IF gm = None THEN d ELSE
    [d EXCEPT !.cfg.base = IF @ = gm.served THEN None ELSE @,
              !.cfg.model = IF @ \in Members(gm.ids) THEN gm.previous ELSE @,
              !.rec.models = None]

Apply(d, port) ==
    LET gm == GateModels(d)
        written == IF gm = None THEN None ELSE gm.ids
    IN  [d EXCEPT !.cfg.base = Served(port),
                  !.cfg.model = Default(written, d.pref, @),
                  !.rec.models = [ids |-> d.pref, served |-> Served(port),
                                  previous |-> IF gm = None THEN d.cfg.model ELSE gm.previous]]

(* The proxy keys, with what the user had under them: at the first connect *)
(* every value, later only one the user changed since.                     *)
Route(d, port) ==
    [d EXCEPT !.cfg.https = port, !.cfg.base = None,
              !.rec = [wrote |-> port, models |-> GateModels(d),
                       prev |-> [k \in Keys |-> IF Managed(d) /\ Holds(d, k)
                                                THEN d.rec.prev[k] ELSE d.cfg[k]]]]

AlreadyApplied(d, port) ==
    /\ Managed(d) /\ d.cfg.https = port /\ d.cfg.base = None
    /\ d.pref = None /\ GateModels(d) = None

Connect(d, port) ==
    LET f == IF Drifted(d) THEN Settled(d) ELSE d
        r == Route(f, port)
    IN  Write(d, f) \o
        IF AlreadyApplied(f, port) THEN <<>>
        ELSE Write(f, IF f.pref = None THEN Revert(r) ELSE Apply(r, port))

Disconnect(d) ==
    LET r == Revert(d) IN
    IF ~ Managed(d) THEN <<>> ELSE
    <<[r EXCEPT !.cfg = [k \in DOMAIN @ |-> IF k \in Keys /\ Holds(r, k)
                                            THEN r.rec.prev[k] ELSE @[k]],
                !.rec = None]>>

Leave(d) == Write(d, Revert(d))

(* What status asks of the file: the current address, and Gate models if   *)
(* and only if they are chosen.                                            *)
Aimed(d, port) ==
    /\ Managed(d) /\ d.cfg.https = port
    /\ IF d.pref = None THEN GateModels(d) = None /\ d.cfg.base = None
                        ELSE GateModels(d) # None /\ ~ Drifted(d) /\ d.cfg.base = Served(port)

(* A Gate model that would be sent to the tool's own provider.             *)
Dangling(d) == d.cfg.model \in Ids /\ ~ IsServed(d.cfg.base)

Clean(d) == d.rec = None /\ d.cfg.https \notin Ports /\ ~ IsServed(d.cfg.base)
=============================================================================
