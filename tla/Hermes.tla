------------------------------- MODULE Hermes -------------------------------
(***************************************************************************)
(* integrations/hermes.rs: two lines of `.env` (the proxy, and the bundle  *)
(* that trusts it), config.yaml (the model, Gate's provider and a header   *)
(* naming the tool), and a sidecar saved after each of them.               *)
(***************************************************************************)
EXTENDS Dotenv

Slots == {"proxy", "ca", "model"}
Vars == {"proxy", "ca"}
Bundle == <<"bundle">>

State(d) ==
    IF d.rec # None THEN d.rec ELSE
    [added |-> {}, written |-> [k \in Vars |-> None], header |-> FALSE, models |-> None]
GateModels(d) == State(d).models

Managed(d) == d.rec # None /\ d.env.proxy \in Ports

Drifted(d) ==
    /\ GateModels(d) # None
    /\ ~ (d.cfg.block # None /\ d.cfg.model \in Members(GateModels(d).ids))

(* A key is Gate's by the value recorded for it.                           *)
Owned(d, k) == IF State(d).written[k] = None THEN <<>> ELSE <<State(d).written[k]>>

Reverted(d) ==
    LET gm == GateModels(d) IN
    IF gm = None THEN d.cfg ELSE
    [d.cfg EXCEPT !.model = IF @ \in Members(gm.ids) \cup {None} THEN gm.previous ELSE @,
                  !.block = None]

Planned(d, port) ==
    LET gm == GateModels(d)
        written == IF gm = None THEN None ELSE gm.ids
    IN  [cfg |-> [d.cfg EXCEPT !.model = Default(written, d.pref, @), !.block = Served(port)],
         models |-> [ids |-> d.pref,
                     previous |-> IF gm = None THEN d.cfg.model ELSE gm.previous]]

Applied(d, port) ==
    AddVars(d.env, [proxy |-> port, ca |-> Bundle], [k \in Vars |-> Owned(d, k)])

(* Nothing to add and nothing Gate ever added: the lines are the user's.   *)
Refused(d) == State(d).added = {} /\ \A k \in Vars : d.env[k] # None

(* A line the user edited: the next record leaves its value out, and a     *)
(* disconnect then takes it by its name.                                   *)
Overwrites(d) ==
    \E k \in State(d).added : d.env[k] # None /\ <<d.env[k]>> # Owned(d, k)

(* The lines and their record, the header and its record, the models and   *)
(* theirs.                                                                 *)
Connect(d, port) ==
    LET f == IF Drifted(d) THEN Settled(d) ELSE d
        a == Applied(f, port)
        e1 == [f EXCEPT !.env = a.env]
        e2 == [e1 EXCEPT !.rec = [State(f) EXCEPT !.added = @ \cup a.added,
                                                  !.written = a.values]]
        e3 == [e2 EXCEPT !.cfg.header = TRUE]
        e4 == [e3 EXCEPT !.rec.header = @ \/ ~ e2.cfg.header]
        plan == IF e4.pref = None THEN [cfg |-> Reverted(e4), models |-> None]
                                  ELSE Planned(e4, port)
        e5 == [e4 EXCEPT !.cfg = plan.cfg]
        e6 == [e5 EXCEPT !.rec.models = plan.models]
    IN  Write(d, f) \o
        IF Refused(f) THEN <<>>
        ELSE Write(f, e1) \o Write(e1, e2) \o Write(e2, e3) \o Write(e3, e4)
             \o Write(e4, e5) \o Write(e5, e6)

Disconnect(d) ==
    LET e1 == [d EXCEPT !.cfg.header = @ /\ ~ d.rec.header]
        e2 == [e1 EXCEPT !.rec.header = FALSE]
        e3 == [e2 EXCEPT !.cfg = Reverted(e2)]
        e4 == [e3 EXCEPT !.rec.models = None]
        owned == [k \in Vars |-> IF k \in d.rec.added THEN <<d.rec.written[k]>> ELSE <<>>]
        e5 == [e4 EXCEPT !.env = RemoveOwned(@, owned)]
    IN  IF d.rec = None THEN <<>>
        ELSE Write(d, e1) \o Write(e1, e2) \o Write(e2, e3) \o Write(e3, e4)
             \o Write(e4, e5) \o <<[e5 EXCEPT !.rec = None]>>

Leave(d) ==
    LET e == [d EXCEPT !.cfg = Reverted(d)] IN
    IF d.rec = None THEN <<>> ELSE Write(d, e) \o Write(e, [e EXCEPT !.rec.models = None])

Aimed(d, port) ==
    /\ d.env.proxy = port \/ d.env.proxy \in UserRoutes
    /\ d.rec # None /\ d.cfg.header
    /\ IF d.pref = None THEN GateModels(d) = None /\ d.cfg.block = None
                        ELSE GateModels(d) # None /\ ~ Drifted(d) /\ d.cfg.block = Served(port)

Dangling(d) == d.cfg.model \in Ids /\ ~ IsServed(d.cfg.block)

Clean(d) == /\ d.rec = None /\ d.cfg.block = None /\ ~ d.cfg.header
            /\ d.env.proxy \notin Ports /\ d.env.ca # Bundle
=============================================================================
