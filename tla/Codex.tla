------------------------------- MODULE Codex --------------------------------
(***************************************************************************)
(* integrations/codex.rs: config.toml holds the user's values and Gate's   *)
(* record; the catalog of Gate models is a file of its own.  A disconnect  *)
(* leaves a stub of Gate's provider, which old conversations still name.   *)
(* `pointer` is model_provider, `block` is [model_providers.gate].         *)
(***************************************************************************)
EXTENDS ToolValues

Slots == {"pointer", "model", "catalog"}
Gate == <<"gate">>
Ours == <<"catalog">>
Stub == <<"stub">>

(* Gate's record: whether it is the one a disconnect leaves, the pointer   *)
(* Gate replaced, and of the Gate models the set and what they replaced.   *)
Models == [ids : Seq(Ids), previous : UserModels \cup {None}, catalog : UserRoutes \cup {None}]
Records == [stub : BOOLEAN, prev : {<<>>} \cup {<<v>> : v \in UserRoutes \cup {None}},
            models : Models \cup {None}]

GateModels(d) == IF d.rec = None THEN None ELSE d.rec.models
HasConnectKey(d) == d.rec # None /\ d.rec.prev # <<>>

Managed(d) ==
    /\ HasConnectKey(d) /\ ~ d.rec.stub
    /\ d.cfg.pointer = Gate /\ (IsRelay(d.cfg.block) \/ IsServed(d.cfg.block))

(* Any model but the default taken for drift.                              *)
DriftedOffDefault(d) ==
    /\ GateModels(d) # None
    /\ ~ (/\ d.cfg.pointer = Gate /\ IsServed(d.cfg.block) /\ d.cfg.catalog = Ours
          /\ d.cfg.model = Head(GateModels(d).ids))

Drifted(d) ==
    /\ GateModels(d) # None
    /\ ~ (/\ d.cfg.pointer = Gate /\ IsServed(d.cfg.block) /\ d.cfg.catalog = Ours
          /\ d.cfg.model \in Members(GateModels(d).ids))

Revert(d) ==
    LET gm == GateModels(d) IN
    IF gm = None THEN d ELSE
    [d EXCEPT !.cfg.model = IF @ \in Members(gm.ids) \cup {None} THEN gm.previous ELSE @,
              !.cfg.catalog = IF @ = Ours THEN gm.catalog ELSE @,
              !.rec.models = None]

Apply(d) ==
    LET gm == GateModels(d)
        written == IF gm = None THEN None ELSE gm.ids
    IN  [d EXCEPT !.cfg.model = Default(written, d.pref, @),
                  !.cfg.catalog = Ours,
                  !.rec.models = [ids |-> d.pref,
                                  previous |-> IF gm = None THEN d.cfg.model ELSE gm.previous,
                                  catalog |-> IF gm = None THEN d.cfg.catalog ELSE gm.catalog]]

(* The first pointer kept, whatever the user pointed at since.             *)
RouteFirst(d, port) ==
    [d EXCEPT !.cfg.pointer = Gate,
              !.cfg.block = IF d.pref = None THEN Relay(port) ELSE Served(port),
              !.rec = [stub |-> FALSE, models |-> GateModels(d),
                       prev |-> IF HasConnectKey(d) THEN d.rec.prev
                                ELSE <<IF d.cfg.pointer = Gate THEN None ELSE d.cfg.pointer>>]]

(* Gate's provider and the pointer to it.  The pointer it replaces is the  *)
(* one recorded, unless the user moved it off Gate's since.                *)
Route(d, port) ==
    LET ours == d.cfg.pointer = Gate IN
    [d EXCEPT !.cfg.pointer = Gate,
              !.cfg.block = IF d.pref = None THEN Relay(port) ELSE Served(port),
              !.rec = [stub |-> FALSE, models |-> GateModels(d),
                       prev |-> IF HasConnectKey(d) /\ ours THEN d.rec.prev
                                ELSE <<IF ours THEN None ELSE d.cfg.pointer>>]]

RemoveCatalog(d) == [d EXCEPT !.cat = None]

(* The catalog gone before the file that names it is rewritten.            *)
ConnectUnlisted(d, port) ==
    LET f == IF Drifted(d) THEN Settled(d) ELSE d
        c == [f EXCEPT !.cat = f.pref]
    IN  Write(d, f) \o Write(f, c)
        \o Write(c, IF f.pref = None THEN Revert(Route(c, port)) ELSE Apply(Route(c, port)))

(* The catalog is written before the file that names it, and removed after *)
(* the file that no longer does.                                           *)
Connect(d, port) ==
    LET f == IF Drifted(d) THEN Settled(d) ELSE d
        c == [f EXCEPT !.cat = f.pref]
        own == Revert(Route(f, port))
    IN  Write(d, f) \o
        IF f.pref = None THEN Write(f, own) \o Write(own, RemoveCatalog(own))
        ELSE Write(f, c) \o Write(c, Apply(Route(c, port)))

Disconnect(d) ==
    LET r == Revert(d)
        had == r.cfg.block # None
        e == [r EXCEPT !.cfg.pointer = IF @ # Gate THEN @
                                       ELSE IF HasConnectKey(r) THEN r.rec.prev[1] ELSE None,
                       !.cfg.block = IF had THEN Stub ELSE None,
                       !.rec = IF had THEN [stub |-> TRUE, prev |-> <<>>, models |-> None] ELSE None]
    IN  Write(d, e) \o Write(e, RemoveCatalog(e))

Leave(d, port) ==
    LET r == Revert(d)
        e == [r EXCEPT !.cfg.block = IF IsServed(@) THEN Relay(port) ELSE @]
    IN  Write(d, e) \o Write(e, RemoveCatalog(e))

Aimed(d, port) ==
    /\ Managed(d)
    /\ IF d.pref = None THEN GateModels(d) = None /\ d.cfg.block = Relay(port) /\ d.cat = None
                        ELSE GateModels(d) # None /\ ~ Drifted(d) /\ d.cfg.block = Served(port)
                             /\ d.cat = d.pref

(* A picker that names no file, or a Gate model on a route not Gate's.     *)
Dangling(d) ==
    \/ d.cfg.catalog = Ours /\ d.cat = None
    \/ d.cfg.model \in Ids /\ ~ (d.cfg.pointer = Gate /\ IsServed(d.cfg.block))

Clean(d) == d.cfg.pointer # Gate /\ d.cfg.block \in {None, Stub} /\ d.cfg.catalog # Ours /\ d.cat = None
=============================================================================
