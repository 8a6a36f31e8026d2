------------------------------ MODULE OpenCode ------------------------------
(***************************************************************************)
(* integrations/opencode.rs: opencode.json, and a sidecar beside it with   *)
(* what Gate replaced.  One provider of the user's is signed in to: `base` *)
(* is its options.baseURL, `block` the provider Gate adds for its models.  *)
(***************************************************************************)
EXTENDS ToolValues

Slots == {"base", "model"}

State(d) == IF d.rec = None THEN [base |-> <<>>, models |-> None] ELSE d.rec
GateModels(d) == State(d).models

Managed(d) ==
    /\ d.rec # None
    /\ \/ d.rec.base # <<>> /\ (IsRelay(d.cfg.base) \/ d.cfg.base \in Local)
       \/ d.rec.models # None /\ d.cfg.block # None

Drifted(d) ==
    /\ GateModels(d) # None
    /\ ~ (IsServed(d.cfg.block) /\ d.cfg.model \in Members(GateModels(d).ids))

Revert(d) ==
    LET gm == GateModels(d) IN
    IF gm = None THEN d ELSE
    [d EXCEPT !.cfg.model = IF @ \in Ids \cup {None} THEN gm.previous ELSE @,
              !.cfg.block = None,
              !.rec.models = None]

Apply(d, port) ==
    LET gm == GateModels(d)
        written == IF gm = None THEN None ELSE gm.ids
        own == IF d.cfg.model \in Ids THEN None ELSE d.cfg.model
    IN  [d EXCEPT !.cfg.model = Default(written, d.pref, @),
                  !.cfg.block = Served(port),
                  !.rec = [base |-> State(d).base,
                           models |-> [ids |-> d.pref,
                                       previous |-> IF gm = None THEN own ELSE gm.previous]]]

(* An endpoint on the user's machine is left alone.                        *)
Skipped(d) == d.cfg.base \in Local

Override(d, port) ==
    [d EXCEPT !.cfg.base = Relay(port),
              !.rec = [State(d) EXCEPT !.base = IF @ = <<>> THEN <<d.cfg.base>> ELSE @]]

(* The settings first, then the record, which goes once it is empty.       *)
SaveBoth(d, e) ==
    LET s == [d EXCEPT !.cfg = e.cfg]
        empty == e.rec.base = <<>> /\ e.rec.models = None
    IN  Write(d, s) \o Write(s, [s EXCEPT !.rec = IF empty THEN None ELSE e.rec])

(* A user value under a provider Gate has recorded, which a connect would  *)
(* overwrite and not record again.                                         *)
Overwrites(d) ==
    /\ State(d).base \notin {<<>>, <<d.cfg.base>>}
    /\ ~ IsRelay(d.cfg.base) /\ ~ Skipped(d)

Chosen(d) == IF Drifted(d) THEN None ELSE d.pref

Refused(d) == Skipped(d) /\ Chosen(d) = None

(* The record first, then the settings.                                    *)
Connect(d, port) ==
    LET f == IF Drifted(d) THEN Settled(d) ELSE d
        r == IF f.pref = None THEN Revert(f) ELSE f
        o == IF Skipped(r) THEN r ELSE Override(r, port)
        e == IF r.pref = None THEN o ELSE Apply(o, port)
        s == [f EXCEPT !.rec = e.rec]
    IN  Write(d, f) \o
        IF Refused(d) THEN IF r = f THEN <<>> ELSE SaveBoth(f, r)
        ELSE Write(f, s) \o Write(s, e)

Disconnect(d) ==
    LET r == Revert(d)
        e == [r EXCEPT !.rec = d.rec,
                       !.cfg.base = IF d.rec.base # <<>> /\ IsRelay(@) THEN d.rec.base[1] ELSE @]
    IN  IF d.rec = None THEN <<>> ELSE Write(d, e) \o <<[e EXCEPT !.rec = None]>>

Leave(d) == IF GateModels(d) = None THEN <<>> ELSE SaveBoth(d, Revert(d))

Aimed(d, port) ==
    /\ Skipped(d) \/ d.cfg.base = Relay(port)
    /\ IF d.pref = None THEN GateModels(d) = None /\ d.cfg.block = None
                        ELSE GateModels(d) # None /\ ~ Drifted(d) /\ d.cfg.block = Served(port)

Dangling(d) == d.cfg.model \in Ids /\ ~ IsServed(d.cfg.block)

Clean(d) == d.rec = None /\ ~ IsRelay(d.cfg.base) /\ d.cfg.block = None
=============================================================================
