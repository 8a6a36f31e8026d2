----------------------------- MODULE ToolValues -----------------------------
(***************************************************************************)
(* What the settings of a coding tool can hold.  A disk is a record of the *)
(* five files an integration writes: the stored choice of Gate models      *)
(* (pref), the tool's own configuration (cfg), its `.env` (env), Gate's    *)
(* record of what it replaced (rec) and a catalog of models (cat).  An     *)
(* operation is the sequence of disks its writes leave, one write each.    *)
(***************************************************************************)
EXTENDS Sequences, Naturals

CONSTANTS
    None,          \* a key that is not there, a record there is not
    Ports,         \* the loopback addresses Gate listens at
    Ids,           \* the models Gate serves
    UserModels,    \* models of the tool's own
    UserRoutes,    \* addresses, providers and files of the user's own
    Local          \* those of UserRoutes on the user's own machine

ASSUME LocalRoutes == Local \subseteq UserRoutes

(* Addresses at the relay: a catalog route, the route of Gate models.      *)
Relay(port) == <<"relay", port>>
Served(port) == <<"served", port>>
IsRelay(v) == \E port \in Ports : v = Relay(port)
IsServed(v) == \E port \in Ports : v = Served(port)

Members(ids) == {ids[i] : i \in DOMAIN ids}

(* The first of the set, unless the tool is on one of an unchanged set.    *)
Default(written, ids, current) ==
    IF written = ids /\ current \in Members(ids) THEN current ELSE Head(ids)

(* One write, or none when the file already says so.                       *)
Write(d, e) == IF d = e THEN <<>> ELSE <<e>>
After(d, writes) == IF writes = <<>> THEN d ELSE writes[Len(writes)]
Settled(d) == [d EXCEPT !.pref = None]
=============================================================================
