------------------------------ MODULE OpenClaw ------------------------------
(***************************************************************************)
(* integrations/openclaw.rs: the proxy of openclaw.json, one line of       *)
(* `.env` and a sidecar.  OpenClaw takes no Gate models.  The slot `url`   *)
(* stands for proxyUrl and enabled together: a connect records and writes  *)
(* both, a disconnect gives `enabled` back only with the URL; a user who   *)
(* changes `enabled` alone is not a behaviour here.                        *)
(***************************************************************************)
EXTENDS Dotenv

Slots == {"url", "ca"}
Root == <<"root">>

Managed(d) == d.rec # None /\ d.cfg.url \in Ports

(* A value of the user's under a record of an earlier one: a connect does  *)
(* not record it again.                                                    *)
Overwrites(d) ==
    /\ d.rec # None
    /\ \/ d.cfg.url \notin Ports \cup {d.rec.prev}
       \/ d.rec.added /\ d.env.ca \notin {None, d.rec.line}
       \/ ~ d.rec.added /\ d.env.ca = None

(* The line of `.env`, the record, then the proxy.                         *)
Connect(d, port) ==
    LET first == d.rec = None
        owned == IF ~ first /\ d.rec.added THEN <<d.rec.line>> ELSE <<>>
        a == AddVars(d.env, [ca |-> Root], [ca |-> owned])
        e1 == [d EXCEPT !.env = a.env]
        e2 == [e1 EXCEPT !.rec = [prev |-> IF first THEN d.cfg.url ELSE d.rec.prev,
                                  added |-> IF first THEN a.added # {} ELSE d.rec.added,
                                  line |-> a.values.ca,
                                  written |-> port]]
    IN  Write(d, e1) \o Write(e1, e2) \o Write(e2, [e2 EXCEPT !.cfg.url = port])

(* The proxy, the line, then the record.                                   *)
Disconnect(d) ==
    LET e1 == [d EXCEPT !.cfg.url = IF @ = d.rec.written THEN d.rec.prev ELSE @]
        e2 == [e1 EXCEPT !.env = RemoveOwned(@, [ca |-> IF d.rec.added THEN <<d.rec.line>> ELSE <<>>])]
    IN  IF d.rec = None THEN <<>>
        ELSE Write(d, e1) \o Write(e1, e2) \o <<[e2 EXCEPT !.rec = None]>>

Aimed(d, port) == d.rec # None /\ d.cfg.url = port

Clean(d) == d.rec = None /\ d.cfg.url \notin Ports /\ d.env.ca # Root
=============================================================================
