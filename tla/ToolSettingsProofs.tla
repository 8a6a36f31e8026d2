------------------------- MODULE ToolSettingsProofs -------------------------
(***************************************************************************)
(* For the two tools whose settings are in one file, Claude Code and       *)
(* Codex, and for any ports, models, lists of them and values of the       *)
(* user's: what Gate leaves on disk can always be given back, never leaves *)
(* a model of Gate's behind its route, and what a connect, a choice or a   *)
(* return to the user's models did in full needs nothing more.             *)
(*                                                                         *)
(* An operation is a sequence of writes that a crash may cut anywhere.     *)
(* The proof therefore carries one relation between the disk and the       *)
(* values of the user's, `Legal', which every disk on the way has: each of *)
(* the user's values is in its place, or Gate's is there and the record    *)
(* holds the user's.  For each tool come the shape of its disk, its        *)
(* `Legal', and one lemma for each operation: what it writes and where it  *)
(* ends.  The two are then joined, and the last part is about the steps of *)
(* ToolSettings itself.                                                    *)
(***************************************************************************)
EXTENDS ToolSettings, SequenceTheorems, TLAPS

\* A disk by its five parts: the choice, the settings, what stands for them in
\* the environment, the record and the catalog.
Disk(p, c, v, r, t) == [pref |-> p, cfg |-> c, env |-> v, rec |-> r, cat |-> t]
IsDisk(d) == d = Disk(d.pref, d.cfg, d.env, d.rec, d.cat)
Shaped(f, S) == f = [s \in S |-> f[s]]

\* A disk is known by its parts.
LEMMA Parts ==
    ASSUME NEW p, NEW c, NEW v, NEW r, NEW t, NEW d, d = Disk(p, c, v, r, t)
    PROVE  IsDisk(d) /\ d.pref = p /\ d.cfg = c /\ d.env = v /\ d.rec = r /\ d.cat = t
BY DEF Disk, IsDisk

LEMMA Opened ==
    ASSUME NEW d, IsDisk(d)
    PROVE  d = [pref |-> d.pref, cfg |-> d.cfg, env |-> d.env, rec |-> d.rec, cat |-> d.cat]
BY DEF IsDisk, Disk

-----------------------------------------------------------------------------
(* Sequences of writes. *)

\* The disks an operation goes through, those it writes.
Path(s) == s \in Seq(Members(s))

\* The last of a list is where it leads.
LEMMA Listed ==
    ASSUME NEW S, NEW s \in Seq(S)
    PROVE  /\ Path(s) /\ Members(s) \subseteq S
           /\ (s # <<>> => After(s, s) = s[Len(s)] /\ s[Len(s)] \in Members(s))
<1>1. Len(s) \in Nat /\ DOMAIN s = 1..Len(s) /\ s \in [1..Len(s) -> S]
  BY LenProperties
<1>2. s \in [1..Len(s) -> Members(s)]
  BY <1>1 DEF Members
<1>3. s \in Seq(Members(s))
  BY <1>1, <1>2, IsASeq
<1> QED
  BY <1>1, <1>3 DEF Path, Members, After

LEMMA NoWrite == Path(<<>>) /\ Members(<<>>) = {} /\ \A d : After(d, <<>>) = d
BY DEF Path, Members, After

\* One write, which is none if nothing changes.
LEMMA OneWrite ==
    ASSUME NEW d, NEW e, NEW s, s = Write(d, e)
    PROVE  Path(s) /\ After(d, s) = e /\ Members(s) \subseteq {e} /\ (s = <<>> <=> d = e)
<1>1. CASE d = e
  BY <1>1, NoWrite DEF Write
<1>2. CASE d # e
  <2>1. s = <<e>> /\ s \in Seq({e}) /\ s # <<>> /\ Len(s) = 1 /\ s[1] = e
    BY <1>2 DEF Write
  <2>2. Path(s) /\ Members(s) \subseteq {e}
    BY <2>1, Listed
  <2> QED
    BY <1>2, <2>1, <2>2 DEF After
<1> QED
  BY <1>1, <1>2

\* An operation after another.
LEMMA Joined ==
    ASSUME NEW s, NEW t, Path(s), Path(t)
    PROVE  /\ Path(s \o t) /\ Members(s \o t) \subseteq Members(s) \cup Members(t)
           /\ \A d : After(d, s \o t) = After(After(d, s), t)
           /\ s \o t = <<>> <=> s = <<>> /\ t = <<>>
<1>0. PICK u : u = s \o t
  OBVIOUS
<1> DEFINE U == Members(s) \cup Members(t)
<1>1. s \in Seq(U) /\ t \in Seq(U)
  <2>1. s \in Seq(Members(s)) /\ t \in Seq(Members(t))
    BY DEF Path
  <2> QED
    BY <2>1, SeqMonotonic
<1> HIDE DEF U
<1>2. /\ u \in Seq(U) /\ Len(u) = Len(s) + Len(t)
      /\ \A i \in 1..Len(s) : u[i] = s[i]
      /\ \A i \in 1..Len(t) : u[Len(s) + i] = t[i]
  BY <1>0, <1>1, ConcatProperties
<1>3. Path(u) /\ Members(u) \subseteq U
  BY <1>2, Listed
<1>4. Len(s) \in Nat /\ Len(t) \in Nat /\ (s = <<>> <=> Len(s) = 0) /\ (t = <<>> <=> Len(t) = 0)
      /\ (u = <<>> <=> Len(u) = 0)
  BY <1>1, <1>2, LenProperties, EmptySeq
<1>5. \A d : After(d, u) = After(After(d, s), t)
  <2>1. CASE t = <<>>
    <3>1. u = s
      BY <1>0, <1>1, <2>1, ConcatEmptySeq
    <3> QED
      BY <2>1, <3>1 DEF After
  <2>2. CASE t # <<>>
    <3>1. Len(t) \in 1..Len(t) /\ u # <<>>
      BY <1>2, <1>4, <2>2
    <3>2. u[Len(u)] = t[Len(t)]
      BY <1>2, <3>1
    <3> QED
      BY <2>2, <3>1, <3>2 DEF After
  <2> QED
    BY <2>1, <2>2
<1> QED
  BY <1>0, <1>2, <1>3, <1>4, <1>5 DEF U

LEMMA TwoWrites ==
    ASSUME NEW d, NEW f, NEW g
    PROVE  LET s == Write(d, f) \o Write(f, g) IN
           Path(s) /\ After(d, s) = g /\ Members(s) \subseteq {f, g}
<1>0. PICK s : s = Write(d, f) \o Write(f, g)
  OBVIOUS
<1>1. PICK u, v : u = Write(d, f) /\ v = Write(f, g)
  OBVIOUS
<1>2. /\ Path(u) /\ After(d, u) = f /\ Members(u) \subseteq {f}
      /\ Path(v) /\ After(f, v) = g /\ Members(v) \subseteq {g}
  BY <1>1, OneWrite
<1>3. s = u \o v
  BY <1>0, <1>1
<1>4. /\ Path(s) /\ Members(s) \subseteq Members(u) \cup Members(v)
      /\ \A x : After(x, s) = After(After(x, u), v)
  <2>1. Path(u) /\ Path(v)
    BY <1>2
  <2> QED
    BY <1>3, <2>1, Joined
<1> QED
  BY <1>0, <1>2, <1>4

LEMMA ThreeWrites ==
    ASSUME NEW d, NEW f, NEW g, NEW h
    PROVE  LET s == Write(d, f) \o (Write(f, g) \o Write(g, h)) IN
           Path(s) /\ After(d, s) = h /\ Members(s) \subseteq {f, g, h}
<1>0. PICK s : s = Write(d, f) \o (Write(f, g) \o Write(g, h))
  OBVIOUS
<1>1. PICK u, v : u = Write(d, f) /\ v = Write(f, g) \o Write(g, h)
  OBVIOUS
<1>2. /\ Path(u) /\ After(d, u) = f /\ Members(u) \subseteq {f}
      /\ Path(v) /\ After(f, v) = h /\ Members(v) \subseteq {g, h}
  BY <1>1, OneWrite, TwoWrites
<1>3. s = u \o v
  BY <1>0, <1>1
<1>4. /\ Path(s) /\ Members(s) \subseteq Members(u) \cup Members(v)
      /\ \A x : After(x, s) = After(After(x, u), v)
  <2>1. Path(u) /\ Path(v)
    BY <1>2
  <2> QED
    BY <1>3, <2>1, Joined
<1> QED
  BY <1>0, <1>2, <1>4

\* Carrying out the first write leaves the rest to do.
LEMMA Stepped ==
    ASSUME NEW s, Path(s), s # <<>>
    PROVE  /\ Path(Tail(s)) /\ Head(s) \in Members(s) /\ Members(Tail(s)) \subseteq Members(s)
           /\ \A d : After(Head(s), Tail(s)) = After(d, s)
           /\ Tail(s) = <<>> <=> Len(s) = 1
<1>1. s \in Seq(Members(s)) /\ Len(s) \in Nat /\ Len(s) > 0
  BY LenProperties, EmptySeq DEF Path
<1>2. /\ Head(s) \in Members(s) /\ Tail(s) \in Seq(Members(s)) /\ Len(Tail(s)) = Len(s) - 1
      /\ \A i \in 1..Len(Tail(s)) : Tail(s)[i] = s[i + 1]
  BY <1>1, HeadTailProperties
<1>3. Path(Tail(s)) /\ Members(Tail(s)) \subseteq Members(s)
  BY <1>2, Listed
<1>4. Tail(s) = <<>> <=> Len(s) = 1
  <2>1. Tail(s) = <<>> <=> Len(Tail(s)) = 0
    BY <1>2, EmptySeq
  <2> QED
    BY <1>1, <1>2, <2>1
<1>5. After(Head(s), Tail(s)) = s[Len(s)]
  <2>1. CASE Tail(s) = <<>>
    BY <1>1, <1>4, <2>1 DEF After
  <2>2. CASE Tail(s) # <<>>
    <3>1. Len(Tail(s)) \in 1..Len(Tail(s)) /\ Len(Tail(s)) + 1 = Len(s)
      BY <1>1, <1>2, <1>4, <2>2
    <3> QED
      BY <1>2, <2>2, <3>1 DEF After
  <2> QED
    BY <2>1, <2>2
<1> QED
  BY <1>2, <1>3, <1>4, <1>5 DEF After

-----------------------------------------------------------------------------
(* Claude Code. *)

\* The files as Gate and the user can leave them.
ClaudeShape(d) ==
    /\ IsDisk(d) /\ Shaped(d.cfg, C!Slots) /\ DOMAIN d.env = {}
    /\ d.pref \in Sets \cup {None} /\ d.cat = None
    /\ d.rec \in C!Records \cup {None}

\* Each value of the user's (in o) is in its place, or in the record behind Gate's.
ClaudeLegal(d, o) ==
    /\ d.rec = None => \A s \in C!Slots : d.cfg[s] = o[s]
    /\ d.rec # None =>
          /\ IF d.cfg.https = d.rec.wrote THEN d.rec.prev.https = o.https
                                          ELSE d.cfg.https = o.https
          /\ IF d.cfg.base = None \/ C!IsServed(d.cfg.base) THEN d.rec.prev.base = o.base
                                                            ELSE d.cfg.base = o.base
          /\ IF d.rec.models # None /\ d.cfg.model \in Members(d.rec.models.ids)
             THEN d.rec.models.previous = o.model ELSE d.cfg.model = o.model

\* The values a user may have.
OwnValues(o) == o.https \in UserRoutes \cup {None} /\ o.base \in UserRoutes \cup {None}
             /\ o.model \in UserModels \cup {None}

Claude(d, o) == ClaudeShape(d) /\ ClaudeLegal(d, o)

\* An address of Gate's is none of the user's.
LEMMA ClaudeServed ==
    /\ \A v \in UserRoutes \cup {None} : ~C!IsServed(v)
    /\ \A p \in Ports : C!IsServed(C!Served(p)) /\ C!Served(p) # None /\ C!Served(p) \notin UserRoutes
    /\ \A q \in {C!Served(p) : p \in Ports} : C!IsServed(q)
BY Apart DEF C!IsServed, C!Served, Served

\* The record, part by part.
LEMMA ClaudeRec ==
    ASSUME NEW d, ClaudeShape(d), d.rec # None
    PROVE  /\ d.rec = [wrote |-> d.rec.wrote, prev |-> d.rec.prev, models |-> d.rec.models]
           /\ d.rec.wrote \in Ports /\ d.rec.models \in C!Models \cup {None}
           /\ d.rec.prev \in [C!Keys -> UserRoutes \cup {None}]
           /\ d.rec.models # None => /\ d.rec.models.ids \in Seq(Ids)
                                     /\ d.rec.models.served \in {C!Served(p) : p \in Ports}
                                     /\ d.rec.models.previous \in UserModels \cup {None}
                                     /\ Members(d.rec.models.ids) \subseteq Ids
<1>1. d.rec \in C!Records
  BY DEF ClaudeShape
<1>2. /\ d.rec = [wrote |-> d.rec.wrote, prev |-> d.rec.prev, models |-> d.rec.models]
      /\ d.rec.wrote \in Ports /\ d.rec.models \in C!Models \cup {None}
      /\ d.rec.prev \in [C!Keys -> UserRoutes \cup {None}]
  BY <1>1 DEF C!Records
<1>3. d.rec.models # None => /\ d.rec.models.ids \in Seq(Ids)
                             /\ d.rec.models.served \in {C!Served(p) : p \in Ports}
                             /\ d.rec.models.previous \in UserModels \cup {None}
  BY <1>2 DEF C!Models
<1> QED
  BY <1>2, <1>3, LenProperties DEF Members

\* Leaving Gate models: the disk written, then that it gives the model back.
LEMMA ClaudeRevertForm ==
    ASSUME NEW d, IsDisk(d), C!GateModels(d) # None
    PROVE  C!Revert(d) = Disk(d.pref,
              [d.cfg EXCEPT
                 !.base = IF d.cfg.base = d.rec.models.served THEN None ELSE d.cfg.base,
                 !.model = IF d.cfg.model \in Members(d.rec.models.ids)
                           THEN d.rec.models.previous ELSE d.cfg.model],
              d.env, [d.rec EXCEPT !.models = None], d.cat)
<1> DEFINE b == IF d.cfg.base = d.rec.models.served THEN None ELSE d.cfg.base
           m == IF d.cfg.model \in Members(d.rec.models.ids)
                THEN d.rec.models.previous ELSE d.cfg.model
<1>1. d.rec # None /\ C!GateModels(d) = d.rec.models
  BY DEF C!GateModels
<1>2. C!Revert(d) = [d EXCEPT !.cfg.base = b, !.cfg.model = m, !.rec.models = None]
  BY <1>1 DEF C!Revert, C!Members, Members
<1> HIDE DEF b, m
<1>3. C!Revert(d) = Disk(d.pref, [d.cfg EXCEPT !.base = b, !.model = m], d.env,
                         [d.rec EXCEPT !.models = None], d.cat)
  <2>1. d = [pref |-> d.pref, cfg |-> d.cfg, env |-> d.env, rec |-> d.rec, cat |-> d.cat]
    BY Opened
  <2> QED
    BY <1>2, <2>1 DEF Disk
<1> QED
  BY <1>3 DEF b, m

LEMMA ClaudeRevert ==
    ASSUME NEW d, NEW o, OwnValues(o), Claude(d, o), NEW e, e = C!Revert(d)
    PROVE  /\ Claude(e, o) /\ C!GateModels(e) = None /\ e.pref = d.pref
           /\ e.cfg.model = o.model /\ e.cfg.https = d.cfg.https
           /\ d.cfg.base = None => e.cfg.base = None
           /\ d.rec = None => e = d
           /\ d.rec # None => e.rec # None /\ e.rec.wrote = d.rec.wrote /\ e.rec.prev = d.rec.prev
<1>1. CASE C!GateModels(d) = None
  <2>1. e = d
    BY <1>1 DEF C!Revert
  <2> QED
    BY <1>1, <2>1, NoRecord DEF C!GateModels, Claude, ClaudeLegal, C!Slots
<1>2. CASE C!GateModels(d) # None
  <2>1. d.rec # None /\ d.rec.models # None
    BY <1>2 DEF C!GateModels
  <2> DEFINE b == IF d.cfg.base = d.rec.models.served THEN None ELSE d.cfg.base
             m == IF d.cfg.model \in Members(d.rec.models.ids)
                  THEN d.rec.models.previous ELSE d.cfg.model
             c == [d.cfg EXCEPT !.base = b, !.model = m]
             r == [d.rec EXCEPT !.models = None]
  <2>2. e = Disk(d.pref, c, d.env, r, d.cat)
    BY <1>2, ClaudeRevertForm DEF Claude, ClaudeShape
  <2>3. /\ Shaped(c, C!Slots) /\ c.base = b /\ c.model = m /\ c.https = d.cfg.https
    <3> HIDE DEF b, m
    <3> QED
      BY DEF Claude, ClaudeShape, Shaped, C!Slots
  <2>4. /\ r \in C!Records /\ r # None /\ r.models = None /\ r.wrote = d.rec.wrote /\ r.prev = d.rec.prev
    <3>1. /\ d.rec = [wrote |-> d.rec.wrote, prev |-> d.rec.prev, models |-> d.rec.models]
          /\ d.rec.wrote \in Ports /\ d.rec.prev \in [C!Keys -> UserRoutes \cup {None}]
      BY <2>1, ClaudeRec DEF Claude
    <3>2. r = [wrote |-> d.rec.wrote, prev |-> d.rec.prev, models |-> None]
      BY <3>1
    <3>3. r \in C!Records
      BY <3>1, <3>2 DEF C!Records
    <3> QED
      BY <3>2, <3>3, NoRecord
  <2> HIDE DEF c, r
  <2>5. IsDisk(e) /\ e.pref = d.pref /\ e.cfg = c /\ e.env = d.env /\ e.rec = r /\ e.cat = d.cat
    BY <2>2, Parts
  <2>6. ClaudeShape(e) /\ C!GateModels(e) = None
    BY <2>3, <2>4, <2>5 DEF Claude, ClaudeShape, C!GateModels
  <2>7. m = o.model
    BY <2>1 DEF Claude, ClaudeLegal
  <2>8. IF b = None \/ C!IsServed(b) THEN d.rec.prev.base = o.base ELSE b = o.base
    BY <2>1, ClaudeRec, ClaudeServed DEF Claude, ClaudeLegal
  <2>9. d.cfg.base = None => b = None
    OBVIOUS
  <2> HIDE DEF b, m
  <2>10. ClaudeLegal(e, o)
    BY <2>1, <2>3, <2>4, <2>5, <2>7, <2>8 DEF Claude, ClaudeLegal
  <2> QED
    BY <2>1, <2>3, <2>4, <2>5, <2>6, <2>7, <2>9, <2>10 DEF Claude
<1> QED
  BY <1>1, <1>2

\* The choice is beside the settings: changing it changes nothing of theirs.
LEMMA ClaudePref ==
    ASSUME NEW d, NEW o, Claude(d, o), NEW x \in Sets \cup {None}, NEW e, e = [d EXCEPT !.pref = x]
    PROVE  /\ Claude(e, o) /\ e.pref = x /\ e.cfg = d.cfg /\ e.rec = d.rec
           /\ C!GateModels(e) = C!GateModels(d) /\ C!Drifted(e) = C!Drifted(d)
<1>1. e = Disk(x, d.cfg, d.env, d.rec, d.cat)
  BY Opened DEF Claude, ClaudeShape, Disk
<1>2. IsDisk(e) /\ e.pref = x /\ e.cfg = d.cfg /\ e.env = d.env /\ e.rec = d.rec /\ e.cat = d.cat
  BY <1>1, Parts
<1> QED
  BY <1>2 DEF Claude, ClaudeShape, ClaudeLegal, C!GateModels, C!Drifted

\* The route to the engine written: the disk, then that it keeps the user's values.
LEMMA ClaudeRouteForm ==
    ASSUME NEW d, IsDisk(d), NEW p
    PROVE  C!Route(d, p) = Disk(d.pref, [d.cfg EXCEPT !.https = p, !.base = None], d.env,
              [wrote |-> p, models |-> C!GateModels(d),
               prev |-> [k \in C!Keys |-> IF C!Managed(d) /\ C!Holds(d, k)
                                          THEN d.rec.prev[k] ELSE d.cfg[k]]], d.cat)
<1> DEFINE r == [wrote |-> p, models |-> C!GateModels(d),
                 prev |-> [k \in C!Keys |-> IF C!Managed(d) /\ C!Holds(d, k)
                                            THEN d.rec.prev[k] ELSE d.cfg[k]]]
<1>1. C!Route(d, p) = [d EXCEPT !.cfg.https = p, !.cfg.base = None, !.rec = r]
  BY DEF C!Route
<1> HIDE DEF r
<1>2. d = [pref |-> d.pref, cfg |-> d.cfg, env |-> d.env, rec |-> d.rec, cat |-> d.cat]
  BY Opened
<1>3. C!Route(d, p) = Disk(d.pref, [d.cfg EXCEPT !.https = p, !.base = None], d.env, r, d.cat)
  BY <1>1, <1>2 DEF Disk
<1> QED
  BY <1>3 DEF r

LEMMA ClaudeRoute ==
    ASSUME NEW d, NEW o, OwnValues(o), Claude(d, o), NEW p \in Ports, NEW e, e = C!Route(d, p)
    PROVE  /\ Claude(e, o) /\ e.pref = d.pref /\ e.env = d.env
           /\ e.cfg.https = p /\ e.cfg.base = None /\ e.cfg.model = d.cfg.model
           /\ e.rec # None /\ e.rec.wrote = p /\ e.rec.models = C!GateModels(d)
           /\ e.rec.prev.https = o.https /\ e.rec.prev.base = o.base
<1> DEFINE v == [k \in C!Keys |-> IF C!Managed(d) /\ C!Holds(d, k)
                                  THEN d.rec.prev[k] ELSE d.cfg[k]]
           r == [wrote |-> p, models |-> C!GateModels(d), prev |-> v]
           c == [d.cfg EXCEPT !.https = p, !.base = None]
<1>1. e = Disk(d.pref, c, d.env, r, d.cat)
  BY ClaudeRouteForm DEF Claude, ClaudeShape
<1>2. IsDisk(e) /\ e.pref = d.pref /\ e.cfg = c /\ e.env = d.env /\ e.rec = r /\ e.cat = d.cat
  BY <1>1, Parts
<1>3. Shaped(c, C!Slots) /\ c.https = p /\ c.base = None /\ c.model = d.cfg.model
  BY DEF Claude, ClaudeShape, Shaped, C!Slots
<1>4. v.https = o.https
  BY DEF C!Keys, C!Managed, C!Holds, Claude, ClaudeLegal, C!Slots
<1>5. v.base = o.base
  BY DEF C!Keys, C!Managed, C!Holds, Claude, ClaudeLegal, C!Slots
<1>6. v \in [C!Keys -> UserRoutes \cup {None}]
  BY <1>4, <1>5 DEF C!Keys, OwnValues
<1>7. C!GateModels(d) \in C!Models \cup {None}
  BY ClaudeRec DEF C!GateModels, Claude
<1> HIDE DEF v
<1>8. r \in C!Records /\ r # None
  BY <1>6, <1>7, NoRecord DEF C!Records
<1>9. r.wrote = p /\ r.models = C!GateModels(d) /\ r.prev = v
  OBVIOUS
<1> HIDE DEF r, c
<1>10. ClaudeShape(e)
  BY <1>2, <1>3, <1>8 DEF Claude, ClaudeShape
<1>11. ClaudeLegal(e, o)
  BY <1>2, <1>3, <1>4, <1>5, <1>8, <1>9 DEF Claude, ClaudeLegal, C!GateModels, C!Slots
<1> QED
  BY <1>2, <1>3, <1>4, <1>5, <1>8, <1>9, <1>10, <1>11 DEF Claude

\* The model put in is one of the set.
LEMMA DefaultIn ==
    ASSUME NEW ids \in Sets, NEW w, NEW m
    PROVE  Default(w, ids, m) \in Members(ids) /\ Members(ids) \subseteq Ids
<1>1. ids \in Seq(Ids) /\ ids # <<>>
  BY SetsServed
<1>2. Head(ids) = ids[1] /\ 1 \in DOMAIN ids /\ \A i \in DOMAIN ids : ids[i] \in Ids
  BY <1>1, LenProperties
<1> QED
  BY <1>2 DEF Default, Members

\* The Gate models written: the disk, then that they are in place.
LEMMA ClaudeApplyForm ==
    ASSUME NEW d, IsDisk(d), d.rec # None, NEW p,
           d.rec = [wrote |-> d.rec.wrote, prev |-> d.rec.prev, models |-> d.rec.models]
    PROVE  C!Apply(d, p) = Disk(d.pref,
              [d.cfg EXCEPT
                 !.base = Served(p),
                 !.model = Default(IF d.rec.models = None THEN None ELSE d.rec.models.ids,
                                   d.pref, d.cfg.model)],
              d.env,
              [wrote |-> d.rec.wrote, prev |-> d.rec.prev,
               models |-> [ids |-> d.pref, served |-> Served(p),
                           previous |-> IF d.rec.models = None THEN d.cfg.model
                                        ELSE d.rec.models.previous]],
              d.cat)
<1> DEFINE m == Default(IF d.rec.models = None THEN None ELSE d.rec.models.ids,
                        d.pref, d.cfg.model)
           g == [ids |-> d.pref, served |-> Served(p),
                 previous |-> IF d.rec.models = None THEN d.cfg.model
                              ELSE d.rec.models.previous]
<1>1. C!Apply(d, p) = [d EXCEPT !.cfg.base = Served(p), !.cfg.model = m, !.rec.models = g]
  BY DEF C!Apply, C!GateModels, C!Default, Default, C!Members, Members, C!Served, Served
<1> HIDE DEF m, g
<1>2. d = [pref |-> d.pref, cfg |-> d.cfg, env |-> d.env, rec |-> d.rec, cat |-> d.cat]
  BY Opened
<1>3. C!Apply(d, p) = Disk(d.pref, [d.cfg EXCEPT !.base = Served(p), !.model = m], d.env,
                           [d.rec EXCEPT !.models = g], d.cat)
  BY <1>1, <1>2 DEF Disk
<1>4. [d.rec EXCEPT !.models = g] = [wrote |-> d.rec.wrote, prev |-> d.rec.prev, models |-> g]
  OBVIOUS
<1> QED
  BY <1>3, <1>4 DEF m, g

LEMMA ClaudeApply ==
    ASSUME NEW d, NEW o, OwnValues(o), Claude(d, o), NEW p \in Ports, NEW e, e = C!Apply(d, p),
           d.pref \in Sets, d.rec # None, d.cfg.base = None,
           d.rec.models # None => d.cfg.model \in Members(d.rec.models.ids)
    PROVE  /\ Claude(e, o) /\ e.pref = d.pref /\ e.env = d.env
           /\ e.cfg.https = d.cfg.https /\ e.cfg.base = Served(p)
           /\ e.cfg.model = Default(IF d.rec.models = None THEN None ELSE d.rec.models.ids,
                                    d.pref, d.cfg.model)
           /\ e.rec = [wrote |-> d.rec.wrote, prev |-> d.rec.prev,
                       models |-> [ids |-> d.pref, served |-> Served(p), previous |-> o.model]]
           /\ e.rec # None /\ e.rec.models # None
           /\ e.cfg.model \in Members(d.pref)
<1> DEFINE m == Default(IF d.rec.models = None THEN None ELSE d.rec.models.ids,
                        d.pref, d.cfg.model)
           g == [ids |-> d.pref, served |-> Served(p), previous |-> o.model]
           r == [wrote |-> d.rec.wrote, prev |-> d.rec.prev, models |-> g]
           c == [d.cfg EXCEPT !.base = Served(p), !.model = m]
<1>1. (IF d.rec.models = None THEN d.cfg.model ELSE d.rec.models.previous) = o.model
  BY DEF Claude, ClaudeLegal
<1>2. /\ d.rec = [wrote |-> d.rec.wrote, prev |-> d.rec.prev, models |-> d.rec.models]
      /\ d.rec.wrote \in Ports /\ d.rec.prev \in [C!Keys -> UserRoutes \cup {None}]
  BY ClaudeRec DEF Claude
<1>3. e = Disk(d.pref, c, d.env, r, d.cat)
  BY <1>1, <1>2, ClaudeApplyForm DEF Claude, ClaudeShape
<1>4. IsDisk(e) /\ e.pref = d.pref /\ e.cfg = c /\ e.env = d.env /\ e.rec = r /\ e.cat = d.cat
  BY <1>3, Parts
<1>5. m \in Members(d.pref)
  BY DefaultIn
<1> HIDE DEF m
<1>6. Shaped(c, C!Slots) /\ c.https = d.cfg.https /\ c.base = Served(p) /\ c.model = m
  BY DEF Claude, ClaudeShape, Shaped, C!Slots
<1>7. g \in C!Models /\ g # None /\ g.ids = d.pref /\ g.previous = o.model
  BY SetsServed, NoRecord DEF C!Models, OwnValues, C!Served, Served
<1> HIDE DEF g
<1>8. r \in C!Records /\ r # None /\ r.wrote = d.rec.wrote /\ r.prev = d.rec.prev /\ r.models = g
  BY <1>2, <1>7, NoRecord DEF C!Records
<1> HIDE DEF r, c
<1>9. ClaudeShape(e)
  BY <1>4, <1>6, <1>8 DEF Claude, ClaudeShape
<1>10. C!IsServed(Served(p))
  BY ClaudeServed DEF C!Served, Served
<1>11. ClaudeLegal(e, o)
  BY <1>4, <1>5, <1>6, <1>7, <1>8, <1>10 DEF Claude, ClaudeLegal
<1> QED
  BY <1>4, <1>5, <1>6, <1>7, <1>8, <1>9, <1>11 DEF Claude, m, r, g

\* Connecting again once connected writes nothing.
LEMMA ClaudeStays ==
    ASSUME NEW e, NEW o, OwnValues(o), Claude(e, o), NEW p \in Ports,
           C!Aimed(e, p), e.rec.wrote = p,
           e.rec.models # None => /\ e.rec.models.ids = e.pref /\ e.rec.models.served = Served(p)
                                  /\ e.rec.models.previous = o.model
    PROVE  C!Connect(e, p) = <<>>
<1>1. e.rec # None /\ e.cfg.https = p
  BY DEF C!Aimed, C!Managed
<1>2. CASE e.pref = None
  <2>1. ~C!Drifted(e) /\ C!AlreadyApplied(e, p)
    BY <1>1, <1>2 DEF C!Aimed, C!Drifted, C!AlreadyApplied, C!Managed
  <2> QED
    BY <2>1 DEF C!Connect, C!Write
<1>3. CASE e.pref # None
  <2>1. ~C!Drifted(e) /\ e.cfg.base = Served(p) /\ e.rec.models # None /\ C!GateModels(e) = e.rec.models
    BY <1>1, <1>3 DEF C!Aimed, C!GateModels, C!Served, Served
  <2>2. PICK r : r = C!Route(e, p)
    OBVIOUS
  <2>3. /\ Claude(r, o) /\ r.pref = e.pref /\ r.env = e.env
        /\ r.cfg.https = p /\ r.cfg.base = None /\ r.cfg.model = e.cfg.model
        /\ r.rec # None /\ r.rec.wrote = p /\ r.rec.models = C!GateModels(e)
        /\ r.rec.prev.https = o.https /\ r.rec.prev.base = o.base
    BY <2>2, ClaudeRoute
  <2>4. e.cfg.model \in Members(e.pref) /\ e.pref \in Sets
    BY <1>3, <2>1 DEF C!Drifted, C!Members, Members, Claude, ClaudeShape
  <2>5. PICK a : a = C!Apply(r, p)
    OBVIOUS
  <2>6. /\ Claude(a, o) /\ a.pref = r.pref /\ a.env = r.env
        /\ a.cfg.https = r.cfg.https /\ a.cfg.base = Served(p)
        /\ a.cfg.model = Default(IF r.rec.models = None THEN None ELSE r.rec.models.ids,
                                 r.pref, r.cfg.model)
        /\ a.rec = [wrote |-> r.rec.wrote, prev |-> r.rec.prev,
                    models |-> [ids |-> r.pref, served |-> Served(p), previous |-> o.model]]
    BY <2>1, <2>3, <2>4, <2>5, ClaudeApply
  <2>7. a.cfg = e.cfg
    <3>1. a.cfg.model = e.cfg.model
      BY <2>1, <2>3, <2>4, <2>6 DEF Default
    <3>2. \A s \in C!Slots : a.cfg[s] = e.cfg[s]
      BY <1>1, <2>1, <2>3, <2>6, <3>1 DEF C!Slots
    <3> QED
      BY <2>6, <3>2 DEF Claude, ClaudeShape, Shaped
  <2>8. a.rec = e.rec
    <3>1. /\ e.rec = [wrote |-> e.rec.wrote, prev |-> e.rec.prev, models |-> e.rec.models]
          /\ e.rec.prev \in [C!Keys -> UserRoutes \cup {None}] /\ e.rec.models \in C!Models
      BY <1>1, <2>1, ClaudeRec DEF Claude
    <3>2. r.rec.prev \in [C!Keys -> UserRoutes \cup {None}]
      BY <2>3, ClaudeRec DEF Claude
    <3>3. e.rec.prev.https = o.https /\ e.rec.prev.base = o.base
      BY <1>1, <2>1, ClaudeServed DEF Claude, ClaudeLegal, C!Served, Served
    <3>4. r.rec.prev = e.rec.prev
      BY <2>3, <3>1, <3>2, <3>3 DEF C!Keys
    <3>5. e.rec.models = [ids |-> e.pref, served |-> Served(p), previous |-> o.model]
      BY <2>1, <3>1 DEF C!Models
    <3> QED
      BY <2>3, <2>6, <3>1, <3>4, <3>5
  <2>9. a = e
    <3>1. a = Disk(a.pref, a.cfg, a.env, a.rec, a.cat) /\ e = Disk(e.pref, e.cfg, e.env, e.rec, e.cat)
      BY <2>6 DEF Claude, ClaudeShape, IsDisk
    <3>2. a.cat = e.cat
      BY <2>6 DEF Claude, ClaudeShape
    <3> QED
      BY <2>3, <2>6, <2>7, <2>8, <3>1, <3>2
  <2> QED
    <3>1. ~C!AlreadyApplied(e, p)
      BY <1>3 DEF C!AlreadyApplied
    <3>2. C!Connect(e, p) = C!Write(e, e) \o C!Write(e, C!Apply(C!Route(e, p), p))
      BY <1>3, <2>1, <3>1 DEF C!Connect
    <3>3. C!Connect(e, p) = C!Write(e, e) \o C!Write(e, e)
      BY <2>2, <2>5, <2>9, <3>2
    <3> QED
      BY <3>3 DEF C!Write
<1> QED
  BY <1>2, <1>3

\* A connect, whatever of it is done.
LEMMA ClaudeConnect ==
    ASSUME NEW d, NEW o, OwnValues(o), Claude(d, o), NEW p \in Ports, NEW s, s = C!Connect(d, p),
           NEW e, e = After(d, s)
    PROVE  /\ Path(s)
           /\ \A x \in Members(s) : /\ Claude(x, o)
                                    /\ ~C!Drifted(d) => ~C!Drifted(x) /\ x.pref = d.pref
           /\ Claude(e, o) /\ C!Aimed(e, p) /\ ~C!Drifted(e) /\ C!Connect(e, p) = <<>>
<1>1. PICK f : f = IF C!Drifted(d) THEN C!Settled(d) ELSE d
  OBVIOUS
<1>2. /\ Claude(f, o) /\ f.cfg = d.cfg /\ f.rec = d.rec /\ C!GateModels(f) = C!GateModels(d)
      /\ (C!Drifted(f) <=> C!Drifted(d)) /\ (C!Drifted(d) => f.pref = None) /\ (~C!Drifted(d) => f = d)
  BY <1>1, ClaudePref DEF C!Settled
<1>3. CASE C!AlreadyApplied(f, p)
  <2>1. s = Write(d, f) \o <<>>
    BY <1>1, <1>3 DEF C!Connect, C!Write, Write
  <2>2. PICK w : w = Write(d, f)
    OBVIOUS
  <2>3. Path(w) /\ After(d, w) = f /\ Members(w) \subseteq {f}
    BY <2>2, OneWrite
  <2>4. Path(s) /\ Members(s) \subseteq {f} /\ e = f
    BY <2>1, <2>2, <2>3, Joined, NoWrite
  <2>5. f.rec # None /\ f.rec.models = None /\ C!Aimed(f, p) /\ ~C!Drifted(f)
    BY <1>3 DEF C!AlreadyApplied, C!Aimed, C!Managed, C!Drifted, C!GateModels
  <2>6. C!Connect(f, p) = <<>>
    BY <1>3, <2>5 DEF C!Connect, C!Write
  <2> QED
    BY <1>2, <2>4, <2>5, <2>6
<1>4. CASE ~C!AlreadyApplied(f, p)
  <2>1. PICK r : r = C!Route(f, p)
    OBVIOUS
  <2>2. PICK g : g = IF f.pref = None THEN C!Revert(r) ELSE C!Apply(r, p)
    OBVIOUS
  <2>3. s = Write(d, f) \o Write(f, g)
    BY <1>1, <1>4, <2>1, <2>2 DEF C!Connect, C!Write, Write
  <2>4. Path(s) /\ Members(s) \subseteq {f, g} /\ e = g
    BY <2>3, TwoWrites
  <2>5. /\ Claude(r, o) /\ r.pref = f.pref
        /\ r.cfg.https = p /\ r.cfg.base = None /\ r.cfg.model = f.cfg.model
        /\ r.rec # None /\ r.rec.wrote = p /\ r.rec.models = C!GateModels(f)
    BY <1>2, <2>1, ClaudeRoute
  <2>6. Claude(g, o) /\ C!Aimed(g, p) /\ ~C!Drifted(g) /\ C!Connect(g, p) = <<>> /\ g.pref = f.pref
    <3>1. CASE f.pref = None
      <4>1. /\ Claude(g, o) /\ C!GateModels(g) = None /\ g.pref = None /\ g.cfg.https = p
            /\ g.cfg.base = None /\ g.rec # None /\ g.rec.wrote = p
        BY <2>2, <2>5, <3>1, ClaudeRevert
      <4>2. C!Aimed(g, p) /\ ~C!Drifted(g) /\ g.rec.models = None
        BY <4>1 DEF C!Aimed, C!Managed, C!Drifted, C!GateModels
      <4>3. C!Connect(g, p) = <<>>
        BY <4>1, <4>2, ClaudeStays
      <4> QED
        BY <3>1, <4>1, <4>2, <4>3
    <3>2. CASE f.pref # None
      <4>1. ~C!Drifted(f) /\ f.pref \in Sets
        BY <1>2, <3>2 DEF Claude, ClaudeShape
      <4>2. r.rec.models # None => r.cfg.model \in Members(r.rec.models.ids)
        BY <2>5, <4>1 DEF C!Drifted, C!Members, Members
      <4>3. /\ Claude(g, o) /\ g.pref = r.pref
            /\ g.cfg.https = p /\ g.cfg.base = Served(p)
            /\ g.rec = [wrote |-> r.rec.wrote, prev |-> r.rec.prev,
                        models |-> [ids |-> r.pref, served |-> Served(p), previous |-> o.model]]
            /\ g.rec # None /\ g.rec.models # None
            /\ g.cfg.model \in Members(r.pref)
        BY <2>2, <2>5, <3>2, <4>1, <4>2, ClaudeApply
      <4>4. /\ g.rec.wrote = p /\ g.rec.models.ids = g.pref /\ g.rec.models.served = Served(p)
            /\ g.rec.models.previous = o.model
        BY <2>5, <4>3
      <4>5. ~C!Drifted(g) /\ C!Aimed(g, p)
        BY <2>5, <3>2, <4>3, <4>4, ClaudeServed
           DEF C!Drifted, C!Aimed, C!Managed, C!GateModels, C!Members, Members, C!Served, Served
      <4>6. C!Connect(g, p) = <<>>
        BY <4>3, <4>4, <4>5, ClaudeStays
      <4> QED
        BY <2>5, <4>3, <4>5, <4>6
    <3> QED
      BY <3>1, <3>2
  <2> QED
    BY <1>2, <2>4, <2>6
<1> QED
  BY <1>3, <1>4

\* A return to the user's models.
LEMMA ClaudeLeave ==
    ASSUME NEW d, NEW o, OwnValues(o), Claude(d, o), NEW s, s = C!Leave(d), NEW e, e = After(d, s)
    PROVE  /\ Path(s)
           /\ \A x \in Members(s) : Claude(x, o) /\ ~C!Drifted(x) /\ x.pref = d.pref
           /\ Claude(e, o) /\ C!GateModels(e) = None /\ e.cfg.model = o.model /\ e.pref = d.pref
<1>1. PICK r : r = C!Revert(d)
  OBVIOUS
<1>2. Claude(r, o) /\ C!GateModels(r) = None /\ r.cfg.model = o.model /\ r.pref = d.pref
  BY <1>1, ClaudeRevert
<1>3. s = Write(d, r)
  BY <1>1 DEF C!Leave, C!Write, Write
<1>4. Path(s) /\ e = r /\ Members(s) \subseteq {r}
  BY <1>3, OneWrite
<1>5. ~C!Drifted(r)
  BY <1>2 DEF C!Drifted
<1> QED
  BY <1>2, <1>4, <1>5

\* A disconnect gives every value back.
LEMMA ClaudeDisconnect ==
    ASSUME NEW d, NEW o, OwnValues(o), Claude(d, o), NEW s, s = C!Disconnect(d),
           NEW e, e = After(d, s)
    PROVE  /\ Path(s)
           /\ \A x \in Members(s) : Claude(x, o) /\ ~C!Drifted(x) /\ x.pref = d.pref
           /\ Claude(e, o) /\ C!Clean(e) /\ \A k \in C!Slots : e.cfg[k] = o[k]
<1>1. CASE d.rec = None
  <2>1. s = <<>> /\ e = d
    BY <1>1, NoWrite DEF C!Disconnect, C!Managed
  <2>2. \A k \in C!Slots : d.cfg[k] = o[k]
    BY <1>1 DEF Claude, ClaudeLegal
  <2>3. C!Clean(d)
    BY <1>1, <2>2, Apart, ClaudeServed DEF C!Clean, C!Slots, OwnValues
  <2> QED
    BY <2>1, <2>2, <2>3, NoWrite
<1>2. CASE d.rec # None
  <2>1. PICK r : r = C!Revert(d)
    OBVIOUS
  <2>2. /\ Claude(r, o) /\ C!GateModels(r) = None /\ r.cfg.model = o.model /\ r.pref = d.pref
        /\ r.rec # None
    BY <1>2, <2>1, ClaudeRevert
  <2> DEFINE c == [k \in DOMAIN r.cfg |-> IF k \in C!Keys /\ C!Holds(r, k)
                                         THEN r.rec.prev[k] ELSE r.cfg[k]]
             x == Disk(r.pref, c, r.env, None, r.cat)
  <2>3. s = <<x>>
    <3>1. r = [pref |-> r.pref, cfg |-> r.cfg, env |-> r.env, rec |-> r.rec, cat |-> r.cat]
      BY <2>2, Opened DEF Claude, ClaudeShape
    <3>2. s = <<[r EXCEPT !.cfg = c, !.rec = None]>>
      BY <1>2, <2>1 DEF C!Disconnect, C!Managed
    <3> HIDE DEF c
    <3>3. PICK y : y = [r EXCEPT !.cfg = c, !.rec = None]
      OBVIOUS
    <3>4. y = x
      BY <3>1, <3>3 DEF Disk
    <3> QED
      BY <3>2, <3>3, <3>4
  <2>4. \A k \in C!Slots : c[k] = o[k]
    BY <2>2 DEF C!Slots, C!Keys, C!Holds, Claude, ClaudeShape, ClaudeLegal, Shaped
  <2>5. Shaped(c, C!Slots)
    BY <2>2 DEF Claude, ClaudeShape, Shaped
  <2> HIDE DEF c
  <2>6. IsDisk(x) /\ x.pref = r.pref /\ x.cfg = c /\ x.env = r.env /\ x.rec = None /\ x.cat = r.cat
    BY Parts
  <2> HIDE DEF x
  <2>7. Claude(x, o)
    BY <2>2, <2>4, <2>5, <2>6 DEF Claude, ClaudeShape, ClaudeLegal
  <2>8. C!Clean(x) /\ ~C!Drifted(x)
    BY <2>4, <2>6, Apart, ClaudeServed DEF C!Clean, C!Drifted, C!GateModels, C!Slots, OwnValues
  <2>9. Path(s) /\ e = x /\ Members(s) \subseteq {x}
    <3>1. s \in Seq({x}) /\ s # <<>> /\ Len(s) = 1 /\ s[1] = x
      BY <2>3
    <3> QED
      BY <3>1, Listed DEF After
  <2> QED
    BY <2>2, <2>4, <2>6, <2>7, <2>8, <2>9
<1> QED
  BY <1>1, <1>2

\* The user writes a value of their own.
LEMMA ClaudeEdit ==
    ASSUME NEW d, NEW o, OwnValues(o), Claude(d, o), Shaped(o, C!Slots), NEW k \in C!Slots,
           NEW v \in May(k)
    PROVE  LET e == Disk(d.pref, [d.cfg EXCEPT ![k] = v], d.env, d.rec, d.cat)
               u == [o EXCEPT ![k] = v] IN
           Claude(e, u) /\ OwnValues(u) /\ Shaped(u, C!Slots)
<1> DEFINE c == [d.cfg EXCEPT ![k] = v]
<1>0. PICK e, u : e = Disk(d.pref, c, d.env, d.rec, d.cat) /\ u = [o EXCEPT ![k] = v]
  OBVIOUS
<1>1. e = Disk(d.pref, c, d.env, d.rec, d.cat)
  BY <1>0
<1>2. Shaped(c, C!Slots) /\ \A j \in C!Slots : c[j] = IF j = k THEN v ELSE d.cfg[j]
  BY DEF Claude, ClaudeShape, Shaped
<1>3. Shaped(u, C!Slots) /\ \A j \in C!Slots : u[j] = IF j = k THEN v ELSE o[j]
  BY <1>0 DEF Shaped
<1> HIDE DEF c
<1>4. IsDisk(e) /\ e.pref = d.pref /\ e.cfg = c /\ e.env = d.env /\ e.rec = d.rec /\ e.cat = d.cat
  BY <1>1, Parts
<1>5. OwnValues(u)
  BY <1>3 DEF OwnValues, May, C!Slots
<1>6. ClaudeShape(e)
  BY <1>2, <1>4 DEF Claude, ClaudeShape
<1>7. ClaudeLegal(e, u)
  <2>1. CASE d.rec = None
    BY <1>2, <1>3, <1>4, <2>1 DEF Claude, ClaudeLegal
  <2>2. CASE d.rec # None
    <3>1. k = "https" => v # d.rec.wrote
      <4>1. d.rec.wrote \in Ports
        BY <2>2, ClaudeRec DEF Claude
      <4> QED
        BY <4>1, Apart DEF May
    <3>2. k = "base" => v # None /\ ~C!IsServed(v)
      BY ClaudeServed, Apart DEF May
    <3>3. k = "model" /\ d.rec.models # None => v \notin Members(d.rec.models.ids)
      BY <2>2, ClaudeRec, Apart DEF Claude, May
    <3>4. \/ k = "https" \/ k = "base" \/ k = "model"
      BY DEF C!Slots
    <3>5. /\ c.https = (IF k = "https" THEN v ELSE d.cfg.https)
          /\ u.https = (IF k = "https" THEN v ELSE o.https)
          /\ c.base = (IF k = "base" THEN v ELSE d.cfg.base)
          /\ u.base = (IF k = "base" THEN v ELSE o.base)
          /\ c.model = (IF k = "model" THEN v ELSE d.cfg.model)
          /\ u.model = (IF k = "model" THEN v ELSE o.model)
      BY <1>2, <1>3 DEF C!Slots
    <3> QED
      BY <1>4, <2>2, <3>1, <3>2, <3>3, <3>4, <3>5 DEF Claude, ClaudeLegal
  <2> QED
    BY <2>1, <2>2
<1> QED
  BY <1>0, <1>3, <1>5, <1>6, <1>7 DEF c, Claude

\* The tool picks another of the Gate models.
LEMMA ClaudePick ==
    ASSUME NEW d, NEW o, OwnValues(o), Claude(d, o), C!GateModels(d) # None, ~C!Drifted(d),
           NEW v \in Members(C!GateModels(d).ids),
           NEW e, e = Disk(d.pref, [d.cfg EXCEPT !["model"] = v], d.env, d.rec, d.cat)
    PROVE  Claude(e, o) /\ ~C!Drifted(e) /\ e.pref = d.pref
<1> DEFINE c == [d.cfg EXCEPT !["model"] = v]
<1>1. e = Disk(d.pref, c, d.env, d.rec, d.cat)
  OBVIOUS
<1>2. Shaped(c, C!Slots) /\ c.https = d.cfg.https /\ c.base = d.cfg.base /\ c.model = v
  BY DEF Claude, ClaudeShape, Shaped, C!Slots
<1> HIDE DEF c
<1>3. IsDisk(e) /\ e.pref = d.pref /\ e.cfg = c /\ e.env = d.env /\ e.rec = d.rec /\ e.cat = d.cat
  BY <1>1, Parts
<1>4. /\ d.rec # None /\ d.rec.models # None /\ C!GateModels(d) = d.rec.models
      /\ d.cfg.model \in Members(d.rec.models.ids)
  BY DEF C!GateModels, C!Drifted, C!Members, Members
<1>5. ClaudeShape(e) /\ ClaudeLegal(e, o)
  BY <1>2, <1>3, <1>4 DEF Claude, ClaudeShape, ClaudeLegal
<1>6. ~C!Drifted(e)
  BY <1>2, <1>3, <1>4 DEF C!Drifted, C!GateModels, C!Members, Members
<1> QED
  BY <1>3, <1>5, <1>6 DEF Claude

\* A model of Gate's without its route is a drift, which is repaired.
LEMMA ClaudeDangling ==
    ASSUME NEW d, NEW o, OwnValues(o), Claude(d, o), C!Dangling(d)
    PROVE  C!Drifted(d)
<1>1. d.cfg.model \in Ids /\ ~C!IsServed(d.cfg.base)
  BY DEF C!Dangling
<1>2. d.cfg.model # o.model
  BY <1>1, Apart DEF OwnValues
<1>3. d.rec # None /\ d.rec.models # None
  BY <1>2 DEF Claude, ClaudeLegal, C!Slots
<1> QED
  BY <1>1, <1>3 DEF C!Drifted, C!GateModels

-----------------------------------------------------------------------------
(* Codex. *)

\* The settings of the file: the user's and the provider block, which is Gate's.
CodexKeys == X!Slots \cup {"block"}
Blocks == {None, X!Stub} \cup {Relay(p) : p \in Ports} \cup {Served(p) : p \in Ports}

\* The files as Gate and the user can leave them.
CodexShape(d) ==
    /\ IsDisk(d) /\ Shaped(d.cfg, CodexKeys) /\ DOMAIN d.env = {}
    /\ d.pref \in Sets \cup {None} /\ d.cat \in Sets \cup {None}
    /\ d.rec \in X!Records \cup {None}
    /\ d.cfg.block \in Blocks

\* Each value of the user's (in o) is in its place, or in the record behind Gate's.
\* The catalog is on disk for as long as the file points to it.
CodexLegal(d, o) ==
    /\ IF d.cfg.pointer = X!Gate
       THEN X!HasConnectKey(d) /\ d.rec.prev = <<o.pointer>> ELSE d.cfg.pointer = o.pointer
    /\ X!GateModels(d) = None => d.cfg.model = o.model /\ d.cfg.catalog = o.catalog
    /\ X!GateModels(d) # None =>
          /\ d.cat # None /\ X!HasConnectKey(d)
          /\ IF d.cfg.model \in Members(d.rec.models.ids) \cup {None}
             THEN d.rec.models.previous = o.model ELSE d.cfg.model = o.model
          /\ IF d.cfg.catalog = X!Ours
             THEN d.rec.models.catalog = o.catalog ELSE d.cfg.catalog = o.catalog

\* The values a user may have.
CodexOwn(o) == o.pointer \in UserRoutes \cup {None} /\ o.catalog \in UserRoutes \cup {None}
             /\ o.model \in UserModels \cup {None}

Codex(d, o) == CodexShape(d) /\ CodexLegal(d, o)

\* Gate's values are told from the user's, and its two blocks from each other.
LEMMA CodexKinds ==
    /\ \A v \in UserRoutes \cup {None} : v # X!Gate /\ v # X!Ours
    /\ \A p \in Ports : X!IsServed(X!Served(p)) /\ X!IsRelay(X!Relay(p)) /\ ~X!IsServed(X!Relay(p))
    /\ ~X!IsServed(None) /\ ~X!IsServed(X!Stub)
    /\ \A p \in Ports : X!Served(p) = Served(p) /\ X!Relay(p) = Relay(p)
    /\ \A p \in Ports : Relay(p) \in Blocks /\ Served(p) \in Blocks
<1>1. /\ \A p \in Ports : X!Served(p) = Served(p) /\ X!Relay(p) = Relay(p)
      /\ \A p \in Ports : Relay(p) \in Blocks /\ Served(p) \in Blocks
  BY DEF X!Served, X!Relay, Served, Relay, Blocks
<1>2. \A v \in UserRoutes \cup {None} : v # X!Gate /\ v # X!Ours
  BY Apart
<1>3. \A p \in Ports : X!IsServed(X!Served(p)) /\ X!IsRelay(X!Relay(p))
  BY DEF X!IsServed, X!IsRelay
<1>4. \A p \in Ports : ~X!IsServed(X!Relay(p))
  BY DEF X!IsServed, X!Served, X!Relay
<1>5. ~X!IsServed(None)
  BY Apart DEF X!IsServed, X!Served, Served
<1>6. ~X!IsServed(X!Stub)
  BY DEF X!IsServed, X!Served, X!Stub
<1> QED
  BY <1>1, <1>2, <1>3, <1>4, <1>5, <1>6

\* The record, part by part.
LEMMA CodexRec ==
    ASSUME NEW d, CodexShape(d), d.rec # None
    PROVE  /\ d.rec = [stub |-> d.rec.stub, prev |-> d.rec.prev, models |-> d.rec.models]
           /\ d.rec.stub \in BOOLEAN /\ d.rec.models \in X!Models \cup {None}
           /\ d.rec.prev \in {<<>>} \cup {<<v>> : v \in UserRoutes \cup {None}}
           /\ X!GateModels(d) = d.rec.models
           /\ d.rec.models # None => /\ d.rec.models.ids \in Seq(Ids)
                                     /\ d.rec.models.previous \in UserModels \cup {None}
                                     /\ d.rec.models.catalog \in UserRoutes \cup {None}
                                     /\ Members(d.rec.models.ids) \subseteq Ids
<1>1. d.rec \in X!Records
  BY DEF CodexShape
<1>2. /\ d.rec = [stub |-> d.rec.stub, prev |-> d.rec.prev, models |-> d.rec.models]
      /\ d.rec.stub \in BOOLEAN /\ d.rec.models \in X!Models \cup {None}
      /\ d.rec.prev \in {<<>>} \cup {<<v>> : v \in UserRoutes \cup {None}}
  BY <1>1 DEF X!Records
<1>3. d.rec.models # None => /\ d.rec.models.ids \in Seq(Ids)
                             /\ d.rec.models.previous \in UserModels \cup {None}
                             /\ d.rec.models.catalog \in UserRoutes \cup {None}
  BY <1>2 DEF X!Models
<1> QED
  BY <1>2, <1>3, LenProperties DEF Members, X!GateModels

\* The choice is beside the settings.
LEMMA CodexPref ==
    ASSUME NEW d, NEW o, Codex(d, o), NEW x \in Sets \cup {None}, NEW e, e = [d EXCEPT !.pref = x]
    PROVE  /\ Codex(e, o) /\ e.pref = x /\ e.cfg = d.cfg /\ e.rec = d.rec
           /\ X!GateModels(e) = X!GateModels(d) /\ X!Drifted(e) = X!Drifted(d)
<1>1. e = Disk(x, d.cfg, d.env, d.rec, d.cat)
  BY Opened DEF Codex, CodexShape, Disk
<1>2. IsDisk(e) /\ e.pref = x /\ e.cfg = d.cfg /\ e.env = d.env /\ e.rec = d.rec /\ e.cat = d.cat
  BY <1>1, Parts
<1> QED
  BY <1>2 DEF Codex, CodexShape, CodexLegal, X!GateModels, X!Drifted, X!HasConnectKey

\* The catalog written, or with no Gate models in the file taken away.
LEMMA CodexCatalog ==
    ASSUME NEW d, NEW o, Codex(d, o), NEW x \in Sets \cup {None}, NEW e, e = [d EXCEPT !.cat = x],
           X!GateModels(d) # None => x # None
    PROVE  /\ Codex(e, o) /\ e.pref = d.pref /\ e.cfg = d.cfg /\ e.rec = d.rec /\ e.cat = x
           /\ e.env = d.env
           /\ X!GateModels(e) = X!GateModels(d) /\ X!Drifted(e) = X!Drifted(d)
<1>1. e = Disk(d.pref, d.cfg, d.env, d.rec, x)
  BY Opened DEF Codex, CodexShape, Disk
<1>2. IsDisk(e) /\ e.pref = d.pref /\ e.cfg = d.cfg /\ e.env = d.env /\ e.rec = d.rec /\ e.cat = x
  BY <1>1, Parts
<1> QED
  BY <1>2 DEF Codex, CodexShape, CodexLegal, X!GateModels, X!Drifted, X!HasConnectKey

\* Leaving Gate models: the disk written, then that it gives the values back.
LEMMA CodexRevertForm ==
    ASSUME NEW d, IsDisk(d), X!GateModels(d) # None
    PROVE  X!Revert(d) = Disk(d.pref,
              [d.cfg EXCEPT
                 !.model = IF d.cfg.model \in Members(d.rec.models.ids) \cup {None}
                           THEN d.rec.models.previous ELSE d.cfg.model,
                 !.catalog = IF d.cfg.catalog = X!Ours THEN d.rec.models.catalog ELSE d.cfg.catalog],
              d.env, [d.rec EXCEPT !.models = None], d.cat)
<1> DEFINE m == IF d.cfg.model \in Members(d.rec.models.ids) \cup {None}
                THEN d.rec.models.previous ELSE d.cfg.model
           k == IF d.cfg.catalog = X!Ours THEN d.rec.models.catalog ELSE d.cfg.catalog
<1>1. d.rec # None /\ X!GateModels(d) = d.rec.models
  BY DEF X!GateModels
<1>2. X!Revert(d) = [d EXCEPT !.cfg.model = m, !.cfg.catalog = k, !.rec.models = None]
  BY <1>1 DEF X!Revert, X!Members, Members
<1> HIDE DEF m, k
<1>3. X!Revert(d) = Disk(d.pref, [d.cfg EXCEPT !.model = m, !.catalog = k], d.env,
                         [d.rec EXCEPT !.models = None], d.cat)
  <2>1. d = [pref |-> d.pref, cfg |-> d.cfg, env |-> d.env, rec |-> d.rec, cat |-> d.cat]
    BY Opened
  <2> QED
    BY <1>2, <2>1 DEF Disk
<1> QED
  BY <1>3 DEF m, k

LEMMA CodexRevert ==
    ASSUME NEW d, NEW o, CodexOwn(o), Codex(d, o), NEW e, e = X!Revert(d)
    PROVE  /\ Codex(e, o) /\ X!GateModels(e) = None /\ e.pref = d.pref /\ e.cat = d.cat
           /\ e.cfg.model = o.model /\ e.cfg.catalog = o.catalog
           /\ e.cfg.pointer = d.cfg.pointer /\ e.cfg.block = d.cfg.block
           /\ d.rec = None => e = d
           /\ d.rec # None => e.rec # None /\ e.rec.stub = d.rec.stub /\ e.rec.prev = d.rec.prev
           /\ X!HasConnectKey(e) = X!HasConnectKey(d)
<1>1. CASE X!GateModels(d) = None
  <2>1. e = d
    BY <1>1 DEF X!Revert
  <2> QED
    BY <1>1, <2>1 DEF Codex, CodexLegal
<1>2. CASE X!GateModels(d) # None
  <2>1. d.rec # None /\ d.rec.models # None
    BY <1>2 DEF X!GateModels
  <2> DEFINE m == IF d.cfg.model \in Members(d.rec.models.ids) \cup {None}
                  THEN d.rec.models.previous ELSE d.cfg.model
             k == IF d.cfg.catalog = X!Ours THEN d.rec.models.catalog ELSE d.cfg.catalog
             c == [d.cfg EXCEPT !.model = m, !.catalog = k]
             r == [d.rec EXCEPT !.models = None]
  <2>2. e = Disk(d.pref, c, d.env, r, d.cat)
    BY <1>2, CodexRevertForm DEF Codex, CodexShape
  <2>3. /\ Shaped(c, CodexKeys) /\ c.model = m /\ c.catalog = k /\ c.pointer = d.cfg.pointer
        /\ c.block = d.cfg.block
    <3> HIDE DEF m, k
    <3> QED
      BY DEF Codex, CodexShape, Shaped, X!Slots, CodexKeys
  <2>4. /\ r \in X!Records /\ r # None /\ r.models = None /\ r.stub = d.rec.stub /\ r.prev = d.rec.prev
    <3>1. /\ d.rec = [stub |-> d.rec.stub, prev |-> d.rec.prev, models |-> d.rec.models]
          /\ d.rec.stub \in BOOLEAN /\ d.rec.prev \in {<<>>} \cup {<<v>> : v \in UserRoutes \cup {None}}
      BY <2>1, CodexRec DEF Codex
    <3>2. r = [stub |-> d.rec.stub, prev |-> d.rec.prev, models |-> None]
      BY <3>1
    <3>3. r \in X!Records
      BY <3>1, <3>2 DEF X!Records
    <3> QED
      BY <3>2, <3>3, NoRecord
  <2>5. m = o.model /\ k = o.catalog
    BY <1>2 DEF Codex, CodexLegal
  <2> HIDE DEF c, r
  <2>6. IsDisk(e) /\ e.pref = d.pref /\ e.cfg = c /\ e.env = d.env /\ e.rec = r /\ e.cat = d.cat
    BY <2>2, Parts
  <2> HIDE DEF m, k
  <2>7. CodexShape(e) /\ X!GateModels(e) = None
    BY <2>3, <2>4, <2>6 DEF Codex, CodexShape, X!GateModels
  <2>8. X!HasConnectKey(e) = X!HasConnectKey(d)
    BY <2>1, <2>4, <2>6 DEF X!HasConnectKey
  <2>9. CodexLegal(e, o)
    BY <2>3, <2>4, <2>5, <2>6, <2>7, <2>8 DEF Codex, CodexLegal
  <2> QED
    BY <2>1, <2>3, <2>4, <2>5, <2>6, <2>7, <2>8, <2>9 DEF Codex
<1> QED
  BY <1>1, <1>2

\* The block and the pointer written: the disk, then that it keeps the values.
LEMMA CodexRouteForm ==
    ASSUME NEW d, IsDisk(d), NEW p
    PROVE  X!Route(d, p) = Disk(d.pref,
              [d.cfg EXCEPT !.pointer = X!Gate,
                            !.block = IF d.pref = None THEN X!Relay(p) ELSE X!Served(p)],
              d.env,
              [stub |-> FALSE, models |-> X!GateModels(d),
               prev |-> IF X!HasConnectKey(d) /\ d.cfg.pointer = X!Gate THEN d.rec.prev
                        ELSE <<IF d.cfg.pointer = X!Gate THEN None ELSE d.cfg.pointer>>],
              d.cat)
<1> DEFINE b == IF d.pref = None THEN X!Relay(p) ELSE X!Served(p)
           r == [stub |-> FALSE, models |-> X!GateModels(d),
                 prev |-> IF X!HasConnectKey(d) /\ d.cfg.pointer = X!Gate THEN d.rec.prev
                          ELSE <<IF d.cfg.pointer = X!Gate THEN None ELSE d.cfg.pointer>>]
<1>1. X!Route(d, p) = [d EXCEPT !.cfg.pointer = X!Gate, !.cfg.block = b, !.rec = r]
  BY DEF X!Route
<1> HIDE DEF r, b
<1>2. d = [pref |-> d.pref, cfg |-> d.cfg, env |-> d.env, rec |-> d.rec, cat |-> d.cat]
  BY Opened
<1>3. X!Route(d, p) = Disk(d.pref, [d.cfg EXCEPT !.pointer = X!Gate, !.block = b], d.env, r, d.cat)
  BY <1>1, <1>2 DEF Disk
<1> QED
  BY <1>3 DEF r, b

LEMMA CodexRoute ==
    ASSUME NEW d, NEW o, CodexOwn(o), Codex(d, o), NEW p \in Ports, NEW e, e = X!Route(d, p)
    PROVE  /\ Codex(e, o) /\ e.pref = d.pref /\ e.env = d.env /\ e.cat = d.cat
           /\ e.cfg.pointer = X!Gate /\ e.cfg.block = (IF d.pref = None THEN Relay(p) ELSE Served(p))
           /\ e.cfg.model = d.cfg.model /\ e.cfg.catalog = d.cfg.catalog
           /\ e.rec = [stub |-> FALSE, models |-> X!GateModels(d), prev |-> <<o.pointer>>]
           /\ e.rec # None /\ X!HasConnectKey(e) /\ X!GateModels(e) = X!GateModels(d)
<1> DEFINE b == IF d.pref = None THEN X!Relay(p) ELSE X!Served(p)
           v == IF X!HasConnectKey(d) /\ d.cfg.pointer = X!Gate THEN d.rec.prev
                ELSE <<IF d.cfg.pointer = X!Gate THEN None ELSE d.cfg.pointer>>
           r == [stub |-> FALSE, models |-> X!GateModels(d), prev |-> v]
           c == [d.cfg EXCEPT !.pointer = X!Gate, !.block = b]
<1>1. e = Disk(d.pref, c, d.env, r, d.cat)
  BY CodexRouteForm DEF Codex, CodexShape
<1>2. v = <<o.pointer>>
  BY DEF Codex, CodexLegal
<1>3. X!GateModels(d) \in X!Models \cup {None}
  BY CodexRec DEF X!GateModels, Codex
<1>4. b = (IF d.pref = None THEN Relay(p) ELSE Served(p)) /\ b \in Blocks
  BY CodexKinds
<1> HIDE DEF v, b
<1>5. Shaped(c, CodexKeys) /\ c.pointer = X!Gate /\ c.block = b /\ c.model = d.cfg.model
      /\ c.catalog = d.cfg.catalog
  BY DEF Codex, CodexShape, Shaped, X!Slots, CodexKeys
<1>6. r \in X!Records /\ r # None
  <2>1. <<o.pointer>> \in {<<w>> : w \in UserRoutes \cup {None}}
    BY DEF CodexOwn
  <2>2. v \in {<<>>} \cup {<<w>> : w \in UserRoutes \cup {None}}
    BY <1>2, <2>1
  <2>3. r \in X!Records
    BY <1>3, <2>2 DEF X!Records
  <2> QED
    BY <2>3, NoRecord
<1>7. r.stub = FALSE /\ r.models = X!GateModels(d) /\ r.prev = <<o.pointer>>
      /\ r = [stub |-> FALSE, models |-> X!GateModels(d), prev |-> <<o.pointer>>]
  BY <1>2
<1> HIDE DEF r, c
<1>8. IsDisk(e) /\ e.pref = d.pref /\ e.cfg = c /\ e.env = d.env /\ e.rec = r /\ e.cat = d.cat
  BY <1>1, Parts
<1>9. CodexShape(e)
  BY <1>4, <1>5, <1>6, <1>8 DEF Codex, CodexShape
<1>10. X!HasConnectKey(e) /\ X!GateModels(e) = X!GateModels(d)
  BY <1>6, <1>7, <1>8 DEF X!HasConnectKey, X!GateModels
<1>11. X!GateModels(d) # None => d.rec # None /\ X!GateModels(d) = d.rec.models
  BY DEF X!GateModels
<1>12. CodexLegal(e, o)
  BY <1>5, <1>7, <1>8, <1>10, <1>11 DEF Codex, CodexLegal
<1> QED
  BY <1>4, <1>5, <1>6, <1>7, <1>8, <1>9, <1>10, <1>12 DEF Codex

\* The Gate models written: the disk, then that they are in place.
LEMMA CodexApplyForm ==
    ASSUME NEW d, IsDisk(d), d.rec # None,
           d.rec = [stub |-> d.rec.stub, prev |-> d.rec.prev, models |-> d.rec.models]
    PROVE  X!Apply(d) = Disk(d.pref,
              [d.cfg EXCEPT
                 !.model = Default(IF d.rec.models = None THEN None ELSE d.rec.models.ids,
                                   d.pref, d.cfg.model),
                 !.catalog = X!Ours],
              d.env,
              [stub |-> d.rec.stub, prev |-> d.rec.prev,
               models |-> [ids |-> d.pref,
                           previous |-> IF d.rec.models = None THEN d.cfg.model
                                        ELSE d.rec.models.previous,
                           catalog |-> IF d.rec.models = None THEN d.cfg.catalog
                                       ELSE d.rec.models.catalog]],
              d.cat)
<1> DEFINE m == Default(IF d.rec.models = None THEN None ELSE d.rec.models.ids,
                        d.pref, d.cfg.model)
           g == [ids |-> d.pref,
                 previous |-> IF d.rec.models = None THEN d.cfg.model ELSE d.rec.models.previous,
                 catalog |-> IF d.rec.models = None THEN d.cfg.catalog ELSE d.rec.models.catalog]
<1>1. X!GateModels(d) = d.rec.models
  BY DEF X!GateModels
<1>2. X!Apply(d) = [d EXCEPT !.cfg.model = m, !.cfg.catalog = X!Ours, !.rec.models = g]
  BY <1>1 DEF X!Apply, X!Default, Default, X!Members, Members
<1> HIDE DEF m, g
<1>3. X!Apply(d) = Disk(d.pref, [d.cfg EXCEPT !.model = m, !.catalog = X!Ours], d.env,
                        [d.rec EXCEPT !.models = g], d.cat)
  <2>1. d = [pref |-> d.pref, cfg |-> d.cfg, env |-> d.env, rec |-> d.rec, cat |-> d.cat]
    BY Opened
  <2> QED
    BY <1>2, <2>1 DEF Disk
<1>4. [d.rec EXCEPT !.models = g] = [stub |-> d.rec.stub, prev |-> d.rec.prev, models |-> g]
  OBVIOUS
<1> QED
  BY <1>3, <1>4 DEF m, g

LEMMA CodexApply ==
    ASSUME NEW d, NEW o, CodexOwn(o), Codex(d, o), d.pref \in Sets, d.cat # None, X!HasConnectKey(d),
           d.rec # None,
           d.rec.models # None => /\ d.cfg.catalog = X!Ours
                                  /\ d.cfg.model \in Members(d.rec.models.ids),
           NEW e, e = X!Apply(d)
    PROVE  /\ Codex(e, o) /\ e.pref = d.pref /\ e.env = d.env /\ e.cat = d.cat
           /\ e.cfg.pointer = d.cfg.pointer /\ e.cfg.block = d.cfg.block /\ e.cfg.catalog = X!Ours
           /\ e.cfg.model = Default(IF d.rec.models = None THEN None ELSE d.rec.models.ids,
                                    d.pref, d.cfg.model)
           /\ e.cfg.model \in Members(d.pref)
           /\ e.rec = [stub |-> d.rec.stub, prev |-> d.rec.prev,
                       models |-> [ids |-> d.pref, previous |-> o.model, catalog |-> o.catalog]]
           /\ e.rec # None /\ e.rec.models # None
<1> DEFINE m == Default(IF d.rec.models = None THEN None ELSE d.rec.models.ids,
                        d.pref, d.cfg.model)
           g == [ids |-> d.pref, previous |-> o.model, catalog |-> o.catalog]
           r == [stub |-> d.rec.stub, prev |-> d.rec.prev, models |-> g]
           c == [d.cfg EXCEPT !.model = m, !.catalog = X!Ours]
<1>1. /\ (IF d.rec.models = None THEN d.cfg.model ELSE d.rec.models.previous) = o.model
      /\ (IF d.rec.models = None THEN d.cfg.catalog ELSE d.rec.models.catalog) = o.catalog
  BY DEF Codex, CodexLegal, X!GateModels
<1>2. /\ d.rec = [stub |-> d.rec.stub, prev |-> d.rec.prev, models |-> d.rec.models]
      /\ d.rec.stub \in BOOLEAN
      /\ d.rec.prev \in {<<>>} \cup {<<v>> : v \in UserRoutes \cup {None}}
  BY CodexRec DEF Codex
<1>3. e = Disk(d.pref, c, d.env, r, d.cat)
  BY <1>1, <1>2, CodexApplyForm DEF Codex, CodexShape
<1>4. IsDisk(e) /\ e.pref = d.pref /\ e.cfg = c /\ e.env = d.env /\ e.rec = r /\ e.cat = d.cat
  BY <1>3, Parts
<1>5. m \in Members(d.pref)
  BY DefaultIn
<1> HIDE DEF m
<1>6. /\ Shaped(c, CodexKeys) /\ c.pointer = d.cfg.pointer /\ c.block = d.cfg.block
      /\ c.catalog = X!Ours /\ c.model = m
  BY DEF Codex, CodexShape, Shaped, X!Slots, CodexKeys
<1>7. g \in X!Models /\ g # None /\ g.ids = d.pref /\ g.previous = o.model /\ g.catalog = o.catalog
  BY SetsServed, NoRecord DEF X!Models, CodexOwn
<1> HIDE DEF g
<1>8. r \in X!Records /\ r # None /\ r.stub = d.rec.stub /\ r.prev = d.rec.prev /\ r.models = g
  BY <1>2, <1>7, NoRecord DEF X!Records
<1> HIDE DEF r, c
<1>9. CodexShape(e)
  BY <1>4, <1>6, <1>8 DEF Codex, CodexShape
<1>10. X!HasConnectKey(e) /\ X!GateModels(e) = g
  BY <1>4, <1>8 DEF X!HasConnectKey, X!GateModels
<1>11. CodexLegal(e, o)
  BY <1>4, <1>5, <1>6, <1>7, <1>8, <1>10 DEF Codex, CodexLegal
<1> QED
  BY <1>4, <1>5, <1>6, <1>7, <1>8, <1>9, <1>11 DEF Codex, m, r, g

\* What a connect leaves on Gate models.
CodexOn(e, o, p) ==
    /\ Codex(e, o) /\ e.pref # None /\ e.cat = e.pref
    /\ e.cfg.pointer = X!Gate /\ e.cfg.block = Served(p) /\ e.cfg.catalog = X!Ours
    /\ e.rec # None
    /\ e.rec = [stub |-> FALSE, prev |-> <<o.pointer>>,
                models |-> [ids |-> e.pref, previous |-> o.model, catalog |-> o.catalog]]
    /\ e.rec.models # None /\ e.cfg.model \in Members(e.pref)

\* And off them.
CodexOff(e, o, p) ==
    /\ Codex(e, o) /\ e.pref = None /\ e.cat = None
    /\ e.cfg.pointer = X!Gate /\ e.cfg.block = Relay(p) /\ e.rec # None
    /\ e.rec = [stub |-> FALSE, prev |-> <<o.pointer>>, models |-> None]

\* Connecting again writes nothing, on Gate models and off them.
LEMMA CodexOnStays ==
    ASSUME NEW e, NEW o, CodexOwn(o), NEW p \in Ports, CodexOn(e, o, p)
    PROVE  X!Aimed(e, p) /\ ~X!Drifted(e) /\ X!Connect(e, p) = <<>>
<1>1. /\ X!HasConnectKey(e) /\ X!GateModels(e) = e.rec.models /\ e.rec.models.ids = e.pref
      /\ e.rec.stub = FALSE
  BY DEF CodexOn, X!HasConnectKey, X!GateModels
<1>2. X!IsServed(e.cfg.block) /\ e.cfg.block = X!Served(p)
  BY CodexKinds DEF CodexOn
<1>3. ~X!Drifted(e)
  BY <1>1, <1>2 DEF CodexOn, X!Drifted, X!Members, Members
<1>4. X!Aimed(e, p)
  BY <1>1, <1>2, <1>3 DEF CodexOn, X!Aimed, X!Managed
<1>5. PICK r : r = X!Route(e, p)
  OBVIOUS
<1>6. /\ Codex(r, o) /\ r.pref = e.pref /\ r.env = e.env /\ r.cat = e.cat
      /\ r.cfg.pointer = X!Gate /\ r.cfg.block = Served(p)
      /\ r.cfg.model = e.cfg.model /\ r.cfg.catalog = e.cfg.catalog
      /\ r.rec = [stub |-> FALSE, models |-> X!GateModels(e), prev |-> <<o.pointer>>]
      /\ r.rec # None /\ X!HasConnectKey(r)
  BY <1>5, CodexRoute DEF CodexOn
<1>7. PICK a : a = X!Apply(r)
  OBVIOUS
<1>8. /\ r.pref \in Sets /\ r.cat # None
      /\ r.rec.models = e.rec.models /\ r.rec.models # None
      /\ r.cfg.catalog = X!Ours /\ r.cfg.model \in Members(r.rec.models.ids)
  BY <1>1, <1>6 DEF CodexOn, Codex, CodexShape
<1>9. /\ Codex(a, o) /\ a.pref = r.pref /\ a.env = r.env /\ a.cat = r.cat
      /\ a.cfg.pointer = r.cfg.pointer /\ a.cfg.block = r.cfg.block /\ a.cfg.catalog = X!Ours
      /\ a.cfg.model = Default(IF r.rec.models = None THEN None ELSE r.rec.models.ids,
                               r.pref, r.cfg.model)
      /\ a.rec = [stub |-> r.rec.stub, prev |-> r.rec.prev,
                  models |-> [ids |-> r.pref, previous |-> o.model, catalog |-> o.catalog]]
  <2>1. /\ Codex(r, o) /\ r.pref \in Sets /\ r.cat # None /\ X!HasConnectKey(r) /\ r.rec # None
        /\ r.rec.models # None => /\ r.cfg.catalog = X!Ours
                                  /\ r.cfg.model \in Members(r.rec.models.ids)
    BY <1>6, <1>8
  <2> QED
    BY <1>7, <2>1, CodexApply
<1>10. a.cfg = e.cfg
  <2>1. a.cfg.model = e.cfg.model
    BY <1>1, <1>6, <1>8, <1>9 DEF Default
  <2>2. \A s \in CodexKeys : a.cfg[s] = e.cfg[s]
    BY <1>6, <1>9, <2>1 DEF CodexKeys, X!Slots, CodexOn
  <2> QED
    BY <1>9, <2>2 DEF CodexOn, Codex, CodexShape, Shaped
<1>11. a.rec = e.rec
  BY <1>6, <1>9 DEF CodexOn
<1>12. a = e
  <2>1. a = Disk(a.pref, a.cfg, a.env, a.rec, a.cat) /\ e = Disk(e.pref, e.cfg, e.env, e.rec, e.cat)
    BY <1>9 DEF CodexOn, Codex, CodexShape, IsDisk
  <2> QED
    BY <1>6, <1>9, <1>10, <1>11, <2>1
<1>13. [e EXCEPT !.cat = e.pref] = e
  <2>1. e = [pref |-> e.pref, cfg |-> e.cfg, env |-> e.env, rec |-> e.rec, cat |-> e.cat]
    BY Opened DEF CodexOn, Codex, CodexShape
  <2> QED
    BY <2>1 DEF CodexOn
<1>14. X!Connect(e, p) = X!Write(e, e) \o (X!Write(e, e) \o X!Write(e, e))
  <2>1. PICK c : c = [e EXCEPT !.cat = e.pref]
    OBVIOUS
  <2>2. X!Connect(e, p) = X!Write(e, e) \o (X!Write(e, c) \o X!Write(c, X!Apply(X!Route(c, p))))
    BY <1>3, <2>1 DEF X!Connect, CodexOn
  <2> QED
    BY <1>5, <1>7, <1>12, <1>13, <2>1, <2>2
<1> QED
  BY <1>3, <1>4, <1>14 DEF X!Write

LEMMA CodexOffStays ==
    ASSUME NEW e, NEW o, CodexOwn(o), NEW p \in Ports, CodexOff(e, o, p)
    PROVE  X!Aimed(e, p) /\ ~X!Drifted(e) /\ X!Connect(e, p) = <<>>
<1>1. X!HasConnectKey(e) /\ X!GateModels(e) = None /\ e.rec.stub = FALSE
  BY DEF CodexOff, X!HasConnectKey, X!GateModels
<1>2. X!IsRelay(e.cfg.block) /\ e.cfg.block = X!Relay(p)
  BY CodexKinds DEF CodexOff
<1>3. ~X!Drifted(e)
  BY <1>1 DEF X!Drifted
<1>4. X!Aimed(e, p)
  BY <1>1, <1>2 DEF CodexOff, X!Aimed, X!Managed
<1>5. PICK r : r = X!Route(e, p)
  OBVIOUS
<1>6. /\ Codex(r, o) /\ r.pref = e.pref /\ r.env = e.env /\ r.cat = e.cat
      /\ r.cfg.pointer = X!Gate /\ r.cfg.block = Relay(p)
      /\ r.cfg.model = e.cfg.model /\ r.cfg.catalog = e.cfg.catalog
      /\ r.rec = [stub |-> FALSE, models |-> X!GateModels(e), prev |-> <<o.pointer>>]
      /\ X!GateModels(r) = None
  BY <1>1, <1>5, CodexRoute DEF CodexOff
<1>7. r.cfg = e.cfg
  <2>1. \A s \in CodexKeys : r.cfg[s] = e.cfg[s]
    BY <1>6 DEF CodexKeys, X!Slots, CodexOff
  <2> QED
    BY <1>6, <2>1 DEF CodexOff, Codex, CodexShape, Shaped
<1>8. r.rec = e.rec
  BY <1>1, <1>6 DEF CodexOff
<1>9. r = e
  <2>1. r = Disk(r.pref, r.cfg, r.env, r.rec, r.cat) /\ e = Disk(e.pref, e.cfg, e.env, e.rec, e.cat)
    BY <1>6 DEF CodexOff, Codex, CodexShape, IsDisk
  <2> QED
    BY <1>6, <1>7, <1>8, <2>1
<1>10. X!Revert(e) = e
  BY <1>1 DEF X!Revert
<1>11. X!RemoveCatalog(e) = e
  <2>1. e = [pref |-> e.pref, cfg |-> e.cfg, env |-> e.env, rec |-> e.rec, cat |-> e.cat]
    BY Opened DEF CodexOff, Codex, CodexShape
  <2> QED
    BY <2>1 DEF CodexOff, X!RemoveCatalog
<1>12. X!Connect(e, p) = X!Write(e, e) \o (X!Write(e, e) \o X!Write(e, e))
  <2>1. PICK c : c = X!Revert(X!Route(e, p))
    OBVIOUS
  <2>2. X!Connect(e, p) = X!Write(e, e) \o (X!Write(e, c) \o X!Write(c, X!RemoveCatalog(c)))
    BY <1>3, <2>1 DEF X!Connect, CodexOff
  <2> QED
    BY <1>5, <1>9, <1>10, <1>11, <2>1, <2>2
<1> QED
  BY <1>3, <1>4, <1>12 DEF X!Write

\* A connect, whatever of it is done.
LEMMA CodexConnect ==
    ASSUME NEW d, NEW o, CodexOwn(o), Codex(d, o), NEW p \in Ports, NEW s, s = X!Connect(d, p),
           NEW e, e = After(d, s)
    PROVE  /\ Path(s)
           /\ \A x \in Members(s) : /\ Codex(x, o)
                                    /\ ~X!Drifted(d) => ~X!Drifted(x) /\ x.pref = d.pref
           /\ Codex(e, o) /\ X!Aimed(e, p) /\ ~X!Drifted(e) /\ X!Connect(e, p) = <<>>
<1>1. PICK f : f = IF X!Drifted(d) THEN X!Settled(d) ELSE d
  OBVIOUS
<1>2. /\ Codex(f, o) /\ f.cfg = d.cfg /\ f.rec = d.rec /\ X!GateModels(f) = X!GateModels(d)
      /\ (X!Drifted(f) <=> X!Drifted(d)) /\ (X!Drifted(d) => f.pref = None) /\ (~X!Drifted(d) => f = d)
  BY <1>1, CodexPref DEF X!Settled
<1>5. CASE f.pref = None
  <2>1. PICK r : r = X!Route(f, p)
    OBVIOUS
  <2>2. PICK g : g = X!Revert(r)
    OBVIOUS
  <2>3. PICK k : k = X!RemoveCatalog(g)
    OBVIOUS
  <2>4. /\ Codex(r, o) /\ r.pref = None /\ r.cfg.pointer = X!Gate /\ r.cfg.block = Relay(p)
        /\ r.rec = [stub |-> FALSE, models |-> X!GateModels(f), prev |-> <<o.pointer>>]
        /\ r.rec # None
    BY <1>2, <1>5, <2>1, CodexRoute
  <2>5. /\ Codex(g, o) /\ X!GateModels(g) = None /\ g.pref = None
        /\ g.cfg.pointer = X!Gate /\ g.cfg.block = Relay(p)
        /\ g.rec # None /\ g.rec.stub = FALSE /\ g.rec.prev = <<o.pointer>>
    BY <2>2, <2>4, CodexRevert
  <2>6. g.rec = [stub |-> FALSE, prev |-> <<o.pointer>>, models |-> None]
    BY <2>5, CodexRec DEF Codex
  <2>7. /\ Codex(k, o) /\ k.pref = None /\ k.cfg = g.cfg /\ k.rec = g.rec /\ k.cat = None
        /\ X!GateModels(k) = None
    <3>1. k = [g EXCEPT !.cat = None]
      BY <2>3 DEF X!RemoveCatalog
    <3> QED
      BY <2>5, <3>1, CodexCatalog
  <2>8. CodexOff(k, o, p)
    BY <2>5, <2>6, <2>7 DEF CodexOff
  <2>9. X!Aimed(k, p) /\ ~X!Drifted(k) /\ X!Connect(k, p) = <<>>
    BY <2>8, CodexOffStays
  <2>10. ~X!Drifted(g)
    BY <2>5 DEF X!Drifted
  <2>11. s = Write(d, f) \o (Write(f, g) \o Write(g, k))
    BY <1>1, <1>5, <2>1, <2>2, <2>3 DEF X!Connect, X!Write, Write
  <2>12. Path(s) /\ Members(s) \subseteq {f, g, k} /\ e = k
    BY <2>11, ThreeWrites
  <2> QED
    BY <1>2, <1>5, <2>5, <2>7, <2>9, <2>10, <2>12
<1>6. CASE f.pref # None
  <2>1. ~X!Drifted(d) /\ f = d /\ f.pref \in Sets /\ ~X!Drifted(f)
    BY <1>2, <1>6 DEF Codex, CodexShape
  <2>2. PICK c : c = [f EXCEPT !.cat = f.pref]
    OBVIOUS
  <2>3. PICK r : r = X!Route(c, p)
    OBVIOUS
  <2>4. PICK a : a = X!Apply(r)
    OBVIOUS
  <2>5. /\ Codex(c, o) /\ c.pref = f.pref /\ c.cfg = f.cfg /\ c.rec = f.rec /\ c.cat = f.pref
        /\ X!GateModels(c) = X!GateModels(f) /\ ~X!Drifted(c)
    BY <1>2, <1>6, <2>1, <2>2, CodexCatalog
  <2>6. /\ Codex(r, o) /\ r.pref = f.pref /\ r.cat = f.pref
        /\ r.cfg.pointer = X!Gate /\ r.cfg.block = Served(p)
        /\ r.cfg.model = c.cfg.model /\ r.cfg.catalog = c.cfg.catalog
        /\ r.rec = [stub |-> FALSE, models |-> X!GateModels(c), prev |-> <<o.pointer>>]
        /\ r.rec # None /\ X!HasConnectKey(r)
    BY <1>6, <2>3, <2>5, CodexRoute
  <2>7. r.rec.models # None => r.cfg.catalog = X!Ours /\ r.cfg.model \in Members(r.rec.models.ids)
    BY <2>5, <2>6 DEF X!Drifted, X!Members, Members
  <2>8. /\ Codex(a, o) /\ a.pref = r.pref /\ a.cat = r.cat
        /\ a.cfg.pointer = r.cfg.pointer /\ a.cfg.block = r.cfg.block /\ a.cfg.catalog = X!Ours
        /\ a.cfg.model \in Members(r.pref)
        /\ a.rec = [stub |-> r.rec.stub, prev |-> r.rec.prev,
                    models |-> [ids |-> r.pref, previous |-> o.model, catalog |-> o.catalog]]
        /\ a.rec # None /\ a.rec.models # None
    <3>1. Codex(r, o) /\ r.pref \in Sets /\ r.cat # None /\ X!HasConnectKey(r) /\ r.rec # None
      BY <1>6, <2>1, <2>6
    <3> QED
      BY <2>4, <2>7, <3>1, CodexApply
  <2>9. CodexOn(a, o, p)
    BY <1>6, <2>6, <2>8 DEF CodexOn
  <2>10. X!Aimed(a, p) /\ ~X!Drifted(a) /\ X!Connect(a, p) = <<>>
    BY <2>9, CodexOnStays
  <2>11. s = Write(d, f) \o (Write(f, c) \o Write(c, a))
    BY <1>1, <1>6, <2>2, <2>3, <2>4 DEF X!Connect, X!Write, Write
  <2>12. Path(s) /\ Members(s) \subseteq {f, c, a} /\ e = a
    BY <2>11, ThreeWrites
  <2> QED
    BY <1>2, <2>1, <2>5, <2>6, <2>8, <2>10, <2>12
<1> QED
  BY <1>5, <1>6

\* A return to the user's models.
LEMMA CodexLeave ==
    ASSUME NEW d, NEW o, CodexOwn(o), Codex(d, o), NEW p \in Ports, NEW s, s = X!Leave(d, p),
           NEW e, e = After(d, s)
    PROVE  /\ Path(s)
           /\ \A x \in Members(s) : Codex(x, o) /\ ~X!Drifted(x) /\ x.pref = d.pref
           /\ Codex(e, o) /\ X!GateModels(e) = None /\ e.cfg.model = o.model /\ e.pref = d.pref
<1>1. PICK r : r = X!Revert(d)
  OBVIOUS
<1>2. Codex(r, o) /\ X!GateModels(r) = None /\ r.cfg.model = o.model /\ r.pref = d.pref
  BY <1>1, CodexRevert
<1> DEFINE b == IF X!IsServed(r.cfg.block) THEN X!Relay(p) ELSE r.cfg.block
           c == [r.cfg EXCEPT !.block = b]
<1>3. b \in Blocks
  BY <1>2, CodexKinds DEF Codex, CodexShape
<1>4. PICK x : x = [r EXCEPT !.cfg.block = b]
  OBVIOUS
<1>5. PICK k : k = X!RemoveCatalog(x)
  OBVIOUS
<1>6. s = Write(d, x) \o Write(x, k)
  BY <1>1, <1>4, <1>5 DEF X!Leave, X!Write, Write
<1> HIDE DEF b
<1>7. x = Disk(r.pref, c, r.env, r.rec, r.cat)
  <2>1. r = [pref |-> r.pref, cfg |-> r.cfg, env |-> r.env, rec |-> r.rec, cat |-> r.cat]
    BY <1>2, Opened DEF Codex, CodexShape
  <2> QED
    BY <1>4, <2>1 DEF Disk
<1>8. /\ Shaped(c, CodexKeys) /\ c.pointer = r.cfg.pointer /\ c.model = r.cfg.model
      /\ c.catalog = r.cfg.catalog /\ c.block = b
  BY <1>2 DEF Codex, CodexShape, Shaped, X!Slots, CodexKeys
<1> HIDE DEF c
<1>9. IsDisk(x) /\ x.pref = r.pref /\ x.cfg = c /\ x.env = r.env /\ x.rec = r.rec /\ x.cat = r.cat
  BY <1>7, Parts
<1>10. Codex(x, o) /\ X!GateModels(x) = None
  BY <1>2, <1>3, <1>8, <1>9 DEF Codex, CodexShape, CodexLegal, X!GateModels, X!HasConnectKey
<1>11. Codex(k, o) /\ k.pref = x.pref /\ k.cfg = x.cfg /\ X!GateModels(k) = None
  <2>1. k = [x EXCEPT !.cat = None]
    BY <1>5 DEF X!RemoveCatalog
  <2> QED
    BY <1>10, <2>1, CodexCatalog
<1>12. ~X!Drifted(x) /\ ~X!Drifted(k)
  BY <1>10, <1>11 DEF X!Drifted
<1>13. Path(s) /\ Members(s) \subseteq {x, k} /\ e = k
  BY <1>6, TwoWrites
<1> QED
  BY <1>2, <1>8, <1>9, <1>10, <1>11, <1>12, <1>13

\* A disconnect gives every value back.
LEMMA CodexDisconnect ==
    ASSUME NEW d, NEW o, CodexOwn(o), Codex(d, o), NEW s, s = X!Disconnect(d), NEW e, e = After(d, s)
    PROVE  /\ Path(s)
           /\ \A x \in Members(s) : Codex(x, o) /\ ~X!Drifted(x) /\ x.pref = d.pref
           /\ Codex(e, o) /\ X!Clean(e) /\ \A k \in X!Slots : e.cfg[k] = o[k]
<1>1. PICK r : r = X!Revert(d)
  OBVIOUS
<1>2. /\ Codex(r, o) /\ X!GateModels(r) = None /\ r.cfg.model = o.model
      /\ r.cfg.catalog = o.catalog /\ r.pref = d.pref
  BY <1>1, CodexRevert
<1> DEFINE t == IF r.cfg.pointer # X!Gate THEN r.cfg.pointer
                ELSE IF X!HasConnectKey(r) THEN r.rec.prev[1] ELSE None
           b == IF r.cfg.block # None THEN X!Stub ELSE None
           n == IF r.cfg.block # None THEN [stub |-> TRUE, prev |-> <<>>, models |-> None] ELSE None
           c == [r.cfg EXCEPT !.pointer = t, !.block = b]
<1>3. t = o.pointer
  BY <1>2 DEF Codex, CodexLegal
<1>4. b \in {None, X!Stub} /\ b \in Blocks
  BY DEF Blocks
<1>5. n \in X!Records \cup {None} /\ (n # None => n.models = None /\ n.prev = <<>>)
  <2>1. [stub |-> TRUE, prev |-> <<>>, models |-> None] \in X!Records
    BY DEF X!Records
  <2> QED
    BY <2>1
<1>6. PICK x : x = [r EXCEPT !.cfg.pointer = t, !.cfg.block = b, !.rec = n]
  OBVIOUS
<1>7. PICK k : k = X!RemoveCatalog(x)
  OBVIOUS
<1>8. s = Write(d, x) \o Write(x, k)
  <2>1. PICK y : y = [r EXCEPT !.cfg.pointer = IF @ # X!Gate THEN @
                                               ELSE IF X!HasConnectKey(r) THEN r.rec.prev[1] ELSE None,
                               !.cfg.block = IF r.cfg.block # None THEN X!Stub ELSE None,
                               !.rec = IF r.cfg.block # None
                                       THEN [stub |-> TRUE, prev |-> <<>>, models |-> None] ELSE None]
    OBVIOUS
  <2>2. s = Write(d, y) \o Write(y, X!RemoveCatalog(y))
    <3>1. PICK z : z = [X!Revert(d) EXCEPT !.cfg.pointer = IF @ # X!Gate THEN @
                                   ELSE IF X!HasConnectKey(X!Revert(d))
                                    THEN X!Revert(d).rec.prev[1] ELSE None,
                               !.cfg.block = IF X!Revert(d).cfg.block # None THEN X!Stub ELSE None,
                               !.rec = IF X!Revert(d).cfg.block # None
                                       THEN [stub |-> TRUE, prev |-> <<>>, models |-> None] ELSE None]
      OBVIOUS
    <3>2. X!Disconnect(d) = X!Write(d, z) \o X!Write(z, X!RemoveCatalog(z))
      BY <3>1 DEF X!Disconnect
    <3>3. z = y
      BY <1>1, <2>1, <3>1
    <3> QED
      BY <3>2, <3>3 DEF X!Write, Write
  <2>3. y = x
    BY <1>6, <2>1
  <2> QED
    BY <1>7, <2>2, <2>3
<1> HIDE DEF t, b, n
<1>9. x = Disk(r.pref, c, r.env, n, r.cat)
  <2>1. r = [pref |-> r.pref, cfg |-> r.cfg, env |-> r.env, rec |-> r.rec, cat |-> r.cat]
    BY <1>2, Opened DEF Codex, CodexShape
  <2> QED
    BY <1>6, <2>1 DEF Disk
<1>10. /\ Shaped(c, CodexKeys) /\ c.pointer = t /\ c.model = r.cfg.model
       /\ c.catalog = r.cfg.catalog /\ c.block = b
  BY <1>2 DEF Codex, CodexShape, Shaped, X!Slots, CodexKeys
<1> HIDE DEF c
<1>11. IsDisk(x) /\ x.pref = r.pref /\ x.cfg = c /\ x.env = r.env /\ x.rec = n /\ x.cat = r.cat
  BY <1>9, Parts
<1>12. X!GateModels(x) = None
  BY <1>5, <1>11 DEF X!GateModels
<1>13. Codex(x, o)
  BY <1>2, <1>3, <1>4, <1>5, <1>10, <1>11, <1>12, CodexKinds DEF Codex, CodexShape, CodexLegal, CodexOwn
<1>14. Codex(k, o) /\ k.pref = x.pref /\ k.cfg = x.cfg /\ X!GateModels(k) = None /\ k.cat = None
  <2>1. k = [x EXCEPT !.cat = None]
    BY <1>7 DEF X!RemoveCatalog
  <2> QED
    BY <1>12, <1>13, <2>1, CodexCatalog
<1>15. ~X!Drifted(x) /\ ~X!Drifted(k)
  BY <1>12, <1>14 DEF X!Drifted
<1>16. \A j \in X!Slots : k.cfg[j] = o[j]
  BY <1>2, <1>3, <1>10, <1>11, <1>14 DEF X!Slots
<1>17. X!Clean(k)
  BY <1>2, <1>3, <1>4, <1>10, <1>11, <1>14, CodexKinds DEF X!Clean, CodexOwn
<1>18. Path(s) /\ Members(s) \subseteq {x, k} /\ e = k
  BY <1>8, TwoWrites
<1> QED
  BY <1>2, <1>11, <1>13, <1>14, <1>15, <1>16, <1>17, <1>18

\* The user writes a value of their own.
LEMMA CodexEdit ==
    ASSUME NEW d, NEW o, CodexOwn(o), Codex(d, o), Shaped(o, X!Slots), NEW k \in X!Slots,
           NEW v \in May(k)
    PROVE  LET e == Disk(d.pref, [d.cfg EXCEPT ![k] = v], d.env, d.rec, d.cat)
               u == [o EXCEPT ![k] = v] IN
           Codex(e, u) /\ CodexOwn(u) /\ Shaped(u, X!Slots)
<1> DEFINE c == [d.cfg EXCEPT ![k] = v]
<1>0. PICK e, u : e = Disk(d.pref, c, d.env, d.rec, d.cat) /\ u = [o EXCEPT ![k] = v]
  OBVIOUS
<1>1. e = Disk(d.pref, c, d.env, d.rec, d.cat)
  BY <1>0
<1>2. Shaped(c, CodexKeys) /\ \A j \in CodexKeys : c[j] = IF j = k THEN v ELSE d.cfg[j]
  BY DEF Codex, CodexShape, Shaped, CodexKeys
<1>3. Shaped(u, X!Slots) /\ \A j \in X!Slots : u[j] = IF j = k THEN v ELSE o[j]
  BY <1>0 DEF Shaped
<1> HIDE DEF c
<1>4. IsDisk(e) /\ e.pref = d.pref /\ e.cfg = c /\ e.env = d.env /\ e.rec = d.rec /\ e.cat = d.cat
  BY <1>1, Parts
<1>5. /\ c.pointer = (IF k = "pointer" THEN v ELSE d.cfg.pointer)
      /\ c.catalog = (IF k = "catalog" THEN v ELSE d.cfg.catalog)
      /\ c.model = (IF k = "model" THEN v ELSE d.cfg.model) /\ c.block = d.cfg.block
      /\ u.pointer = (IF k = "pointer" THEN v ELSE o.pointer)
      /\ u.catalog = (IF k = "catalog" THEN v ELSE o.catalog)
      /\ u.model = (IF k = "model" THEN v ELSE o.model)
  BY <1>2, <1>3 DEF X!Slots, CodexKeys
<1>6. /\ k = "pointer" => v \in UserRoutes \cup {None}
      /\ k = "catalog" => v \in UserRoutes
      /\ k = "model" => v \in UserModels
  BY DEF May
<1>7. CodexOwn(u)
  BY <1>5, <1>6 DEF CodexOwn
<1>8. CodexShape(e)
  BY <1>2, <1>4, <1>5 DEF Codex, CodexShape
<1>9. X!GateModels(e) = X!GateModels(d) /\ (X!HasConnectKey(e) <=> X!HasConnectKey(d))
  BY <1>4 DEF X!GateModels, X!HasConnectKey
<1>10. k = "model" /\ X!GateModels(d) # None => v \notin Members(d.rec.models.ids) \cup {None}
  <2>1. X!GateModels(d) # None => d.rec # None /\ d.rec.models # None
    BY DEF X!GateModels
  <2> QED
    BY <1>6, <2>1, CodexRec, Apart DEF Codex
<1>11. (k = "pointer" => v # X!Gate) /\ (k = "catalog" => v # X!Ours)
  BY <1>6, CodexKinds
<1>12. CodexLegal(e, u)
  <2>1. IF c.pointer = X!Gate THEN X!HasConnectKey(d) /\ d.rec.prev = <<u.pointer>>
        ELSE c.pointer = u.pointer
    BY <1>5, <1>11 DEF Codex, CodexLegal
  <2>2. X!GateModels(d) = None => c.model = u.model /\ c.catalog = u.catalog
    BY <1>5 DEF Codex, CodexLegal
  <2>3. X!GateModels(d) # None =>
          /\ d.cat # None /\ X!HasConnectKey(d)
          /\ IF c.model \in Members(d.rec.models.ids) \cup {None}
             THEN d.rec.models.previous = u.model ELSE c.model = u.model
          /\ IF c.catalog = X!Ours
             THEN d.rec.models.catalog = u.catalog ELSE c.catalog = u.catalog
    BY <1>5, <1>10, <1>11 DEF Codex, CodexLegal
  <2> QED
    BY <1>4, <1>9, <2>1, <2>2, <2>3 DEF CodexLegal
<1> QED
  BY <1>0, <1>3, <1>7, <1>8, <1>12 DEF c, Codex

\* The tool picks another of the Gate models.
LEMMA CodexPick ==
    ASSUME NEW d, NEW o, CodexOwn(o), Codex(d, o), X!GateModels(d) # None, ~X!Drifted(d),
           NEW v \in Members(X!GateModels(d).ids),
           NEW e, e = Disk(d.pref, [d.cfg EXCEPT !["model"] = v], d.env, d.rec, d.cat)
    PROVE  Codex(e, o) /\ ~X!Drifted(e) /\ e.pref = d.pref
<1> DEFINE c == [d.cfg EXCEPT !["model"] = v]
<1>1. e = Disk(d.pref, c, d.env, d.rec, d.cat)
  OBVIOUS
<1>2. /\ Shaped(c, CodexKeys) /\ c.pointer = d.cfg.pointer /\ c.catalog = d.cfg.catalog
      /\ c.block = d.cfg.block /\ c.model = v
  BY DEF Codex, CodexShape, Shaped, X!Slots, CodexKeys
<1> HIDE DEF c
<1>3. IsDisk(e) /\ e.pref = d.pref /\ e.cfg = c /\ e.env = d.env /\ e.rec = d.rec /\ e.cat = d.cat
  BY <1>1, Parts
<1>4. /\ d.rec # None /\ d.rec.models # None /\ X!GateModels(d) = d.rec.models
      /\ d.cfg.model \in Members(d.rec.models.ids) /\ v \in Members(d.rec.models.ids)
  BY DEF X!GateModels, X!Drifted, X!Members, Members
<1>5. X!GateModels(e) = X!GateModels(d) /\ (X!HasConnectKey(e) <=> X!HasConnectKey(d))
  BY <1>3 DEF X!GateModels, X!HasConnectKey
<1>6. CodexShape(e) /\ CodexLegal(e, o)
  BY <1>2, <1>3, <1>4, <1>5 DEF Codex, CodexShape, CodexLegal
<1>7. ~X!Drifted(e)
  BY <1>2, <1>3, <1>4, <1>5 DEF X!Drifted, X!Members, Members
<1> QED
  BY <1>3, <1>6, <1>7 DEF Codex

\* A model of Gate's without its route is a drift.
LEMMA CodexDangling ==
    ASSUME NEW d, NEW o, CodexOwn(o), Codex(d, o), X!Dangling(d)
    PROVE  X!Drifted(d)
<1>1. CASE X!GateModels(d) = None
  <2>1. d.cfg.model = o.model /\ d.cfg.catalog = o.catalog
    BY <1>1 DEF Codex, CodexLegal
  <2>2. o.model \notin Ids /\ o.catalog # X!Ours
    BY CodexKinds, Apart DEF CodexOwn
  <2> QED
    BY <2>1, <2>2 DEF X!Dangling
<1>2. CASE X!GateModels(d) # None
  <2>1. d.cat # None
    BY <1>2 DEF Codex, CodexLegal
  <2> QED
    BY <1>2, <2>1 DEF X!Dangling, X!Drifted
<1> QED
  BY <1>1, <1>2

-----------------------------------------------------------------------------
(* The two tools as one. *)

\* The tools whose settings, models included, are in one file.
OneFile == {"claude", "codex"}

Legal(t, d, o) == IF t = "claude" THEN Claude(d, o) ELSE Codex(d, o)
Mine(t, o) == IF t = "claude" THEN Shaped(o, C!Slots) /\ OwnValues(o)
                              ELSE Shaped(o, X!Slots) /\ CodexOwn(o)

\* The operations of either.
ConnectOf(t, d, p) == IF t = "claude" THEN C!Connect(d, p) ELSE X!Connect(d, p)
DisconnectOf(t, d) == IF t = "claude" THEN C!Disconnect(d) ELSE X!Disconnect(d)
LeaveOf(t, d, p) == IF t = "claude" THEN C!Leave(d) ELSE X!Leave(d, p)
DriftedOf(t, d) == IF t = "claude" THEN C!Drifted(d) ELSE X!Drifted(d)
GateModelsOf(t, d) == IF t = "claude" THEN C!GateModels(d) ELSE X!GateModels(d)
AimedOf(t, d, p) == IF t = "claude" THEN C!Aimed(d, p) ELSE X!Aimed(d, p)
CleanOf(t, d) == IF t = "claude" THEN C!Clean(d) ELSE X!Clean(d)

\* The model's operations are those of the tool it is about.
LEMMA Forms ==
    ASSUME tool \in OneFile
    PROVE  \A d : /\ Connect(d) = ConnectOf(tool, d, port) /\ Disconnect(d) = DisconnectOf(tool, d)
                  /\ Leave(d) = LeaveOf(tool, d, port)
                  /\ Drifted(d) <=> DriftedOf(tool, d)
                  /\ GateModels(d) = GateModelsOf(tool, d)
                  /\ Aimed(d) <=> AimedOf(tool, d, port)
                  /\ Clean(d) <=> CleanOf(tool, d)
                  /\ ~Refused(d)
<1>1. CASE tool = "claude"
  BY <1>1 DEF Connect, ConnectOf, Disconnect, DisconnectOf, Leave, LeaveOf, Drifted, DriftedOf,
              GateModels, GateModelsOf, Aimed, AimedOf, Clean, CleanOf, Refused
<1>2. CASE tool = "codex"
  BY <1>2 DEF Connect, ConnectOf, Disconnect, DisconnectOf, Leave, LeaveOf, Drifted, DriftedOf,
              GateModels, GateModelsOf, Aimed, AimedOf, Clean, CleanOf, Refused
<1> QED
  BY <1>1, <1>2 DEF OneFile

LEMMA ConnectFacts ==
    ASSUME NEW t \in OneFile, NEW d, NEW o, Mine(t, o), Legal(t, d, o), NEW p \in Ports
    PROVE  LET s == ConnectOf(t, d, p)
               e == After(d, s) IN
           /\ Path(s)
           /\ \A x \in Members(s) : /\ Legal(t, x, o)
                                    /\ ~DriftedOf(t, d) => ~DriftedOf(t, x) /\ x.pref = d.pref
           /\ AimedOf(t, e, p) /\ ~DriftedOf(t, e) /\ ConnectOf(t, e, p) = <<>>
<1>1. CASE t = "claude"
  BY <1>1, ClaudeConnect DEF Legal, Mine, ConnectOf, DriftedOf, AimedOf
<1>2. CASE t = "codex"
  BY <1>2, CodexConnect DEF Legal, Mine, ConnectOf, DriftedOf, AimedOf
<1> QED
  BY <1>1, <1>2 DEF OneFile

LEMMA DisconnectFacts ==
    ASSUME NEW t \in OneFile, NEW d, NEW o, Mine(t, o), Legal(t, d, o)
    PROVE  LET s == DisconnectOf(t, d)
               e == After(d, s) IN
           /\ Path(s)
           /\ \A x \in Members(s) : Legal(t, x, o) /\ ~DriftedOf(t, x) /\ x.pref = d.pref
           /\ CleanOf(t, e) /\ \A k \in Slots(t) : Value(e, k) = o[k]
<1>1. CASE t = "claude"
  BY <1>1, ClaudeDisconnect
     DEF Legal, Mine, DisconnectOf, DriftedOf, CleanOf, Slots, Value, Claude, ClaudeShape
<1>2. CASE t = "codex"
  BY <1>2, CodexDisconnect
     DEF Legal, Mine, DisconnectOf, DriftedOf, CleanOf, Slots, Value, Codex, CodexShape
<1> QED
  BY <1>1, <1>2 DEF OneFile

LEMMA LeaveFacts ==
    ASSUME NEW t \in OneFile, NEW d, NEW o, Mine(t, o), Legal(t, d, o), NEW p \in Ports
    PROVE  LET s == LeaveOf(t, d, p)
               e == After(d, s) IN
           /\ Path(s)
           /\ \A x \in Members(s) : Legal(t, x, o) /\ ~DriftedOf(t, x) /\ x.pref = d.pref
           /\ GateModelsOf(t, e) = None /\ e.cfg.model = o.model
<1>1. CASE t = "claude"
  <2>1. Claude(d, o) /\ OwnValues(o)
    BY <1>1 DEF Legal, Mine
  <2> QED
    <3>1. PICK s, e : s = C!Leave(d) /\ e = After(d, s)
      OBVIOUS
    <3>2. /\ Path(s)
          /\ \A x \in Members(s) : Claude(x, o) /\ ~C!Drifted(x) /\ x.pref = d.pref
          /\ C!GateModels(e) = None /\ e.cfg.model = o.model
      BY <2>1, <3>1, ClaudeLeave
    <3> QED
      BY <1>1, <3>1, <3>2 DEF Legal, LeaveOf, DriftedOf, GateModelsOf
<1>2. CASE t = "codex"
  BY <1>2, CodexLeave DEF Legal, Mine, LeaveOf, DriftedOf, GateModelsOf
<1> QED
  BY <1>1, <1>2 DEF OneFile

LEMMA ChoiceFacts ==
    ASSUME NEW t \in OneFile, NEW d, NEW o, Mine(t, o), Legal(t, d, o), NEW x \in Sets \cup {None}
    PROVE  LET e == [d EXCEPT !.pref = x] IN
           Legal(t, e, o) /\ e.pref = x /\ (DriftedOf(t, e) <=> DriftedOf(t, d))
<1>1. CASE t = "claude"
  BY <1>1, ClaudePref DEF Legal, DriftedOf
<1>2. CASE t = "codex"
  BY <1>2, CodexPref DEF Legal, DriftedOf
<1> QED
  BY <1>1, <1>2 DEF OneFile

\* A drift found: the choice taken back, then the return to the user's models.
LEMMA DriftFacts ==
    ASSUME NEW t \in OneFile, NEW d, NEW o, Mine(t, o), Legal(t, d, o), NEW p \in Ports
    PROVE  LET s == Write(d, Settled(d)) \o LeaveOf(t, Settled(d), p)
               e == After(d, s) IN
           /\ Path(s) /\ \A x \in Members(s) : Legal(t, x, o)
           /\ GateModelsOf(t, e) = None /\ e.cfg.model = o.model
<1>1. PICK f : f = Settled(d)
  OBVIOUS
<1>2. Legal(t, f, o)
  BY <1>1, ChoiceFacts DEF Settled
<1>3. PICK w, v : w = Write(d, f) /\ v = LeaveOf(t, f, p)
  OBVIOUS
<1>4. Path(w) /\ After(d, w) = f /\ Members(w) \subseteq {f}
  BY <1>3, OneWrite
<1>5. /\ Path(v) /\ \A x \in Members(v) : Legal(t, x, o)
      /\ GateModelsOf(t, After(f, v)) = None /\ After(f, v).cfg.model = o.model
  BY <1>2, <1>3, LeaveFacts
<1>6. /\ Path(w \o v) /\ Members(w \o v) \subseteq Members(w) \cup Members(v)
      /\ \A x : After(x, w \o v) = After(After(x, w), v)
  BY <1>4, <1>5, Joined
<1>7. After(d, w \o v) = After(f, v)
  BY <1>4, <1>6
<1>8. \A x \in Members(w \o v) : Legal(t, x, o)
  BY <1>2, <1>4, <1>5, <1>6
<1> QED
  BY <1>1, <1>3, <1>5, <1>6, <1>7, <1>8

\* A value put where it is kept.
LEMMA PutForm ==
    ASSUME NEW d, IsDisk(d), DOMAIN d.env = {}, NEW s, NEW v
    PROVE  (IF s \in DOMAIN d.env THEN [d EXCEPT !.env[s] = v] ELSE [d EXCEPT !.cfg[s] = v])
           = Disk(d.pref, [d.cfg EXCEPT ![s] = v], d.env, d.rec, d.cat)
<1>1. d = [pref |-> d.pref, cfg |-> d.cfg, env |-> d.env, rec |-> d.rec, cat |-> d.cat]
  BY Opened
<1> QED
  BY <1>1 DEF Disk

LEMMA EditFacts ==
    ASSUME NEW t \in OneFile, NEW d, NEW o, Mine(t, o), Legal(t, d, o), NEW k \in Slots(t),
           NEW v \in May(k)
    PROVE  LET e == IF k \in DOMAIN d.env THEN [d EXCEPT !.env[k] = v] ELSE [d EXCEPT !.cfg[k] = v]
               u == [o EXCEPT ![k] = v] IN
           Legal(t, e, u) /\ Mine(t, u)
<1>1. PICK e : e = IF k \in DOMAIN d.env THEN [d EXCEPT !.env[k] = v] ELSE [d EXCEPT !.cfg[k] = v]
  OBVIOUS
<1>2. PICK u : u = [o EXCEPT ![k] = v]
  OBVIOUS
<1>3. e = Disk(d.pref, [d.cfg EXCEPT ![k] = v], d.env, d.rec, d.cat)
  <2>1. IsDisk(d) /\ DOMAIN d.env = {}
    BY DEF Legal, Claude, ClaudeShape, Codex, CodexShape
  <2> QED
    BY <1>1, <2>1, PutForm
<1>4. Legal(t, e, u) /\ Mine(t, u)
  <2>1. CASE t = "claude"
    <3>1. Claude(d, o) /\ OwnValues(o) /\ Shaped(o, C!Slots) /\ k \in C!Slots
      BY <2>1 DEF Legal, Mine, Slots
    <3>2. Claude(e, u) /\ OwnValues(u) /\ Shaped(u, C!Slots)
      BY <1>2, <1>3, <3>1, ClaudeEdit
    <3> QED
      BY <2>1, <3>2 DEF Legal, Mine
  <2>2. CASE t = "codex"
    <3>1. Codex(d, o) /\ CodexOwn(o) /\ Shaped(o, X!Slots) /\ k \in X!Slots
      BY <2>2 DEF Legal, Mine, Slots
    <3>2. Codex(e, u) /\ CodexOwn(u) /\ Shaped(u, X!Slots)
      BY <1>2, <1>3, <3>1, CodexEdit
    <3> QED
      BY <2>2, <3>2 DEF Legal, Mine
  <2> QED
    BY <2>1, <2>2 DEF OneFile
<1> QED
  BY <1>1, <1>2, <1>4

LEMMA PickFacts ==
    ASSUME NEW t \in OneFile, NEW d, NEW o, Mine(t, o), Legal(t, d, o),
           GateModelsOf(t, d) # None, ~DriftedOf(t, d), NEW v \in Members(GateModelsOf(t, d).ids)
    PROVE  LET e == IF "model" \in DOMAIN d.env THEN [d EXCEPT !.env["model"] = v]
                                                ELSE [d EXCEPT !.cfg["model"] = v] IN
           Legal(t, e, o) /\ ~DriftedOf(t, e)
<1>1. PICK e : e = IF "model" \in DOMAIN d.env THEN [d EXCEPT !.env["model"] = v]
                                                ELSE [d EXCEPT !.cfg["model"] = v]
  OBVIOUS
<1>2. e = Disk(d.pref, [d.cfg EXCEPT !["model"] = v], d.env, d.rec, d.cat)
  <2>1. IsDisk(d) /\ DOMAIN d.env = {}
    BY DEF Legal, Claude, ClaudeShape, Codex, CodexShape
  <2> QED
    BY <1>1, <2>1, PutForm
<1>3. CASE t = "claude"
  BY <1>1, <1>2, <1>3, ClaudePick DEF Legal, Mine, GateModelsOf, DriftedOf
<1>4. CASE t = "codex"
  BY <1>1, <1>2, <1>4, CodexPick DEF Legal, Mine, GateModelsOf, DriftedOf
<1> QED
  BY <1>3, <1>4 DEF OneFile

\* What is found before Gate has done anything.
LEMMA FoundFacts ==
    ASSUME NEW t \in OneFile, NEW o \in [Slots(t) -> UserModels \cup UserRoutes \cup {None}],
           \A s \in Slots(t) : o[s] \in May(s) \cup {None}
    PROVE  Mine(t, o) /\ Legal(t, Found(t, o), o) /\ ~DriftedOf(t, Found(t, o))
<1>1. PICK d : d = Found(t, o)
  OBVIOUS
<1>2. CASE t = "claude"
  <2>1. Shaped(o, C!Slots) /\ OwnValues(o)
    BY <1>2 DEF Slots, Shaped, OwnValues, C!Slots, May
  <2>2. Slots(t) = C!Slots /\ InEnv(t) = {} /\ DOMAIN Gates(t) = {}
    BY <1>2 DEF Slots, InEnv, Gates
  <2>3. d = Disk(None, [s \in C!Slots |-> o[s]], [s \in {} |-> o[s]], None, None)
    BY <1>1, <2>2 DEF Found, Disk
  <2>4. /\ IsDisk(d) /\ d.pref = None /\ d.cfg = [s \in C!Slots |-> o[s]]
        /\ d.env = [s \in {} |-> o[s]] /\ d.rec = None /\ d.cat = None
    BY <2>3, Parts
  <2>5. Claude(d, o) /\ ~C!Drifted(d)
    BY <2>4 DEF Claude, ClaudeShape, ClaudeLegal, Shaped, C!Drifted, C!GateModels
  <2> QED
    BY <1>1, <1>2, <2>1, <2>5 DEF Mine, Legal, DriftedOf
<1>3. CASE t = "codex"
  <2>1. Shaped(o, X!Slots) /\ CodexOwn(o)
    BY <1>3 DEF Slots, Shaped, CodexOwn, X!Slots, May
  <2>2. Slots(t) = X!Slots /\ InEnv(t) = {} /\ Gates(t) = [block |-> None] /\ DOMAIN Gates(t) = {"block"}
    BY <1>3 DEF Slots, InEnv, Gates
  <2> DEFINE c == [s \in CodexKeys |-> IF s \in X!Slots THEN o[s] ELSE None]
  <2>3. d = Disk(None, c, [s \in {} |-> o[s]], None, None)
    BY <1>1, <2>2 DEF Found, Disk, CodexKeys
  <2>4. /\ Shaped(c, CodexKeys) /\ c.block = None /\ c.pointer = o.pointer
        /\ c.model = o.model /\ c.catalog = o.catalog
    BY DEF Shaped, CodexKeys, X!Slots
  <2> HIDE DEF c
  <2>5. /\ IsDisk(d) /\ d.pref = None /\ d.cfg = c
        /\ d.env = [s \in {} |-> o[s]] /\ d.rec = None /\ d.cat = None
    BY <2>3, Parts
  <2>6. X!GateModels(d) = None /\ ~X!Drifted(d)
    BY <2>5 DEF X!GateModels, X!Drifted
  <2>7. Codex(d, o)
    BY <2>1, <2>4, <2>5, <2>6, CodexKinds DEF Codex, CodexShape, CodexLegal, CodexOwn, Blocks
  <2> QED
    BY <1>1, <1>3, <2>1, <2>6, <2>7 DEF Mine, Legal, DriftedOf
<1> QED
  BY <1>2, <1>3 DEF OneFile

LEMMA DanglingFacts ==
    ASSUME tool \in OneFile, NEW d, NEW o, Mine(tool, o), Legal(tool, d, o), Dangling(d)
    PROVE  DriftedOf(tool, d)
<1>1. CASE tool = "claude"
  BY <1>1, ClaudeDangling DEF Legal, Mine, DriftedOf, Dangling
<1>2. CASE tool = "codex"
  BY <1>2, CodexDangling DEF Legal, Mine, DriftedOf, Dangling
<1> QED
  BY <1>1, <1>2 DEF OneFile

-----------------------------------------------------------------------------
(* The steps. *)

\* Where the operation under way leads.
Final == After(disk, todo)

\* The disk is legal and so is every disk on the way.
Settings ==
    /\ tool \in OneFile /\ port \in Ports
    /\ chosen \in {None} \cup {<<x>> : x \in Sets \cup {None}}
    /\ Mine(tool, own)
    /\ Legal(tool, disk, own)
    /\ Path(todo) /\ \A x \in Members(todo) : Legal(tool, x, own)

\* Unless the user has moved something, nothing has drifted, and no write but the
\* one that stores a choice changes the choice.
Steady ==
    ~moved => /\ ~DriftedOf(tool, disk) /\ \A x \in Members(todo) : ~DriftedOf(tool, x)
              /\ chosen = None => \A x \in Members(todo) : x.pref = disk.pref

\* Where a connect, a choice or a return to the user's models leads.
Ends ==
    /\ op \in {"connect", "choose"} =>
          /\ AimedOf(tool, Final, port) /\ ConnectOf(tool, Final, port) = <<>>
          /\ ~DriftedOf(tool, Final)
    /\ op = "leave" => GateModelsOf(tool, Final) = None /\ Final.cfg.model = own.model

SettingsInv == Settings /\ Steady /\ Ends

\* The inductive invariant holds at the start and is kept by every step.
LEMMA InitSettings == Init /\ tool \in OneFile => SettingsInv
<1> SUFFICES ASSUME Init, tool \in OneFile PROVE SettingsInv
  OBVIOUS
<1>1. Mine(tool, own) /\ Legal(tool, disk, own) /\ ~DriftedOf(tool, disk)
  BY FoundFacts DEF Init
<1>2. todo = <<>> /\ op = "none" /\ chosen = None /\ port \in Ports
  BY DEF Init
<1> QED
  BY <1>1, <1>2, NoWrite DEF SettingsInv, Settings, Steady, Ends

LEMMA ConnectSettles == SettingsInv /\ StartConnect => SettingsInv'
<1> SUFFICES ASSUME SettingsInv, StartConnect PROVE SettingsInv'
  OBVIOUS
<1>1. /\ tool' = tool /\ disk' = disk /\ port' = port /\ own' = own /\ chosen' = chosen
      /\ op' = "connect" /\ todo' = ConnectOf(tool, disk, port)
      /\ moved' = (moved /\ ConnectOf(tool, disk, port) # <<>>)
  BY Forms DEF StartConnect, Begin, Accepted, SettingsInv, Settings
<1>2. /\ Path(todo')
      /\ \A x \in Members(todo') : /\ Legal(tool, x, own)
                                   /\ ~DriftedOf(tool, disk) => ~DriftedOf(tool, x) /\ x.pref = disk.pref
      /\ AimedOf(tool, After(disk, todo'), port) /\ ~DriftedOf(tool, After(disk, todo'))
      /\ ConnectOf(tool, After(disk, todo'), port) = <<>>
  BY <1>1, ConnectFacts DEF SettingsInv, Settings
<1>3. todo' = <<>> => Members(todo') = {} /\ After(disk, todo') = disk
  BY NoWrite
<1>4. ~moved' => ~DriftedOf(tool, disk)
  BY <1>1, <1>2, <1>3 DEF SettingsInv, Steady
<1>5. Settings'
  BY <1>1, <1>2 DEF SettingsInv, Settings
<1>6. Steady'
  BY <1>1, <1>2, <1>4 DEF Steady
<1>7. Ends'
  BY <1>1, <1>2 DEF Ends, Final
<1> QED
  BY <1>5, <1>6, <1>7 DEF SettingsInv

LEMMA DisconnectSettles == SettingsInv /\ StartDisconnect => SettingsInv'
<1> SUFFICES ASSUME SettingsInv, StartDisconnect PROVE SettingsInv'
  OBVIOUS
<1>1. /\ tool' = tool /\ disk' = disk /\ port' = port /\ own' = own /\ chosen' = chosen
      /\ op' = "disconnect" /\ todo' = DisconnectOf(tool, disk) /\ moved' = moved
  BY Forms DEF StartDisconnect, Begin, SettingsInv, Settings
<1>2. /\ Path(todo')
      /\ \A x \in Members(todo') : Legal(tool, x, own) /\ ~DriftedOf(tool, x) /\ x.pref = disk.pref
  BY <1>1, DisconnectFacts DEF SettingsInv, Settings
<1>3. Settings'
  BY <1>1, <1>2 DEF SettingsInv, Settings
<1>4. Steady'
  BY <1>1, <1>2 DEF SettingsInv, Steady
<1>5. Ends'
  BY <1>1 DEF Ends
<1> QED
  BY <1>3, <1>4, <1>5 DEF SettingsInv

LEMMA StatesSettles == SettingsInv /\ States => SettingsInv'
<1> SUFFICES ASSUME SettingsInv, States PROVE SettingsInv'
  OBVIOUS
<1>1. /\ tool' = tool /\ disk' = disk /\ port' = port /\ own' = own /\ chosen' = chosen
      /\ op' = "leave" /\ moved' = moved /\ DriftedOf(tool, disk)
      /\ todo' = Write(disk, Settled(disk)) \o LeaveOf(tool, Settled(disk), port)
  BY Forms DEF States, Begin, Drift, SettingsInv, Settings
<1>2. /\ Path(todo') /\ \A x \in Members(todo') : Legal(tool, x, own)
      /\ GateModelsOf(tool, After(disk, todo')) = None /\ After(disk, todo').cfg.model = own.model
  BY <1>1, DriftFacts DEF SettingsInv, Settings
<1>3. Settings'
  BY <1>1, <1>2 DEF SettingsInv, Settings
<1>4. Steady'
  BY <1>1 DEF SettingsInv, Steady
<1>5. Ends'
  BY <1>1, <1>2 DEF Ends, Final
<1> QED
  BY <1>3, <1>4, <1>5 DEF SettingsInv

LEMMA ChooseSettles ==
    ASSUME NEW ids \in Sets \cup {None}, SettingsInv, Choose(ids) PROVE SettingsInv'
<1>1. /\ tool' = tool /\ disk' = disk /\ port' = port /\ own' = own /\ chosen' = <<ids>>
      /\ op' = "settle" /\ moved' = moved
      /\ todo' = IF DriftedOf(tool, disk)
                 THEN Write(disk, Settled(disk)) \o LeaveOf(tool, Settled(disk), port) ELSE <<>>
  BY Forms DEF Choose, Begin, Drift, SettingsInv, Settings
<1>2. Path(todo') /\ \A x \in Members(todo') : Legal(tool, x, own)
  BY <1>1, DriftFacts, NoWrite DEF SettingsInv, Settings
<1>3. Settings'
  BY <1>1, <1>2 DEF SettingsInv, Settings
<1>4. Steady'
  BY <1>1, NoWrite DEF SettingsInv, Steady
<1>5. Ends'
  BY <1>1 DEF Ends
<1> QED
  BY <1>3, <1>4, <1>5 DEF SettingsInv

LEMMA StoreSettles == SettingsInv /\ Store => SettingsInv'
<1> SUFFICES ASSUME SettingsInv, Store PROVE SettingsInv'
  OBVIOUS
<1>1. PICK d : d = [disk EXCEPT !.pref = chosen[1]]
  OBVIOUS
<1>2. /\ tool' = tool /\ disk' = d /\ port' = port /\ own' = own /\ chosen' = None
      /\ moved' = (moved /\ DriftedOf(tool, d))
      /\ \/ op' = "choose" /\ todo' = ConnectOf(tool, d, port)
         \/ op' = "stored" /\ todo' = <<>>
  BY <1>1, Forms DEF Store, Accepted, SettingsInv, Settings
<1>3. chosen[1] \in Sets \cup {None}
  BY DEF Store, SettingsInv, Settings
<1>4. Legal(tool, d, own) /\ (DriftedOf(tool, d) <=> DriftedOf(tool, disk))
  BY <1>1, <1>3, ChoiceFacts DEF SettingsInv, Settings
<1>5. ~moved' => ~DriftedOf(tool, d)
  BY <1>2, <1>4 DEF SettingsInv, Steady
<1>6. CASE op' = "choose" /\ todo' = ConnectOf(tool, d, port)
  <2>1. /\ Path(todo')
        /\ \A x \in Members(todo') : /\ Legal(tool, x, own)
                                     /\ ~DriftedOf(tool, d) => ~DriftedOf(tool, x) /\ x.pref = d.pref
        /\ AimedOf(tool, After(d, todo'), port) /\ ~DriftedOf(tool, After(d, todo'))
        /\ ConnectOf(tool, After(d, todo'), port) = <<>>
    BY <1>4, <1>6, ConnectFacts DEF SettingsInv, Settings
  <2>2. Settings'
    BY <1>2, <1>4, <2>1 DEF SettingsInv, Settings
  <2>3. Steady'
    BY <1>2, <1>5, <2>1 DEF Steady
  <2>4. Ends'
    BY <1>2, <1>6, <2>1 DEF Ends, Final
  <2> QED
    BY <2>2, <2>3, <2>4 DEF SettingsInv
<1>7. CASE op' = "stored" /\ todo' = <<>>
  <2>1. Settings'
    BY <1>2, <1>4, <1>7, NoWrite DEF SettingsInv, Settings
  <2>2. Steady'
    BY <1>2, <1>5, <1>7, NoWrite DEF Steady
  <2>3. Ends'
    BY <1>7 DEF Ends
  <2> QED
    BY <2>1, <2>2, <2>3 DEF SettingsInv
<1> QED
  BY <1>2, <1>6, <1>7

LEMMA StepSettles == SettingsInv /\ Step => SettingsInv'
<1> SUFFICES ASSUME SettingsInv, Step PROVE SettingsInv'
  OBVIOUS
<1>1. /\ tool' = tool /\ port' = port /\ own' = own /\ chosen' = chosen /\ op' = op
      /\ disk' = Head(todo) /\ todo' = Tail(todo) /\ todo # <<>>
      /\ moved' = (moved /\ ~ (Len(todo) = 1 /\ op \in {"connect", "choose"}))
  BY DEF Step, Idle
<1>2. /\ Path(todo') /\ disk' \in Members(todo) /\ Members(todo') \subseteq Members(todo)
      /\ After(disk', todo') = Final
      /\ (todo' = <<>> <=> Len(todo) = 1)
  BY <1>1, Stepped DEF SettingsInv, Settings, Final
<1>3. Settings'
  BY <1>1, <1>2 DEF SettingsInv, Settings
<1>4. Ends'
  BY <1>1, <1>2 DEF SettingsInv, Ends, Final
<1>5. Steady'
  <2>1. CASE ~moved
    BY <1>1, <1>2, <2>1 DEF SettingsInv, Steady
  <2>2. CASE Len(todo) = 1 /\ op \in {"connect", "choose"}
    <3>1. todo' = <<>> /\ Members(todo') = {} /\ disk' = Final
      BY <1>2, <2>2, NoWrite
    <3>2. ~DriftedOf(tool, Final)
      BY <2>2 DEF SettingsInv, Ends
    <3> QED
      BY <1>1, <3>1, <3>2 DEF Steady
  <2>3. CASE moved /\ ~ (Len(todo) = 1 /\ op \in {"connect", "choose"})
    BY <1>1, <2>3 DEF Steady
  <2> QED
    BY <2>1, <2>2, <2>3
<1> QED
  BY <1>3, <1>4, <1>5 DEF SettingsInv

LEMMA CutSettles ==
    SettingsInv /\ Cut /\ op' = "none" /\ chosen' \in {None, chosen} => SettingsInv'
<1> SUFFICES ASSUME SettingsInv, Cut, op' = "none", chosen' \in {None, chosen} PROVE SettingsInv'
  OBVIOUS
<1>1. /\ tool' = tool /\ disk' = disk /\ port' = port /\ own' = own /\ todo' = <<>> /\ (moved' <=> moved)
  BY DEF Cut, SettingsInv, Settings, OneFile
<1>2. Path(todo') /\ Members(todo') = {}
  BY <1>1, NoWrite
<1>3. Settings'
  BY <1>1, <1>2 DEF SettingsInv, Settings
<1>4. Steady'
  BY <1>1, <1>2 DEF SettingsInv, Steady
<1>5. Ends'
  BY DEF Ends
<1> QED
  BY <1>3, <1>4, <1>5 DEF SettingsInv

LEMMA FailBackSettles == SettingsInv /\ FailBack => SettingsInv'
<1> SUFFICES ASSUME SettingsInv, FailBack PROVE SettingsInv'
  OBVIOUS
<1>1. /\ tool' = tool /\ disk' = disk /\ port' = port /\ own' = own /\ chosen' = chosen
      /\ op' = "leave" /\ moved' = moved /\ todo' = LeaveOf(tool, disk, port)
  BY Forms DEF FailBack, SettingsInv, Settings
<1>2. /\ Path(todo')
      /\ \A x \in Members(todo') : Legal(tool, x, own) /\ ~DriftedOf(tool, x) /\ x.pref = disk.pref
      /\ GateModelsOf(tool, After(disk, todo')) = None /\ After(disk, todo').cfg.model = own.model
  BY <1>1, LeaveFacts DEF SettingsInv, Settings
<1>3. Settings'
  BY <1>1, <1>2 DEF SettingsInv, Settings
<1>4. Steady'
  BY <1>1, <1>2 DEF SettingsInv, Steady
<1>5. Ends'
  BY <1>1, <1>2 DEF Ends, Final
<1> QED
  BY <1>3, <1>4, <1>5 DEF SettingsInv

LEMMA EditSettles ==
    ASSUME NEW s \in Slots(tool), NEW v \in May(s), SettingsInv, Edit(s, v) PROVE SettingsInv'
<1>1. /\ tool' = tool /\ port' = port /\ chosen' = chosen /\ op' = "none" /\ moved' = TRUE
      /\ todo' = todo /\ todo = <<>> /\ own' = [own EXCEPT ![s] = v]
      /\ disk' = IF s \in DOMAIN disk.env THEN [disk EXCEPT !.env[s] = v]
                                          ELSE [disk EXCEPT !.cfg[s] = v]
  BY DEF Edit, Idle, Put
<1>2. Legal(tool, disk', own') /\ Mine(tool, own')
  BY <1>1, EditFacts DEF SettingsInv, Settings
<1>3. Path(todo') /\ Members(todo') = {}
  BY <1>1, NoWrite
<1>4. Settings'
  BY <1>1, <1>2, <1>3 DEF SettingsInv, Settings
<1>5. Steady' /\ Ends'
  BY <1>1 DEF Steady, Ends
<1> QED
  BY <1>4, <1>5 DEF SettingsInv

LEMMA PickSettles == ASSUME NEW id \in Ids, SettingsInv, Pick(id) PROVE SettingsInv'
<1>1. /\ tool' = tool /\ port' = port /\ chosen' = chosen /\ op' = "none" /\ moved' = moved
      /\ todo' = todo /\ todo = <<>> /\ own' = own
      /\ disk' = IF "model" \in DOMAIN disk.env THEN [disk EXCEPT !.env["model"] = id]
                                                ELSE [disk EXCEPT !.cfg["model"] = id]
      /\ GateModelsOf(tool, disk) # None /\ ~DriftedOf(tool, disk)
      /\ id \in Members(GateModelsOf(tool, disk).ids)
  BY Forms DEF Pick, Idle, Put, SettingsInv, Settings
<1>2. Legal(tool, disk', own) /\ ~DriftedOf(tool, disk')
  BY <1>1, PickFacts DEF SettingsInv, Settings
<1>3. Path(todo') /\ Members(todo') = {}
  BY <1>1, NoWrite
<1>4. Settings'
  BY <1>1, <1>2, <1>3 DEF SettingsInv, Settings
<1>5. Steady' /\ Ends'
  BY <1>1, <1>2, <1>3 DEF Steady, Ends
<1> QED
  BY <1>4, <1>5 DEF SettingsInv

LEMMA SettingsKept == SettingsInv /\ [Next]_vars => SettingsInv'
<1> SUFFICES ASSUME SettingsInv, [Next]_vars PROVE SettingsInv'
  OBVIOUS
<1>1. CASE StartConnect
  BY <1>1, ConnectSettles
<1>2. CASE StartDisconnect
  BY <1>2, DisconnectSettles
<1>3. CASE States
  BY <1>3, StatesSettles
<1>4. CASE Store
  BY <1>4, StoreSettles
<1>5. CASE Step
  BY <1>5, StepSettles
<1>6. CASE Kill
  BY <1>6, CutSettles DEF Kill
<1>7. CASE Fail
  BY <1>7, CutSettles DEF Fail
<1>8. CASE FailBack
  BY <1>8, FailBackSettles
<1>9. CASE Move
  <2>1. /\ tool' = tool /\ disk' = disk /\ own' = own /\ todo' = todo /\ chosen' = chosen
        /\ moved' = moved /\ op' = "none" /\ port' \in Ports
    BY <1>9 DEF Move
  <2> QED
    BY <2>1 DEF SettingsInv, Settings, Steady, Ends
<1>10. ASSUME NEW ids \in Sets \cup {None}, Choose(ids) PROVE SettingsInv'
  BY <1>10, ChooseSettles
<1>11. ASSUME NEW s \in Slots(tool), NEW v \in May(s), Edit(s, v) PROVE SettingsInv'
  BY <1>11, EditSettles
<1>12. ASSUME NEW id \in Ids, Pick(id) PROVE SettingsInv'
  BY <1>12, PickSettles
<1>13. CASE UNCHANGED vars
  BY <1>13 DEF vars, SettingsInv, Settings, Steady, Ends, Final
<1> QED
  BY <1>1, <1>2, <1>3, <1>4, <1>5, <1>6, <1>7, <1>8, <1>9, <1>10, <1>11, <1>12, <1>13 DEF Next

\* Every disk Claude Code and Codex are ever left with, mid-operation crashes included,
\* has each value of the user's in place or in the record (`connect' and `disconnect' of
\* claude_code.rs and codex.rs, and the reconcile that runs them).
THEOREM SettingsHold == Spec /\ tool \in OneFile => []SettingsInv
<1> QED
  BY InitSettings, SettingsKept, PTL DEF Spec

\* Whenever the app disconnects the tool, after whatever was done, cut or edited, every
\* setting is what the user last made it and nothing of Gate's is left.
THEOREM GivesBackAlways == Spec /\ tool \in OneFile => []GivesBack
<1>1. SettingsInv => GivesBack
  <2> SUFFICES ASSUME SettingsInv PROVE GivesBack
    OBVIOUS
  <2>1. CleanOf(tool, After(disk, DisconnectOf(tool, disk)))
        /\ \A k \in Slots(tool) : Value(After(disk, DisconnectOf(tool, disk)), k) = own[k]
    BY DisconnectFacts DEF SettingsInv, Settings
  <2> QED
    BY <2>1, Forms DEF GivesBack, SettingsInv, Settings
<1> QED
  BY <1>1, SettingsHold, PTL

\* Until the user moves the tool themselves, no write of an operation and no cut leaves
\* it naming a catalog that is not there, or a Gate model on a route that does not
\* serve it.
THEOREM NeverDanglingAlways == Spec /\ tool \in OneFile => []NeverDangling
<1>1. SettingsInv => NeverDangling
  BY DanglingFacts DEF SettingsInv, Settings, Steady, NeverDangling
<1> QED
  BY <1>1, SettingsHold, PTL

\* A connect or a choice carried out leaves the tool at Gate's current address, on Gate
\* models exactly if they are chosen, and a second connect has nothing to write; leaving
\* the models leaves none of Gate's.
THEOREM RepairsAlways == Spec /\ tool \in OneFile => []Repairs
<1>1. SettingsInv => Repairs
  <2> SUFFICES ASSUME SettingsInv, Idle PROVE
        /\ op \in {"connect", "choose"} => Aimed(disk) /\ Connect(disk) = <<>>
        /\ op = "leave" => GateModels(disk) = None /\ disk.cfg.model \notin Ids
    BY DEF Repairs
  <2>1. Final = disk
    BY NoWrite DEF Idle, Final
  <2>2. own.model \notin Ids
    BY Apart DEF SettingsInv, Settings, Mine, OwnValues, CodexOwn
  <2> QED
    BY <2>1, <2>2, Forms DEF SettingsInv, Settings, Ends
<1> QED
  BY <1>1, SettingsHold, PTL

\* A choice of Gate models is given up by another choice or because the user moved the
\* tool off them: never by a pick among the set, a new address or a connect.
THEOREM ChoiceHeldAlways == Spec /\ tool \in OneFile => ChoiceHeld
<1>1. SettingsInv /\ [Next]_vars 
          => [disk.pref # None /\ disk'.pref = None => moved \/ chosen # None]_vars
  <2> SUFFICES ASSUME SettingsInv, Next, ~moved, chosen = None PROVE disk'.pref = disk.pref
    OBVIOUS
  <2>1. CASE Step
    <3>1. disk' \in Members(todo)
      BY <2>1, Stepped DEF Step, Idle, SettingsInv, Settings
    <3> QED
      BY <3>1 DEF SettingsInv, Steady
  <2>2. ASSUME NEW s \in Slots(tool), NEW v \in May(s), Edit(s, v) PROVE disk'.pref = disk.pref
    <3>1. IsDisk(disk) /\ DOMAIN disk.env = {}
      BY DEF SettingsInv, Settings, Legal, Claude, ClaudeShape, Codex, CodexShape
    <3>2. disk' = Disk(disk.pref, [disk.cfg EXCEPT ![s] = v], disk.env, disk.rec, disk.cat)
      BY <2>2, <3>1, PutForm DEF Edit, Put
    <3> QED
      BY <3>2, Parts
  <2>3. ASSUME NEW id \in Ids, Pick(id) PROVE disk'.pref = disk.pref
    <3>1. IsDisk(disk) /\ DOMAIN disk.env = {}
      BY DEF SettingsInv, Settings, Legal, Claude, ClaudeShape, Codex, CodexShape
    <3>2. disk' = Disk(disk.pref, [disk.cfg EXCEPT !["model"] = id], disk.env, disk.rec, disk.cat)
      BY <2>3, <3>1, PutForm DEF Pick, Put
    <3> QED
      BY <3>2, Parts
  <2>4. CASE UNCHANGED disk
    BY <2>4
  <2> QED
    BY <2>1, <2>2, <2>3, <2>4
       DEF Next, StartConnect, StartDisconnect, States, Begin, Store, Kill, Fail, Cut, FailBack,
           Move, Choose
<1> QED
  BY <1>1, SettingsHold, PTL DEF Spec, ChoiceHeld
=============================================================================
