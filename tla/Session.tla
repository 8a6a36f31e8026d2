------------------------------ MODULE Session -------------------------------
(***************************************************************************)
(* The OAuth session: crates/core/src/oauth.rs with the callers that judge *)
(* it (startup.rs, org.rs) and push it into the engine (the Tauri shell,   *)
(* the command line's relay).                                              *)
(*                                                                         *)
(* Every process of Gate shares one keychain entry and one account.json;   *)
(* the generation, the epoch, the rejection, the refresh lock, the bundle  *)
(* the keychain refused and the cached read are each process's own.  One   *)
(* action is one stretch of code between two points at which another       *)
(* thread can be seen, or a network or keychain call can take its time.    *)
(*                                                                         *)
(* A bundle is the serial number of its access token with that of the      *)
(* sign-in it descends from, so sessions and tokens are both ordered by    *)
(* age.  Left out: the browser half of a sign-in, API-key accounts, a      *)
(* bundle of another app client, the tray's sign-in signal with the forced *)
(* renewal after a clock jump that it gates, rewrites of account.json that *)
(* are not sign-ins, and the split of a secret into chunks.                *)
(***************************************************************************)
EXTENDS Naturals, FiniteSets

CONSTANTS
    Procs,      \* processes of Gate
    Threads,    \* their threads
    Home,       \* the process of each thread
    Roles,      \* the operations each thread may call
    Faults,     \* what may go wrong, by name (see Fails)
    MaxTokens,  \* bound: access tokens ever issued
    MaxEpoch    \* bound: sign-ins and sign-outs of one process

Operations == {"tick", "relay", "recheck", "orgs", "signIn", "signOut"}

ASSUME HomeAssumption == Home \in [Threads -> Procs]
ASSUME RolesAssumption == Roles \in [Threads -> SUBSET Operations]
ASSUME BoundsAssumption == MaxTokens \in Nat /\ MaxEpoch \in Nat
ASSUME ThreadsAssumption == "free" \notin Threads

Bundle == [session: Nat, serial: Nat]
None == [session |-> 0, serial |-> 0]
Nothing == [tok |-> None, gen |-> 0, wit |-> 0]
Uncached == [tok |-> None, wit |-> 0, kept |-> FALSE]

VARIABLES
    store,      \* the bundle in the keychain
    witness,    \* account.json: how many sign-ins have stamped it
    issued,     \* access tokens issued so far
    expired,    \* the local clock finds serials up to this one expired
    revoked,    \* sessions the gateway and the identity provider refuse
    gen,        \* SESSION_GENERATION of each process
    epoch,      \* SIGN_IN_EPOCH
    rejected,   \* SESSION_REJECTED_BY_GATEWAY
    unstored,   \* UNSTORED: a bundle with the generation and witness it stands by
    cache,      \* WITNESS_CACHE: the last bundle read, with its witness
    refresher,  \* holder of REFRESH_LOCK, or "free"
    last,       \* how the last refresh ended, kept in that lock
    engine,     \* the bearer the process's engine or relay injects
    pc, op,     \* where each thread is, and in which operation
    loc,        \* its local variables
    missed,     \* threads that saw REFRESH_ATTEMPTS before it last moved
    torn,       \* threads whose keychain read a write of their process followed
    served,     \* history: the latest bundle a read of the process has returned
    over        \* history: sessions up to this one have been ended

worldVars == <<store, witness, issued, expired, revoked, over>>
procVars  == <<gen, epoch, rejected, unstored, cache, last, engine>>
threadVars == <<refresher, served, pc, op, loc, missed, torn>>
vars == <<worldVars, procVars, threadVars>>

-----------------------------------------------------------------------------
\* A step that may fail does so in the model only when its fault is named:
\*   offline     the identity provider or the gateway does not answer
\*   unreadable  the keychain cannot be read
\*   refused     the keychain does not take, or does not delete, a secret
\*   revoke      a session is revoked
\*   preempt     a thread is suspended where only a few instructions, or the
\*               one keychain write oauth.rs names, part a check from its use
Fails(fault) == fault \in Faults

At(t, label) == pc[t] = label
Peers(t, labels) == {u \in Threads : Home[u] = Home[t] /\ pc[u] \in labels}

Blank == [force |-> FALSE, phase |-> "first", res |-> "none", tok |-> None, seen |-> 0, basis |-> 0,
          judged |-> 0, epoch |-> 0, wit |-> 0, floor |-> None, over |-> 0]

Goto(t, label) == pc' = [pc EXCEPT ![t] = label]
Leave(t) ==
    /\ Goto(t, "idle")
    /\ op' = [op EXCEPT ![t] = "none"]
    /\ loc' = [loc EXCEPT ![t] = Blank]

Fresh(b) == b.serial > expired
Standing(x) == unstored[x].tok # None /\ unstored[x].gen = gen[x] /\ unstored[x].wit = witness
InForce(x) == IF Standing(x) THEN unstored[x].tok ELSE store
Larger(m, n) == IF m > n THEN m ELSE n
Older(b, c) == b.session < c.session \/ (b.session = c.session /\ b.serial < c.serial)
Later(b, c) == IF Older(b, c) THEN c ELSE b

\* keychain::set and delete by a thread of process x: cached reads go, and a
\* read under way is torn.
Write(x, b) ==
    /\ store' = b
    /\ cache' = [cache EXCEPT ![x] = Uncached]
    /\ torn' = torn \union {u \in Threads : Home[u] = x /\ pc[u] = "keep"}

\* A bundle becomes the process's session, or stops being it.
Supersede(x) ==
    /\ unstored' = [unstored EXCEPT ![x] = Nothing]
    /\ rejected' = [rejected EXCEPT ![x] = FALSE]
    /\ gen' = [gen EXCEPT ![x] = @ + 1]

\* Without preempt a sign-in or sign-out does not land within the few
\* instructions that part another thread's check, or its read under the lock,
\* from what it is for; nor is a check made while one is landing.
Landing == {"signInPublish", "signOutPublish"}
Hasty(u) == pc[u] \in {"store", "publish", "judged", "mark"} \/ (At(u, "keep") /\ loc[u].phase # "first")
MayLand(t) == Fails("preempt") \/ \A u \in Threads : Home[u] = Home[t] => ~Hasty(u)
MayCheck(t) == Fails("preempt") \/ Peers(t, Landing) = {}

Init ==
    /\ issued = 1
    /\ store = [session |-> 1, serial |-> 1]
    /\ witness = 1
    /\ expired = 0 /\ revoked = {} /\ over = 0
    /\ gen = [x \in Procs |-> 0] /\ epoch = [x \in Procs |-> 0]
    /\ rejected = [x \in Procs |-> FALSE]
    /\ unstored = [x \in Procs |-> Nothing]
    /\ cache = [x \in Procs |-> Uncached]
    /\ refresher = [x \in Procs |-> "free"]
    /\ last = [x \in Procs |-> "ok"]
    /\ engine = [x \in Procs |-> None]
    /\ served = [x \in Procs |-> None]
    /\ pc = [t \in Threads |-> "idle"]
    /\ op = [t \in Threads |-> "none"]
    /\ loc = [t \in Threads |-> Blank]
    /\ missed = {} /\ torn = {}

-----------------------------------------------------------------------------
(* refresh_stored: ensure_fresh when `force' is not set, force_refresh when *)
(* it is.                                                                   *)

\* What the caller does with a result: "live" with a bundle, "signedOut",
\* "refused" or "unavailable".
Resume(t, res) ==
    CASE op[t] \in {"tick", "relay"} -> "push"
      [] op[t] = "recheck" /\ res = "live" -> "judged"
      [] op[t] = "recheck" /\ res = "refused" -> "verdict"
      [] op[t] = "orgs" /\ res = "live" -> "call"
      [] op[t] = "orgs" /\ res = "refused" /\ loc[t].force -> "mark"
      [] OTHER -> "idle"

Return(t, res, b) ==
    /\ refresher' = [x \in Procs |-> IF refresher[x] = t THEN "free" ELSE refresher[x]]
    /\ served' = [served EXCEPT ![Home[t]] = Later(@, b)]
    /\ IF Resume(t, res) = "idle"
       THEN Leave(t)
       ELSE /\ Goto(t, Resume(t, res))
            /\ loc' = [loc EXCEPT ![t] = [Blank EXCEPT !.res = res, !.tok = b, !.force = loc[t].force,
                                                       !.judged = loc[t].judged, !.epoch = loc[t].epoch]]
            /\ UNCHANGED op

\* live_session and session_reading look at the rejection first; then the
\* generation and the attempts are read, before the bundle.
Begin(t) ==
    /\ At(t, "begin")
    /\ IF ~loc[t].force /\ rejected[Home[t]]
       THEN Return(t, "signedOut", None) /\ UNCHANGED missed
       ELSE /\ Goto(t, "look")
            /\ loc' = [loc EXCEPT ![t] =
                  [@ EXCEPT !.seen = gen[Home[t]], !.over = over,
                            !.judged = IF op[t] = "recheck" THEN gen[Home[t]] ELSE 0,
                            !.floor = Later(InForce(Home[t]), served[Home[t]])]]
            /\ missed' = missed \ {t}
            /\ UNCHANGED <<refresher, served, op>>
    /\ UNCHANGED <<worldVars, procVars, torn>>

\* What refresh_stored makes of a bundle it has read: before the lock, again
\* under it, or after a refresh whose basis went away.
Found(t, b) ==
    CASE b = None -> Return(t, "signedOut", None)
      [] b # None /\ Fresh(b) /\ ~(loc[t].phase = "first" /\ loc[t].force) -> Return(t, "live", b)
      [] b # None /\ ~Fresh(b) /\ loc[t].phase = "after" -> Return(t, "unavailable", None)
      [] OTHER -> /\ Goto(t, IF loc[t].phase = "first" THEN "lock" ELSE "post")
                  /\ loc' = [loc EXCEPT ![t] = [@ EXCEPT !.tok = b, !.wit = 0]]
                  /\ UNCHANGED <<refresher, served, op>>

\* stored_for: the bundle the keychain refused, if it still stands, else a
\* cached read with the same witness, else the keychain.
Look(t) ==
    LET x == Home[t] IN
    /\ At(t, "look")
    /\ IF Standing(x) THEN Found(t, unstored[x].tok)
       ELSE IF cache[x].kept /\ cache[x].wit = witness THEN Found(t, cache[x].tok)
       ELSE /\ Goto(t, "fetch")
            /\ loc' = [loc EXCEPT ![t].wit = witness]
            /\ UNCHANGED <<refresher, served, op>>
    /\ UNCHANGED <<worldVars, procVars, missed, torn>>

Fetch(t) ==
    /\ At(t, "fetch")
    /\ Goto(t, "keep")
    /\ loc' = [loc EXCEPT ![t].tok = store]
    /\ torn' = torn \ {t}
    /\ UNCHANGED <<worldVars, procVars, refresher, served, op, missed>>

FetchFails(t) ==
    /\ At(t, "fetch") /\ Fails("unreadable")
    /\ Return(t, "unavailable", None)
    /\ UNCHANGED <<worldVars, procVars, missed, torn>>

\* Mistake: keep what was read although a write came between.
KeepTorn(t) ==
    /\ At(t, "keep")
    /\ cache' = [cache EXCEPT ![Home[t]] = [tok |-> loc[t].tok, wit |-> loc[t].wit, kept |-> TRUE]]
    /\ Found(t, loc[t].tok)
    /\ torn' = torn \ {t}
    /\ UNCHANGED <<worldVars, gen, epoch, rejected, unstored, last, engine, missed>>

\* get_cached: the value is remembered unless a write of this process
\* overlapped the read.
Keep(t) ==
    /\ At(t, "keep")
    /\ \/ /\ t \notin torn \/ Fails("preempt")
          /\ cache' = [cache EXCEPT ![Home[t]] = [tok |-> loc[t].tok, wit |-> loc[t].wit, kept |-> TRUE]]
       \/ t \in torn /\ UNCHANGED cache
    /\ Found(t, loc[t].tok)
    /\ torn' = torn \ {t}
    /\ UNCHANGED <<worldVars, gen, epoch, rejected, unstored, last, engine, missed>>

\* Mistake: having waited, go on with the bundle read before.
LockStale(t) ==
    LET x == Home[t] IN
    /\ At(t, "lock") /\ refresher[x] = "free"
    /\ refresher' = [refresher EXCEPT ![x] = t]
    /\ loc' = [loc EXCEPT ![t] = [@ EXCEPT !.basis = gen[x], !.seen = 0]]
    /\ Goto(t, "post")
    /\ missed' = missed \ {t}
    /\ UNCHANGED <<worldVars, procVars, torn, op, served>>

\* One refresh at a time.  A caller that waited reads again when the session
\* moved, shares the failure when the refresh it waited for failed, and else
\* goes on with the bundle it has.
Lock(t) ==
    LET x == Home[t] IN
    /\ At(t, "lock") /\ refresher[x] = "free"
    /\ IF gen[x] = loc[t].seen /\ t \in missed /\ last[x] # "ok"
       THEN Return(t, last[x], None)
       ELSE /\ refresher' = [refresher EXCEPT ![x] = t]
            /\ loc' = [loc EXCEPT ![t] = [@ EXCEPT !.basis = gen[x], !.seen = 0,
                                                   !.phase = IF gen[x] = loc[t].seen THEN loc[t].phase ELSE "again"]]
            /\ Goto(t, IF gen[x] = loc[t].seen THEN "post" ELSE "look")
            /\ UNCHANGED <<op, served>>
    /\ missed' = missed \ {t}
    /\ UNCHANGED <<worldVars, procVars, torn>>

\* A refresh ends: its outcome is left for the callers that waited for it.
EndAttempt(t, outcome) ==
    /\ last' = [last EXCEPT ![Home[t]] = outcome]
    /\ missed' = missed \union {u \in Peers(t, {"look", "fetch", "keep", "lock"}) : loc[u].phase = "first"}

Granted(t) ==
    /\ At(t, "post") /\ loc[t].tok.session \notin revoked /\ issued < MaxTokens
    /\ issued' = issued + 1
    /\ loc' = [loc EXCEPT ![t].tok = [@ EXCEPT !.serial = issued + 1]]
    /\ Goto(t, "granted")
    /\ UNCHANGED <<store, witness, expired, revoked, over, procVars, refresher, served, op, missed, torn>>

\* Mistake: take a refusal for a sign-out.
DeniedAsSignedOut(t) ==
    /\ At(t, "post") /\ loc[t].tok.session \in revoked
    /\ EndAttempt(t, "signedOut")
    /\ Return(t, "signedOut", None)
    /\ UNCHANGED <<worldVars, gen, epoch, rejected, unstored, cache, engine, torn>>

\* Mistake: ask again under the lock until there is an answer.
DeniedRetried(t) ==
    /\ At(t, "post")
    /\ \/ loc[t].tok.session \in revoked /\ EndAttempt(t, "refused") /\ Return(t, "refused", None)
       \/ /\ Fails("offline") \/ issued = MaxTokens
          /\ EndAttempt(t, "unavailable")
          /\ UNCHANGED <<refresher, served, pc, op, loc>>
    /\ UNCHANGED <<worldVars, gen, epoch, rejected, unstored, cache, engine, torn>>

Denied(t) ==
    /\ At(t, "post")
    /\ \E res \in {"refused", "unavailable"} :
          /\ IF res = "refused" THEN loc[t].tok.session \in revoked
                               ELSE Fails("offline") \/ issued = MaxTokens
          /\ EndAttempt(t, res)
          /\ Return(t, res, None)
    /\ UNCHANGED <<worldVars, gen, epoch, rejected, unstored, cache, engine, torn>>

\* Mistake: store whatever was granted.
CheckBlind(t) ==
    /\ At(t, "granted")
    /\ Goto(t, "store")
    /\ UNCHANGED <<worldVars, procVars, refresher, served, op, loc, missed, torn>>

\* The answer is in: is the bundle it renews still the session?
Check(t) ==
    /\ At(t, "granted") /\ MayCheck(t)
    /\ IF gen[Home[t]] = loc[t].basis
       THEN Goto(t, "store") /\ UNCHANGED <<last, loc, missed>>
       ELSE /\ EndAttempt(t, "ok")
            /\ Goto(t, "look")
            /\ loc' = [loc EXCEPT ![t].phase = "after"]
    /\ UNCHANGED <<worldVars, gen, epoch, rejected, unstored, cache, engine, refresher, served, op, torn>>

\* The keychain takes the bundle, or fails before or after it deleted the old one.
Store(t) ==
    /\ At(t, "store")
    /\ \/ Write(Home[t], loc[t].tok) /\ Goto(t, "publish")
       \/ /\ Fails("refused")
          /\ \E b \in {store, None} : Write(Home[t], b)
          /\ Goto(t, "hold")
    /\ UNCHANGED <<witness, issued, expired, revoked, over, gen, epoch, rejected, unstored, last, engine,
                   refresher, served, op, loc, missed>>

Publish(t) ==
    /\ At(t, "publish")
    /\ Supersede(Home[t])
    /\ EndAttempt(t, "ok")
    /\ Return(t, "live", loc[t].tok)
    /\ UNCHANGED <<worldVars, epoch, cache, engine, torn>>

\* Mistake: the bundle is returned and not kept.
HoldDropped(t) ==
    /\ At(t, "hold")
    /\ EndAttempt(t, "ok")
    /\ Return(t, "live", loc[t].tok)
    /\ UNCHANGED <<worldVars, gen, epoch, rejected, unstored, cache, engine, torn>>

\* keep_unstored: in memory, unless the generation has moved.
Hold(t) ==
    LET x == Home[t] IN
    /\ At(t, "hold") /\ MayCheck(t)
    /\ IF gen[x] = loc[t].basis
       THEN /\ unstored' = [unstored EXCEPT ![x] = [tok |-> loc[t].tok, gen |-> gen[x] + 1, wit |-> witness]]
            /\ rejected' = [rejected EXCEPT ![x] = FALSE]
            /\ gen' = [gen EXCEPT ![x] = @ + 1]
            /\ EndAttempt(t, "ok")
            /\ Return(t, "live", loc[t].tok)
       ELSE /\ EndAttempt(t, "unavailable")
            /\ Return(t, "unavailable", None)
            /\ UNCHANGED <<gen, rejected, unstored>>
    /\ UNCHANGED <<worldVars, epoch, cache, engine, torn>>

-----------------------------------------------------------------------------
(* Its callers.                                                             *)

Call(t, o) ==
    /\ At(t, "idle") /\ o \in Roles[t]
    /\ o = "recheck" => \A u \in Threads : Home[u] = Home[t] => op[u] # "recheck"
    /\ o \in {"signIn", "signOut"} => epoch[Home[t]] < MaxEpoch
    /\ op' = [op EXCEPT ![t] = o]
    /\ loc' = [loc EXCEPT ![t] = [@ EXCEPT !.epoch = IF o \in {"tick", "recheck"} THEN epoch[Home[t]] ELSE 0,
                                           !.force = (o = "recheck")]]
    /\ Goto(t, CASE o = "signIn" -> "signIn" [] o = "signOut" -> "signOut" [] OTHER -> "begin")
    /\ UNCHANGED <<worldVars, procVars, refresher, served, missed, torn>>

\* The tick's push: nothing when nobody could tell, or when the session it
\* read for has ended.  The relay's own loop has no such guard.
Push(t) ==
    /\ At(t, "push")
    /\ engine' = [engine EXCEPT ![Home[t]] =
                     IF loc[t].res = "unavailable" \/ (op[t] = "tick" /\ epoch[Home[t]] # loc[t].epoch)
                     THEN @ ELSE loc[t].tok]
    /\ Leave(t)
    /\ UNCHANGED <<worldVars, gen, epoch, rejected, unstored, cache, last, refresher, served, missed, torn>>

\* reverify_session: which bundle the probe is about.
Judged(t) ==
    /\ At(t, "judged")
    /\ loc' = [loc EXCEPT ![t].judged = gen[Home[t]]]
    /\ Goto(t, "probe")
    /\ UNCHANGED <<worldVars, procVars, refresher, served, op, missed, torn>>

\* The gateway is asked about the token: probe_session.
Probe(t) ==
    /\ At(t, "probe")
    /\ \/ loc[t].tok.session \in revoked /\ Goto(t, "verdict") /\ UNCHANGED <<op, loc>>
       \/ loc[t].tok.session \notin revoked /\ Goto(t, "recovered") /\ UNCHANGED <<op, loc>>
       \/ Fails("offline") /\ Leave(t)
    /\ UNCHANGED <<worldVars, procVars, refresher, served, missed, torn>>

\* The gateway takes the token: it goes into the engine, for its session.
Recovered(t) ==
    /\ At(t, "recovered")
    /\ engine' = [engine EXCEPT ![Home[t]] = IF epoch[Home[t]] = loc[t].epoch THEN loc[t].tok ELSE @]
    /\ Leave(t)
    /\ UNCHANGED <<worldVars, gen, epoch, rejected, unstored, cache, last, refresher, served, missed, torn>>

\* Mistake: a verdict for whatever bundle there is now.
VerdictOnAny(t) ==
    /\ At(t, "verdict")
    /\ Goto(t, "mark") /\ UNCHANGED <<op, loc>>
    /\ UNCHANGED <<worldVars, procVars, refresher, served, missed, torn>>

\* dead_unless_replaced: its check, then mark_session_rejected.
Verdict(t) ==
    /\ At(t, "verdict") /\ MayCheck(t)
    /\ IF gen[Home[t]] = loc[t].judged THEN Goto(t, "mark") /\ UNCHANGED <<op, loc>> ELSE Leave(t)
    /\ UNCHANGED <<worldVars, procVars, refresher, served, missed, torn>>

Mark(t) ==
    /\ At(t, "mark")
    /\ rejected' = [rejected EXCEPT ![Home[t]] = TRUE]
    /\ IF op[t] = "recheck" THEN Goto(t, "dead") /\ UNCHANGED <<op, loc>> ELSE Leave(t)
    /\ UNCHANGED <<worldVars, gen, epoch, unstored, cache, last, engine, refresher, served, missed, torn>>

\* recheck_gate_session's last look, and the push of the empty bearer, which
\* may wait for the engine's mutex in between.
Dead(t) ==
    /\ At(t, "dead")
    /\ IF rejected[Home[t]] THEN Goto(t, "drop") /\ UNCHANGED <<op, loc>> ELSE Leave(t)
    /\ UNCHANGED <<worldVars, procVars, refresher, served, missed, torn>>

Drop(t) ==
    /\ At(t, "drop")
    /\ engine' = [engine EXCEPT ![Home[t]] = None]
    /\ Leave(t)
    /\ UNCHANGED <<worldVars, gen, epoch, rejected, unstored, cache, last, refresher, served, missed, torn>>

\* org::list_current: a refused call is made again with a renewed token, and a
\* second refusal marks the session.
CallOrgs(t) ==
    /\ At(t, "call")
    /\ \/ /\ loc[t].tok.session \in revoked
          /\ IF loc[t].force
             THEN Goto(t, "mark") /\ UNCHANGED loc
             ELSE Goto(t, "begin") /\ loc' = [loc EXCEPT ![t] = [@ EXCEPT !.force = TRUE, !.res = "none"]]
          /\ UNCHANGED op
       \/ loc[t].tok.session \notin revoked /\ Leave(t)
       \/ Fails("offline") /\ Leave(t)
    /\ UNCHANGED <<worldVars, procVars, refresher, served, missed, torn>>

-----------------------------------------------------------------------------
(* Sign-in and sign-out.                                                    *)

\* login_waiting, once the browser is back: the exchange and the keychain write.
SignIn(t) ==
    LET b == [session |-> issued + 1, serial |-> issued + 1] IN
    /\ At(t, "signIn") /\ issued < MaxTokens /\ MayLand(t)
    /\ issued' = issued + 1
    /\ Write(Home[t], b)
    /\ loc' = [loc EXCEPT ![t].tok = b]
    /\ Goto(t, "signInPublish")
    /\ UNCHANGED <<witness, expired, revoked, over, gen, epoch, rejected, unstored, last, engine,
                   refresher, served, op, missed>>

\* The browser never answers, or the sign-in is cancelled, and nothing is
\* persisted; or the keychain write fails, before or after its delete.
SignInFails(t) ==
    /\ At(t, "signIn")
    /\ \/ UNCHANGED <<store, cache, torn>>
       \/ Fails("refused") /\ MayLand(t) /\ \E b \in {store, None} : Write(Home[t], b)
    /\ Leave(t)
    /\ UNCHANGED <<witness, issued, expired, revoked, over, gen, epoch, rejected, unstored, last, engine,
                   refresher, served, missed>>

SignInPublish(t) ==
    /\ At(t, "signInPublish") /\ MayLand(t)
    /\ Supersede(Home[t])
    /\ Goto(t, "signInEpoch")
    /\ UNCHANGED <<worldVars, epoch, cache, last, engine, refresher, served, op, loc, missed, torn>>

\* advance_sign_in_epoch
Advance(t) ==
    /\ pc[t] \in {"signInEpoch", "signOutEpoch"}
    /\ epoch' = [epoch EXCEPT ![Home[t]] = @ + 1]
    /\ Goto(t, IF At(t, "signInEpoch") THEN "stamp" ELSE "signOutPush")
    /\ UNCHANGED <<worldVars, gen, rejected, unstored, cache, last, engine, refresher, served, op, loc, missed, torn>>

\* stamp_sign_in.  A bundle the keychain refused is no longer served: history
\* (`served', `floor') keeps its session only.
Stamp(t) ==
    /\ At(t, "stamp")
    /\ witness' = witness + 1
    /\ Goto(t, "signInPush")
    /\ loc' = [u \in Threads |-> [loc[u] EXCEPT !.floor.serial = 0]]
    /\ served' = [x \in Procs |-> [served[x] EXCEPT !.serial = 0]]
    /\ UNCHANGED <<store, issued, expired, revoked, over, procVars, refresher, op, missed, torn>>

\* oauth_begin_login's push.
SignInPush(t) ==
    /\ At(t, "signInPush")
    /\ engine' = [engine EXCEPT ![Home[t]] = loc[t].tok]
    /\ over' = Larger(over, loc[t].tok.session - 1)
    /\ Leave(t)
    /\ UNCHANGED <<store, witness, issued, expired, revoked, gen, epoch, rejected, unstored, cache, last,
                   refresher, served, missed, torn>>

\* clear: the kept bundle goes first, by itself.  If it was in force, what is
\* read from here on is the older one in the keychain, until that goes too:
\* history keeps the session only, as above.
SignOut(t) ==
    LET x == Home[t] IN
    /\ At(t, "signOut")
    /\ unstored' = [unstored EXCEPT ![x] = Nothing]
    /\ IF Standing(x)
       THEN /\ loc' = [u \in Threads |-> IF Home[u] = x THEN [loc[u] EXCEPT !.floor.serial = 0] ELSE loc[u]]
            /\ served' = [served EXCEPT ![x].serial = 0]
       ELSE UNCHANGED <<loc, served>>
    /\ Goto(t, "signOutDelete")
    /\ UNCHANGED <<worldVars, gen, epoch, rejected, cache, last, engine, refresher, op, missed, torn>>

\* Then the keychain's; a refresh may have kept another bundle meanwhile.
SignOutDelete(t) ==
    /\ At(t, "signOutDelete") /\ MayLand(t)
    /\ Write(Home[t], None)
    /\ loc' = [loc EXCEPT ![t].over = issued]
    /\ Goto(t, "signOutPublish")
    /\ UNCHANGED <<witness, issued, expired, revoked, over, gen, epoch, rejected, unstored, last, engine,
                   refresher, served, op, missed>>

\* A delete that fails ends the sign-out there, the kept bundle gone.
SignOutFails(t) ==
    /\ At(t, "signOutDelete") /\ MayLand(t) /\ Fails("refused")
    /\ \E b \in {store, None} : Write(Home[t], b)
    /\ Leave(t)
    /\ UNCHANGED <<witness, issued, expired, revoked, over, gen, epoch, rejected, unstored, last, engine,
                   refresher, served, missed>>

SignOutPublish(t) ==
    /\ At(t, "signOutPublish") /\ MayLand(t)
    /\ rejected' = [rejected EXCEPT ![Home[t]] = FALSE]
    /\ gen' = [gen EXCEPT ![Home[t]] = @ + 1]
    /\ Goto(t, "signOutEpoch")
    /\ UNCHANGED <<worldVars, epoch, unstored, cache, last, engine, refresher, served, op, loc, missed, torn>>

\* oauth_sign_out's push of the empty bearer.
SignOutPush(t) ==
    /\ At(t, "signOutPush")
    /\ engine' = [engine EXCEPT ![Home[t]] = None]
    /\ over' = Larger(over, loc[t].over)
    /\ Leave(t)
    /\ UNCHANGED <<store, witness, issued, expired, revoked, gen, epoch, rejected, unstored, cache, last,
                   refresher, served, missed, torn>>

-----------------------------------------------------------------------------
(* The world.  Tokens live equally long, so they expire in the order they   *)
(* were issued; one expires only while another can still be issued, so that *)
(* the bound on tokens does not look like an outage.                        *)

Expire ==
    /\ expired < issued /\ issued < MaxTokens
    /\ expired' = expired + 1
    /\ UNCHANGED <<store, witness, issued, revoked, over, procVars, threadVars>>

Revoke(s) ==
    /\ Fails("revoke") /\ s \notin revoked /\ \E x \in Procs : InForce(x).session = s
    /\ revoked' = revoked \union {s}
    /\ UNCHANGED <<store, witness, issued, expired, over, procVars, threadVars>>

Step(t) ==
    \/ Begin(t) \/ Look(t) \/ Fetch(t) \/ FetchFails(t) \/ Keep(t) \/ Lock(t)
    \/ Granted(t) \/ Denied(t) \/ Check(t) \/ Store(t) \/ Publish(t) \/ Hold(t)
    \/ Push(t) \/ Judged(t) \/ Probe(t) \/ Recovered(t) \/ Verdict(t) \/ Mark(t)
    \/ Dead(t) \/ Drop(t) \/ CallOrgs(t)
    \/ SignIn(t) \/ SignInFails(t) \/ SignInPublish(t) \/ Advance(t) \/ Stamp(t) \/ SignInPush(t)
    \/ SignOut(t) \/ SignOutDelete(t) \/ SignOutFails(t) \/ SignOutPublish(t) \/ SignOutPush(t)

Next ==
    \/ \E t \in Threads : Step(t) \/ \E o \in Operations : Call(t, o)
    \/ Expire \/ \E s \in 1 .. MaxTokens : Revoke(s)

Spec == Init /\ [][Next]_vars

\* A thread inside an operation gets its turn even when the refresh lock is
\* contended, and the refresh loop never stops ticking.  Nothing makes anyone
\* sign in or out, a bundle expire or a gateway refuse.
FairSpec ==
    /\ Spec
    /\ \A t \in Threads : SF_vars(Step(t)) /\ WF_vars(Call(t, "tick"))

-----------------------------------------------------------------------------
(* Properties.                                                              *)

Labels == {"idle", "begin", "look", "fetch", "keep", "lock", "post", "granted", "store", "publish", "hold",
           "push", "judged", "probe", "recovered", "verdict", "mark", "dead", "drop", "call",
           "signIn", "signInPublish", "signInEpoch", "stamp", "signInPush",
           "signOut", "signOutDelete", "signOutPublish", "signOutEpoch", "signOutPush"}
Results == {"none", "live", "signedOut", "refused", "unavailable"}
Locals == [force: BOOLEAN, phase: {"first", "again", "after"}, res: Results, tok: Bundle, seen: Nat,
           basis: Nat, judged: Nat, epoch: Nat, wit: Nat, floor: Bundle, over: Nat]

\* Every variable keeps to its range.
TypeOK ==
    /\ store \in Bundle /\ witness \in Nat /\ issued \in Nat /\ over \in Nat
    /\ expired \in Nat /\ revoked \in SUBSET Nat
    /\ gen \in [Procs -> Nat] /\ epoch \in [Procs -> Nat]
    /\ rejected \in [Procs -> BOOLEAN]
    /\ unstored \in [Procs -> [tok: Bundle, gen: Nat, wit: Nat]]
    /\ cache \in [Procs -> [tok: Bundle, wit: Nat, kept: BOOLEAN]]
    /\ refresher \in [Procs -> Threads \union {"free"}]
    /\ last \in [Procs -> {"ok", "refused", "unavailable"}]
    /\ engine \in [Procs -> Bundle] /\ served \in [Procs -> Bundle]
    /\ pc \in [Threads -> Labels]
    /\ op \in [Threads -> Operations \union {"none"}]
    /\ loc \in [Threads -> Locals]
    /\ missed \in SUBSET Threads /\ torn \in SUBSET Threads

\* A session that a finished sign-out or a newer sign-in has ended is not
\* brought back by a refresh that was in flight, is not read, and is in
\* no engine: the generation check of refresh_stored and push_for_sign_in.
EndedSessionsStayEnded ==
    \A x \in Procs :
        /\ InForce(x) = None \/ InForce(x).session > over
        /\ engine[x] = None \/ engine[x].session > over

\* A read that begins after a sign-out has finished does not return the
\* session it ended, from the keychain, from memory or from a cached read.
Returns(t) == loc[t].res # "live" /\ loc'[t].res = "live"
SignOutHonoured ==
    [][\A t \in Threads : Returns(t) => loc'[t].tok.session > loc[t].over]_vars

\* No read returns a bundle older than the one in force when it began, or than
\* one that an earlier read of the process has returned: a renewed bundle that
\* the keychain refused is not lost again (keep_unstored), nor a cached read
\* served past it.  In the few instructions between `store's write and its
\* publication the kept bundle answers one read and the keychain's another, so
\* reads that end there are exempt.  So are, within one session, the reads after
\* a sign-out has dropped a kept bundle in force (oauth.rs:685) and those after
\* a sign-in has outdated one (Stamp): the keychain's answers them, and is older.
ReadsMoveOn ==
    [][\A t \in Threads : Returns(t) /\ Peers(t, {"publish", "signInPublish"}) \ {t} = {}
                             => ~Older(loc'[t].tok, loc[t].floor)]_vars

\* "Rejected by the gateway" is said only of a session that is refused, never
\* of one that a sign-in has put in its place: dead_unless_replaced.
RejectedIsRefused ==
    \A x \in Procs :
        rejected[x] /\ (\A t \in Threads : Home[t] = x => pc[t] # "signInPublish")
            => InForce(x) = None \/ InForce(x).session \in revoked

\* The refresh token sent to the identity provider is that of the session in
\* force, and not one that another caller has renewed while this one waited:
\* refresh_stored reads the bundle again under its lock.
RefreshesWhatStands ==
    \A t \in Threads :
        LET b == InForce(Home[t]) IN
        At(t, "post") /\ gen[Home[t]] = loc[t].basis /\ Peers(t, Landing) = {} /\ b # None
            => b.session = loc[t].tok.session /\ b.serial <= loc[t].tok.serial

\* Whoever calls an operation comes back from it: no caller waits for ever on
\* the refresh lock, whichever way the refresh it waits for ends.
OperationsReturn == \A t \in Threads : ~At(t, "idle") ~> At(t, "idle")

\* What the engine of a process should inject.
Bearer(x) ==
    IF rejected[x] \/ InForce(x) = None \/ ~Fresh(InForce(x)) THEN None ELSE InForce(x)

\* As long as the refresh loop keeps getting answers, the engine ends up with
\* the bearer of the session in force, or with none when there is none,
\* whatever pushes raced each other before.
EngineConverges ==
    \A t \in Threads :
        []<>(At(t, "push") /\ loc[t].res # "unavailable") => <>[](engine[Home[t]] = Bearer(Home[t]))
=============================================================================
