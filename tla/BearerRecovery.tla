--------------------------- MODULE BearerRecovery ---------------------------
(***************************************************************************)
(* What a refused bearer sets off (crates/core/src/proxy/mod.rs, relay.rs, *)
(* engine.rs, helper.rs; the shell's observer, sweep and session loop).    *)
(*                                                                         *)
(* The engine sends the tools' requests under the bearer on its token      *)
(* watch.  When the gateway answers 401 the engine asks for a check of the *)
(* session, and a request may wait for the outcome: a relayed one before   *)
(* it is sent again, an intercepted one before it is sent at all.  A latch *)
(* keeps it to one check at a time, a cooldown to one a minute.            *)
(*                                                                         *)
(* Session.tla models the check's refresh and verdict step by step; here   *)
(* it is one step with its three outcomes.  A bearer is the number of its  *)
(* minting, 0 the empty one.  The account is an OAuth one throughout.  On  *)
(* Linux the engine is the helper daemon's: its observer counts and no     *)
(* verdict follows; what its shell pushes arrives as the loop's pushes do. *)
(***************************************************************************)
EXTENDS Naturals

CONSTANTS
    Relayed,        \* requests through the relay, sent again after a 401
    Streamed,       \* requests through the interceptor, which cannot be
    Sweeps,         \* threads of the shell that check without the observer
    Nil,            \* no bearer, no check
    MaxTokens       \* bound: bearers minted

Requests == Relayed \cup Streamed
Holders  == Requests \cup Sweeps
Bearers  == 0..MaxTokens

ASSUME RecoveryAssumption ==
    /\ Relayed \cap Streamed = {} /\ Requests \cap Sweeps = {}
    /\ MaxTokens \in Nat \ {0}
    /\ Nil \notin Holders /\ Nil \notin Bearers

VARIABLES
    linux,       \* the engine lives in the helper daemon
    watch,       \* the bearer on the engine's token watch
    refused,     \* the last bearer the interceptor saw refused
    stored,      \* the bearer of the stored session, 0 for none
    minted,      \* bearers minted so far
    latch,       \* a check is in flight
    cooling,     \* the cooldown is running
    phase,       \* who took the latch -> where its check is
    verdict,     \* -> the bearer the check decided on, 0 for a dead session
    stale,       \* -> the user has signed in or out since
    req          \* request -> where it is

session == <<stored, minted>>
checks  == <<phase, verdict, stale>>
guards  == <<latch, cooling, checks>>
recoveryVars    == <<linux, watch, refused, session, guards, req>>

Waiting   == {"look", "ask", "swap", "told", "wait"}
Deciding  == {"verify", "push"}
Finishing == {"cool", "unlatch", "wake"}

Fresh == [at |-> "idle", sent |-> 0, again |-> FALSE, unseen |-> FALSE,
          woken |-> FALSE, ended |-> FALSE, asked |-> FALSE, joined |-> Nil]

RecoveryInit ==
    /\ linux \in BOOLEAN
    /\ watch = 1 /\ refused = 0
    /\ stored = 1 /\ minted = 1
    /\ latch = FALSE /\ cooling = FALSE
    /\ phase = [h \in Holders |-> "idle"]
    /\ verdict = [h \in Holders |-> Nil]
    /\ stale = [h \in Holders |-> FALSE]
    /\ req = [r \in Requests |-> Fresh]

-----------------------------------------------------------------------------
\* A push wakes every request that waits, whether or not the value moved.
Notified(q) == [r \in Requests |-> [q[r] EXCEPT !.unseen = @ \/ q[r].at \in Waiting]]
Push(t)     == watch' = t /\ req' = Notified(req)

Become(r, next) == req' = [req EXCEPT ![r] = next]
Goto(r, place)  == Become(r, [req[r] EXCEPT !.at = place])
End(r, answer)  == Become(r, [Fresh EXCEPT !.at = answer])
Send(r, t, retry) == Become(r, [Fresh EXCEPT !.at = "send", !.sent = t, !.again = retry])

\* The check of h gets to a place.
Reach(h, place) == phase' = [phase EXCEPT ![h] = place] /\ UNCHANGED <<verdict, stale>>

\* The user.  What was judged before a sign-in or a sign-out is not pushed
\* after it.
Outdated ==
    /\ stale' = [h \in Holders |-> stale[h] \/ phase[h] \in Deciding]
    /\ UNCHANGED <<phase, verdict>>

LogIn ==
    /\ minted < MaxTokens
    /\ minted' = minted + 1 /\ stored' = minted'
    /\ Push(minted') /\ Outdated
    /\ UNCHANGED <<linux, refused, latch, cooling>>

LogOut ==
    /\ stored # 0
    /\ stored' = 0
    /\ Push(0) /\ Outdated
    /\ UNCHANGED <<linux, refused, minted, latch, cooling>>

-----------------------------------------------------------------------------
\* bearer_needs_recovery, asked only where a verdict can arrive.  Whether the
\* bearer is past its own expiry is the clock's choice.
NeedsRecovery(r) ==
    IF linux \/ r \in Relayed THEN {FALSE}
    ELSE IF watch = refused THEN {TRUE} ELSE BOOLEAN

\* A request takes the bearer on the watch, or is answered as signed out.
\* (Bound: the check a request started is over before it is made again.)
Arrive(r) ==
    /\ req[r].at \in {"idle", "refusal"} /\ phase[r] = "idle"
    /\ IF watch = 0 THEN End(r, "idle")
       ELSE \E waits \in NeedsRecovery(r) :
              Become(r, [Fresh EXCEPT !.sent = watch, !.at = IF waits THEN "look" ELSE "send"])
    /\ UNCHANGED <<linux, watch, refused, session, guards>>

\* The gateway's answer, which may also be about the tool's own credential.  A
\* relayed request starts to wait, or ends if it was sent again; the
\* interceptor remembers the bearer and asks before it passes the 401 on.
Accept(r) ==
    /\ req[r].at = "send"
    /\ End(r, "idle")
    /\ UNCHANGED <<linux, watch, refused, session, guards>>

Refuse(r) ==
    /\ req[r].at = "send"
    /\ IF r \in Streamed
       THEN /\ refused' = req[r].sent
            /\ Become(r, [req[r] EXCEPT !.at = "ask", !.again = TRUE])
       ELSE /\ refused' = refused
            /\ IF req[r].again THEN End(r, "refusal") ELSE Goto(r, "look")
    /\ UNCHANGED <<linux, watch, session, guards>>

\* recovered_token.  With no bearer to go on with, a relayed request hands the
\* 401 back and an intercepted one is sent under what the watch then holds.
GiveUp(r) ==
    IF r \in Relayed \/ req[r].again THEN End(r, "refusal")
    ELSE IF watch = 0 THEN End(r, "idle")
    ELSE Send(r, watch, FALSE)

Look(r) ==
    /\ req[r].at = "look"
    /\ IF watch = 0 \/ (watch = req[r].sent /\ req[r].ended) THEN GiveUp(r)
       ELSE IF watch # req[r].sent THEN Send(r, watch, r \in Relayed)
       ELSE Become(r, [req[r] EXCEPT !.unseen = FALSE, !.asked = TRUE,
                                     !.at = IF req[r].asked THEN "wait" ELSE "ask"])
    /\ UNCHANGED <<linux, watch, refused, session, guards>>

\* notify_gate_auth_observer: the cooldown first, then the latch.
Ask(r) ==
    /\ req[r].at = "ask"
    /\ IF cooling THEN GiveUp(r) ELSE Goto(r, "swap")
    /\ UNCHANGED <<linux, watch, refused, session, guards>>

\* The check in flight that a request joins.  One whose asking spans the end
\* of an earlier check joins none: that end may wake it.
InFlight(p) == {h \in Holders : p[h] \in Deciding}
Joined(r, p) ==
    IF req[r].woken \/ InFlight(p) = {} \/ \E h \in Holders : p[h] = "wake"
    THEN Nil ELSE CHOOSE h \in InFlight(p) : TRUE

\* A request that may still be sent waits.
Told(r, p) ==
    IF req[r].again THEN End(r, "refusal")
    ELSE Become(r, [req[r] EXCEPT !.at = "told", !.joined = Joined(r, p)])

Swap(r) ==
    /\ req[r].at = "swap" /\ latch
    /\ Told(r, phase)
    /\ UNCHANGED <<linux, watch, refused, session, guards>>

\* The observer of the shell starts a thread; that of the daemon counts, with
\* nothing to wait for.  (Bound: one check of a request at a time.)
Observe(r) ==
    /\ req[r].at = "swap" /\ ~latch /\ phase[r] = "idle"
    /\ latch' = TRUE
    /\ Reach(r, IF linux THEN "cool" ELSE "verify")
    /\ IF linux THEN Goto(r, "count") ELSE Told(r, phase')
    /\ UNCHANGED <<linux, watch, refused, session, cooling>>

Counted(r) ==
    /\ req[r].at = "count" /\ phase[r] = "idle"
    /\ GiveUp(r)
    /\ UNCHANGED <<linux, watch, refused, session, guards>>

\* The wait: for a push, for the check's end, for the deadline.
Sleep(r) ==
    /\ req[r].at = "told"
    /\ Goto(r, "wait")
    /\ UNCHANGED <<linux, watch, refused, session, guards>>

\* Mistake: a push that did not move the bearer is taken for the verdict.
ChangedOnce(r) ==
    /\ req[r].at = "wait" /\ req[r].unseen
    /\ IF watch = req[r].sent THEN GiveUp(r) ELSE Goto(r, "look")
    /\ UNCHANGED <<linux, watch, refused, session, guards>>

Changed(r) ==
    /\ req[r].at = "wait" /\ req[r].unseen
    /\ Goto(r, "look")
    /\ UNCHANGED <<linux, watch, refused, session, guards>>

CheckOver(r) ==
    /\ req[r].at = "wait" /\ req[r].woken
    /\ Become(r, [req[r] EXCEPT !.at = "look", !.ended = TRUE])
    /\ UNCHANGED <<linux, watch, refused, session, guards>>

Deadline(r) ==
    /\ req[r].at = "wait" /\ ~req[r].unseen
    /\ End(r, IF r \in Relayed THEN "idle" ELSE "late")
    /\ UNCHANGED <<linux, watch, refused, session, guards>>

Late(r) ==
    /\ req[r].at = "late"
    /\ GiveUp(r)
    /\ UNCHANGED <<linux, watch, refused, session, guards>>

-----------------------------------------------------------------------------
\* The check, on the thread of whoever holds the latch.
Settled(h, q) == [r \in Requests |-> [q[r] EXCEPT !.joined = IF @ = h THEN Nil ELSE @]]

Decided(h) ==
    /\ phase' = [phase EXCEPT ![h] = "cool"]
    /\ verdict' = [verdict EXCEPT ![h] = Nil]
    /\ stale' = [stale EXCEPT ![h] = FALSE]

Decide(h, t) ==
    /\ phase' = [phase EXCEPT ![h] = "push"]
    /\ verdict' = [verdict EXCEPT ![h] = t]
    /\ stale' = stale
    /\ UNCHANGED <<linux, watch, refused, latch, cooling, req>>

Recovered(h) ==
    /\ phase[h] = "verify" /\ stored # 0 /\ minted < MaxTokens
    /\ minted' = minted + 1 /\ stored' = minted'
    /\ Decide(h, minted')

Dead(h) ==
    /\ phase[h] = "verify" /\ stored # 0
    /\ stored' = 0 /\ minted' = minted
    /\ Decide(h, 0)

\* No verdict, no session, or a panic: the guard is dropped all the same.
Unchanged(h) ==
    /\ phase[h] = "verify"
    /\ Decided(h)
    /\ req' = Settled(h, req)
    /\ UNCHANGED <<linux, watch, refused, session, latch, cooling>>

\* The verdict reaches the watch, unless a sign-in or a sign-out came first.
Pushes(h) ==
    /\ phase[h] = "push"
    /\ IF stale[h]
       THEN watch' = watch /\ req' = Settled(h, req)
       ELSE watch' = verdict[h] /\ req' = Settled(h, Notified(req))
    /\ Decided(h)
    /\ UNCHANGED <<linux, refused, session, latch, cooling>>

\* gate_auth_check_finished: the cooldown, the latch, and last the waiters.
Cool(h) ==
    /\ phase[h] = "cool"
    /\ cooling' = TRUE
    /\ Reach(h, "unlatch")
    /\ UNCHANGED <<linux, watch, refused, session, latch, req>>

Unlatch(h) ==
    /\ phase[h] = "unlatch"
    /\ latch' = FALSE
    /\ Reach(h, "wake")
    /\ UNCHANGED <<linux, watch, refused, session, cooling, req>>

\* Mistake: the wake-up is registered anew at every turn of the wait.
WakeSleepers(h) ==
    /\ phase[h] = "wake"
    /\ req' = [r \in Requests |-> [req[r] EXCEPT !.woken = @ \/ req[r].at = "wait"]]
    /\ Reach(h, "idle")
    /\ UNCHANGED <<linux, watch, refused, session, latch, cooling>>

WakeWaiters(h) ==
    /\ phase[h] = "wake"
    /\ req' = [r \in Requests |-> [req[r] EXCEPT !.woken = @ \/ req[r].at \in Waiting]]
    /\ Reach(h, "idle")
    /\ UNCHANGED <<linux, watch, refused, session, latch, cooling>>

Thaw ==
    /\ cooling
    /\ cooling' = FALSE
    /\ UNCHANGED <<linux, watch, refused, session, latch, checks, req>>

-----------------------------------------------------------------------------
\* try_begin_gate_auth_check: the latch alone.
Sweep(h) ==
    /\ ~linux
    /\ phase[h] = "idle" /\ ~latch
    /\ latch' = TRUE
    /\ Reach(h, "verify")
    /\ UNCHANGED <<linux, watch, refused, session, cooling, req>>

\* A tick of the session loop pushes what it read: the bearer stored, which the
\* watch may well hold already, one it has renewed, or none for a dead session.
Tick(t) ==
    /\ \/ t = stored /\ UNCHANGED session
       \/ stored # 0 /\ minted < MaxTokens /\ t = minted + 1 /\ minted' = t /\ stored' = t
       \/ stored # 0 /\ t = 0 /\ stored' = 0 /\ minted' = minted
    /\ Push(t)
    /\ UNCHANGED <<linux, refused, guards>>

-----------------------------------------------------------------------------
Answer(r) == Accept(r) \/ Refuse(r)
Wait(r)   == \/ Look(r) \/ Ask(r) \/ Swap(r) \/ Observe(r) \/ Counted(r)
             \/ Sleep(r) \/ Changed(r) \/ CheckOver(r) \/ Late(r)
Run(h)    == \/ Recovered(h) \/ Dead(h) \/ Unchanged(h) \/ Pushes(h)
             \/ Cool(h) \/ Unlatch(h) \/ WakeWaiters(h)

RecoveryNext ==
    \/ LogIn \/ LogOut
    \/ \E r \in Requests : Arrive(r) \/ Answer(r) \/ Wait(r) \/ Deadline(r)
    \/ \E h \in Holders : Run(h)
    \/ \E h \in Sweeps : Sweep(h)
    \/ Thaw
    \/ \E t \in Bearers : Tick(t)

RecoverySpec == RecoveryInit /\ [][RecoveryNext]_recoveryVars

-----------------------------------------------------------------------------
RecoveryTypeOK ==
    /\ linux \in BOOLEAN /\ latch \in BOOLEAN /\ cooling \in BOOLEAN
    /\ watch \in Bearers /\ refused \in Bearers
    /\ stored \in Bearers /\ minted \in Bearers
    /\ phase \in [Holders -> {"idle"} \cup Deciding \cup Finishing]
    /\ verdict \in [Holders -> Bearers \cup {Nil}]
    /\ stale \in [Holders -> BOOLEAN]
    /\ req \in [Requests -> [at : Waiting \cup {"idle", "send", "count", "late", "refusal"},
                             sent : Bearers, again : BOOLEAN, unseen : BOOLEAN,
                             woken : BOOLEAN, ended : BOOLEAN, asked : BOOLEAN,
                             joined : Holders \cup {Nil}]]

\* Whose thread has the latch, from the moment it is taken to its release.
Holding == {h \in Holders : phase[h] \in Deciding \cup {"cool", "unlatch"}}

\* The latch is set exactly while one check is in flight, whoever asked for it
\* and however it ends: two never force two refreshes at once, and a latch
\* nobody is left to release never silences the recovery for good.
OneHolder ==
    /\ \A h, k \in Holding : h = k
    /\ latch <=> Holding # {}

\* A request that waits has something to wait for: a wake-up it has not looked
\* at, or a check that has yet to end.
NoLostWakeup ==
    \A r \in Requests :
        req[r].at \in {"told", "wait"} => req[r].woken \/ \E h \in Holders : phase[h] # "idle"

\* A request hands its refusal back, or goes on under the bearer it had.
GivesUp(r) == req'[r].at = "refusal" \/ (req'[r].at = "send" /\ req'[r].sent = req[r].sent)

\* A request that joined a check gives up, before its deadline, only after the
\* check has decided and pushed: no tick in the window and no other wake-up
\* takes the recovered bearer from it.
OutlastsCheck ==
    [][\A r \in Requests :
         req[r].at \in Waiting /\ GivesUp(r) /\ watch # 0 => req[r].joined = Nil]_recoveryVars
=============================================================================
