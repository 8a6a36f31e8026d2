---------------------------- MODULE SecurityFeed ----------------------------
(***************************************************************************)
(* The live feed of security events                                        *)
(* (crates/core/src/security_feed/client.rs, mod.rs).                      *)
(*                                                                         *)
(* One task connects to the gateway, reads a stream of events and, once    *)
(* per connection, asks for the history the stream cannot replay.  What it *)
(* receives goes through a window of ids into a bounded buffer and to the  *)
(* windows.  The user signs in, signs out and changes organisation beside  *)
(* it: `account' is the organisation whose credentials are stored.         *)
(*                                                                         *)
(* An event is its place in `published', which is its `at' and its stream  *)
(* position; the same event has one id on the stream and another in the    *)
(* history.  A request may have two: one decision before it is sent on and *)
(* one about its answer.  Every lock of the feed held is one step.         *)
(***************************************************************************)
EXTENDS Naturals, Sequences, FiniteSets, SequencesExt

CONSTANTS
    Accounts,            \* organisations with credentials of their own
    Nobody,              \* no account is stored
    Nothing,             \* no event is between the two locks of `deliver'
    RECENT_CAPACITY,     \* events the buffer holds
    DEDUPE_CAPACITY,     \* ids remembered
    MaxEvents,           \* bound: events the gateway publishes
    MaxFaults,           \* bound: refusals, failures and ends of streams
    MaxSwitches          \* bound: changes of organisation and sign-outs

ASSUME FeedAssumption ==
    /\ Nobody \notin Accounts /\ Nothing \notin {"live", "history"} \X (1..MaxEvents)
    /\ RECENT_CAPACITY \in Nat \ {0}
    /\ DEDUPE_CAPACITY \in Nat \ {0}
    /\ MaxEvents \in Nat /\ MaxFaults \in Nat /\ MaxSwitches \in Nat

VARIABLES
    account,     \* organisation whose credentials are stored
    rejected,    \* the session was marked refused
    change,      \* what an account change has still to clear
    switches,    \* account changes so far
    published,   \* account of each event the gateway published, in order
    request,     \* the request of each, named by its first event
    at,          \* where the task is
    cred,        \* account the connection was asked with
    wire,        \* events the stream carries and the task has not read
    ask,         \* the catch-up asked for: whose, and from which event on
    page,        \* events of the history received and not yet merged
    hand,        \* id admitted and not yet in the buffer
    recent,      \* the buffer, newest last
    seen,        \* ids remembered, newest last
    historyOk,   \* the verdict on the last catch-up
    state,       \* what the windows are told of the connection
    marked,      \* the task has marked a session refused
    faults,      \* faults so far
    shown,       \* history: ids shown since the buffer was last cleared
    behind,      \* history: this connection's catch-up failed, or an account
                 \* change went by while it was open
    lost         \* history: events the history will not be asked for again

users == <<account, rejected, change, switches>>
gateway == <<published, request>>
held  == <<recent, seen, hand>>
past  == <<shown, behind, lost>>
vars  == <<users, gateway, at, cred, wire, ask, page, held, historyOk,
           state, marked, faults, past>>

Events == 1..Len(published)
Ids    == {"live", "history"} \X (1..MaxEvents)
Connected == at \in {"asked", "open", "fetch", "sent", "merge", "read"}

Init ==
    /\ account \in Accounts \cup {Nobody}
    /\ rejected = FALSE /\ change = "none" /\ switches = 0
    /\ published = <<>> /\ request = <<>>
    /\ at = "top" /\ cred = Nobody
    /\ wire = <<>> /\ ask = <<Nobody, 0>> /\ page = {}
    /\ hand = Nothing /\ recent = <<>> /\ seen = <<>>
    /\ historyOk = TRUE
    /\ state = "offline"
    /\ marked = FALSE /\ faults = 0
    /\ shown = {} /\ behind = FALSE /\ lost = {}

-----------------------------------------------------------------------------
\* The account's side.  `credential_headers' finds what is stored at the
\* moment it is called.
Credential == IF rejected THEN Nobody ELSE account

\* `set_org' and `clear_account' store the change, then reset the feed.
SwitchTo(a) ==
    /\ change = "none" /\ switches < MaxSwitches
    /\ a # account /\ ~rejected
    /\ account' = a
    /\ change' = "recent"
    /\ switches' = switches + 1
    /\ UNCHANGED <<rejected, gateway, at, cred, wire, ask, page, held,
                   historyOk, state, marked, faults, past>>

\* Signing in again after a refusal keeps the organisation and resets nothing.
SignIn ==
    /\ rejected
    /\ rejected' = FALSE
    /\ UNCHANGED <<account, change, switches, gateway, at, cred, wire, ask,
                   page, held, historyOk, state, marked, faults, past>>

\* `reset_for_account_change': the buffer under its lock, then the ids under
\* theirs, then the verdict.
ClearRecent ==
    /\ change = "recent"
    /\ recent' = <<>>
    /\ change' = "seen"
    /\ shown' = {}
    /\ behind' = Connected
    /\ lost' = {}
    /\ UNCHANGED <<account, rejected, switches, gateway, at, cred, wire, ask,
                   page, seen, hand, historyOk, state, marked, faults>>

\* Mistake: the ids of the account that went stay remembered.
ClearSeenKept ==
    /\ change = "seen"
    /\ historyOk' = TRUE
    /\ change' = "none"
    /\ behind' = Connected
    /\ UNCHANGED <<account, rejected, switches, gateway, at, cred, wire, ask,
                   page, held, state, marked, faults, shown, lost>>

ClearSeen ==
    /\ change = "seen"
    /\ seen' = <<>>
    /\ historyOk' = TRUE
    /\ change' = "none"
    /\ behind' = Connected
    /\ UNCHANGED <<account, rejected, switches, gateway, at, cred, wire, ask,
                   page, recent, hand, state, marked, faults, shown, lost>>

\* What the next decision about a's may be about: a new request, or one of which
\* only the first phase was decided.
Decides(a) == {Len(published) + 1} \cup
    {k \in Events : published[k] = a /\ {j \in Events : request[j] = request[k]} = {k}}

\* The gateway decides about a request of some organisation: an open stream
\* of that organisation carries the event.
Publish(a) ==
    /\ Len(published) < MaxEvents
    /\ published' = Append(published, a)
    /\ \E r \in Decides(a) : request' = Append(request, r)
    /\ wire' = IF Connected /\ at # "asked" /\ cred = a
               THEN Append(wire, Len(published)') ELSE wire
    /\ UNCHANGED <<users, at, cred, ask, page, held, historyOk, state, marked,
                   faults, past>>

-----------------------------------------------------------------------------
\* The task.  A connection that is over leaves nothing on the wire.
Rest(next) ==
    /\ at' = "rest"
    /\ state' = next
    /\ cred' = Nobody /\ wire' = <<>>
    /\ behind' = FALSE

Fault == faults < MaxFaults /\ faults' = faults + 1

Connect ==
    /\ at = "top"
    /\ Credential # Nobody
    /\ cred' = Credential
    /\ at' = "asked"
    /\ UNCHANGED <<users, gateway, wire, ask, page, held, historyOk, state,
                   marked, faults, past>>

NotReady ==
    /\ at = "top"
    /\ Credential = Nobody
    /\ Rest("offline")
    /\ UNCHANGED <<users, gateway, ask, page, held, historyOk, marked,
                   faults, shown, lost>>

Accepted ==
    /\ at = "asked"
    /\ at' = "open"
    /\ UNCHANGED <<users, gateway, cred, wire, ask, page, held, historyOk,
                   state, marked, faults, past>>

\* Only the first refusal of the task marks the session, which one it is now.
Refused ==
    /\ at = "asked" /\ Fault
    /\ marked' = TRUE
    /\ rejected' = (rejected \/ (~marked /\ account # Nobody))
    /\ Rest("offline")
    /\ UNCHANGED <<account, change, switches, gateway, ask, page, held,
                   historyOk, shown, lost>>

\* No answer, another status, or the end of a stream, with or without `bye'.
Ended ==
    /\ at \in {"asked", "open", "read"} /\ hand = Nothing /\ Fault
    /\ Rest("reconnecting")
    /\ UNCHANGED <<users, gateway, ask, page, held, historyOk, marked,
                   shown, lost>>

\* Mistake: offline, only an account change ends the wait.
WakeOnSignal ==
    /\ at = "rest"
    /\ state = "offline" => change # "none"
    /\ at' = "top"
    /\ UNCHANGED <<users, gateway, cred, wire, ask, page, held, historyOk,
                   state, marked, faults, past>>

\* A wait ends with its time or with `retry_now'.
Wake ==
    /\ at = "rest"
    /\ at' = "top"
    /\ UNCHANGED <<users, gateway, cred, wire, ask, page, held, historyOk,
                   state, marked, faults, past>>

Hello ==
    /\ at = "open"
    /\ state' = "live"
    /\ at' = "fetch"
    /\ UNCHANGED <<users, gateway, cred, wire, ask, page, held, historyOk,
                   marked, faults, past>>

\* `newest_at': the boundary the catch-up asks from, the newest event held.
NewestAt == IF recent = <<>> THEN 0 ELSE Last(recent)[2]

\* The catch-up reads the credentials again.
Fetch ==
    /\ at = "fetch"
    /\ Credential # Nobody
    /\ ask' = <<Credential, NewestAt>>
    /\ at' = "sent"
    /\ UNCHANGED <<users, gateway, cred, wire, page, held, historyOk, state,
                   marked, faults, past>>

\* No credential, or no usable answer: the stream goes on without its history.
CatchUpFailed ==
    /\ \/ at = "fetch" /\ Credential = Nobody /\ UNCHANGED faults
       \/ at = "sent" /\ Fault
    /\ historyOk' = FALSE
    /\ at' = "read"
    /\ behind' = TRUE
    /\ UNCHANGED <<users, gateway, cred, wire, ask, page, held, state,
                   marked, shown, lost>>

\* What the history route has, from the boundary on.
History(who, since) == {k \in Events : published[k] = who /\ k >= since}

\* The answer is all of it, or truncated to its newest events: that is logged, and
\* the older ones are not asked for again.
CaughtUp ==
    /\ at = "sent"
    /\ \E first \in {0} \cup History(ask[1], ask[2]) :
          page' = {k \in History(ask[1], ask[2]) : k >= first}
    /\ lost' = lost \cup (History(ask[1], ask[2]) \ page')
    /\ historyOk' = TRUE
    /\ at' = "merge"
    /\ UNCHANGED <<users, gateway, cred, wire, ask, held, state, marked,
                   faults, shown, behind>>

\* `deliver', first lock: an id not remembered is admitted, the oldest beyond
\* the capacity forgotten.
LastOf(s, n) == IF Len(s) > n THEN SubSeq(s, Len(s) - n + 1, Len(s)) ELSE s

Admit(id) ==
    /\ IF id \in ToSet(seen)
       THEN UNCHANGED <<seen, hand>>
       ELSE /\ seen' = LastOf(Append(seen, id), DEDUPE_CAPACITY)
            /\ hand' = id
    /\ UNCHANGED recent

\* `deliver', second lock, and the update to the windows.  The history is asked from
\* this event on, also where those before it were never received.
Put ==
    /\ hand # Nothing
    /\ recent' = LastOf(Append(recent, hand), RECENT_CAPACITY)
    /\ shown' = shown \cup {hand}
    /\ lost' = lost \cup IF behind \/ change # "none" THEN 1..(hand[2] - 1) ELSE {}
    /\ hand' = Nothing
    /\ UNCHANGED <<users, gateway, at, cred, wire, ask, page, seen,
                   historyOk, state, marked, faults, behind>>

\* `merge_history', oldest first: a request already in the buffer is passed over.
Held(k) == \E i \in DOMAIN recent : request[recent[i][2]] = request[k]

Merge ==
    /\ at = "merge" /\ hand = Nothing
    /\ \E k \in page :
          /\ \A j \in page : k <= j
          /\ page' = page \ {k}
          /\ IF Held(k) THEN UNCHANGED held ELSE Admit(<<"history", k>>)
    /\ UNCHANGED <<users, gateway, at, cred, wire, ask, historyOk, state,
                   marked, faults, past>>

Merged ==
    /\ at = "merge" /\ hand = Nothing /\ page = {}
    /\ at' = "read"
    /\ UNCHANGED <<users, gateway, cred, wire, ask, page, held, historyOk,
                   state, marked, faults, past>>

Read ==
    /\ at = "read" /\ hand = Nothing /\ wire # <<>>
    /\ wire' = Tail(wire)
    /\ Admit(<<"live", Head(wire)>>)
    /\ UNCHANGED <<users, gateway, at, cred, ask, page, historyOk, state,
                   marked, faults, past>>

-----------------------------------------------------------------------------
Task ==
    \/ Connect \/ NotReady \/ Accepted \/ Wake
    \/ Hello \/ Fetch \/ CaughtUp \/ CatchUpFailed
    \/ Merge \/ Merged \/ Read \/ Put

Reset == ClearRecent \/ ClearSeen

Next ==
    \/ Task \/ Refused \/ Ended \/ Reset \/ SignIn
    \/ \E a \in Accounts \cup {Nobody} : SwitchTo(a)
    \/ \E a \in Accounts : Publish(a)

\* The task runs on, waits are finite, and a reset begun is finished.
Fairness == WF_vars(Task) /\ WF_vars(Reset)

Spec == Init /\ [][Next]_vars /\ Fairness

-----------------------------------------------------------------------------
TypeOK ==
    /\ account \in Accounts \cup {Nobody} /\ rejected \in BOOLEAN
    /\ change \in {"none", "recent", "seen"}
    /\ published \in Seq(Accounts) /\ request \in Seq(Nat) /\ Len(request) = Len(published)
    /\ at \in {"top", "rest"} \/ Connected
    /\ cred \in Accounts <=> Connected
    /\ ToSet(wire) \subseteq {k \in Events : published[k] = cred}
    /\ ToSet(recent) \subseteq Ids /\ Len(recent) <= RECENT_CAPACITY
    /\ ToSet(seen) \subseteq Ids /\ IsInjective(seen)
    /\ Len(seen) <= DEDUPE_CAPACITY
    /\ state \in {"live", "reconnecting", "offline"}
    /\ state = "live" => Connected

\* Once a connection has caught up, every event of the account is on its way or
\* on screen, if only by the other decision about its request: the stream was open
\* before the history was asked for, and what the feed holds is a boundary the
\* history can be asked from (client.rs:194).  What the app gives up is `lost': what a
\* truncated answer left out, and what is older than an event that came after a failed
\* catch-up or on a stream that an account change went by.
NothingMissed ==
    (at = "read" /\ hand = Nothing /\ change = "none" /\ ~behind) =>
        \A k \in Events : published[k] = cred =>
            \/ k \in lost
            \/ k \in ToSet(wire)
            \/ \E j \in Events, kind \in {"live", "history"} :
                  request[j] = request[k] /\ <<kind, j>> \in shown

\* A refusal, a failure or the end of a stream is never the end of the feed:
\* with credentials that stay good it is live again in the end.
FeedReturns ==
    <>[](Credential # Nobody) => <>[](state = "live")
=============================================================================
