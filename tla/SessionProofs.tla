--------------------------- MODULE SessionProofs ----------------------------
(***************************************************************************)
(* What Session keeps for any number of threads, tokens, sign-ins and      *)
(* sign-outs.  The proofs go through what a step does to the thread that   *)
(* takes it: `Moves', `Ends', `Came' and `Onward' say it field by field,   *)
(* and a lemma per action says which of them the action is.                *)
(*                                                                         *)
(* The last part is about the credential store the session is kept in.     *)
(***************************************************************************)
EXTENDS Session, Keychain, TLAPS

\* A thread's locals, but for the history its reads are judged against.
Same(t) ==
    /\ loc'[t].phase = loc[t].phase /\ loc'[t].tok = loc[t].tok /\ loc'[t].seen = loc[t].seen
    /\ loc'[t].basis = loc[t].basis /\ loc'[t].over = loc[t].over /\ loc'[t].epoch = loc[t].epoch
    /\ loc'[t].judged = loc[t].judged /\ loc'[t].force = loc[t].force /\ loc'[t].res = loc[t].res

Alone(t) == \A u \in Threads \ {t} : pc'[u] = pc[u] /\ op'[u] = op[u] /\ Same(u)

\* The thread goes on to another label, or comes back from its operation.
Moves(t, label) == pc'[t] = label /\ op'[t] = op[t] /\ Same(t) /\ Alone(t)

Reset(t) ==
    /\ loc'[t].phase = "first" /\ loc'[t].seen = 0 /\ loc'[t].basis = 0 /\ loc'[t].over = 0

Ends(t) ==
    /\ pc'[t] = "idle" /\ op'[t] = "none" /\ Alone(t) /\ Reset(t)
    /\ loc'[t].tok = None /\ loc'[t].epoch = 0 /\ loc'[t].judged = 0 /\ ~loc'[t].force /\ loc'[t].res = "none"

\* The thread has its answer, and what its caller does with it is next.
Answers(t, res, b) ==
    /\ op'[t] = op[t] /\ Alone(t) /\ Reset(t)
    /\ loc'[t].tok = b /\ loc'[t].epoch = loc[t].epoch /\ loc'[t].judged = loc[t].judged
    /\ loc'[t].force = loc[t].force /\ loc'[t].res = res
    /\ \/ pc'[t] = "push" /\ op[t] \in {"tick", "relay"}
       \/ pc'[t] = "judged" /\ op[t] = "recheck" /\ res = "live"
       \/ pc'[t] = "verdict" /\ op[t] = "recheck" /\ res = "refused"
       \/ pc'[t] = "call" /\ op[t] = "orgs" /\ res = "live"
       \/ pc'[t] = "mark" /\ op[t] = "orgs" /\ res = "refused"

\* It gives the refresh lock back, if it has it.
Frees(t) == \A x \in Procs : refresher'[x] = IF refresher[x] = t THEN "free" ELSE refresher[x]

Came(t, res, b) == Frees(t) /\ (Ends(t) \/ Answers(t, res, b))

\* It goes on with another bundle.
Takes(t, label, b) ==
    /\ pc'[t] = label /\ op'[t] = op[t] /\ Alone(t)
    /\ loc'[t].tok = b /\ loc'[t].phase = loc[t].phase /\ loc'[t].seen = loc[t].seen
    /\ loc'[t].basis = loc[t].basis /\ loc'[t].over = loc[t].over /\ loc'[t].epoch = loc[t].epoch
    /\ loc'[t].judged = loc[t].judged /\ loc'[t].force = loc[t].force /\ loc'[t].res = loc[t].res

\* The bundle it has read is due: to the lock, or to the identity provider.
Onward(t, b) ==
    /\ b # None /\ refresher' = refresher
    /\ Takes(t, IF loc[t].phase = "first" THEN "lock" ELSE "post", b)

Read(t, b) ==
    \/ b = None /\ Came(t, "signedOut", None)
    \/ b # None /\ ~(loc[t].phase = "first" /\ loc[t].force) /\ Came(t, "live", b)
    \/ b # None /\ loc[t].phase = "after" /\ Came(t, "unavailable", None)
    \/ Onward(t, b)

\* The ranges that a step of a thread is about.
Placed ==
    /\ pc \in [Threads -> Labels] /\ op \in [Threads -> Operations \union {"none"}]
    /\ loc \in [Threads -> Locals]
Kept == refresher \in [Procs -> Threads \union {"free"}] /\ served \in [Procs -> Bundle]

LEMMA Blanks == None \in Bundle /\ Blank \in Locals
    BY DEF Blank, Locals, None, Bundle, Results

LEMMA Homes == ASSUME NEW t \in Threads PROVE Home[t] \in Procs
    BY HomeAssumption

\* A thread's locals are replaced and nobody else's.
LEMMA Replaced ==
    ASSUME TypeOK, NEW t \in Threads, NEW m \in Locals, loc' = [loc EXCEPT ![t] = m]
    PROVE  /\ loc' \in [Threads -> Locals] /\ loc'[t] = m
           /\ \A u \in Threads \ {t} : Same(u)
    BY DEF TypeOK, Same

LEMMA GotoFacts ==
    ASSUME TypeOK, NEW t \in Threads, NEW label \in Labels, Goto(t, label), UNCHANGED <<op, loc>>
    PROVE  Placed' /\ Moves(t, label)
    BY DEF TypeOK, Placed, Goto, Moves, Same, Alone

LEMMA LeaveFacts ==
    ASSUME TypeOK, NEW t \in Threads, Leave(t)
    PROVE  Placed' /\ Ends(t)
<1>1. /\ pc' = [pc EXCEPT ![t] = "idle"] /\ op' = [op EXCEPT ![t] = "none"]
      /\ loc' = [loc EXCEPT ![t] = Blank]
  BY DEF Leave, Goto
<1>2. loc' \in [Threads -> Locals] /\ loc'[t] = Blank /\ \A u \in Threads \ {t} : Same(u)
  BY <1>1, Blanks, Replaced
<1>3. /\ pc' \in [Threads -> Labels] /\ op' \in [Threads -> Operations \union {"none"}]
      /\ pc'[t] = "idle" /\ op'[t] = "none"
      /\ \A u \in Threads \ {t} : pc'[u] = pc[u] /\ op'[u] = op[u]
  BY <1>1 DEF TypeOK, Labels
<1>4. Blank.phase = "first" /\ Blank.seen = 0 /\ Blank.basis = 0 /\ Blank.over = 0 /\ Blank.tok = None
      /\ Blank.epoch = 0 /\ Blank.judged = 0 /\ ~Blank.force /\ Blank.res = "none"
  BY DEF Blank
<1>5. QED
  BY <1>2, <1>3, <1>4 DEF Placed, Ends, Alone, Reset

LEMMA ResumeFacts ==
    ASSUME NEW t \in Threads, NEW res \in Results
    PROVE  \/ Resume(t, res) = "idle"
           \/ Resume(t, res) = "push" /\ op[t] \in {"tick", "relay"}
           \/ Resume(t, res) = "judged" /\ op[t] = "recheck" /\ res = "live"
           \/ Resume(t, res) = "verdict" /\ op[t] = "recheck" /\ res = "refused"
           \/ Resume(t, res) = "call" /\ op[t] = "orgs" /\ res = "live"
           \/ Resume(t, res) = "mark" /\ op[t] = "orgs" /\ res = "refused"
    BY DEF Resume

LEMMA ReturnFacts ==
    ASSUME TypeOK, NEW t \in Threads, NEW res \in Results, NEW b \in Bundle, Return(t, res, b)
    PROVE  Placed' /\ Kept' /\ Came(t, res, b)
<1>1. Frees(t) /\ Kept'
  <2>1. /\ refresher' = [x \in Procs |-> IF refresher[x] = t THEN "free" ELSE refresher[x]]
        /\ served' = [served EXCEPT ![Home[t]] = Later(@, b)]
    BY DEF Return
  <2>2. Home[t] \in Procs /\ Later(served[Home[t]], b) \in Bundle
    BY Homes DEF TypeOK, Later
  <2>3. QED
    BY <2>1, <2>2 DEF TypeOK, Kept, Frees
<1>2. CASE Resume(t, res) = "idle"
  BY <1>1, <1>2, LeaveFacts DEF Return, Came
<1>3. CASE Resume(t, res) # "idle"
  <2> DEFINE m == [Blank EXCEPT !.res = res, !.tok = b, !.force = loc[t].force,
                                !.judged = loc[t].judged, !.epoch = loc[t].epoch]
  <2>1. loc' = [loc EXCEPT ![t] = m] /\ pc' = [pc EXCEPT ![t] = Resume(t, res)] /\ op' = op
    BY <1>3 DEF Return, Goto
  <2>2. loc[t] \in Locals
    BY DEF TypeOK
  <2>3. m \in Locals
    BY <2>2, Blanks DEF Locals
  <2>4. /\ m.res = res /\ m.tok = b /\ m.force = loc[t].force /\ m.judged = loc[t].judged
        /\ m.epoch = loc[t].epoch
    BY <2>2, Blanks DEF Locals
  <2>5. m.phase = Blank.phase /\ m.seen = Blank.seen /\ m.basis = Blank.basis /\ m.over = Blank.over
    BY <2>2, Blanks DEF Locals
  <2> HIDE DEF m
  <2>6. loc' \in [Threads -> Locals] /\ loc'[t] = m /\ \A u \in Threads \ {t} : Same(u)
    BY <2>1, <2>3, Replaced
  <2>7. m.phase = "first" /\ m.seen = 0 /\ m.basis = 0 /\ m.over = 0
    BY <2>5 DEF Blank
  <2>8. Resume(t, res) \in Labels
    BY ResumeFacts DEF Labels
  <2>9. /\ pc' \in [Threads -> Labels] /\ op' \in [Threads -> Operations \union {"none"}]
        /\ pc'[t] = Resume(t, res) /\ op'[t] = op[t]
        /\ \A u \in Threads \ {t} : pc'[u] = pc[u] /\ op'[u] = op[u]
    BY <2>1, <2>8 DEF TypeOK
  <2>10. Placed' /\ Alone(t) /\ Reset(t)
    BY <2>6, <2>7, <2>9 DEF Placed, Alone, Reset
  <2>11. Answers(t, res, b)
    BY <1>3, <2>4, <2>6, <2>9, <2>10, ResumeFacts DEF Answers
  <2>12. QED
    BY <1>1, <2>10, <2>11 DEF Came
<1>4. QED
  BY <1>2, <1>3

LEMMA FoundFacts ==
    ASSUME TypeOK, NEW t \in Threads, NEW b \in Bundle, Found(t, b)
    PROVE  Placed' /\ Kept' /\ Read(t, b)
<1>1. \/ b = None /\ Return(t, "signedOut", None)
      \/ b # None /\ ~(loc[t].phase = "first" /\ loc[t].force) /\ Return(t, "live", b)
      \/ b # None /\ loc[t].phase = "after" /\ Return(t, "unavailable", None)
      \/ /\ b # None
         /\ Goto(t, IF loc[t].phase = "first" THEN "lock" ELSE "post")
         /\ loc' = [loc EXCEPT ![t] = [@ EXCEPT !.tok = b, !.wit = 0]]
         /\ UNCHANGED <<refresher, served, op>>
  BY DEF Found
<1>2. \A res \in {"signedOut", "live", "unavailable"}, c \in {None, b} :
          Return(t, res, c) => Placed' /\ Kept' /\ Came(t, res, c)
  <2>1. {"signedOut", "live", "unavailable"} \subseteq Results /\ None \in Bundle
    BY Blanks DEF Results
  <2>2. QED
    BY <2>1, ReturnFacts
<1>3. CASE /\ b # None
           /\ Goto(t, IF loc[t].phase = "first" THEN "lock" ELSE "post")
           /\ loc' = [loc EXCEPT ![t] = [@ EXCEPT !.tok = b, !.wit = 0]]
           /\ UNCHANGED <<refresher, served, op>>
  <2> DEFINE m == [loc[t] EXCEPT !.tok = b, !.wit = 0]
  <2>1. loc[t] \in Locals /\ loc' = [loc EXCEPT ![t] = m]
    BY <1>3 DEF TypeOK
  <2>2. m \in Locals
    BY <2>1 DEF Locals
  <2>3. /\ m.tok = b /\ m.phase = loc[t].phase /\ m.seen = loc[t].seen /\ m.basis = loc[t].basis
        /\ m.over = loc[t].over /\ m.epoch = loc[t].epoch /\ m.judged = loc[t].judged
        /\ m.force = loc[t].force /\ m.res = loc[t].res
    BY <2>1 DEF Locals
  <2> HIDE DEF m
  <2>4. loc' \in [Threads -> Locals] /\ loc'[t] = m /\ \A u \in Threads \ {t} : Same(u)
    BY <2>1, <2>2, Replaced
  <2>5. /\ pc' \in [Threads -> Labels] /\ op' \in [Threads -> Operations \union {"none"}]
        /\ pc'[t] = (IF loc[t].phase = "first" THEN "lock" ELSE "post") /\ op'[t] = op[t]
        /\ \A u \in Threads \ {t} : pc'[u] = pc[u] /\ op'[u] = op[u]
    BY <1>3 DEF TypeOK, Goto, Labels
  <2>6. Kept'
    BY <1>3 DEF TypeOK, Kept
  <2>7. QED
    BY <1>3, <2>3, <2>4, <2>5, <2>6 DEF Placed, Read, Onward, Takes, Alone
<1>4. QED
  BY <1>1, <1>2, <1>3 DEF Read

-----------------------------------------------------------------------------
(* What each action does to its thread, and that the variables keep to     *)
(* their ranges.                                                           *)

Starts(t) ==
    /\ pc'[t] = "look" /\ op'[t] = op[t] /\ Alone(t) /\ refresher' = refresher
    /\ loc'[t].seen = gen[Home[t]] /\ loc'[t].over = over
    /\ loc'[t].judged = (IF op[t] = "recheck" THEN gen[Home[t]] ELSE 0)
    /\ loc'[t].phase = loc[t].phase /\ loc'[t].tok = loc[t].tok /\ loc'[t].basis = loc[t].basis
    /\ loc'[t].epoch = loc[t].epoch /\ loc'[t].force = loc[t].force /\ loc'[t].res = loc[t].res

LEMMA BeginFacts ==
    ASSUME TypeOK, NEW t \in Threads, Begin(t)
    PROVE  TypeOK' /\ (Came(t, "signedOut", None) \/ Starts(t))
<1>1. CASE ~loc[t].force /\ rejected[Home[t]]
  <2>1. Return(t, "signedOut", None) /\ "signedOut" \in Results /\ None \in Bundle
    BY <1>1, Blanks DEF Begin, Results
  <2>2. QED
    BY <1>1, <2>1, ReturnFacts DEF Begin, TypeOK, Placed, Kept, worldVars, procVars
<1>2. CASE ~(~loc[t].force /\ rejected[Home[t]])
  <2> DEFINE m == [loc[t] EXCEPT !.seen = gen[Home[t]], !.over = over,
                            !.judged = IF op[t] = "recheck" THEN gen[Home[t]] ELSE 0,
                            !.floor = Later(InForce(Home[t]), served[Home[t]])]
  <2>1. /\ loc' = [loc EXCEPT ![t] = m] /\ pc' = [pc EXCEPT ![t] = "look"]
        /\ UNCHANGED <<refresher, served, op>> /\ missed' = missed \ {t}
    BY <1>2 DEF Begin, Goto
  <2>2. Later(InForce(Home[t]), served[Home[t]]) \in Bundle
    BY Homes DEF TypeOK, Later, InForce
  <2>3. gen[Home[t]] \in Nat /\ over \in Nat /\ loc[t] \in Locals
    BY Homes DEF TypeOK
  <2>4. (IF op[t] = "recheck" THEN gen[Home[t]] ELSE 0) \in Nat
    BY <2>3
  <2>5. m \in Locals
    BY <2>2, <2>3, <2>4 DEF Locals
  <2>6. /\ m.seen = gen[Home[t]] /\ m.over = over
        /\ m.judged = (IF op[t] = "recheck" THEN gen[Home[t]] ELSE 0)
        /\ m.phase = loc[t].phase /\ m.tok = loc[t].tok /\ m.basis = loc[t].basis
        /\ m.epoch = loc[t].epoch /\ m.force = loc[t].force /\ m.res = loc[t].res
    BY <2>3 DEF Locals
  <2> HIDE DEF m
  <2>7. loc' \in [Threads -> Locals] /\ loc'[t] = m /\ \A u \in Threads \ {t} : Same(u)
    BY <2>1, <2>5, Replaced
  <2>8. /\ pc' \in [Threads -> Labels] /\ pc'[t] = "look"
        /\ \A u \in Threads \ {t} : pc'[u] = pc[u]
    BY <2>1 DEF TypeOK, Labels
  <2>9. Starts(t)
    BY <2>1, <2>6, <2>7, <2>8 DEF Starts, Alone
  <2>10. QED
    BY <2>1, <2>7, <2>8, <2>9 DEF Begin, TypeOK, worldVars, procVars
<1>3. QED
  BY <1>1, <1>2

LEMMA LookFacts ==
    ASSUME TypeOK, NEW t \in Threads, Look(t)
    PROVE  /\ TypeOK'
           /\ \/ Standing(Home[t]) /\ Read(t, unstored[Home[t]].tok)
              \/ ~Standing(Home[t]) /\ cache[Home[t]].kept /\ Read(t, cache[Home[t]].tok)
              \/ ~Standing(Home[t]) /\ refresher' = refresher /\ Moves(t, "fetch")
<1>1. unstored[Home[t]].tok \in Bundle /\ cache[Home[t]].tok \in Bundle
  BY Homes DEF TypeOK
<1>2. /\ pc[t] = "look" /\ UNCHANGED <<worldVars, procVars, missed, torn>>
      /\ \/ Standing(Home[t]) /\ Found(t, unstored[Home[t]].tok)
         \/ ~Standing(Home[t]) /\ cache[Home[t]].kept /\ Found(t, cache[Home[t]].tok)
         \/ /\ ~Standing(Home[t]) /\ Goto(t, "fetch")
            /\ loc' = [loc EXCEPT ![t].wit = witness] /\ UNCHANGED <<refresher, served, op>>
  BY DEF Look, At
<1>3. ASSUME NEW b \in Bundle, Found(t, b)
      PROVE  TypeOK' /\ Read(t, b)
  BY <1>2, <1>3, FoundFacts DEF TypeOK, Placed, Kept, worldVars, procVars
<1>4. CASE /\ ~Standing(Home[t]) /\ Goto(t, "fetch")
           /\ loc' = [loc EXCEPT ![t].wit = witness] /\ UNCHANGED <<refresher, served, op>>
  <2> DEFINE m == [loc[t] EXCEPT !.wit = witness]
  <2>1. loc' = [loc EXCEPT ![t] = m] /\ loc[t] \in Locals /\ witness \in Nat
    BY <1>4 DEF TypeOK
  <2>2. m \in Locals
    BY <2>1 DEF Locals
  <2>3. /\ m.tok = loc[t].tok /\ m.phase = loc[t].phase /\ m.seen = loc[t].seen /\ m.basis = loc[t].basis
        /\ m.over = loc[t].over /\ m.epoch = loc[t].epoch /\ m.judged = loc[t].judged
        /\ m.force = loc[t].force /\ m.res = loc[t].res
    BY <2>1 DEF Locals
  <2> HIDE DEF m
  <2>4. loc' \in [Threads -> Locals] /\ loc'[t] = m /\ \A u \in Threads \ {t} : Same(u)
    BY <2>1, <2>2, Replaced
  <2>5. /\ pc' \in [Threads -> Labels] /\ pc'[t] = "fetch"
        /\ \A u \in Threads \ {t} : pc'[u] = pc[u]
    BY <1>4 DEF TypeOK, Goto, Labels
  <2>6. Moves(t, "fetch")
    BY <1>4, <2>3, <2>4, <2>5 DEF Moves, Same, Alone
  <2>7. QED
    BY <1>2, <1>4, <2>4, <2>5, <2>6 DEF TypeOK, worldVars, procVars
<1>5. QED
  BY <1>1, <1>2, <1>3, <1>4

LEMMA TakesFacts ==
    ASSUME TypeOK, NEW t \in Threads, NEW label \in Labels, NEW b \in Bundle,
           Goto(t, label), loc' = [loc EXCEPT ![t].tok = b], op' = op
    PROVE  Placed' /\ Takes(t, label, b)
<1> DEFINE m == [loc[t] EXCEPT !.tok = b]
<1>1. loc' = [loc EXCEPT ![t] = m] /\ loc[t] \in Locals
  BY DEF TypeOK
<1>2. m \in Locals
  BY <1>1 DEF Locals
<1>3. /\ m.tok = b /\ m.phase = loc[t].phase /\ m.seen = loc[t].seen /\ m.basis = loc[t].basis
      /\ m.over = loc[t].over /\ m.epoch = loc[t].epoch /\ m.judged = loc[t].judged
      /\ m.force = loc[t].force /\ m.res = loc[t].res
  BY <1>1 DEF Locals
<1> HIDE DEF m
<1>4. loc' \in [Threads -> Locals] /\ loc'[t] = m /\ \A u \in Threads \ {t} : Same(u)
  BY <1>1, <1>2, Replaced
<1>5. /\ pc' \in [Threads -> Labels] /\ pc'[t] = label
      /\ \A u \in Threads \ {t} : pc'[u] = pc[u]
  BY DEF TypeOK, Goto
<1>6. QED
  BY <1>3, <1>4, <1>5 DEF Placed, Takes, Alone, TypeOK

LEMMA FetchFacts ==
    ASSUME TypeOK, NEW t \in Threads, Fetch(t)
    PROVE  TypeOK' /\ Takes(t, "keep", store)
<1>1. "keep" \in Labels /\ store \in Bundle /\ torn' \in SUBSET Threads
  BY DEF Labels, TypeOK, Fetch
<1>2. Placed' /\ Takes(t, "keep", store)
  BY <1>1, TakesFacts DEF Fetch
<1>3. QED
  BY <1>1, <1>2 DEF Fetch, TypeOK, Placed, worldVars, procVars

LEMMA FetchFailsFacts ==
    ASSUME TypeOK, NEW t \in Threads, FetchFails(t)
    PROVE  TypeOK' /\ Came(t, "unavailable", None)
<1>1. "unavailable" \in Results /\ None \in Bundle
  BY Blanks DEF Results
<1>2. Placed' /\ Kept' /\ Came(t, "unavailable", None)
  BY <1>1, ReturnFacts DEF FetchFails
<1>3. QED
  BY <1>2 DEF FetchFails, TypeOK, Placed, Kept, worldVars, procVars

LEMMA KeepFacts ==
    ASSUME TypeOK, NEW t \in Threads, Keep(t)
    PROVE  TypeOK' /\ Read(t, loc[t].tok)
<1>1. Home[t] \in Procs /\ loc[t].tok \in Bundle /\ loc[t].wit \in Nat
  BY Homes DEF TypeOK, Locals
<1>2. Placed' /\ Kept' /\ Read(t, loc[t].tok)
  BY <1>1, FoundFacts DEF Keep
<1>3. cache' \in [Procs -> [tok: Bundle, wit: Nat, kept: BOOLEAN]] /\ torn' \in SUBSET Threads
  <2>1. [tok |-> loc[t].tok, wit |-> loc[t].wit, kept |-> TRUE] \in [tok: Bundle, wit: Nat, kept: BOOLEAN]
    BY <1>1
  <2>2. \/ cache' = cache
        \/ cache' = [cache EXCEPT ![Home[t]] = [tok |-> loc[t].tok, wit |-> loc[t].wit, kept |-> TRUE]]
    BY DEF Keep
  <2>3. cache \in [Procs -> [tok: Bundle, wit: Nat, kept: BOOLEAN]] /\ torn \in SUBSET Threads
    BY DEF TypeOK
  <2>4. torn' = torn \ {t}
    BY DEF Keep
  <2>5. QED
    BY <1>1, <2>1, <2>2, <2>3, <2>4
<1>4. QED
  BY <1>2, <1>3 DEF Keep, TypeOK, Placed, Kept, worldVars

Locks(t) ==
    /\ refresher[Home[t]] = "free" /\ refresher' = [refresher EXCEPT ![Home[t]] = t]
    /\ op'[t] = op[t] /\ Alone(t)
    /\ loc'[t].basis = gen[Home[t]] /\ loc'[t].seen = 0
    /\ loc'[t].tok = loc[t].tok /\ loc'[t].over = loc[t].over /\ loc'[t].epoch = loc[t].epoch
    /\ loc'[t].judged = loc[t].judged /\ loc'[t].force = loc[t].force /\ loc'[t].res = loc[t].res
    /\ \/ gen[Home[t]] = loc[t].seen /\ pc'[t] = "post" /\ loc'[t].phase = loc[t].phase
       \/ gen[Home[t]] # loc[t].seen /\ pc'[t] = "look" /\ loc'[t].phase = "again"

LEMMA LockFacts ==
    ASSUME TypeOK, NEW t \in Threads, Lock(t)
    PROVE  /\ TypeOK'
           /\ \/ gen[Home[t]] = loc[t].seen /\ t \in missed /\ last[Home[t]] # "ok" /\ Came(t, last[Home[t]], None)
              \/ Locks(t)
<1> DEFINE shares == gen[Home[t]] = loc[t].seen /\ t \in missed /\ last[Home[t]] # "ok"
<1>1. missed' \in SUBSET Threads /\ Home[t] \in Procs
  BY Homes DEF Lock, TypeOK
<1>2. CASE shares
  <2>1. Return(t, last[Home[t]], None) /\ last[Home[t]] \in Results /\ None \in Bundle
    BY <1>1, <1>2, Blanks DEF Lock, TypeOK, Results
  <2>2. Placed' /\ Kept' /\ Came(t, last[Home[t]], None)
    BY <2>1, ReturnFacts
  <2>3. QED
    BY <1>1, <1>2, <2>2 DEF Lock, TypeOK, Placed, Kept, worldVars, procVars
<1>3. CASE ~shares
  <2> DEFINE same == gen[Home[t]] = loc[t].seen
             phase == IF same THEN loc[t].phase ELSE "again"
             label == IF same THEN "post" ELSE "look"
             m == [loc[t] EXCEPT !.basis = gen[Home[t]], !.seen = 0, !.phase = phase]
  <2>1. /\ loc' = [loc EXCEPT ![t] = m] /\ pc' = [pc EXCEPT ![t] = label] /\ UNCHANGED <<op, served>>
        /\ refresher[Home[t]] = "free" /\ refresher' = [refresher EXCEPT ![Home[t]] = t]
    BY <1>3 DEF Lock, Goto
  <2>2. loc[t] \in Locals /\ gen[Home[t]] \in Nat
    BY <1>1 DEF TypeOK
  <2>3. phase \in {"first", "again", "after"} /\ label \in Labels
    BY <2>2 DEF Locals, Labels
  <2>4. \/ same /\ phase = loc[t].phase /\ label = "post"
        \/ ~same /\ phase = "again" /\ label = "look"
    OBVIOUS
  <2> HIDE DEF phase, label
  <2>5. m \in Locals
    BY <2>2, <2>3 DEF Locals
  <2>6. /\ m.basis = gen[Home[t]] /\ m.seen = 0 /\ m.phase = phase /\ m.tok = loc[t].tok /\ m.over = loc[t].over
        /\ m.epoch = loc[t].epoch /\ m.judged = loc[t].judged /\ m.force = loc[t].force /\ m.res = loc[t].res
    BY <2>2, <2>3 DEF Locals
  <2> HIDE DEF m
  <2>7. loc' \in [Threads -> Locals] /\ loc'[t] = m /\ \A u \in Threads \ {t} : Same(u)
    BY <2>1, <2>5, Replaced
  <2>8. /\ pc' \in [Threads -> Labels] /\ pc'[t] = label
        /\ \A u \in Threads \ {t} : pc'[u] = pc[u]
    BY <2>1, <2>3 DEF TypeOK
  <2>9. Locks(t)
    BY <2>1, <2>4, <2>6, <2>7, <2>8 DEF Locks, Alone
  <2>10. QED
    BY <1>1, <2>1, <2>7, <2>8, <2>9 DEF Lock, TypeOK, worldVars, procVars
<1>4. QED
  BY <1>2, <1>3

LEMMA EndAttemptFacts ==
    ASSUME TypeOK, NEW t \in Threads, NEW outcome \in {"ok", "refused", "unavailable"}, EndAttempt(t, outcome)
    PROVE  last' \in [Procs -> {"ok", "refused", "unavailable"}] /\ missed' \in SUBSET Threads
    BY Homes DEF EndAttempt, Peers, TypeOK

LEMMA GrantedFacts ==
    ASSUME TypeOK, NEW t \in Threads, Granted(t)
    PROVE  /\ TypeOK' /\ Takes(t, "granted", loc'[t].tok)
           /\ loc'[t].tok.session = loc[t].tok.session /\ loc'[t].tok.serial = issued + 1
<1> DEFINE b == [loc[t].tok EXCEPT !.serial = issued + 1]
<1>1. loc[t].tok \in Bundle /\ issued + 1 \in Nat /\ "granted" \in Labels
  BY DEF TypeOK, Locals, Labels
<1>2. b \in Bundle /\ b.session = loc[t].tok.session /\ b.serial = issued + 1
  BY <1>1 DEF Bundle
<1>3. loc' = [loc EXCEPT ![t].tok = b] /\ Goto(t, "granted") /\ op' = op
  BY DEF Granted
<1> HIDE DEF b
<1>4. Placed' /\ Takes(t, "granted", b)
  BY <1>1, <1>2, <1>3, TakesFacts
<1>5. TypeOK'
  BY <1>1, <1>4 DEF Granted, TypeOK, Placed, procVars
<1>6. QED
  BY <1>2, <1>4, <1>5 DEF Takes

LEMMA DeniedFacts ==
    ASSUME TypeOK, NEW t \in Threads, Denied(t)
    PROVE  TypeOK' /\ \E res \in {"refused", "unavailable"} : Came(t, res, None)
<1>1. PICK res \in {"refused", "unavailable"} : EndAttempt(t, res) /\ Return(t, res, None)
  BY DEF Denied
<1>2. res \in Results /\ None \in Bundle
  BY Blanks DEF Results
<1>3. Placed' /\ Kept' /\ Came(t, res, None)
  BY <1>1, <1>2, ReturnFacts
<1>4. last' \in [Procs -> {"ok", "refused", "unavailable"}] /\ missed' \in SUBSET Threads
  BY <1>1, EndAttemptFacts
<1>5. QED
  BY <1>3, <1>4 DEF Denied, TypeOK, Placed, Kept, worldVars

ReadsAgain(t) ==
    /\ pc'[t] = "look" /\ op'[t] = op[t] /\ Alone(t) /\ loc'[t].phase = "after"
    /\ loc'[t].tok = loc[t].tok /\ loc'[t].seen = loc[t].seen /\ loc'[t].basis = loc[t].basis
    /\ loc'[t].over = loc[t].over /\ loc'[t].epoch = loc[t].epoch /\ loc'[t].judged = loc[t].judged
    /\ loc'[t].force = loc[t].force /\ loc'[t].res = loc[t].res

LEMMA CheckFacts ==
    ASSUME TypeOK, NEW t \in Threads, Check(t)
    PROVE  /\ TypeOK'
           /\ \/ gen[Home[t]] = loc[t].basis /\ Moves(t, "store")
              \/ gen[Home[t]] # loc[t].basis /\ ReadsAgain(t)
<1>1. CASE gen[Home[t]] = loc[t].basis
  <2>1. Goto(t, "store") /\ "store" \in Labels /\ UNCHANGED <<last, loc, missed, op>>
    BY <1>1 DEF Check, Labels
  <2>2. Placed' /\ Moves(t, "store")
    BY <2>1, GotoFacts
  <2>3. QED
    BY <1>1, <2>1, <2>2 DEF Check, TypeOK, Placed, worldVars
<1>2. CASE gen[Home[t]] # loc[t].basis
  <2> DEFINE m == [loc[t] EXCEPT !.phase = "after"]
  <2>1. /\ EndAttempt(t, "ok") /\ pc' = [pc EXCEPT ![t] = "look"] /\ op' = op
        /\ loc' = [loc EXCEPT ![t] = m]
    BY <1>2 DEF Check, Goto
  <2>2. last' \in [Procs -> {"ok", "refused", "unavailable"}] /\ missed' \in SUBSET Threads
    BY <2>1, EndAttemptFacts
  <2>3. loc[t] \in Locals
    BY DEF TypeOK
  <2>4. m \in Locals
    BY <2>3 DEF Locals
  <2>5. /\ m.phase = "after" /\ m.tok = loc[t].tok /\ m.seen = loc[t].seen /\ m.basis = loc[t].basis
        /\ m.over = loc[t].over /\ m.epoch = loc[t].epoch /\ m.judged = loc[t].judged
        /\ m.force = loc[t].force /\ m.res = loc[t].res
    BY <2>3 DEF Locals
  <2> HIDE DEF m
  <2>6. loc' \in [Threads -> Locals] /\ loc'[t] = m /\ \A u \in Threads \ {t} : Same(u)
    BY <2>1, <2>4, Replaced
  <2>7. /\ pc' \in [Threads -> Labels] /\ pc'[t] = "look"
        /\ \A u \in Threads \ {t} : pc'[u] = pc[u]
    BY <2>1 DEF TypeOK, Labels
  <2>8. ReadsAgain(t)
    BY <2>1, <2>5, <2>6, <2>7 DEF ReadsAgain, Alone
  <2>9. QED
    BY <1>2, <2>1, <2>2, <2>6, <2>7, <2>8 DEF Check, TypeOK, worldVars
<1>3. QED
  BY <1>1, <1>2

LEMMA WriteFacts ==
    ASSUME TypeOK, NEW x \in Procs, NEW b \in Bundle, Write(x, b)
    PROVE  /\ store' = b /\ cache' \in [Procs -> [tok: Bundle, wit: Nat, kept: BOOLEAN]]
           /\ torn' \in SUBSET Threads
           /\ \A y \in Procs : cache'[y].kept => y # x /\ cache'[y] = cache[y]
           /\ \A u \in Threads : u \notin torn' => u \notin torn /\ ~(Home[u] = x /\ pc[u] = "keep")
<1>1. Uncached \in [tok: Bundle, wit: Nat, kept: BOOLEAN] /\ ~Uncached.kept
  BY Blanks DEF Uncached
<1>2. cache \in [Procs -> [tok: Bundle, wit: Nat, kept: BOOLEAN]]
      /\ cache' = [cache EXCEPT ![x] = Uncached]
  BY DEF TypeOK, Write
<1>3. /\ cache' \in [Procs -> [tok: Bundle, wit: Nat, kept: BOOLEAN]]
      /\ cache'[x] = Uncached /\ \A y \in Procs \ {x} : cache'[y] = cache[y]
  BY <1>1, <1>2
<1>4. /\ torn' \in SUBSET Threads
      /\ \A u \in Threads : u \notin torn' => u \notin torn /\ ~(Home[u] = x /\ pc[u] = "keep")
  BY DEF Write, TypeOK
<1>5. QED
  BY <1>1, <1>3, <1>4 DEF Write

LEMMA StoreFacts ==
    ASSUME TypeOK, NEW t \in Threads, Store(t)
    PROVE  /\ TypeOK'
           /\ \/ Moves(t, "publish") /\ Write(Home[t], loc[t].tok)
              \/ Moves(t, "hold") /\ \E b \in {store, None} : Write(Home[t], b)
<1>1. /\ UNCHANGED <<witness, issued, expired, revoked, over, gen, epoch, rejected, unstored, last, engine,
                     refresher, served, op, loc, missed>>
      /\ \/ Write(Home[t], loc[t].tok) /\ Goto(t, "publish")
         \/ (\E b \in {store, None} : Write(Home[t], b)) /\ Goto(t, "hold")
  BY DEF Store
<1>2. /\ {"publish", "hold"} \subseteq Labels /\ Home[t] \in Procs
      /\ loc[t].tok \in Bundle /\ {store, None} \subseteq Bundle
  BY Homes, Blanks DEF Labels, TypeOK, Locals
<1>3. \A label \in {"publish", "hold"} : Goto(t, label) => Placed' /\ Moves(t, label)
  BY <1>1, <1>2, GotoFacts
<1>4. \A b \in Bundle : Write(Home[t], b) =>
          /\ store' = b /\ cache' \in [Procs -> [tok: Bundle, wit: Nat, kept: BOOLEAN]]
          /\ torn' \in SUBSET Threads
  BY <1>2, WriteFacts
<1>5. store' \in Bundle /\ cache' \in [Procs -> [tok: Bundle, wit: Nat, kept: BOOLEAN]] /\ torn' \in SUBSET Threads
  BY <1>1, <1>2, <1>4
<1>6. Placed'
  BY <1>1, <1>3
<1>7. TypeOK'
  BY <1>1, <1>5, <1>6 DEF TypeOK, Placed
<1>8. QED
  BY <1>1, <1>3, <1>7

LEMMA SupersedeFacts ==
    ASSUME TypeOK, NEW x \in Procs, Supersede(x)
    PROVE  /\ gen' \in [Procs -> Nat] /\ rejected' \in [Procs -> BOOLEAN]
           /\ unstored' \in [Procs -> [tok: Bundle, gen: Nat, wit: Nat]]
           /\ unstored'[x].tok = None /\ gen'[x] = gen[x] + 1 /\ ~rejected'[x]
           /\ \A y \in Procs \ {x} : unstored'[y] = unstored[y] /\ gen'[y] = gen[y] /\ rejected'[y] = rejected[y]
<1>1. Nothing \in [tok: Bundle, gen: Nat, wit: Nat] /\ Nothing.tok = None
  BY Blanks DEF Nothing
<1>2. QED
  BY <1>1 DEF Supersede, TypeOK

LEMMA PublishFacts ==
    ASSUME TypeOK, NEW t \in Threads, Publish(t)
    PROVE  TypeOK' /\ Came(t, "live", loc[t].tok)
<1>1. "live" \in Results /\ loc[t].tok \in Bundle /\ Home[t] \in Procs
  BY Homes DEF Results, TypeOK, Locals
<1>2. Placed' /\ Kept' /\ Came(t, "live", loc[t].tok)
  BY <1>1, ReturnFacts DEF Publish
<1>3. last' \in [Procs -> {"ok", "refused", "unavailable"}] /\ missed' \in SUBSET Threads
  BY EndAttemptFacts DEF Publish
<1>4. /\ gen' \in [Procs -> Nat] /\ rejected' \in [Procs -> BOOLEAN]
      /\ unstored' \in [Procs -> [tok: Bundle, gen: Nat, wit: Nat]]
  BY <1>1, SupersedeFacts DEF Publish
<1>5. QED
  BY <1>2, <1>3, <1>4 DEF Publish, TypeOK, Placed, Kept, worldVars

\* keep_unstored took the bundle.
Holds(x, b) ==
    /\ unstored' \in [Procs -> [tok: Bundle, gen: Nat, wit: Nat]]
    /\ unstored'[x].tok = b /\ unstored'[x].gen = gen[x] + 1 /\ unstored'[x].wit = witness
    /\ gen' \in [Procs -> Nat] /\ gen'[x] = gen[x] + 1
    /\ rejected' \in [Procs -> BOOLEAN] /\ ~rejected'[x]
    /\ \A y \in Procs \ {x} : unstored'[y] = unstored[y] /\ gen'[y] = gen[y] /\ rejected'[y] = rejected[y]

LEMMA HoldFacts ==
    ASSUME TypeOK, NEW t \in Threads, Hold(t)
    PROVE  /\ TypeOK'
           /\ \/ gen[Home[t]] = loc[t].basis /\ Holds(Home[t], loc[t].tok) /\ Came(t, "live", loc[t].tok)
              \/ /\ gen[Home[t]] # loc[t].basis /\ UNCHANGED <<gen, rejected, unstored>>
                 /\ Came(t, "unavailable", None)
<1>1. {"live", "unavailable"} \subseteq Results /\ loc[t].tok \in Bundle /\ None \in Bundle /\ Home[t] \in Procs
      /\ gen[Home[t]] \in Nat /\ witness \in Nat
  BY Homes, Blanks DEF Results, TypeOK, Locals
<1>2. CASE gen[Home[t]] = loc[t].basis
  <2> DEFINE m == [tok |-> loc[t].tok, gen |-> gen[Home[t]] + 1, wit |-> witness]
  <2>1. /\ unstored' = [unstored EXCEPT ![Home[t]] = m] /\ rejected' = [rejected EXCEPT ![Home[t]] = FALSE]
        /\ gen' = [gen EXCEPT ![Home[t]] = @ + 1] /\ EndAttempt(t, "ok") /\ Return(t, "live", loc[t].tok)
    BY <1>2 DEF Hold
  <2>2. /\ m \in [tok: Bundle, gen: Nat, wit: Nat]
        /\ m.tok = loc[t].tok /\ m.gen = gen[Home[t]] + 1 /\ m.wit = witness
    BY <1>1
  <2> HIDE DEF m
  <2>3. Holds(Home[t], loc[t].tok)
    BY <1>1, <2>1, <2>2 DEF Holds, TypeOK
  <2>4. Placed' /\ Kept' /\ Came(t, "live", loc[t].tok)
    BY <1>1, <2>1, ReturnFacts
  <2>5. last' \in [Procs -> {"ok", "refused", "unavailable"}] /\ missed' \in SUBSET Threads
    BY <2>1, EndAttemptFacts
  <2>6. UNCHANGED <<worldVars, epoch, cache, engine, torn>>
    BY DEF Hold
  <2>7. QED
    BY <1>2, <2>3, <2>4, <2>5, <2>6 DEF TypeOK, Placed, Kept, Holds, worldVars
<1>3. CASE gen[Home[t]] # loc[t].basis
  <2>1. /\ EndAttempt(t, "unavailable") /\ Return(t, "unavailable", None)
        /\ UNCHANGED <<gen, rejected, unstored>> /\ UNCHANGED <<worldVars, epoch, cache, engine, torn>>
    BY <1>3 DEF Hold
  <2>2. Placed' /\ Kept' /\ Came(t, "unavailable", None)
    BY <1>1, <2>1, ReturnFacts
  <2>3. last' \in [Procs -> {"ok", "refused", "unavailable"}] /\ missed' \in SUBSET Threads
    BY <2>1, EndAttemptFacts
  <2>4. QED
    BY <1>3, <2>1, <2>2, <2>3 DEF TypeOK, Placed, Kept, worldVars
<1>4. QED
  BY <1>2, <1>3

LEMMA PushFacts ==
    ASSUME TypeOK, NEW t \in Threads, Push(t) \/ Recovered(t) \/ Drop(t)
    PROVE  TypeOK' /\ Ends(t)
<1>1. /\ Leave(t) /\ UNCHANGED <<worldVars, gen, epoch, rejected, unstored, cache, last, refresher, served, missed,
                     torn>>
      /\ \E b \in {engine[Home[t]], loc[t].tok, None} : engine' = [engine EXCEPT ![Home[t]] = b]
  BY DEF Push, Recovered, Drop
<1>2. {engine[Home[t]], loc[t].tok, None} \subseteq Bundle
  BY Homes, Blanks DEF TypeOK, Locals
<1>3. engine' \in [Procs -> Bundle]
  BY <1>1, <1>2, Homes DEF TypeOK
<1>4. Placed' /\ Ends(t)
  BY <1>1, LeaveFacts
<1>5. QED
  BY <1>1, <1>3, <1>4 DEF TypeOK, Placed, worldVars

Judges(t) ==
    /\ pc'[t] = "probe" /\ op'[t] = op[t] /\ Alone(t) /\ loc'[t].judged = gen[Home[t]]
    /\ loc'[t].tok = loc[t].tok /\ loc'[t].phase = loc[t].phase /\ loc'[t].seen = loc[t].seen
    /\ loc'[t].basis = loc[t].basis /\ loc'[t].over = loc[t].over /\ loc'[t].epoch = loc[t].epoch
    /\ loc'[t].force = loc[t].force /\ loc'[t].res = loc[t].res

LEMMA JudgedFacts ==
    ASSUME TypeOK, NEW t \in Threads, Judged(t)
    PROVE  TypeOK' /\ Judges(t)
<1> DEFINE m == [loc[t] EXCEPT !.judged = gen[Home[t]]]
<1>1. /\ loc' = [loc EXCEPT ![t] = m] /\ loc[t] \in Locals /\ gen[Home[t]] \in Nat
      /\ pc' = [pc EXCEPT ![t] = "probe"]
      /\ UNCHANGED <<worldVars, procVars, refresher, served, op, missed, torn>>
  BY Homes DEF Judged, TypeOK, Goto
<1>2. m \in Locals
  BY <1>1 DEF Locals
<1>3. /\ m.tok = loc[t].tok /\ m.phase = loc[t].phase /\ m.seen = loc[t].seen /\ m.basis = loc[t].basis
      /\ m.over = loc[t].over /\ m.epoch = loc[t].epoch /\ m.judged = gen[Home[t]]
      /\ m.force = loc[t].force /\ m.res = loc[t].res
  BY <1>1 DEF Locals
<1> HIDE DEF m
<1>4. loc' \in [Threads -> Locals] /\ loc'[t] = m /\ \A u \in Threads \ {t} : Same(u)
  BY <1>1, <1>2, Replaced
<1>5. /\ pc' \in [Threads -> Labels] /\ pc'[t] = "probe"
      /\ \A u \in Threads \ {t} : pc'[u] = pc[u]
  BY <1>1 DEF TypeOK, Labels
<1>6. Judges(t)
  BY <1>1, <1>3, <1>4, <1>5 DEF Judges, Alone
<1>7. QED
  BY <1>1, <1>4, <1>5, <1>6 DEF TypeOK, worldVars, procVars

LEMMA ProbeFacts ==
    ASSUME TypeOK, NEW t \in Threads, Probe(t)
    PROVE  /\ TypeOK'
           /\ \/ loc[t].tok.session \in revoked /\ Moves(t, "verdict")
              \/ Moves(t, "recovered") \/ Ends(t)
<1>1. /\ UNCHANGED <<worldVars, procVars, refresher, served, missed, torn>>
      /\ \/ loc[t].tok.session \in revoked /\ Goto(t, "verdict") /\ UNCHANGED <<op, loc>>
         \/ Goto(t, "recovered") /\ UNCHANGED <<op, loc>>
         \/ Leave(t)
  BY DEF Probe
<1>2. {"verdict", "recovered"} \subseteq Labels
  BY DEF Labels
<1>3. /\ \A label \in {"verdict", "recovered"} : Goto(t, label) /\ UNCHANGED <<op, loc>> => Placed' /\ Moves(t, label)
      /\ Leave(t) => Placed' /\ Ends(t)
  BY <1>2, GotoFacts, LeaveFacts
<1>4. QED
  BY <1>1, <1>3 DEF TypeOK, Placed, worldVars, procVars

LEMMA VerdictFacts ==
    ASSUME TypeOK, NEW t \in Threads, Verdict(t)
    PROVE  /\ TypeOK'
           /\ \/ gen[Home[t]] = loc[t].judged /\ Moves(t, "mark")
              \/ Ends(t)
<1>1. /\ UNCHANGED <<worldVars, procVars, refresher, served, missed, torn>>
      /\ \/ gen[Home[t]] = loc[t].judged /\ Goto(t, "mark") /\ UNCHANGED <<op, loc>>
         \/ Leave(t)
  BY DEF Verdict
<1>2. "mark" \in Labels
  BY DEF Labels
<1>3. /\ Goto(t, "mark") /\ UNCHANGED <<op, loc>> => Placed' /\ Moves(t, "mark")
      /\ Leave(t) => Placed' /\ Ends(t)
  BY <1>2, GotoFacts, LeaveFacts
<1>4. QED
  BY <1>1, <1>3 DEF TypeOK, Placed, worldVars, procVars

LEMMA MarkFacts ==
    ASSUME TypeOK, NEW t \in Threads, Mark(t)
    PROVE  TypeOK' /\ ((Moves(t, "dead") /\ op[t] = "recheck") \/ Ends(t))
<1>1. /\ UNCHANGED <<worldVars, gen, epoch, unstored, cache, last, engine, refresher, served, missed, torn>>
      /\ rejected' = [rejected EXCEPT ![Home[t]] = TRUE]
      /\ \/ op[t] = "recheck" /\ Goto(t, "dead") /\ UNCHANGED <<op, loc>>
         \/ Leave(t)
  BY DEF Mark
<1>2. "dead" \in Labels
  BY DEF Labels
<1>3. /\ Goto(t, "dead") /\ UNCHANGED <<op, loc>> => Placed' /\ Moves(t, "dead")
      /\ Leave(t) => Placed' /\ Ends(t)
  BY <1>2, GotoFacts, LeaveFacts
<1>4. rejected' \in [Procs -> BOOLEAN]
  BY <1>1 DEF TypeOK
<1>5. QED
  BY <1>1, <1>3, <1>4 DEF TypeOK, Placed, worldVars

LEMMA DeadFacts ==
    ASSUME TypeOK, NEW t \in Threads, Dead(t)
    PROVE  TypeOK' /\ (Moves(t, "drop") \/ Ends(t))
<1>1. /\ UNCHANGED <<worldVars, procVars, refresher, served, missed, torn>>
      /\ (Goto(t, "drop") /\ UNCHANGED <<op, loc>>) \/ Leave(t)
  BY DEF Dead
<1>2. "drop" \in Labels
  BY DEF Labels
<1>3. /\ Goto(t, "drop") /\ UNCHANGED <<op, loc>> => Placed' /\ Moves(t, "drop")
      /\ Leave(t) => Placed' /\ Ends(t)
  BY <1>2, GotoFacts, LeaveFacts
<1>4. QED
  BY <1>1, <1>3 DEF TypeOK, Placed, worldVars, procVars

\* A refused list is asked for again.
Repeats(t) ==
    /\ pc'[t] = "begin" /\ op'[t] = op[t] /\ Alone(t) /\ loc'[t].force
    /\ loc'[t].tok = loc[t].tok /\ loc'[t].phase = loc[t].phase /\ loc'[t].seen = loc[t].seen
    /\ loc'[t].basis = loc[t].basis /\ loc'[t].over = loc[t].over /\ loc'[t].epoch = loc[t].epoch
    /\ loc'[t].judged = loc[t].judged /\ loc'[t].res = "none"

LEMMA CallOrgsFacts ==
    ASSUME TypeOK, NEW t \in Threads, CallOrgs(t)
    PROVE  TypeOK' /\ (Moves(t, "mark") \/ Repeats(t) \/ Ends(t))
<1>1. /\ UNCHANGED <<worldVars, procVars, refresher, served, missed, torn>>
      /\ \/ Goto(t, "mark") /\ UNCHANGED <<op, loc>>
         \/ /\ Goto(t, "begin") /\ op' = op
            /\ loc' = [loc EXCEPT ![t] = [@ EXCEPT !.force = TRUE, !.res = "none"]]
         \/ Leave(t)
  BY DEF CallOrgs
<1>2. "mark" \in Labels
  BY DEF Labels
<1>3. /\ Goto(t, "mark") /\ UNCHANGED <<op, loc>> => Placed' /\ Moves(t, "mark")
      /\ Leave(t) => Placed' /\ Ends(t)
  BY <1>2, GotoFacts, LeaveFacts
<1>4. ASSUME Goto(t, "begin"), op' = op,
             loc' = [loc EXCEPT ![t] = [@ EXCEPT !.force = TRUE, !.res = "none"]]
      PROVE  Placed' /\ Repeats(t)
  <2> DEFINE m == [loc[t] EXCEPT !.force = TRUE, !.res = "none"]
  <2>1. loc' = [loc EXCEPT ![t] = m] /\ loc[t] \in Locals /\ pc' = [pc EXCEPT ![t] = "begin"]
    BY <1>4 DEF TypeOK, Goto
  <2>2. m \in Locals
    BY <2>1 DEF Locals, Results
  <2>3. /\ m.tok = loc[t].tok /\ m.phase = loc[t].phase /\ m.seen = loc[t].seen /\ m.basis = loc[t].basis
        /\ m.over = loc[t].over /\ m.epoch = loc[t].epoch /\ m.judged = loc[t].judged
        /\ m.force /\ m.res = "none"
    BY <2>1 DEF Locals
  <2> HIDE DEF m
  <2>4. loc' \in [Threads -> Locals] /\ loc'[t] = m /\ \A u \in Threads \ {t} : Same(u)
    BY <2>1, <2>2, Replaced
  <2>5. /\ pc' \in [Threads -> Labels] /\ pc'[t] = "begin"
        /\ \A u \in Threads \ {t} : pc'[u] = pc[u]
    BY <2>1 DEF TypeOK, Labels
  <2>6. QED
    BY <1>4, <2>3, <2>4, <2>5 DEF Repeats, Alone, Placed, TypeOK
<1>5. QED
  BY <1>1, <1>3, <1>4 DEF TypeOK, Placed, worldVars, procVars

LEMMA SignInFacts ==
    ASSUME TypeOK, NEW t \in Threads, SignIn(t)
    PROVE  /\ TypeOK' /\ Takes(t, "signInPublish", store') /\ Write(Home[t], store')
           /\ store'.session = issued + 1 /\ store'.serial = issued + 1
<1> DEFINE b == [session |-> issued + 1, serial |-> issued + 1]
<1>1. /\ issued' = issued + 1 /\ Write(Home[t], b) /\ loc' = [loc EXCEPT ![t].tok = b]
      /\ Goto(t, "signInPublish") /\ op' = op
      /\ UNCHANGED <<witness, expired, revoked, over, gen, epoch, rejected, unstored, last, engine,
                     refresher, served, op, missed>>
  BY DEF SignIn
<1>2. b \in Bundle /\ b.session = issued + 1 /\ b.serial = issued + 1 /\ issued + 1 \in Nat
  BY DEF TypeOK, Bundle
<1> HIDE DEF b
<1>3. /\ store' = b /\ cache' \in [Procs -> [tok: Bundle, wit: Nat, kept: BOOLEAN]]
      /\ torn' \in SUBSET Threads
  BY <1>1, <1>2, Homes, WriteFacts
<1>4. "signInPublish" \in Labels
  BY DEF Labels
<1>5. Placed' /\ Takes(t, "signInPublish", b)
  BY <1>1, <1>2, <1>4, TakesFacts
<1>6. TypeOK'
  BY <1>1, <1>2, <1>3, <1>5 DEF TypeOK, Placed
<1>7. QED
  BY <1>1, <1>2, <1>3, <1>5, <1>6

LEMMA SignInFailsFacts ==
    ASSUME TypeOK, NEW t \in Threads, SignInFails(t)
    PROVE  /\ TypeOK' /\ Ends(t)
           /\ UNCHANGED <<store, cache, torn>> \/ \E b \in {store, None} : Write(Home[t], b)
<1>1. /\ UNCHANGED <<witness, issued, expired, revoked, over, gen, epoch, rejected, unstored, last, engine,
                     refresher, served, missed>>
      /\ Leave(t)
      /\ UNCHANGED <<store, cache, torn>> \/ \E b \in {store, None} : Write(Home[t], b)
  BY DEF SignInFails
<1>2. \A b \in {store, None} : Write(Home[t], b) =>
          /\ store' = b /\ cache' \in [Procs -> [tok: Bundle, wit: Nat, kept: BOOLEAN]]
          /\ torn' \in SUBSET Threads
  BY Homes, Blanks, WriteFacts DEF TypeOK
<1>3. store' \in Bundle /\ cache' \in [Procs -> [tok: Bundle, wit: Nat, kept: BOOLEAN]] /\ torn' \in SUBSET Threads
  BY <1>1, <1>2, Blanks DEF TypeOK
<1>4. Placed' /\ Ends(t)
  BY <1>1, LeaveFacts
<1>5. TypeOK'
  BY <1>1, <1>3, <1>4 DEF TypeOK, Placed
<1>6. QED
  BY <1>1, <1>4, <1>5

LEMMA SignInPublishFacts ==
    ASSUME TypeOK, NEW t \in Threads, SignInPublish(t)
    PROVE  TypeOK' /\ Moves(t, "signInEpoch")
<1>1. /\ UNCHANGED <<worldVars, epoch, cache, last, engine, refresher, served, op, loc, missed, torn>>
      /\ Supersede(Home[t]) /\ Goto(t, "signInEpoch") /\ UNCHANGED <<op, loc>>
  BY DEF SignInPublish
<1>2. "signInEpoch" \in Labels
  BY DEF Labels
<1>3. Placed' /\ Moves(t, "signInEpoch")
  BY <1>1, <1>2, GotoFacts
<1>4. /\ gen' \in [Procs -> Nat] /\ rejected' \in [Procs -> BOOLEAN]
      /\ unstored' \in [Procs -> [tok: Bundle, gen: Nat, wit: Nat]]
  BY <1>1, Homes, SupersedeFacts
<1>5. QED
  BY <1>1, <1>3, <1>4 DEF TypeOK, Placed, worldVars

LEMMA AdvanceFacts ==
    ASSUME TypeOK, NEW t \in Threads, Advance(t)
    PROVE  /\ TypeOK'
           /\ \/ pc[t] = "signInEpoch" /\ Moves(t, "stamp")
              \/ pc[t] = "signOutEpoch" /\ Moves(t, "signOutPush")
<1>1. /\ UNCHANGED <<worldVars, gen, rejected, unstored, cache, last, engine, refresher, served, missed, torn>>
      /\ epoch' = [epoch EXCEPT ![Home[t]] = @ + 1] /\ UNCHANGED <<op, loc>>
      /\ \/ pc[t] = "signInEpoch" /\ Goto(t, "stamp")
         \/ pc[t] = "signOutEpoch" /\ Goto(t, "signOutPush")
  BY DEF Advance, At
<1>2. {"stamp", "signOutPush"} \subseteq Labels
  BY DEF Labels
<1>3. \A label \in {"stamp", "signOutPush"} : Goto(t, label) => Placed' /\ Moves(t, label)
  BY <1>1, <1>2, GotoFacts
<1>4. epoch' \in [Procs -> Nat]
  BY <1>1, Homes DEF TypeOK
<1>5. QED
  BY <1>1, <1>3, <1>4 DEF TypeOK, Placed, worldVars

\* History alone: a kept bundle is no longer served.
LEMMA Forgotten ==
    ASSUME NEW l \in Locals
    PROVE  /\ [l EXCEPT !.floor.serial = 0] \in Locals
           /\ LET m == [l EXCEPT !.floor.serial = 0] IN
              /\ m.tok = l.tok /\ m.phase = l.phase /\ m.seen = l.seen /\ m.basis = l.basis
              /\ m.over = l.over /\ m.epoch = l.epoch /\ m.judged = l.judged
              /\ m.force = l.force /\ m.res = l.res
<1> DEFINE b == [l.floor EXCEPT !.serial = 0]
           m == [l EXCEPT !.floor = b]
<1>1. b \in Bundle
  BY DEF Locals, Bundle
<1>2. [l EXCEPT !.floor.serial = 0] = m
  BY DEF Locals
<1> HIDE DEF b
<1>3. m \in Locals
  BY <1>1 DEF Locals
<1>4. /\ m.tok = l.tok /\ m.phase = l.phase /\ m.seen = l.seen /\ m.basis = l.basis
      /\ m.over = l.over /\ m.epoch = l.epoch /\ m.judged = l.judged
      /\ m.force = l.force /\ m.res = l.res
  BY <1>1 DEF Locals
<1> HIDE DEF m
<1>5. QED
  BY <1>2, <1>3, <1>4

LEMMA StampFacts ==
    ASSUME TypeOK, NEW t \in Threads, Stamp(t)
    PROVE  TypeOK' /\ Moves(t, "signInPush")
<1>1. /\ UNCHANGED <<store, issued, expired, revoked, over, procVars, refresher, op, missed, torn>>
      /\ witness' = witness + 1 /\ pc' = [pc EXCEPT ![t] = "signInPush"]
      /\ loc' = [u \in Threads |-> [loc[u] EXCEPT !.floor.serial = 0]]
      /\ served' = [x \in Procs |-> [served[x] EXCEPT !.serial = 0]]
  BY DEF Stamp, Goto
<1>2. \A u \in Threads : loc[u] \in Locals
  BY DEF TypeOK
<1>3. \A u \in Threads : [loc[u] EXCEPT !.floor.serial = 0] \in Locals
  BY <1>2, Forgotten
<1>4. loc' \in [Threads -> Locals]
  BY <1>1, <1>3
<1>5. \A u \in Threads : Same(u)
  BY <1>1, <1>2, Forgotten DEF Same
<1>6. served' \in [Procs -> Bundle]
  BY <1>1 DEF TypeOK, Bundle
<1>7. /\ pc' \in [Threads -> Labels] /\ pc'[t] = "signInPush"
      /\ \A u \in Threads \ {t} : pc'[u] = pc[u]
  BY <1>1 DEF TypeOK, Labels
<1>8. Moves(t, "signInPush")
  BY <1>1, <1>5, <1>7 DEF Moves, Alone
<1>9. witness' \in Nat
  BY <1>1 DEF TypeOK
<1>10. QED
  BY <1>1, <1>4, <1>6, <1>7, <1>8, <1>9 DEF TypeOK, procVars

LEMMA SignInPushFacts ==
    ASSUME TypeOK, NEW t \in Threads, SignInPush(t)
    PROVE  TypeOK' /\ Ends(t)
<1>1. /\ UNCHANGED <<store, witness, issued, expired, revoked, gen, epoch, rejected, unstored, cache, last,
                     refresher, served, missed, torn>>
      /\ engine' = [engine EXCEPT ![Home[t]] = loc[t].tok]
      /\ over' = Larger(over, loc[t].tok.session - 1) /\ Leave(t)
  BY DEF SignInPush
<1>2. loc[t].tok \in Bundle /\ loc[t].tok.session \in Nat
  BY DEF TypeOK, Locals, Bundle
<1>3. engine' \in [Procs -> Bundle] /\ over' \in Nat
  BY <1>1, <1>2, Homes DEF TypeOK, Larger
<1>4. Placed' /\ Ends(t)
  BY <1>1, LeaveFacts
<1>5. QED
  BY <1>1, <1>3, <1>4 DEF TypeOK, Placed

\* The sign-out that ends every session issued so far.
Outs(t) ==
    /\ pc'[t] = "signOutPublish" /\ op'[t] = op[t] /\ Alone(t) /\ loc'[t].over = issued
    /\ loc'[t].tok = loc[t].tok /\ loc'[t].phase = loc[t].phase /\ loc'[t].seen = loc[t].seen
    /\ loc'[t].basis = loc[t].basis /\ loc'[t].epoch = loc[t].epoch
    /\ loc'[t].judged = loc[t].judged /\ loc'[t].force = loc[t].force /\ loc'[t].res = loc[t].res

\* The kept bundle is dropped.
Drops(x) ==
    /\ unstored' \in [Procs -> [tok: Bundle, gen: Nat, wit: Nat]] /\ unstored'[x].tok = None
    /\ \A y \in Procs \ {x} : unstored'[y] = unstored[y]

LEMMA DropsFacts ==
    ASSUME TypeOK, NEW x \in Procs, unstored' = [unstored EXCEPT ![x] = Nothing]
    PROVE  Drops(x)
<1>1. Nothing \in [tok: Bundle, gen: Nat, wit: Nat] /\ Nothing.tok = None
  BY Blanks DEF Nothing
<1>2. QED
  BY <1>1 DEF Drops, TypeOK

LEMMA SignOutFacts ==
    ASSUME TypeOK, NEW t \in Threads, SignOut(t)
    PROVE  TypeOK' /\ Moves(t, "signOutDelete") /\ Drops(Home[t])
<1> DEFINE l(u) == IF Home[u] = Home[t] THEN [loc[u] EXCEPT !.floor.serial = 0] ELSE loc[u]
<1>1. /\ UNCHANGED <<worldVars, gen, epoch, rejected, cache, last, engine, refresher, op, missed, torn>>
      /\ unstored' = [unstored EXCEPT ![Home[t]] = Nothing]
      /\ pc' = [pc EXCEPT ![t] = "signOutDelete"]
      /\ \/ UNCHANGED <<loc, served>>
         \/ /\ loc' = [u \in Threads |-> l(u)]
            /\ served' = [served EXCEPT ![Home[t]].serial = 0]
  BY DEF SignOut, Goto
<1>2. \A u \in Threads : loc[u] \in Locals
  BY DEF TypeOK
<1>3. \A u \in Threads : l(u) \in Locals
  BY <1>2, Forgotten
<1>4. \A u \in Threads : LET m == l(u) IN
              /\ m.tok = loc[u].tok /\ m.phase = loc[u].phase /\ m.seen = loc[u].seen /\ m.basis = loc[u].basis
              /\ m.over = loc[u].over /\ m.epoch = loc[u].epoch /\ m.judged = loc[u].judged
              /\ m.force = loc[u].force /\ m.res = loc[u].res
  <2> SUFFICES ASSUME NEW u \in Threads
               PROVE  LET m == l(u) IN
                      /\ m.tok = loc[u].tok /\ m.phase = loc[u].phase /\ m.seen = loc[u].seen
                      /\ m.basis = loc[u].basis /\ m.over = loc[u].over /\ m.epoch = loc[u].epoch
                      /\ m.judged = loc[u].judged /\ m.force = loc[u].force /\ m.res = loc[u].res
    OBVIOUS
  <2>1. l(u) = loc[u] \/ l(u) = [loc[u] EXCEPT !.floor.serial = 0]
    OBVIOUS
  <2>2. LET m == [loc[u] EXCEPT !.floor.serial = 0] IN
        /\ m.tok = loc[u].tok /\ m.phase = loc[u].phase /\ m.seen = loc[u].seen /\ m.basis = loc[u].basis
        /\ m.over = loc[u].over /\ m.epoch = loc[u].epoch /\ m.judged = loc[u].judged
        /\ m.force = loc[u].force /\ m.res = loc[u].res
    BY <1>2, Forgotten
  <2> HIDE DEF l
  <2>3. CASE l(u) = loc[u]
    BY <2>3
  <2>4. CASE l(u) = [loc[u] EXCEPT !.floor.serial = 0]
    BY <2>2, <2>4
  <2>5. QED
    BY <2>1, <2>3, <2>4
<1> HIDE DEF l
<1>5. loc' \in [Threads -> Locals] /\ \A u \in Threads : Same(u)
  <2>1. CASE UNCHANGED loc
    BY <2>1 DEF TypeOK, Same
  <2>2. CASE loc' = [u \in Threads |-> l(u)]
    BY <1>3, <1>4, <2>2 DEF Same
  <2>3. QED
    BY <1>1, <2>1, <2>2
<1>6. served' \in [Procs -> Bundle]
  <2> DEFINE b == [served[Home[t]] EXCEPT !.serial = 0]
  <2>1. b \in Bundle
    BY Homes DEF TypeOK, Bundle
  <2>2. served' = served \/ served' = [served EXCEPT ![Home[t]] = b]
    BY <1>1
  <2>3. QED
    BY <2>1, <2>2 DEF TypeOK
<1>7. /\ pc' \in [Threads -> Labels] /\ pc'[t] = "signOutDelete"
      /\ \A u \in Threads \ {t} : pc'[u] = pc[u]
  BY <1>1 DEF TypeOK, Labels
<1>8. Moves(t, "signOutDelete")
  BY <1>1, <1>5, <1>7 DEF Moves, Alone
<1>9. Drops(Home[t])
  BY <1>1, Homes, DropsFacts
<1>10. TypeOK'
  BY <1>1, <1>5, <1>6, <1>7, <1>9 DEF TypeOK, Drops, worldVars
<1>11. QED
  BY <1>8, <1>9, <1>10

LEMMA SignOutDeleteFacts ==
    ASSUME TypeOK, NEW t \in Threads, SignOutDelete(t)
    PROVE  TypeOK' /\ Outs(t) /\ Write(Home[t], None)
<1> DEFINE m == [loc[t] EXCEPT !.over = issued]
<1>1. /\ UNCHANGED <<witness, issued, expired, revoked, over, gen, epoch, rejected, unstored, last, engine,
                     refresher, served, op, missed>>
      /\ Write(Home[t], None)
      /\ loc' = [loc EXCEPT ![t] = m] /\ pc' = [pc EXCEPT ![t] = "signOutPublish"]
  BY DEF SignOutDelete, Goto
<1>2. loc[t] \in Locals /\ issued \in Nat
  BY DEF TypeOK
<1>3. m \in Locals
  BY <1>2 DEF Locals
<1>4. /\ m.tok = loc[t].tok /\ m.phase = loc[t].phase /\ m.seen = loc[t].seen /\ m.basis = loc[t].basis
      /\ m.over = issued /\ m.epoch = loc[t].epoch /\ m.judged = loc[t].judged
      /\ m.force = loc[t].force /\ m.res = loc[t].res
  BY <1>2 DEF Locals
<1> HIDE DEF m
<1>5. loc' \in [Threads -> Locals] /\ loc'[t] = m /\ \A u \in Threads \ {t} : Same(u)
  BY <1>1, <1>3, Replaced
<1>6. /\ pc' \in [Threads -> Labels] /\ pc'[t] = "signOutPublish"
      /\ \A u \in Threads \ {t} : pc'[u] = pc[u]
  BY <1>1 DEF TypeOK, Labels
<1>7. /\ store' = None /\ cache' \in [Procs -> [tok: Bundle, wit: Nat, kept: BOOLEAN]]
      /\ torn' \in SUBSET Threads
  BY <1>1, Homes, Blanks, WriteFacts
<1>8. Outs(t)
  BY <1>1, <1>4, <1>5, <1>6 DEF Outs, Alone
<1>9. TypeOK'
  BY <1>1, <1>5, <1>6, <1>7, Blanks DEF TypeOK
<1>10. QED
  BY <1>1, <1>8, <1>9

LEMMA SignOutFailsFacts ==
    ASSUME TypeOK, NEW t \in Threads, SignOutFails(t)
    PROVE  TypeOK' /\ Ends(t) /\ \E b \in {store, None} : Write(Home[t], b)
<1>1. /\ UNCHANGED <<witness, issued, expired, revoked, over, gen, epoch, rejected, unstored, last, engine,
                     refresher, served, missed>>
      /\ Leave(t) /\ \E b \in {store, None} : Write(Home[t], b)
  BY DEF SignOutFails
<1>2. Placed' /\ Ends(t)
  BY <1>1, LeaveFacts
<1>3. \A b \in {store, None} : Write(Home[t], b) =>
          /\ store' = b /\ cache' \in [Procs -> [tok: Bundle, wit: Nat, kept: BOOLEAN]]
          /\ torn' \in SUBSET Threads
  BY Homes, Blanks, WriteFacts DEF TypeOK
<1>4. store' \in Bundle /\ cache' \in [Procs -> [tok: Bundle, wit: Nat, kept: BOOLEAN]] /\ torn' \in SUBSET Threads
  BY <1>1, <1>3, Blanks DEF TypeOK
<1>5. QED
  BY <1>1, <1>2, <1>4 DEF TypeOK, Placed

LEMMA SignOutPublishFacts ==
    ASSUME TypeOK, NEW t \in Threads, SignOutPublish(t)
    PROVE  TypeOK' /\ Moves(t, "signOutEpoch")
<1>1. /\ UNCHANGED <<worldVars, epoch, unstored, cache, last, engine, refresher, served, missed, torn>>
      /\ rejected' = [rejected EXCEPT ![Home[t]] = FALSE] /\ gen' = [gen EXCEPT ![Home[t]] = @ + 1]
      /\ Goto(t, "signOutEpoch") /\ UNCHANGED <<op, loc>>
  BY DEF SignOutPublish
<1>2. "signOutEpoch" \in Labels
  BY DEF Labels
<1>3. Placed' /\ Moves(t, "signOutEpoch")
  BY <1>1, <1>2, GotoFacts
<1>4. gen' \in [Procs -> Nat] /\ rejected' \in [Procs -> BOOLEAN]
  BY <1>1, Homes DEF TypeOK
<1>5. QED
  BY <1>1, <1>3, <1>4 DEF TypeOK, Placed, worldVars

LEMMA SignOutPushFacts ==
    ASSUME TypeOK, NEW t \in Threads, SignOutPush(t)
    PROVE  TypeOK' /\ Ends(t)
<1>1. /\ UNCHANGED <<store, witness, issued, expired, revoked, gen, epoch, rejected, unstored, cache, last,
                     refresher, served, missed, torn>>
      /\ engine' = [engine EXCEPT ![Home[t]] = None]
      /\ over' = Larger(over, loc[t].over) /\ Leave(t)
  BY DEF SignOutPush
<1>2. None \in Bundle /\ loc[t].over \in Nat
  BY Blanks DEF TypeOK, Locals
<1>3. engine' \in [Procs -> Bundle] /\ over' \in Nat
  BY <1>1, <1>2, Homes DEF TypeOK, Larger
<1>4. Placed' /\ Ends(t)
  BY <1>1, LeaveFacts
<1>5. QED
  BY <1>1, <1>3, <1>4 DEF TypeOK, Placed

Calls(t, o) ==
    /\ pc[t] = "idle" /\ o \in Roles[t] /\ op'[t] = o /\ Alone(t)
    /\ pc'[t] = (IF o \in {"signIn", "signOut"} THEN o ELSE "begin")
    /\ loc'[t].epoch = (IF o \in {"tick", "recheck"} THEN epoch[Home[t]] ELSE 0)
    /\ loc'[t].force = (o = "recheck")
    /\ loc'[t].tok = loc[t].tok /\ loc'[t].phase = loc[t].phase /\ loc'[t].seen = loc[t].seen
    /\ loc'[t].basis = loc[t].basis /\ loc'[t].over = loc[t].over /\ loc'[t].judged = loc[t].judged
    /\ loc'[t].res = loc[t].res

LEMMA CallFacts ==
    ASSUME TypeOK, NEW t \in Threads, NEW o \in Operations, Call(t, o)
    PROVE  TypeOK' /\ Calls(t, o)
<1> DEFINE e == IF o \in {"tick", "recheck"} THEN epoch[Home[t]] ELSE 0
           f == (o = "recheck")
           m == [loc[t] EXCEPT !.epoch = e, !.force = f]
           label == IF o \in {"signIn", "signOut"} THEN o ELSE "begin"
<1>1. /\ pc[t] = "idle" /\ o \in Roles[t] /\ op' = [op EXCEPT ![t] = o]
      /\ loc' = [loc EXCEPT ![t] = m]
      /\ UNCHANGED <<worldVars, procVars, refresher, served, missed, torn>>
  BY DEF Call, At
<1>2. pc' = [pc EXCEPT ![t] = label]
  BY DEF Call, Goto
<1>3. e \in Nat /\ f \in BOOLEAN /\ loc[t] \in Locals /\ label \in Labels
  BY Homes DEF TypeOK, Labels
<1>4. e = (IF o \in {"tick", "recheck"} THEN epoch[Home[t]] ELSE 0) /\ f = (o = "recheck")
      /\ label = (IF o \in {"signIn", "signOut"} THEN o ELSE "begin")
  OBVIOUS
<1> HIDE DEF e, f, label
<1>5. m \in Locals
  BY <1>3 DEF Locals
<1>6. /\ m.tok = loc[t].tok /\ m.phase = loc[t].phase /\ m.seen = loc[t].seen /\ m.basis = loc[t].basis
      /\ m.over = loc[t].over /\ m.epoch = e /\ m.judged = loc[t].judged
      /\ m.force = f /\ m.res = loc[t].res
  BY <1>3 DEF Locals
<1> HIDE DEF m
<1>7. loc' \in [Threads -> Locals] /\ loc'[t] = m /\ \A u \in Threads \ {t} : Same(u)
  BY <1>1, <1>5, Replaced
<1>8. /\ pc' \in [Threads -> Labels] /\ pc'[t] = label /\ op' \in [Threads -> Operations \union {"none"}]
      /\ op'[t] = o /\ \A u \in Threads \ {t} : pc'[u] = pc[u] /\ op'[u] = op[u]
  BY <1>1, <1>2, <1>3 DEF TypeOK
<1>9. Alone(t)
  BY <1>7, <1>8 DEF Alone
<1>10. Calls(t, o)
  BY <1>1, <1>4, <1>6, <1>7, <1>8, <1>9 DEF Calls
<1>11. QED
  BY <1>1, <1>7, <1>8, <1>10 DEF TypeOK, worldVars, procVars

LEMMA ExpireFacts ==
    ASSUME TypeOK, Expire
    PROVE  TypeOK' /\ UNCHANGED <<pc, op, loc, refresher>>
    BY DEF Expire, TypeOK, procVars, threadVars

LEMMA RevokeFacts ==
    ASSUME TypeOK, NEW s \in 1 .. MaxTokens, Revoke(s)
    PROVE  TypeOK' /\ UNCHANGED <<pc, op, loc, refresher>>
<1>1. s \in Nat
  BY BoundsAssumption
<1>2. QED
  BY <1>1 DEF Revoke, TypeOK, procVars, threadVars

-----------------------------------------------------------------------------
(* Where a thread can be, in which operation, and what it knows there.     *)

Reading == {"keep", "lock", "post", "granted", "store", "publish", "hold"}
SigningIn == {"signInPublish", "signInEpoch", "stamp", "signInPush"}
HandLabels == SigningIn \cup {"signIn", "signOut", "signOutDelete", "signOutPublish", "signOutEpoch", "signOutPush"}

\* Past the refresh lock: the first read is not, what is read again is.
UnderLock(t) ==
    \/ pc[t] \in {"post", "granted", "store", "publish", "hold"}
    \/ pc[t] \in {"look", "fetch", "keep"} /\ loc[t].phase # "first"

Ordered(t) ==
    /\ op[t] \in Roles[t] \cup {"none"}
    /\ pc[t] \in HandLabels => op[t] \in {"signIn", "signOut"}
    /\ pc[t] = "push" => op[t] \in {"tick", "relay"}
    /\ pc[t] \in {"judged", "probe", "recovered", "verdict"} => op[t] = "recheck"
    /\ pc[t] = "mark" => op[t] \in {"recheck", "orgs"}
    /\ pc[t] = "call" => op[t] = "orgs"
    /\ pc[t] \in Reading \cup {"begin", "look", "fetch"} => op[t] \in {"tick", "relay", "recheck", "orgs"}
    /\ pc[t] \notin Reading \cup {"look", "fetch"} => loc[t].phase = "first"
    /\ pc[t] = "lock" => loc[t].phase = "first"
    /\ pc[t] = "idle" => loc[t].tok = None
    /\ pc[t] \in Reading \ {"keep"} => loc[t].tok # None
    /\ op[t] = "recheck" => loc[t].force

Locked(t) == UnderLock(t) => refresher[Home[t]] = t

\* What a thread has noted of a counter is not ahead of it.
Clocked(t) ==
    /\ loc[t].seen <= gen[Home[t]] /\ loc[t].basis <= gen[Home[t]] /\ loc[t].epoch <= epoch[Home[t]]
    /\ loc[t].over <= issued /\ loc[t].tok.serial <= issued
    /\ pc[t] \in SigningIn => loc[t].tok.session <= issued

Fit(t) == Ordered(t) /\ Locked(t) /\ Clocked(t)

Stocked ==
    /\ over <= issued /\ store.serial <= issued
    /\ \A x \in Procs : /\ unstored[x].tok.serial <= issued /\ cache[x].tok.serial <= issued
                        /\ unstored[x].gen <= gen[x] /\ unstored[x].wit <= witness

Base == TypeOK /\ Stocked /\ \A t \in Threads : Fit(t)

\* Counters only grow.
Mono ==
    /\ \A x \in Procs : gen[x] <= gen'[x] /\ epoch[x] <= epoch'[x]
    /\ witness <= witness' /\ issued <= issued' /\ over <= over'

\* Nobody takes the refresh lock from its holder.
Guarded(t) == \A u \in Threads \ {t} : refresher[Home[u]] = u => refresher'[Home[u]] = u

LEMMA Typed ==
    ASSUME TypeOK
    PROVE  /\ \A x \in Procs : gen[x] \in Nat /\ epoch[x] \in Nat /\ rejected[x] \in BOOLEAN
                               /\ unstored[x].tok \in Bundle /\ unstored[x].gen \in Nat /\ unstored[x].wit \in Nat
                               /\ cache[x].tok \in Bundle /\ cache[x].kept \in BOOLEAN /\ engine[x] \in Bundle
           /\ \A t \in Threads : loc[t].tok \in Bundle /\ loc[t].seen \in Nat /\ loc[t].basis \in Nat
                                 /\ loc[t].epoch \in Nat /\ loc[t].over \in Nat /\ loc[t].judged \in Nat
                                 /\ loc[t].phase \in {"first", "again", "after"} /\ loc[t].force \in BOOLEAN
                                 /\ pc[t] \in Labels /\ Home[t] \in Procs
           /\ store \in Bundle /\ witness \in Nat /\ issued \in Nat /\ over \in Nat
<1>1. \A x \in Procs : unstored[x] \in [tok: Bundle, gen: Nat, wit: Nat]
                       /\ cache[x] \in [tok: Bundle, wit: Nat, kept: BOOLEAN]
  BY DEF TypeOK
<1>2. \A t \in Threads : loc[t] \in Locals
  BY DEF TypeOK
<1>3. \A x \in Procs : gen[x] \in Nat /\ epoch[x] \in Nat /\ rejected[x] \in BOOLEAN
                       /\ unstored[x].tok \in Bundle /\ unstored[x].gen \in Nat /\ unstored[x].wit \in Nat
                       /\ cache[x].tok \in Bundle /\ cache[x].kept \in BOOLEAN /\ engine[x] \in Bundle
  BY <1>1 DEF TypeOK
<1>4. \A t \in Threads : loc[t].tok \in Bundle /\ loc[t].seen \in Nat /\ loc[t].basis \in Nat
                         /\ loc[t].epoch \in Nat /\ loc[t].over \in Nat /\ loc[t].judged \in Nat
                         /\ loc[t].phase \in {"first", "again", "after"} /\ loc[t].force \in BOOLEAN
  BY <1>2 DEF Locals
<1>5. QED
  BY <1>3, <1>4, Homes DEF TypeOK

LEMMA Numbers ==
    /\ \A b \in Bundle : b.session \in Nat /\ b.serial \in Nat
    /\ None \in Bundle /\ None.session = 0 /\ None.serial = 0
    BY Blanks DEF Bundle, None

\* The other threads stay as fit as they were.
LEMMA OthersFit ==
    ASSUME TypeOK, TypeOK', NEW t \in Threads, Alone(t), Guarded(t), Mono,
           \A u \in Threads : Fit(u)
    PROVE  \A u \in Threads \ {t} : Fit(u)'
<1> SUFFICES ASSUME NEW u \in Threads \ {t} PROVE Fit(u)'
  OBVIOUS
<1>1. pc'[u] = pc[u] /\ op'[u] = op[u] /\ Same(u) /\ Fit(u)
  BY DEF Alone
<1>2. Ordered(u)'
  BY <1>1 DEF Fit, Ordered, Same
<1>3. Locked(u)'
  BY <1>1 DEF Fit, Locked, Same, UnderLock, Guarded
<1>4. Clocked(u)'
  <2>1. /\ Home[u] \in Procs /\ loc[u].seen \in Nat /\ loc[u].basis \in Nat /\ loc[u].epoch \in Nat
        /\ loc[u].over \in Nat /\ loc[u].tok \in Bundle
        /\ \A x \in Procs : gen[x] \in Nat /\ epoch[x] \in Nat
    BY Typed
  <2>2. issued \in Nat /\ issued' \in Nat /\ \A x \in Procs : gen'[x] \in Nat /\ epoch'[x] \in Nat
    BY DEF TypeOK
  <2>3. loc[u].tok.serial \in Nat /\ loc[u].tok.session \in Nat
    BY <2>1, Numbers
  <2>4. QED
    BY <1>1, <2>1, <2>2, <2>3 DEF Fit, Clocked, Same, Mono
<1>5. QED
  BY <1>2, <1>3, <1>4 DEF Fit

\* Fit after coming back, and after an answer.
LEMMA EndsFit ==
    ASSUME TypeOK', NEW t \in Threads, Ends(t)
    PROVE  Fit(t)'
<1>1. Ordered(t)'
  BY DEF Ends, Ordered, Reset, HandLabels, SigningIn, Reading
<1>2. Locked(t)'
  BY DEF Ends, Locked, UnderLock
<1>3. Clocked(t)'
  <2>1. Home[t] \in Procs /\ issued' \in Nat /\ gen'[Home[t]] \in Nat /\ epoch'[Home[t]] \in Nat
    BY Homes DEF TypeOK
  <2>2. QED
    BY <2>1, Numbers DEF Ends, Clocked, Reset, SigningIn
<1>4. QED
  BY <1>1, <1>2, <1>3 DEF Fit

LEMMA AnswersFit ==
    ASSUME TypeOK, TypeOK', Mono, NEW t \in Threads, Fit(t), NEW res \in Results, NEW b \in Bundle,
           b.serial <= issued, Answers(t, res, b)
    PROVE  Fit(t)'
<1>1. Ordered(t)'
  BY DEF Answers, Ordered, Fit, Reset, HandLabels, SigningIn, Reading
<1>2. Locked(t)'
  BY DEF Answers, Locked, UnderLock
<1>3. Clocked(t)'
  <2>1. /\ Home[t] \in Procs /\ issued' \in Nat /\ gen'[Home[t]] \in Nat /\ epoch'[Home[t]] \in Nat
        /\ b.serial \in Nat /\ issued \in Nat /\ loc[t].epoch \in Nat /\ epoch[Home[t]] \in Nat
    BY Homes, Typed, Numbers DEF TypeOK
  <2>2. pc'[t] \notin SigningIn
    BY DEF Answers, SigningIn
  <2>3. QED
    BY <2>1, <2>2 DEF Answers, Clocked, Reset, Fit, Mono
<1>4. QED
  BY <1>1, <1>2, <1>3 DEF Fit

LEMMA CameFit ==
    ASSUME TypeOK, TypeOK', Mono, NEW t \in Threads, Fit(t), NEW res \in Results, NEW b \in Bundle,
           b.serial <= issued, Came(t, res, b)
    PROVE  Fit(t)' /\ Alone(t) /\ Guarded(t)
<1>1. Fit(t)' /\ Alone(t)
  BY EndsFit, AnswersFit DEF Came, Ends, Answers
<1>2. Guarded(t)
  BY Homes DEF Came, Frees, Guarded
<1>3. QED
  BY <1>1, <1>2

LEMMA ReadFit ==
    ASSUME TypeOK, TypeOK', Mono, NEW t \in Threads, Fit(t), NEW b \in Bundle,
           b.serial <= issued, pc[t] \in {"look", "keep"}, Read(t, b)
    PROVE  Fit(t)' /\ Alone(t) /\ Guarded(t)
<1>1. CASE Onward(t, b)
  <2>1. Alone(t) /\ Guarded(t)
    BY <1>1 DEF Onward, Takes, Guarded
  <2>2. Ordered(t)'
    BY <1>1 DEF Onward, Takes, Ordered, Fit, HandLabels, SigningIn, Reading
  <2>3. Locked(t)'
    BY <1>1 DEF Onward, Takes, Locked, Fit, UnderLock
  <2>4. Clocked(t)'
    <3>1. /\ Home[t] \in Procs /\ issued' \in Nat /\ gen'[Home[t]] \in Nat /\ epoch'[Home[t]] \in Nat
          /\ b.serial \in Nat /\ issued \in Nat /\ loc[t].epoch \in Nat /\ epoch[Home[t]] \in Nat
          /\ gen[Home[t]] \in Nat /\ loc[t].seen \in Nat /\ loc[t].basis \in Nat /\ loc[t].over \in Nat
      BY Homes, Typed, Numbers DEF TypeOK
    <3>2. pc'[t] \notin SigningIn
      BY <1>1 DEF Onward, Takes, SigningIn
    <3>3. QED
      BY <1>1, <3>1, <3>2 DEF Onward, Takes, Clocked, Fit, Mono
  <2>5. QED
    BY <2>1, <2>2, <2>3, <2>4 DEF Fit
<1>2. CASE ~Onward(t, b)
  <2>1. None \in Bundle /\ None.serial <= issued
    BY Numbers, Typed
  <2>2. {"signedOut", "live", "unavailable"} \subseteq Results
    BY DEF Results
  <2>3. QED
    BY <1>2, <2>1, <2>2, CameFit DEF Read
<1>3. QED
  BY <1>1, <1>2

\* A step that leaves the thread's locals alone.
LEMMA MovesFit ==
    ASSUME TypeOK, TypeOK', Mono, NEW t \in Threads, Fit(t), NEW label \in Labels, Moves(t, label)
    PROVE  /\ Clocked(t)' \/ label \in SigningIn
           /\ Alone(t)
           /\ label \in SigningIn /\ pc[t] \in SigningIn => Clocked(t)'
<1>1. /\ Home[t] \in Procs /\ issued' \in Nat /\ gen'[Home[t]] \in Nat /\ epoch'[Home[t]] \in Nat
      /\ issued \in Nat /\ loc[t].epoch \in Nat /\ epoch[Home[t]] \in Nat
      /\ gen[Home[t]] \in Nat /\ loc[t].seen \in Nat /\ loc[t].basis \in Nat /\ loc[t].over \in Nat
      /\ loc[t].tok.serial \in Nat /\ loc[t].tok.session \in Nat
  BY Homes, Typed, Numbers DEF TypeOK
<1>2. QED
  BY <1>1 DEF Moves, Clocked, Fit, Same, Mono

LEMMA Steady ==
    ASSUME TypeOK, UNCHANGED <<gen, epoch, witness, issued, over>>
    PROVE  Mono
    BY Typed DEF Mono

LEMMA StillStocked ==
    ASSUME TypeOK, TypeOK', Stocked, Mono, UNCHANGED <<store, over, unstored, cache>>
    PROVE  Stocked'
<1>1. /\ issued \in Nat /\ issued' \in Nat /\ over \in Nat /\ witness \in Nat /\ witness' \in Nat
      /\ \A x \in Procs : gen[x] \in Nat /\ gen'[x] \in Nat
  BY DEF TypeOK
<1>2. store \in Bundle /\ \A x \in Procs : unstored[x].tok \in Bundle /\ cache[x].tok \in Bundle
                                           /\ unstored[x].gen \in Nat /\ unstored[x].wit \in Nat
  BY Typed
<1>3. store.serial \in Nat /\ \A x \in Procs : unstored[x].tok.serial \in Nat /\ cache[x].tok.serial \in Nat
  BY <1>2, Numbers
<1>4. QED
  BY <1>1, <1>2, <1>3 DEF Stocked, Mono

\* Whatever is written, cached reads are not newer than what has been issued.
LEMMA WriteStocked ==
    ASSUME TypeOK, TypeOK', Stocked, Mono, NEW x \in Procs, NEW b \in Bundle, b.serial <= issued', Write(x, b),
           over' = over, \A y \in Procs : unstored'[y] = unstored[y] \/ unstored'[y] = Nothing
    PROVE  Stocked'
<1>1. /\ issued \in Nat /\ issued' \in Nat /\ over \in Nat /\ witness \in Nat /\ witness' \in Nat
      /\ \A y \in Procs : gen[y] \in Nat /\ gen'[y] \in Nat
  BY DEF TypeOK
<1>2. \A y \in Procs : unstored[y].tok \in Bundle /\ cache[y].tok \in Bundle
                       /\ unstored[y].gen \in Nat /\ unstored[y].wit \in Nat
  BY Typed
<1>3. \A y \in Procs : unstored[y].tok.serial \in Nat /\ cache[y].tok.serial \in Nat
  BY <1>2, Numbers
<1>4. /\ Nothing.tok.serial = 0 /\ Nothing.gen = 0 /\ Nothing.wit = 0 /\ Uncached.tok.serial = 0
  BY Numbers DEF Nothing, Uncached
<1>5. store' = b /\ \A y \in Procs : cache'[y] = cache[y] \/ cache'[y] = Uncached
  BY DEF Write, TypeOK
<1>6. \A y \in Procs : /\ unstored'[y].tok.serial <= issued' /\ cache'[y].tok.serial <= issued'
                       /\ unstored'[y].gen <= gen'[y] /\ unstored'[y].wit <= witness'
  BY <1>1, <1>2, <1>3, <1>4, <1>5 DEF Stocked, Mono
<1>7. QED
  BY <1>1, <1>5, <1>6 DEF Stocked, Mono

\* A thread's part of the step.
Turn(t) == Fit(t)' /\ Alone(t) /\ Guarded(t)

LEMMA MovesTurn ==
    ASSUME TypeOK, TypeOK', Mono, NEW t \in Threads, Fit(t), NEW label \in Labels, Moves(t, label),
           refresher' = refresher,
           Ordered(t)', Locked(t)', label \in SigningIn => pc[t] \in SigningIn
    PROVE  Turn(t)
    BY MovesFit DEF Turn, Fit, Guarded

LEMMA EndsTurn ==
    ASSUME TypeOK', NEW t \in Threads, Ends(t), refresher' = refresher
    PROVE  Turn(t)
    BY EndsFit DEF Turn, Guarded, Ends

LEMMA BeginBase ==
    ASSUME Base, NEW t \in Threads, Begin(t)
    PROVE  TypeOK' /\ Mono /\ Stocked' /\ Turn(t)
<1>0. TypeOK /\ Stocked /\ Fit(t)
  BY DEF Base
<1>1. TypeOK' /\ refresher \in [Procs -> Threads \union {"free"}]
  BY <1>0, BeginFacts DEF TypeOK
<1>2. Mono
  BY <1>0, Steady DEF Begin, worldVars, procVars
<1>3. Stocked'
  BY <1>0, <1>1, <1>2, StillStocked DEF Begin, worldVars, procVars
<1>4. Turn(t)
  <2>1. "signedOut" \in Results /\ None \in Bundle /\ None.serial <= issued
    BY <1>0, Numbers, Typed DEF Results
  <2>2. CASE Came(t, "signedOut", None)
    BY <1>0, <1>1, <1>2, <2>1, <2>2, CameFit DEF Turn
  <2>3. CASE Starts(t)
    <3>1. pc[t] = "begin"
      BY DEF Begin, At
    <3>2. Alone(t) /\ Guarded(t)
      BY <2>3 DEF Starts, Guarded
    <3>3. Ordered(t)'
      BY <1>0, <2>3, <3>1 DEF Starts, Ordered, Fit, HandLabels, SigningIn, Reading
    <3>4. Locked(t)'
      BY <1>0, <2>3, <3>1 DEF Starts, Locked, UnderLock, Ordered, Fit, Reading
    <3>5. Clocked(t)'
      <4>1. /\ Home[t] \in Procs /\ issued' \in Nat /\ gen'[Home[t]] \in Nat /\ epoch'[Home[t]] \in Nat
            /\ issued \in Nat /\ loc[t].epoch \in Nat /\ epoch[Home[t]] \in Nat /\ over \in Nat
            /\ gen[Home[t]] \in Nat /\ loc[t].basis \in Nat /\ loc[t].tok \in Bundle
        BY <1>0, <1>1, Typed DEF TypeOK
      <4>2. loc[t].tok.serial \in Nat
        BY <4>1, Numbers
      <4>3. QED
        BY <1>0, <1>2, <2>3, <4>1, <4>2 DEF Starts, Clocked, Fit, Mono, Stocked, SigningIn
    <3>6. QED
      BY <3>2, <3>3, <3>4, <3>5 DEF Turn, Fit
  <2>4. QED
    BY <1>0, <2>2, <2>3, BeginFacts
<1>5. QED
  BY <1>1, <1>2, <1>3, <1>4

LEMMA LookBase ==
    ASSUME Base, NEW t \in Threads, Look(t)
    PROVE  TypeOK' /\ Mono /\ Stocked' /\ Turn(t)
<1>0. TypeOK /\ Stocked /\ Fit(t)
  BY DEF Base
<1>1. TypeOK' /\ refresher \in [Procs -> Threads \union {"free"}]
  BY <1>0, LookFacts DEF TypeOK
<1>2. Mono
  BY <1>0, Steady DEF Look, worldVars, procVars
<1>3. Stocked'
  BY <1>0, <1>1, <1>2, StillStocked DEF Look, worldVars, procVars
<1>4. Turn(t)
  <2>1. /\ unstored[Home[t]].tok \in Bundle /\ cache[Home[t]].tok \in Bundle /\ pc[t] = "look"
        /\ unstored[Home[t]].tok.serial <= issued /\ cache[Home[t]].tok.serial <= issued
    BY <1>0, Typed DEF Stocked, Look, At
  <2>2. ASSUME NEW b \in Bundle, b.serial <= issued, Read(t, b)
        PROVE  Turn(t)
    BY <1>0, <1>1, <1>2, <2>1, <2>2, ReadFit DEF Turn
  <2>3. CASE refresher' = refresher /\ Moves(t, "fetch")
    <3>1. Ordered(t)'
      BY <1>0, <2>1, <2>3 DEF Moves, Same, Ordered, Fit, HandLabels, SigningIn, Reading
    <3>2. Locked(t)'
      BY <1>0, <2>1, <2>3 DEF Moves, Same, Locked, UnderLock, Fit
    <3>3. QED
      BY <1>0, <1>1, <1>2, <2>3, <3>1, <3>2, MovesTurn DEF Labels, SigningIn
  <2>4. QED
    BY <1>0, <2>1, <2>2, <2>3, LookFacts
<1>5. QED
  BY <1>1, <1>2, <1>3, <1>4

LEMMA FetchBase ==
    ASSUME Base, NEW t \in Threads, Fetch(t)
    PROVE  TypeOK' /\ Mono /\ Stocked' /\ Turn(t)
<1>0. TypeOK /\ Stocked /\ Fit(t)
  BY DEF Base
<1>1. TypeOK' /\ refresher \in [Procs -> Threads \union {"free"}]
  BY <1>0, FetchFacts DEF TypeOK
<1>2. Mono
  BY <1>0, Steady DEF Fetch, worldVars, procVars
<1>3. Stocked'
  BY <1>0, <1>1, <1>2, StillStocked DEF Fetch, worldVars, procVars
<1>4. Turn(t)
  <2>1. pc[t] = "fetch" /\ refresher' = refresher /\ Takes(t, "keep", store)
    BY <1>0, FetchFacts DEF Fetch, At
  <2>2. Ordered(t)'
    BY <1>0, <2>1 DEF Takes, Ordered, Fit, HandLabels, SigningIn, Reading
  <2>3. Locked(t)'
    BY <1>0, <2>1 DEF Takes, Locked, UnderLock, Fit
  <2>4. Clocked(t)'
    <3>1. /\ Home[t] \in Procs /\ issued' \in Nat /\ gen'[Home[t]] \in Nat /\ epoch'[Home[t]] \in Nat
          /\ issued \in Nat /\ loc[t].epoch \in Nat /\ epoch[Home[t]] \in Nat
          /\ gen[Home[t]] \in Nat /\ loc[t].seen \in Nat /\ loc[t].basis \in Nat /\ loc[t].over \in Nat
          /\ store \in Bundle
      BY <1>0, <1>1, Typed DEF TypeOK
    <3>2. store.serial \in Nat
      BY <3>1, Numbers
    <3>3. QED
      BY <1>0, <1>2, <2>1, <3>1, <3>2 DEF Takes, Clocked, Fit, Mono, Stocked, SigningIn
  <2>5. QED
    BY <2>1, <2>2, <2>3, <2>4 DEF Turn, Fit, Guarded, Takes
<1>5. QED
  BY <1>1, <1>2, <1>3, <1>4

LEMMA FetchFailsBase ==
    ASSUME Base, NEW t \in Threads, FetchFails(t)
    PROVE  TypeOK' /\ Mono /\ Stocked' /\ Turn(t)
<1>0. TypeOK /\ Stocked /\ Fit(t)
  BY DEF Base
<1>1. TypeOK' /\ refresher \in [Procs -> Threads \union {"free"}]
  BY <1>0, FetchFailsFacts DEF TypeOK
<1>2. Mono
  BY <1>0, Steady DEF FetchFails, worldVars, procVars
<1>3. Stocked'
  BY <1>0, <1>1, <1>2, StillStocked DEF FetchFails, worldVars, procVars
<1>4. Turn(t)
  <2>1. "unavailable" \in Results /\ None \in Bundle /\ None.serial <= issued
    BY <1>0, Numbers, Typed DEF Results
  <2>2. QED
    BY <1>0, <1>1, <1>2, <2>1, CameFit, FetchFailsFacts DEF Turn
<1>5. QED
  BY <1>1, <1>2, <1>3, <1>4

LEMMA KeepBase ==
    ASSUME Base, NEW t \in Threads, Keep(t)
    PROVE  TypeOK' /\ Mono /\ Stocked' /\ Turn(t)
<1>0. TypeOK /\ Stocked /\ Fit(t)
  BY DEF Base
<1>1. TypeOK' /\ refresher \in [Procs -> Threads \union {"free"}]
  BY <1>0, KeepFacts DEF TypeOK
<1>2. Mono
  BY <1>0, Steady DEF Keep, worldVars, procVars
<1>3. Stocked'
  <2>1. \A x \in Procs : cache'[x] = cache[x] \/ cache'[x].tok = loc[t].tok
    BY <1>0 DEF Keep, TypeOK
  <2>2. /\ store' = store /\ over' = over /\ unstored' = unstored /\ issued' = issued /\ gen' = gen
        /\ witness' = witness
    BY DEF Keep, worldVars
  <2>3. loc[t].tok.serial <= issued
    BY <1>0 DEF Fit, Clocked
  <2>4. QED
    BY <1>0, <2>1, <2>2, <2>3 DEF Stocked
<1>4. Turn(t)
  <2>1. loc[t].tok \in Bundle /\ loc[t].tok.serial <= issued /\ pc[t] = "keep"
    BY <1>0, Typed DEF Fit, Clocked, Keep, At
  <2>2. QED
    BY <1>0, <1>1, <1>2, <2>1, ReadFit, KeepFacts DEF Turn
<1>5. QED
  BY <1>1, <1>2, <1>3, <1>4

LEMMA LockBase ==
    ASSUME Base, NEW t \in Threads, Lock(t)
    PROVE  TypeOK' /\ Mono /\ Stocked' /\ Turn(t)
<1>0. TypeOK /\ Stocked /\ Fit(t)
  BY DEF Base
<1>1. TypeOK' /\ refresher \in [Procs -> Threads \union {"free"}]
  BY <1>0, LockFacts DEF TypeOK
<1>2. Mono
  BY <1>0, Steady DEF Lock, worldVars, procVars
<1>3. Stocked'
  BY <1>0, <1>1, <1>2, StillStocked DEF Lock, worldVars, procVars
<1>4. Turn(t)
  <2>1. None \in Bundle /\ None.serial <= issued /\ pc[t] = "lock"
    BY <1>0, Numbers, Typed DEF Lock, At
  <2>2. CASE last[Home[t]] # "ok" /\ Came(t, last[Home[t]], None)
    <3>1. last[Home[t]] \in Results
      BY <1>0, <2>2, Homes DEF TypeOK, Results
    <3>2. QED
      BY <1>0, <1>1, <1>2, <2>1, <2>2, <3>1, CameFit DEF Turn
  <2>3. CASE Locks(t)
    <3>1. Alone(t) /\ Guarded(t)
      BY <2>3, <1>1, Homes, ThreadsAssumption DEF Locks, Guarded
    <3>2. Ordered(t)'
      BY <1>0, <2>1, <2>3 DEF Locks, Ordered, Fit, HandLabels, SigningIn, Reading
    <3>3. Locked(t)'
      BY <1>1, <2>3, Homes DEF Locks, Locked
    <3>4. Clocked(t)'
      <4>1. /\ Home[t] \in Procs /\ issued' \in Nat /\ gen'[Home[t]] \in Nat /\ epoch'[Home[t]] \in Nat
            /\ issued \in Nat /\ loc[t].epoch \in Nat /\ epoch[Home[t]] \in Nat
            /\ gen[Home[t]] \in Nat /\ loc[t].over \in Nat /\ loc[t].tok \in Bundle
        BY <1>0, <1>1, Typed DEF TypeOK
      <4>2. loc[t].tok.serial \in Nat
        BY <4>1, Numbers
      <4>3. QED
        BY <1>0, <1>2, <2>3, <4>1, <4>2 DEF Locks, Clocked, Fit, Mono, SigningIn
    <3>5. QED
      BY <3>1, <3>2, <3>3, <3>4 DEF Turn, Fit
  <2>4. QED
    BY <1>0, <2>2, <2>3, LockFacts
<1>5. QED
  BY <1>1, <1>2, <1>3, <1>4

LEMMA GrantedBase ==
    ASSUME Base, NEW t \in Threads, Granted(t)
    PROVE  TypeOK' /\ Mono /\ Stocked' /\ Turn(t)
<1>0. TypeOK /\ Stocked /\ Fit(t)
  BY DEF Base
<1>1. TypeOK' /\ refresher \in [Procs -> Threads \union {"free"}]
  BY <1>0, GrantedFacts DEF TypeOK
<1>2. Mono
  BY <1>0, Typed DEF Mono, Granted, procVars
<1>3. Stocked'
  BY <1>0, <1>1, <1>2, StillStocked DEF Granted, procVars
<1>4. Turn(t)
  <2>1. /\ pc[t] = "post" /\ refresher' = refresher /\ Takes(t, "granted", loc'[t].tok)
        /\ loc'[t].tok.session = loc[t].tok.session /\ loc'[t].tok.serial = issued + 1 /\ issued' = issued + 1
    BY <1>0, GrantedFacts DEF Granted, At
  <2>2. loc'[t].tok # None
    BY <1>0, <2>1, Numbers DEF TypeOK
  <2>3. Ordered(t)'
    BY <1>0, <2>1, <2>2 DEF Takes, Ordered, Fit, HandLabels, SigningIn, Reading
  <2>4. Locked(t)'
    BY <1>0, <2>1 DEF Takes, Locked, UnderLock, Fit
  <2>5. Clocked(t)'
    <3>1. /\ Home[t] \in Procs /\ issued' \in Nat /\ gen'[Home[t]] \in Nat /\ epoch'[Home[t]] \in Nat
          /\ issued \in Nat /\ loc[t].epoch \in Nat /\ epoch[Home[t]] \in Nat
          /\ gen[Home[t]] \in Nat /\ loc[t].seen \in Nat /\ loc[t].basis \in Nat /\ loc[t].over \in Nat
      BY <1>0, <1>1, Typed DEF TypeOK
    <3>2. QED
      BY <1>0, <1>2, <2>1, <3>1 DEF Takes, Clocked, Fit, Mono, SigningIn
  <2>6. QED
    BY <2>1, <2>3, <2>4, <2>5 DEF Turn, Fit, Guarded, Takes
<1>5. QED
  BY <1>1, <1>2, <1>3, <1>4

LEMMA DeniedBase ==
    ASSUME Base, NEW t \in Threads, Denied(t)
    PROVE  TypeOK' /\ Mono /\ Stocked' /\ Turn(t)
<1>0. TypeOK /\ Stocked /\ Fit(t)
  BY DEF Base
<1>1. TypeOK' /\ refresher \in [Procs -> Threads \union {"free"}]
  BY <1>0, DeniedFacts DEF TypeOK
<1>2. Mono
  BY <1>0, Steady DEF Denied, worldVars
<1>3. Stocked'
  BY <1>0, <1>1, <1>2, StillStocked DEF Denied, worldVars
<1>4. Turn(t)
  <2>1. {"refused", "unavailable"} \subseteq Results /\ None \in Bundle /\ None.serial <= issued
    BY <1>0, Numbers, Typed DEF Results
  <2>2. PICK res \in {"refused", "unavailable"} : Came(t, res, None)
    BY <1>0, DeniedFacts
  <2>3. QED
    BY <1>0, <1>1, <1>2, <2>1, <2>2, CameFit DEF Turn
<1>5. QED
  BY <1>1, <1>2, <1>3, <1>4

LEMMA CheckBase ==
    ASSUME Base, NEW t \in Threads, Check(t)
    PROVE  TypeOK' /\ Mono /\ Stocked' /\ Turn(t)
<1>0. TypeOK /\ Stocked /\ Fit(t)
  BY DEF Base
<1>1. TypeOK' /\ refresher \in [Procs -> Threads \union {"free"}]
  BY <1>0, CheckFacts DEF TypeOK
<1>2. Mono
  BY <1>0, Steady DEF Check, worldVars
<1>3. Stocked'
  BY <1>0, <1>1, <1>2, StillStocked DEF Check, worldVars
<1>4. Turn(t)
  <2>1. pc[t] = "granted" /\ refresher' = refresher
    BY DEF Check, At, procVars, threadVars
  <2>2. ASSUME Moves(t, "store") PROVE Turn(t)
    <3>1. Ordered(t)'
      BY <1>0, <2>1, <2>2 DEF Moves, Same, Ordered, Fit, HandLabels, SigningIn, Reading
    <3>2. Locked(t)'
      BY <1>0, <2>1, <2>2 DEF Moves, Same, Locked, UnderLock, Fit, Ordered, Reading
    <3>3. QED
      BY <1>0, <1>1, <1>2, <2>1, <2>2, <3>1, <3>2, MovesTurn DEF Labels, SigningIn
  <2>3. ASSUME ReadsAgain(t) PROVE Turn(t)
    <3>1. Alone(t) /\ Guarded(t)
      BY <2>1, <2>3 DEF ReadsAgain, Guarded
    <3>2. Ordered(t)'
      BY <1>0, <2>1, <2>3 DEF ReadsAgain, Ordered, Fit, HandLabels, SigningIn, Reading
    <3>3. Locked(t)'
      BY <1>0, <2>1, <2>3 DEF ReadsAgain, Locked, UnderLock, Fit
    <3>4. Clocked(t)'
      <4>1. /\ gen' = gen /\ epoch' = epoch /\ issued' = issued
        BY DEF Check, worldVars
      <4>2. QED
        BY <1>0, <2>3, <4>1 DEF ReadsAgain, Clocked, Fit, SigningIn
    <3>5. QED
      BY <3>1, <3>2, <3>3, <3>4 DEF Turn, Fit
  <2>4. QED
    BY <1>0, <2>1, <2>2, <2>3, CheckFacts
<1>5. QED
  BY <1>1, <1>2, <1>3, <1>4

LEMMA StoreBase ==
    ASSUME Base, NEW t \in Threads, Store(t)
    PROVE  TypeOK' /\ Mono /\ Stocked' /\ Turn(t)
<1>0. TypeOK /\ Stocked /\ Fit(t)
  BY DEF Base
<1>1. TypeOK' /\ refresher \in [Procs -> Threads \union {"free"}]
  BY <1>0, StoreFacts DEF TypeOK
<1>2. Mono
  BY <1>0, Steady DEF Store
<1>3. Stocked'
  <2>1. PICK b \in {store, None, loc[t].tok} : Write(Home[t], b)
    BY <1>0, StoreFacts
  <2>2. b \in Bundle /\ b.serial <= issued
    BY <1>0, Typed, Numbers DEF Stocked, Fit, Clocked
  <2>3. issued' = issued /\ over' = over /\ unstored' = unstored /\ Home[t] \in Procs
    BY Homes DEF Store
  <2>4. QED
    BY <1>0, <1>1, <1>2, <2>1, <2>2, <2>3, WriteStocked
<1>4. Turn(t)
  <2>1. pc[t] = "store" /\ refresher' = refresher
    BY DEF Store, At, procVars, threadVars
  <2>2. ASSUME Moves(t, "publish") PROVE Turn(t)
    <3>1. Ordered(t)'
      BY <1>0, <2>1, <2>2 DEF Moves, Same, Ordered, Fit, HandLabels, SigningIn, Reading
    <3>2. Locked(t)'
      BY <1>0, <2>1, <2>2 DEF Moves, Same, Locked, UnderLock, Fit, Ordered, Reading
    <3>3. QED
      BY <1>0, <1>1, <1>2, <2>1, <2>2, <3>1, <3>2, MovesTurn DEF Labels, SigningIn
  <2>3. ASSUME Moves(t, "hold") PROVE Turn(t)
    <3>1. Ordered(t)'
      BY <1>0, <2>1, <2>3 DEF Moves, Same, Ordered, Fit, HandLabels, SigningIn, Reading
    <3>2. Locked(t)'
      BY <1>0, <2>1, <2>3 DEF Moves, Same, Locked, UnderLock, Fit, Ordered, Reading
    <3>3. QED
      BY <1>0, <1>1, <1>2, <2>1, <2>3, <3>1, <3>2, MovesTurn DEF Labels, SigningIn
  <2>4. QED
    BY <1>0, <2>1, <2>2, <2>3, StoreFacts
<1>5. QED
  BY <1>1, <1>2, <1>3, <1>4

LEMMA PublishBase ==
    ASSUME Base, NEW t \in Threads, Publish(t)
    PROVE  TypeOK' /\ Mono /\ Stocked' /\ Turn(t)
<1>0. TypeOK /\ Stocked /\ Fit(t)
  BY DEF Base
<1>1. TypeOK' /\ refresher \in [Procs -> Threads \union {"free"}]
  BY <1>0, PublishFacts DEF TypeOK
<1>2. Mono
  <2>1. /\ witness' = witness /\ issued' = issued /\ over' = over /\ epoch' = epoch
        /\ \A x \in Procs : gen'[x] = gen[x] \/ gen'[x] = gen[x] + 1
    BY <1>0, Homes, SupersedeFacts DEF Publish, worldVars
  <2>2. QED
    BY <1>0, <2>1, Typed DEF Mono
<1>3. Stocked'
  <2>1. /\ store' = store /\ over' = over /\ cache' = cache /\ issued' = issued /\ witness' = witness
        /\ \A x \in Procs : unstored'[x] = unstored[x] \/ unstored'[x] = Nothing
    BY <1>0 DEF Publish, Supersede, worldVars, TypeOK
  <2>2. /\ issued \in Nat /\ witness \in Nat
        /\ \A x \in Procs : gen[x] \in Nat /\ gen'[x] \in Nat /\ unstored[x].gen \in Nat
    BY <1>0, <1>1, Typed DEF TypeOK
  <2>3. Nothing.tok.serial = 0 /\ Nothing.gen = 0 /\ Nothing.wit = 0
    BY Numbers DEF Nothing
  <2>4. QED
    BY <1>0, <1>2, <2>1, <2>2, <2>3 DEF Stocked, Mono
<1>4. Turn(t)
  <2>1. "live" \in Results /\ loc[t].tok \in Bundle /\ loc[t].tok.serial <= issued
    BY <1>0, Typed DEF Results, Fit, Clocked
  <2>2. QED
    BY <1>0, <1>1, <1>2, <2>1, CameFit, PublishFacts DEF Turn
<1>5. QED
  BY <1>1, <1>2, <1>3, <1>4

LEMMA HoldBase ==
    ASSUME Base, NEW t \in Threads, Hold(t)
    PROVE  TypeOK' /\ Mono /\ Stocked' /\ Turn(t)
<1>0. TypeOK /\ Stocked /\ Fit(t)
  BY DEF Base
<1>1. TypeOK' /\ refresher \in [Procs -> Threads \union {"free"}]
  BY <1>0, HoldFacts DEF TypeOK
<1>2. Mono
  <2>1. /\ witness' = witness /\ issued' = issued /\ over' = over /\ epoch' = epoch
        /\ \A x \in Procs : gen'[x] = gen[x] \/ gen'[x] = gen[x] + 1
    BY <1>0, Homes, HoldFacts DEF Hold, worldVars, Holds
  <2>2. QED
    BY <1>0, <2>1, Typed DEF Mono
<1>3. Stocked'
  <2>1. /\ store' = store /\ over' = over /\ cache' = cache /\ issued' = issued /\ witness' = witness
    BY DEF Hold, worldVars
  <2>2. /\ issued \in Nat /\ witness \in Nat /\ loc[t].tok.serial <= issued
        /\ \A x \in Procs : gen[x] \in Nat /\ gen'[x] \in Nat /\ unstored[x].gen \in Nat
    BY <1>0, <1>1, Typed DEF TypeOK, Fit, Clocked
  <2>3. CASE Holds(Home[t], loc[t].tok)
    <3>1. /\ unstored'[Home[t]].tok.serial <= issued' /\ unstored'[Home[t]].gen <= gen'[Home[t]]
          /\ unstored'[Home[t]].wit <= witness'
      BY <2>1, <2>2, <2>3, Homes DEF Holds
    <3>2. \A x \in Procs \ {Home[t]} : unstored'[x] = unstored[x] /\ gen'[x] = gen[x]
      BY <2>3 DEF Holds
    <3>3. QED
      BY <1>0, <2>1, <3>1, <3>2 DEF Stocked
  <2>4. CASE UNCHANGED <<gen, rejected, unstored>>
    BY <1>0, <2>1, <2>4 DEF Stocked
  <2>5. QED
    BY <1>0, <2>3, <2>4, HoldFacts
<1>4. Turn(t)
  <2>1. "live" \in Results /\ loc[t].tok \in Bundle /\ loc[t].tok.serial <= issued
    BY <1>0, Typed DEF Results, Fit, Clocked
  <2>2. "unavailable" \in Results /\ None \in Bundle /\ None.serial <= issued
    BY <1>0, Typed, Numbers DEF Results
  <2>3. QED
    BY <1>0, <1>1, <1>2, <2>1, <2>2, CameFit, HoldFacts DEF Turn
<1>5. QED
  BY <1>1, <1>2, <1>3, <1>4

LEMMA PushBase ==
    ASSUME Base, NEW t \in Threads, Push(t)
    PROVE  TypeOK' /\ Mono /\ Stocked' /\ Turn(t)
<1>0. TypeOK /\ Stocked /\ Fit(t)
  BY DEF Base
<1>1. TypeOK' /\ refresher \in [Procs -> Threads \union {"free"}]
  BY <1>0, PushFacts DEF TypeOK
<1>2. Mono
  BY <1>0, Steady DEF Push, worldVars
<1>3. Stocked'
  BY <1>0, <1>1, <1>2, StillStocked DEF Push, worldVars
<1>4. Turn(t)
  <2>1. pc[t] = "push" /\ refresher' = refresher
    BY DEF Push, At, procVars, threadVars
  <2>2. Ends(t) => Turn(t)
    BY <1>1, <2>1, EndsTurn
  <2>3. QED
    BY <1>0, <2>1, <2>2, PushFacts
<1>5. QED
  BY <1>1, <1>2, <1>3, <1>4

LEMMA RecoveredBase ==
    ASSUME Base, NEW t \in Threads, Recovered(t)
    PROVE  TypeOK' /\ Mono /\ Stocked' /\ Turn(t)
<1>0. TypeOK /\ Stocked /\ Fit(t)
  BY DEF Base
<1>1. TypeOK' /\ refresher \in [Procs -> Threads \union {"free"}]
  BY <1>0, PushFacts DEF TypeOK
<1>2. Mono
  BY <1>0, Steady DEF Recovered, worldVars
<1>3. Stocked'
  BY <1>0, <1>1, <1>2, StillStocked DEF Recovered, worldVars
<1>4. Turn(t)
  <2>1. pc[t] = "recovered" /\ refresher' = refresher
    BY DEF Recovered, At, procVars, threadVars
  <2>2. Ends(t) => Turn(t)
    BY <1>1, <2>1, EndsTurn
  <2>3. QED
    BY <1>0, <2>1, <2>2, PushFacts
<1>5. QED
  BY <1>1, <1>2, <1>3, <1>4

LEMMA DropBase ==
    ASSUME Base, NEW t \in Threads, Drop(t)
    PROVE  TypeOK' /\ Mono /\ Stocked' /\ Turn(t)
<1>0. TypeOK /\ Stocked /\ Fit(t)
  BY DEF Base
<1>1. TypeOK' /\ refresher \in [Procs -> Threads \union {"free"}]
  BY <1>0, PushFacts DEF TypeOK
<1>2. Mono
  BY <1>0, Steady DEF Drop, worldVars
<1>3. Stocked'
  BY <1>0, <1>1, <1>2, StillStocked DEF Drop, worldVars
<1>4. Turn(t)
  <2>1. pc[t] = "drop" /\ refresher' = refresher
    BY DEF Drop, At, procVars, threadVars
  <2>2. Ends(t) => Turn(t)
    BY <1>1, <2>1, EndsTurn
  <2>3. QED
    BY <1>0, <2>1, <2>2, PushFacts
<1>5. QED
  BY <1>1, <1>2, <1>3, <1>4

LEMMA JudgedBase ==
    ASSUME Base, NEW t \in Threads, Judged(t)
    PROVE  TypeOK' /\ Mono /\ Stocked' /\ Turn(t)
<1>0. TypeOK /\ Stocked /\ Fit(t)
  BY DEF Base
<1>1. TypeOK' /\ refresher \in [Procs -> Threads \union {"free"}]
  BY <1>0, JudgedFacts DEF TypeOK
<1>2. Mono
  BY <1>0, Steady DEF Judged, worldVars, procVars
<1>3. Stocked'
  BY <1>0, <1>1, <1>2, StillStocked DEF Judged, worldVars, procVars
<1>4. Turn(t)
  <2>1. pc[t] = "judged" /\ refresher' = refresher /\ Judges(t) /\ UNCHANGED <<gen, epoch, issued>>
    BY <1>0, JudgedFacts DEF Judged, At, worldVars, procVars
  <2>2. Ordered(t)'
    BY <1>0, <2>1 DEF Judges, Ordered, Fit, HandLabels, SigningIn, Reading
  <2>3. Locked(t)'
    BY <2>1 DEF Judges, Locked, UnderLock
  <2>4. Clocked(t)'
    BY <1>0, <2>1 DEF Judges, Clocked, Fit, SigningIn
  <2>5. QED
    BY <2>1, <2>2, <2>3, <2>4 DEF Turn, Fit, Guarded, Judges
<1>5. QED
  BY <1>1, <1>2, <1>3, <1>4

LEMMA ProbeBase ==
    ASSUME Base, NEW t \in Threads, Probe(t)
    PROVE  TypeOK' /\ Mono /\ Stocked' /\ Turn(t)
<1>0. TypeOK /\ Stocked /\ Fit(t)
  BY DEF Base
<1>1. TypeOK' /\ refresher \in [Procs -> Threads \union {"free"}]
  BY <1>0, ProbeFacts DEF TypeOK
<1>2. Mono
  BY <1>0, Steady DEF Probe, worldVars, procVars
<1>3. Stocked'
  BY <1>0, <1>1, <1>2, StillStocked DEF Probe, worldVars, procVars
<1>4. Turn(t)
  <2>1. pc[t] = "probe" /\ refresher' = refresher
    BY DEF Probe, At, procVars, threadVars
  <2>2. ASSUME Moves(t, "verdict") PROVE Turn(t)
    <3>1. Ordered(t)'
      BY <1>0, <2>1, <2>2 DEF Moves, Same, Ordered, Fit, HandLabels, SigningIn, Reading
    <3>2. Locked(t)'
      BY <1>0, <2>1, <2>2 DEF Moves, Same, Locked, UnderLock, Fit, Ordered, Reading
    <3>3. QED
      BY <1>0, <1>1, <1>2, <2>1, <2>2, <3>1, <3>2, MovesTurn DEF Labels, SigningIn
  <2>3. ASSUME Moves(t, "recovered") PROVE Turn(t)
    <3>1. Ordered(t)'
      BY <1>0, <2>1, <2>3 DEF Moves, Same, Ordered, Fit, HandLabels, SigningIn, Reading
    <3>2. Locked(t)'
      BY <1>0, <2>1, <2>3 DEF Moves, Same, Locked, UnderLock, Fit, Ordered, Reading
    <3>3. QED
      BY <1>0, <1>1, <1>2, <2>1, <2>3, <3>1, <3>2, MovesTurn DEF Labels, SigningIn
  <2>4. Ends(t) => Turn(t)
    BY <1>1, <2>1, EndsTurn
  <2>5. QED
    BY <1>0, <2>1, <2>2, <2>3, <2>4, ProbeFacts
<1>5. QED
  BY <1>1, <1>2, <1>3, <1>4

LEMMA VerdictBase ==
    ASSUME Base, NEW t \in Threads, Verdict(t)
    PROVE  TypeOK' /\ Mono /\ Stocked' /\ Turn(t)
<1>0. TypeOK /\ Stocked /\ Fit(t)
  BY DEF Base
<1>1. TypeOK' /\ refresher \in [Procs -> Threads \union {"free"}]
  BY <1>0, VerdictFacts DEF TypeOK
<1>2. Mono
  BY <1>0, Steady DEF Verdict, worldVars, procVars
<1>3. Stocked'
  BY <1>0, <1>1, <1>2, StillStocked DEF Verdict, worldVars, procVars
<1>4. Turn(t)
  <2>1. pc[t] = "verdict" /\ refresher' = refresher
    BY DEF Verdict, At, procVars, threadVars
  <2>2. ASSUME Moves(t, "mark") PROVE Turn(t)
    <3>1. Ordered(t)'
      BY <1>0, <2>1, <2>2 DEF Moves, Same, Ordered, Fit, HandLabels, SigningIn, Reading
    <3>2. Locked(t)'
      BY <1>0, <2>1, <2>2 DEF Moves, Same, Locked, UnderLock, Fit, Ordered, Reading
    <3>3. QED
      BY <1>0, <1>1, <1>2, <2>1, <2>2, <3>1, <3>2, MovesTurn DEF Labels, SigningIn
  <2>3. Ends(t) => Turn(t)
    BY <1>1, <2>1, EndsTurn
  <2>4. QED
    BY <1>0, <2>1, <2>2, <2>3, VerdictFacts
<1>5. QED
  BY <1>1, <1>2, <1>3, <1>4

LEMMA MarkBase ==
    ASSUME Base, NEW t \in Threads, Mark(t)
    PROVE  TypeOK' /\ Mono /\ Stocked' /\ Turn(t)
<1>0. TypeOK /\ Stocked /\ Fit(t)
  BY DEF Base
<1>1. TypeOK' /\ refresher \in [Procs -> Threads \union {"free"}]
  BY <1>0, MarkFacts DEF TypeOK
<1>2. Mono
  BY <1>0, Steady DEF Mark, worldVars
<1>3. Stocked'
  BY <1>0, <1>1, <1>2, StillStocked DEF Mark, worldVars
<1>4. Turn(t)
  <2>1. pc[t] = "mark" /\ refresher' = refresher
    BY DEF Mark, At, procVars, threadVars
  <2>2. ASSUME Moves(t, "dead") PROVE Turn(t)
    <3>1. Ordered(t)'
      BY <1>0, <2>1, <2>2 DEF Moves, Same, Ordered, Fit, HandLabels, SigningIn, Reading
    <3>2. Locked(t)'
      BY <1>0, <2>1, <2>2 DEF Moves, Same, Locked, UnderLock, Fit, Ordered, Reading
    <3>3. QED
      BY <1>0, <1>1, <1>2, <2>1, <2>2, <3>1, <3>2, MovesTurn DEF Labels, SigningIn
  <2>3. Ends(t) => Turn(t)
    BY <1>1, <2>1, EndsTurn
  <2>4. QED
    BY <1>0, <2>1, <2>2, <2>3, MarkFacts
<1>5. QED
  BY <1>1, <1>2, <1>3, <1>4

LEMMA DeadBase ==
    ASSUME Base, NEW t \in Threads, Dead(t)
    PROVE  TypeOK' /\ Mono /\ Stocked' /\ Turn(t)
<1>0. TypeOK /\ Stocked /\ Fit(t)
  BY DEF Base
<1>1. TypeOK' /\ refresher \in [Procs -> Threads \union {"free"}]
  BY <1>0, DeadFacts DEF TypeOK
<1>2. Mono
  BY <1>0, Steady DEF Dead, worldVars, procVars
<1>3. Stocked'
  BY <1>0, <1>1, <1>2, StillStocked DEF Dead, worldVars, procVars
<1>4. Turn(t)
  <2>1. pc[t] = "dead" /\ refresher' = refresher
    BY DEF Dead, At, procVars, threadVars
  <2>2. ASSUME Moves(t, "drop") PROVE Turn(t)
    <3>1. Ordered(t)'
      BY <1>0, <2>1, <2>2 DEF Moves, Same, Ordered, Fit, HandLabels, SigningIn, Reading
    <3>2. Locked(t)'
      BY <1>0, <2>1, <2>2 DEF Moves, Same, Locked, UnderLock, Fit, Ordered, Reading
    <3>3. QED
      BY <1>0, <1>1, <1>2, <2>1, <2>2, <3>1, <3>2, MovesTurn DEF Labels, SigningIn
  <2>3. Ends(t) => Turn(t)
    BY <1>1, <2>1, EndsTurn
  <2>4. QED
    BY <1>0, <2>1, <2>2, <2>3, DeadFacts
<1>5. QED
  BY <1>1, <1>2, <1>3, <1>4

LEMMA CallOrgsBase ==
    ASSUME Base, NEW t \in Threads, CallOrgs(t)
    PROVE  TypeOK' /\ Mono /\ Stocked' /\ Turn(t)
<1>0. TypeOK /\ Stocked /\ Fit(t)
  BY DEF Base
<1>1. TypeOK' /\ refresher \in [Procs -> Threads \union {"free"}]
  BY <1>0, CallOrgsFacts DEF TypeOK
<1>2. Mono
  BY <1>0, Steady DEF CallOrgs, worldVars, procVars
<1>3. Stocked'
  BY <1>0, <1>1, <1>2, StillStocked DEF CallOrgs, worldVars, procVars
<1>4. Turn(t)
  <2>1. pc[t] = "call" /\ refresher' = refresher
    BY DEF CallOrgs, At, procVars, threadVars
  <2>2. ASSUME Moves(t, "mark") PROVE Turn(t)
    <3>1. Ordered(t)'
      BY <1>0, <2>1, <2>2 DEF Moves, Same, Ordered, Fit, HandLabels, SigningIn, Reading
    <3>2. Locked(t)'
      BY <1>0, <2>1, <2>2 DEF Moves, Same, Locked, UnderLock, Fit, Ordered, Reading
    <3>3. QED
      BY <1>0, <1>1, <1>2, <2>1, <2>2, <3>1, <3>2, MovesTurn DEF Labels, SigningIn
  <2>3. Ends(t) => Turn(t)
    BY <1>1, <2>1, EndsTurn
  <2>4. ASSUME Repeats(t) PROVE Turn(t)
    <3>1. Alone(t) /\ Guarded(t)
      BY <2>1, <2>4 DEF Repeats, Guarded
    <3>2. Ordered(t)'
      BY <1>0, <2>1, <2>4 DEF Repeats, Ordered, Fit, HandLabels, SigningIn, Reading
    <3>3. Locked(t)'
      BY <2>4 DEF Repeats, Locked, UnderLock
    <3>4. Clocked(t)'
      <4>1. /\ gen' = gen /\ epoch' = epoch /\ issued' = issued
        BY DEF CallOrgs, worldVars, procVars
      <4>2. QED
        BY <1>0, <2>4, <4>1 DEF Repeats, Clocked, Fit, SigningIn
    <3>5. QED
      BY <3>1, <3>2, <3>3, <3>4 DEF Turn, Fit
  <2>5. QED
    BY <1>0, <2>1, <2>2, <2>3, <2>4, CallOrgsFacts
<1>5. QED
  BY <1>1, <1>2, <1>3, <1>4

LEMMA SignInBase ==
    ASSUME Base, NEW t \in Threads, SignIn(t)
    PROVE  TypeOK' /\ Mono /\ Stocked' /\ Turn(t)
<1>0. TypeOK /\ Stocked /\ Fit(t)
  BY DEF Base
<1>1. TypeOK' /\ refresher \in [Procs -> Threads \union {"free"}]
  BY <1>0, SignInFacts DEF TypeOK
<1>2. Mono
  BY <1>0, Typed DEF Mono, SignIn
<1>3. Stocked'
  <2>1. store'.serial = issued + 1 /\ Write(Home[t], store') /\ issued' = issued + 1 /\ over' = over
        /\ unstored' = unstored
    BY <1>0, SignInFacts DEF SignIn
  <2>2. store' \in Bundle /\ issued \in Nat
    BY <1>0, <1>1 DEF TypeOK
  <2>3. store'.serial <= issued'
    BY <2>1, <2>2
  <2>4. QED
    BY <1>0, <1>1, <1>2, <2>1, <2>2, <2>3, Homes, WriteStocked
<1>4. Turn(t)
  <2>1. /\ pc[t] = "signIn" /\ refresher' = refresher /\ Takes(t, "signInPublish", store')
        /\ store'.session = issued + 1 /\ store'.serial = issued + 1 /\ issued' = issued + 1
        /\ gen' = gen /\ epoch' = epoch
    BY <1>0, SignInFacts DEF SignIn, At
  <2>2. Ordered(t)'
    BY <1>0, <2>1 DEF Takes, Ordered, Fit, HandLabels, SigningIn, Reading
  <2>3. Locked(t)'
    BY <2>1 DEF Takes, Locked, UnderLock
  <2>4. Clocked(t)'
    <3>1. issued \in Nat /\ loc[t].over \in Nat
      BY <1>0, Typed
    <3>2. QED
      BY <1>0, <2>1, <3>1 DEF Takes, Clocked, Fit
  <2>5. QED
    BY <2>1, <2>2, <2>3, <2>4 DEF Turn, Fit, Guarded, Takes
<1>5. QED
  BY <1>1, <1>2, <1>3, <1>4

LEMMA SignInFailsBase ==
    ASSUME Base, NEW t \in Threads, SignInFails(t)
    PROVE  TypeOK' /\ Mono /\ Stocked' /\ Turn(t)
<1>0. TypeOK /\ Stocked /\ Fit(t)
  BY DEF Base
<1>1. TypeOK' /\ refresher \in [Procs -> Threads \union {"free"}]
  BY <1>0, SignInFailsFacts DEF TypeOK
<1>2. Mono
  BY <1>0, Steady DEF SignInFails
<1>3. Stocked'
  <2>1. \A b \in {store, None} : b \in Bundle /\ b.serial <= issued
    BY <1>0, Typed, Numbers DEF Stocked
  <2>2. /\ issued' = issued /\ over' = over /\ Home[t] \in Procs
        /\ \A x \in Procs : unstored'[x] = unstored[x] \/ unstored'[x] = Nothing
    BY <1>0, Homes DEF SignInFails, TypeOK
  <2>3. ASSUME NEW b \in {store, None}, Write(Home[t], b)
        PROVE  Stocked'
    BY <1>0, <1>1, <1>2, <2>1, <2>2, <2>3, WriteStocked
  <2>4. CASE UNCHANGED <<store, cache, torn>>
    BY <1>0, <1>1, <1>2, <2>4, StillStocked DEF SignInFails
  <2>5. QED
    BY <1>0, <2>3, <2>4, SignInFailsFacts
<1>4. Turn(t)
  <2>1. pc[t] = "signIn" /\ refresher' = refresher
    BY DEF SignInFails, At, procVars, threadVars
  <2>2. Ends(t) => Turn(t)
    BY <1>1, <2>1, EndsTurn
  <2>3. QED
    BY <1>0, <2>1, <2>2, SignInFailsFacts
<1>5. QED
  BY <1>1, <1>2, <1>3, <1>4

LEMMA SignInPublishBase ==
    ASSUME Base, NEW t \in Threads, SignInPublish(t)
    PROVE  TypeOK' /\ Mono /\ Stocked' /\ Turn(t)
<1>0. TypeOK /\ Stocked /\ Fit(t)
  BY DEF Base
<1>1. TypeOK' /\ refresher \in [Procs -> Threads \union {"free"}]
  BY <1>0, SignInPublishFacts DEF TypeOK
<1>2. Mono
  <2>1. /\ witness' = witness /\ issued' = issued /\ over' = over /\ epoch' = epoch
        /\ \A x \in Procs : gen'[x] = gen[x] \/ gen'[x] = gen[x] + 1
    BY <1>0, Homes, SupersedeFacts DEF SignInPublish, worldVars
  <2>2. QED
    BY <1>0, <2>1, Typed DEF Mono
<1>3. Stocked'
  <2>1. /\ store' = store /\ over' = over /\ cache' = cache /\ issued' = issued /\ witness' = witness
        /\ \A x \in Procs : unstored'[x] = unstored[x] \/ unstored'[x] = Nothing
    BY <1>0 DEF SignInPublish, Supersede, worldVars, TypeOK
  <2>2. /\ issued \in Nat /\ witness \in Nat
        /\ \A x \in Procs : gen[x] \in Nat /\ gen'[x] \in Nat /\ unstored[x].gen \in Nat
    BY <1>0, <1>1, Typed DEF TypeOK
  <2>3. Nothing.tok.serial = 0 /\ Nothing.gen = 0 /\ Nothing.wit = 0
    BY Numbers DEF Nothing
  <2>4. QED
    BY <1>0, <1>2, <2>1, <2>2, <2>3 DEF Stocked, Mono
<1>4. Turn(t)
  <2>1. pc[t] = "signInPublish" /\ refresher' = refresher /\ Moves(t, "signInEpoch")
    BY <1>0, SignInPublishFacts DEF SignInPublish, At
  <2>2. Ordered(t)'
    BY <1>0, <2>1 DEF Moves, Same, Ordered, Fit, HandLabels, SigningIn, Reading
  <2>3. Locked(t)'
    BY <1>0, <2>1 DEF Moves, Same, Locked, UnderLock, Fit, Ordered, Reading
  <2>4. QED
    BY <1>0, <1>1, <1>2, <2>1, <2>2, <2>3, MovesTurn DEF Labels, SigningIn
<1>5. QED
  BY <1>1, <1>2, <1>3, <1>4

LEMMA AdvanceBase ==
    ASSUME Base, NEW t \in Threads, Advance(t)
    PROVE  TypeOK' /\ Mono /\ Stocked' /\ Turn(t)
<1>0. TypeOK /\ Stocked /\ Fit(t)
  BY DEF Base
<1>1. TypeOK' /\ refresher \in [Procs -> Threads \union {"free"}]
  BY <1>0, AdvanceFacts DEF TypeOK
<1>2. Mono
  <2>1. /\ witness' = witness /\ issued' = issued /\ over' = over /\ gen' = gen
        /\ \A x \in Procs : epoch'[x] = epoch[x] \/ epoch'[x] = epoch[x] + 1
    BY <1>0, Homes DEF Advance, worldVars, TypeOK
  <2>2. QED
    BY <1>0, <2>1, Typed DEF Mono
<1>3. Stocked'
  BY <1>0, <1>1, <1>2, StillStocked DEF Advance, worldVars
<1>4. Turn(t)
  <2>1. refresher' = refresher
    BY DEF Advance, At, procVars, threadVars
  <2>2. ASSUME Moves(t, "stamp"), pc[t] = "signInEpoch" PROVE Turn(t)
    <3>1. Ordered(t)'
      BY <1>0, <2>1, <2>2 DEF Moves, Same, Ordered, Fit, HandLabels, SigningIn, Reading
    <3>2. Locked(t)'
      BY <1>0, <2>1, <2>2 DEF Moves, Same, Locked, UnderLock, Fit, Ordered, Reading
    <3>3. QED
      BY <1>0, <1>1, <1>2, <2>1, <2>2, <3>1, <3>2, MovesTurn DEF Labels, SigningIn
  <2>3. ASSUME Moves(t, "signOutPush"), pc[t] = "signOutEpoch" PROVE Turn(t)
    <3>1. Ordered(t)'
      BY <1>0, <2>1, <2>3 DEF Moves, Same, Ordered, Fit, HandLabels, SigningIn, Reading
    <3>2. Locked(t)'
      BY <1>0, <2>1, <2>3 DEF Moves, Same, Locked, UnderLock, Fit, Ordered, Reading
    <3>3. QED
      BY <1>0, <1>1, <1>2, <2>1, <2>3, <3>1, <3>2, MovesTurn DEF Labels, SigningIn
  <2>4. QED
    BY <1>0, <2>1, <2>2, <2>3, AdvanceFacts
<1>5. QED
  BY <1>1, <1>2, <1>3, <1>4

LEMMA StampBase ==
    ASSUME Base, NEW t \in Threads, Stamp(t)
    PROVE  TypeOK' /\ Mono /\ Stocked' /\ Turn(t)
<1>0. TypeOK /\ Stocked /\ Fit(t)
  BY DEF Base
<1>1. TypeOK' /\ refresher \in [Procs -> Threads \union {"free"}]
  BY <1>0, StampFacts DEF TypeOK
<1>2. Mono
  BY <1>0, Typed DEF Mono, Stamp, procVars
<1>3. Stocked'
  BY <1>0, <1>1, <1>2, StillStocked DEF Stamp, procVars
<1>4. Turn(t)
  <2>1. pc[t] = "stamp" /\ refresher' = refresher /\ Moves(t, "signInPush")
    BY <1>0, StampFacts DEF Stamp, At
  <2>2. Ordered(t)'
    BY <1>0, <2>1 DEF Moves, Same, Ordered, Fit, HandLabels, SigningIn, Reading
  <2>3. Locked(t)'
    BY <1>0, <2>1 DEF Moves, Same, Locked, UnderLock, Fit, Ordered, Reading
  <2>4. QED
    BY <1>0, <1>1, <1>2, <2>1, <2>2, <2>3, MovesTurn DEF Labels, SigningIn
<1>5. QED
  BY <1>1, <1>2, <1>3, <1>4

LEMMA SignInPushBase ==
    ASSUME Base, NEW t \in Threads, SignInPush(t)
    PROVE  TypeOK' /\ Mono /\ Stocked' /\ Turn(t)
<1>0. TypeOK /\ Stocked /\ Fit(t)
  BY DEF Base
<1>1. TypeOK' /\ refresher \in [Procs -> Threads \union {"free"}]
  BY <1>0, SignInPushFacts DEF TypeOK
<1>2. Mono
  BY <1>0, <1>1, Typed DEF Mono, SignInPush, Larger, TypeOK
<1>3. Stocked'
  <2>1. loc[t].tok.session \in Nat /\ loc[t].tok.session <= issued
    BY <1>0, Typed, Numbers DEF Fit, Clocked, SignInPush, At, SigningIn
  <2>2. over <= issued /\ over \in Nat /\ issued \in Nat
    BY <1>0, Typed DEF Stocked
  <2>3. over' <= issued
    BY <2>1, <2>2 DEF SignInPush, Larger
  <2>4. store' = store /\ unstored' = unstored /\ cache' = cache /\ issued' = issued /\ gen' = gen /\ witness' = witness
    BY DEF SignInPush
  <2>5. QED
    BY <1>0, <2>3, <2>4 DEF Stocked
<1>4. Turn(t)
  <2>1. pc[t] = "signInPush" /\ refresher' = refresher
    BY DEF SignInPush, At, procVars, threadVars
  <2>2. Ends(t) => Turn(t)
    BY <1>1, <2>1, EndsTurn
  <2>3. QED
    BY <1>0, <2>1, <2>2, SignInPushFacts
<1>5. QED
  BY <1>1, <1>2, <1>3, <1>4

LEMMA SignOutBase ==
    ASSUME Base, NEW t \in Threads, SignOut(t)
    PROVE  TypeOK' /\ Mono /\ Stocked' /\ Turn(t)
<1>0. TypeOK /\ Stocked /\ Fit(t)
  BY DEF Base
<1>1. TypeOK' /\ refresher \in [Procs -> Threads \union {"free"}]
  BY <1>0, SignOutFacts DEF TypeOK
<1>2. Mono
  BY <1>0, Steady DEF SignOut, worldVars
<1>3. Stocked'
  <2>1. /\ UNCHANGED <<worldVars, gen, cache>>
        /\ \A x \in Procs : unstored'[x] = unstored[x] \/ unstored'[x] = Nothing
    BY <1>0, Homes DEF SignOut, TypeOK
  <2>2. \A x \in Procs : /\ unstored'[x].tok.serial <= issued
                         /\ unstored'[x].gen <= gen[x] /\ unstored'[x].wit <= witness
    <3>1. SUFFICES ASSUME NEW x \in Procs
                   PROVE  /\ unstored'[x].tok.serial <= issued
                          /\ unstored'[x].gen <= gen[x] /\ unstored'[x].wit <= witness
      OBVIOUS
    <3>2. issued \in Nat /\ witness \in Nat /\ gen[x] \in Nat
      BY <1>0 DEF TypeOK
    <3>3. CASE unstored'[x] = Nothing
      BY <3>2, <3>3 DEF Nothing, None
    <3>4. CASE unstored'[x] = unstored[x]
      BY <1>0, <3>4 DEF Stocked
    <3>5. QED
      BY <2>1, <3>3, <3>4
  <2>3. QED
    BY <1>0, <2>1, <2>2 DEF Stocked, worldVars
<1>4. Turn(t)
  <2>1. pc[t] = "signOut" /\ refresher' = refresher /\ Moves(t, "signOutDelete")
    BY <1>0, SignOutFacts DEF SignOut, At
  <2>2. Ordered(t)'
    BY <1>0, <2>1 DEF Moves, Same, Ordered, Fit, HandLabels, SigningIn, Reading
  <2>3. Locked(t)'
    BY <1>0, <2>1 DEF Moves, Same, Locked, UnderLock, Fit, Ordered, Reading
  <2>4. QED
    BY <1>0, <1>1, <1>2, <2>1, <2>2, <2>3, MovesTurn DEF Labels, SigningIn
<1>5. QED
  BY <1>1, <1>2, <1>3, <1>4

LEMMA SignOutDeleteBase ==
    ASSUME Base, NEW t \in Threads, SignOutDelete(t)
    PROVE  TypeOK' /\ Mono /\ Stocked' /\ Turn(t)
<1>0. TypeOK /\ Stocked /\ Fit(t)
  BY DEF Base
<1>1. TypeOK' /\ refresher \in [Procs -> Threads \union {"free"}]
  BY <1>0, SignOutDeleteFacts DEF TypeOK
<1>2. Mono
  BY <1>0, Steady DEF SignOutDelete
<1>3. Stocked'
  <2>1. None \in Bundle /\ None.serial <= issued
    BY <1>0, Typed, Numbers
  <2>2. /\ issued' = issued /\ over' = over /\ Home[t] \in Procs /\ Write(Home[t], None)
        /\ \A x \in Procs : unstored'[x] = unstored[x] \/ unstored'[x] = Nothing
    BY <1>0, Homes DEF SignOutDelete, TypeOK
  <2>3. QED
    BY <1>0, <1>1, <1>2, <2>1, <2>2, WriteStocked
<1>4. Turn(t)
  <2>1. /\ pc[t] = "signOutDelete" /\ refresher' = refresher /\ Outs(t) /\ gen' = gen /\ epoch' = epoch /\ issued' = issued
    BY <1>0, SignOutDeleteFacts DEF SignOutDelete, At
  <2>2. Ordered(t)'
    BY <1>0, <2>1 DEF Outs, Ordered, Fit, HandLabels, SigningIn, Reading
  <2>3. Locked(t)'
    BY <2>1 DEF Outs, Locked, UnderLock
  <2>4. Clocked(t)'
    BY <1>0, <2>1, Typed DEF Outs, Clocked, Fit, SigningIn
  <2>5. QED
    BY <2>1, <2>2, <2>3, <2>4 DEF Turn, Fit, Guarded, Outs
<1>5. QED
  BY <1>1, <1>2, <1>3, <1>4

LEMMA SignOutFailsBase ==
    ASSUME Base, NEW t \in Threads, SignOutFails(t)
    PROVE  TypeOK' /\ Mono /\ Stocked' /\ Turn(t)
<1>0. TypeOK /\ Stocked /\ Fit(t)
  BY DEF Base
<1>1. TypeOK' /\ refresher \in [Procs -> Threads \union {"free"}]
  BY <1>0, SignOutFailsFacts DEF TypeOK
<1>2. Mono
  BY <1>0, Steady DEF SignOutFails
<1>3. Stocked'
  <2>1. \A b \in {store, None} : b \in Bundle /\ b.serial <= issued
    BY <1>0, Typed, Numbers DEF Stocked
  <2>2. /\ issued' = issued /\ over' = over /\ Home[t] \in Procs
        /\ \A x \in Procs : unstored'[x] = unstored[x] \/ unstored'[x] = Nothing
    BY <1>0, Homes DEF SignOutFails, TypeOK
  <2>3. ASSUME NEW b \in {store, None}, Write(Home[t], b)
        PROVE  Stocked'
    BY <1>0, <1>1, <1>2, <2>1, <2>2, <2>3, WriteStocked
  <2>4. QED
    BY <1>0, <2>3, SignOutFailsFacts
<1>4. Turn(t)
  <2>1. pc[t] = "signOutDelete" /\ refresher' = refresher
    BY DEF SignOutFails, At, procVars, threadVars
  <2>2. Ends(t) => Turn(t)
    BY <1>1, <2>1, EndsTurn
  <2>3. QED
    BY <1>0, <2>1, <2>2, SignOutFailsFacts
<1>5. QED
  BY <1>1, <1>2, <1>3, <1>4

LEMMA SignOutPublishBase ==
    ASSUME Base, NEW t \in Threads, SignOutPublish(t)
    PROVE  TypeOK' /\ Mono /\ Stocked' /\ Turn(t)
<1>0. TypeOK /\ Stocked /\ Fit(t)
  BY DEF Base
<1>1. TypeOK' /\ refresher \in [Procs -> Threads \union {"free"}]
  BY <1>0, SignOutPublishFacts DEF TypeOK
<1>2. Mono
  <2>1. /\ witness' = witness /\ issued' = issued /\ over' = over /\ epoch' = epoch
        /\ \A x \in Procs : gen'[x] = gen[x] \/ gen'[x] = gen[x] + 1
    BY <1>0, Homes DEF SignOutPublish, worldVars, TypeOK
  <2>2. QED
    BY <1>0, <2>1, Typed DEF Mono
<1>3. Stocked'
  BY <1>0, <1>1, <1>2, StillStocked DEF SignOutPublish, worldVars
<1>4. Turn(t)
  <2>1. pc[t] = "signOutPublish" /\ refresher' = refresher /\ Moves(t, "signOutEpoch")
    BY <1>0, SignOutPublishFacts DEF SignOutPublish, At
  <2>2. Ordered(t)'
    BY <1>0, <2>1 DEF Moves, Same, Ordered, Fit, HandLabels, SigningIn, Reading
  <2>3. Locked(t)'
    BY <1>0, <2>1 DEF Moves, Same, Locked, UnderLock, Fit, Ordered, Reading
  <2>4. QED
    BY <1>0, <1>1, <1>2, <2>1, <2>2, <2>3, MovesTurn DEF Labels, SigningIn
<1>5. QED
  BY <1>1, <1>2, <1>3, <1>4

LEMMA SignOutPushBase ==
    ASSUME Base, NEW t \in Threads, SignOutPush(t)
    PROVE  TypeOK' /\ Mono /\ Stocked' /\ Turn(t)
<1>0. TypeOK /\ Stocked /\ Fit(t)
  BY DEF Base
<1>1. TypeOK' /\ refresher \in [Procs -> Threads \union {"free"}]
  BY <1>0, SignOutPushFacts DEF TypeOK
<1>2. Mono
  BY <1>0, <1>1, Typed DEF Mono, SignOutPush, Larger, TypeOK
<1>3. Stocked'
  <2>1. loc[t].over \in Nat /\ loc[t].over <= issued
    BY <1>0, Typed DEF Fit, Clocked
  <2>2. over <= issued /\ over \in Nat /\ issued \in Nat
    BY <1>0, Typed DEF Stocked
  <2>3. over' <= issued
    BY <2>1, <2>2 DEF SignOutPush, Larger
  <2>4. store' = store /\ unstored' = unstored /\ cache' = cache /\ issued' = issued /\ gen' = gen /\ witness' = witness
    BY DEF SignOutPush
  <2>5. QED
    BY <1>0, <2>3, <2>4 DEF Stocked
<1>4. Turn(t)
  <2>1. pc[t] = "signOutPush" /\ refresher' = refresher
    BY DEF SignOutPush, At, procVars, threadVars
  <2>2. Ends(t) => Turn(t)
    BY <1>1, <2>1, EndsTurn
  <2>3. QED
    BY <1>0, <2>1, <2>2, SignOutPushFacts
<1>5. QED
  BY <1>1, <1>2, <1>3, <1>4

LEMMA CallBase ==
    ASSUME Base, NEW t \in Threads, NEW c \in Operations, Call(t, c)
    PROVE  TypeOK' /\ Mono /\ Stocked' /\ Turn(t)
<1>0. TypeOK /\ Stocked /\ Fit(t)
  BY DEF Base
<1>1. TypeOK' /\ Calls(t, c)
  BY <1>0, CallFacts
<1>2. Mono
  BY <1>0, Steady DEF Call, worldVars, procVars
<1>3. Stocked'
  BY <1>0, <1>1, <1>2, StillStocked DEF Call, worldVars, procVars
<1>4. Turn(t)
  <2>1. refresher' = refresher /\ UNCHANGED <<gen, epoch, issued>>
    BY DEF Call, worldVars, procVars
  <2>2. Ordered(t)'
    BY <1>0, <1>1 DEF Calls, Ordered, Fit, HandLabels, SigningIn, Reading, Operations
  <2>3. Locked(t)'
    BY <1>0, <1>1 DEF Calls, Locked, UnderLock, Operations
  <2>4. Clocked(t)'
    <3>1. epoch[Home[t]] \in Nat
      BY <1>0, Typed
    <3>2. pc'[t] \notin SigningIn
      BY <1>1 DEF Calls, SigningIn
    <3>3. QED
      BY <1>0, <1>1, <2>1, <3>1, <3>2 DEF Calls, Clocked, Fit
  <2>5. QED
    BY <1>1, <2>1, <2>2, <2>3, <2>4 DEF Turn, Fit, Guarded, Calls
<1>5. QED
  BY <1>1, <1>2, <1>3, <1>4

LEMMA StepBase ==
    ASSUME Base, NEW t \in Threads, Step(t)
    PROVE  TypeOK' /\ Mono /\ Stocked' /\ Turn(t)
    BY BeginBase, LookBase, FetchBase, FetchFailsBase, KeepBase, LockBase, GrantedBase,
       DeniedBase, CheckBase, StoreBase, PublishBase, HoldBase, PushBase, JudgedBase,
       ProbeBase, RecoveredBase, VerdictBase, MarkBase, DeadBase, DropBase, CallOrgsBase,
       SignInBase, SignInFailsBase, SignInPublishBase, AdvanceBase, StampBase, SignInPushBase, SignOutBase,
       SignOutDeleteBase, SignOutFailsBase, SignOutPublishBase, SignOutPushBase
    DEF Step

LEMMA InitBase == Init => Base
<1> SUFFICES ASSUME Init PROVE Base
  OBVIOUS
<1>1. TypeOK
  <2>1. [session |-> 1, serial |-> 1] \in Bundle
    BY DEF Bundle
  <2>2. [x \in Procs |-> Nothing] \in [Procs -> [tok: Bundle, gen: Nat, wit: Nat]]
    BY Blanks DEF Nothing
  <2>3. [x \in Procs |-> Uncached] \in [Procs -> [tok: Bundle, wit: Nat, kept: BOOLEAN]]
    BY Blanks DEF Uncached
  <2>4. /\ [t \in Threads |-> Blank] \in [Threads -> Locals] /\ [x \in Procs |-> None] \in [Procs -> Bundle]
        /\ [t \in Threads |-> "idle"] \in [Threads -> Labels]
    BY Blanks DEF Labels
  <2>5. /\ store \in Bundle /\ unstored \in [Procs -> [tok: Bundle, gen: Nat, wit: Nat]]
        /\ cache \in [Procs -> [tok: Bundle, wit: Nat, kept: BOOLEAN]]
        /\ loc \in [Threads -> Locals] /\ pc \in [Threads -> Labels]
        /\ engine \in [Procs -> Bundle] /\ served \in [Procs -> Bundle]
    BY <2>1, <2>2, <2>3, <2>4 DEF Init
  <2>6. QED
    BY <2>5 DEF Init, TypeOK
<1>2. Stocked
  <2>1. Nothing.tok.serial = 0 /\ Nothing.gen = 0 /\ Nothing.wit = 0 /\ Uncached.tok.serial = 0
    BY Numbers DEF Nothing, Uncached
  <2>2. QED
    BY <2>1 DEF Init, Stocked
<1>3. ASSUME NEW t \in Threads PROVE Fit(t)
  <2>1. pc[t] = "idle" /\ op[t] = "none" /\ loc[t] = Blank /\ gen[Home[t]] = 0 /\ epoch[Home[t]] = 0 /\ issued = 1
    BY Homes DEF Init
  <2>2. /\ Blank.phase = "first" /\ Blank.tok = None /\ Blank.tok.serial = 0 /\ Blank.seen = 0
        /\ Blank.basis = 0 /\ Blank.epoch = 0 /\ Blank.over = 0
    BY Numbers DEF Blank
  <2>3. QED
    BY <2>1, <2>2 DEF Fit, Ordered, Locked, Clocked, UnderLock, HandLabels, SigningIn, Reading
<1>4. QED
  BY <1>1, <1>2, <1>3 DEF Base

LEMMA NextBase == Base /\ [Next]_vars => Base'
<1> SUFFICES ASSUME Base, [Next]_vars PROVE Base'
  OBVIOUS
<1>0. TypeOK /\ Stocked /\ \A t \in Threads : Fit(t)
  BY DEF Base
<1>1. ASSUME NEW t \in Threads, Step(t) \/ \E o \in Operations : Call(t, o)
      PROVE  Base'
  <2>1. TypeOK' /\ Mono /\ Stocked' /\ Turn(t)
    BY <1>1, StepBase, CallBase
  <2>2. \A u \in Threads \ {t} : Fit(u)'
    BY <1>0, <2>1, OthersFit DEF Turn
  <2>3. QED
    BY <2>1, <2>2 DEF Base, Turn
<1>2. ASSUME TypeOK', UNCHANGED <<store, witness, issued, over, procVars, threadVars>>
      PROVE  Base'
  BY <1>0, <1>2 DEF Base, Stocked, Fit, Ordered, Locked, Clocked, UnderLock, procVars, threadVars
<1>3. CASE Expire
  BY <1>0, <1>2, <1>3, ExpireFacts DEF Expire
<1>4. ASSUME NEW s \in 1 .. MaxTokens, Revoke(s)
      PROVE  Base'
  BY <1>0, <1>2, <1>4, RevokeFacts DEF Revoke
<1>5. CASE UNCHANGED vars
  <2>1. TypeOK'
    BY <1>0, <1>5 DEF vars, worldVars, procVars, threadVars, TypeOK
  <2>2. QED
    BY <1>2, <1>5, <2>1 DEF vars, worldVars, procVars, threadVars
<1>6. QED
  BY <1>1, <1>3, <1>4, <1>5 DEF Next

\* Every variable keeps to its range.
THEOREM TypeCorrect == Spec => []TypeOK
<1>1. Base => TypeOK
  BY DEF Base
<1>2. QED
  BY <1>1, InitBase, NextBase, PTL DEF Spec

-----------------------------------------------------------------------------
(* One process, whose threads are not suspended between a check and what it *)
(* is for: its cached reads are the keychain's bundle, and what is about to *)
(* be stored renews the session there is.                                   *)

OneProcess == \A x, y \in Procs : x = y
Prompt == ~Fails("preempt")

Outcomes == {"idle", "push", "judged", "verdict", "call", "mark"}

\* Where a thread that reads, renews or judges the session goes next.
LEMMA Whereto ==
    ASSUME TypeOK, NEW t \in Threads
    PROVE  /\ Begin(t) => pc'[t] \in Outcomes \union {"look"}
           /\ Look(t) => pc'[t] \in Outcomes \union {"lock", "post", "fetch"}
           /\ Fetch(t) => pc'[t] \in {"keep"}
           /\ FetchFails(t) => pc'[t] \in Outcomes
           /\ Keep(t) => pc'[t] \in Outcomes \union {"lock", "post"}
           /\ Lock(t) => pc'[t] \in Outcomes \union {"post", "look"}
           /\ Granted(t) => pc'[t] \in {"granted"}
           /\ Denied(t) => pc'[t] \in Outcomes
           /\ Check(t) => pc'[t] \in {"store", "look"}
           /\ Store(t) => pc'[t] \in {"publish", "hold"}
           /\ Publish(t) => pc'[t] \in Outcomes
           /\ Hold(t) => pc'[t] \in Outcomes
           /\ Push(t) => pc'[t] \in {"idle"}
           /\ Recovered(t) => pc'[t] \in {"idle"}
           /\ Drop(t) => pc'[t] \in {"idle"}
           /\ Judged(t) => pc'[t] \in {"probe"}
           /\ Probe(t) => pc'[t] \in {"verdict", "recovered", "idle"}
           /\ Verdict(t) => pc'[t] \in {"mark", "idle"}
           /\ Mark(t) => pc'[t] \in {"dead", "idle"}
           /\ Dead(t) => pc'[t] \in {"drop", "idle"}
           /\ CallOrgs(t) => pc'[t] \in {"mark", "begin", "idle"}
<1>1. Begin(t) => pc'[t] \in Outcomes \union {"look"}
  BY BeginFacts DEF Came, Ends, Answers, Read, Onward, Takes, Moves, Starts, Locks, ReadsAgain, Judges, Repeats,
     Outcomes
<1>2. Look(t) => pc'[t] \in Outcomes \union {"lock", "post", "fetch"}
  BY LookFacts DEF Came, Ends, Answers, Read, Onward, Takes, Moves, Starts, Locks, ReadsAgain, Judges, Repeats,
     Outcomes
<1>3. Fetch(t) => pc'[t] \in {"keep"}
  BY FetchFacts DEF Came, Ends, Answers, Read, Onward, Takes, Moves, Starts, Locks, ReadsAgain, Judges, Repeats,
     Outcomes
<1>4. FetchFails(t) => pc'[t] \in Outcomes
  BY FetchFailsFacts DEF Came, Ends, Answers, Read, Onward, Takes, Moves, Starts, Locks, ReadsAgain, Judges,
     Repeats, Outcomes
<1>5. Keep(t) => pc'[t] \in Outcomes \union {"lock", "post"}
  BY KeepFacts DEF Came, Ends, Answers, Read, Onward, Takes, Moves, Starts, Locks, ReadsAgain, Judges, Repeats,
     Outcomes
<1>6. Lock(t) => pc'[t] \in Outcomes \union {"post", "look"}
  BY LockFacts DEF Came, Ends, Answers, Read, Onward, Takes, Moves, Starts, Locks, ReadsAgain, Judges, Repeats,
     Outcomes
<1>7. Granted(t) => pc'[t] \in {"granted"}
  BY GrantedFacts DEF Came, Ends, Answers, Read, Onward, Takes, Moves, Starts, Locks, ReadsAgain, Judges, Repeats,
     Outcomes
<1>8. Denied(t) => pc'[t] \in Outcomes
  BY DeniedFacts DEF Came, Ends, Answers, Read, Onward, Takes, Moves, Starts, Locks, ReadsAgain, Judges, Repeats,
     Outcomes
<1>9. Check(t) => pc'[t] \in {"store", "look"}
  BY CheckFacts DEF Came, Ends, Answers, Read, Onward, Takes, Moves, Starts, Locks, ReadsAgain, Judges, Repeats,
     Outcomes
<1>10. Store(t) => pc'[t] \in {"publish", "hold"}
  BY StoreFacts DEF Came, Ends, Answers, Read, Onward, Takes, Moves, Starts, Locks, ReadsAgain, Judges, Repeats,
     Outcomes
<1>11. Publish(t) => pc'[t] \in Outcomes
  BY PublishFacts DEF Came, Ends, Answers, Read, Onward, Takes, Moves, Starts, Locks, ReadsAgain, Judges, Repeats,
     Outcomes
<1>12. Hold(t) => pc'[t] \in Outcomes
  BY HoldFacts DEF Came, Ends, Answers, Read, Onward, Takes, Moves, Starts, Locks, ReadsAgain, Judges, Repeats,
     Outcomes
<1>13. Push(t) => pc'[t] \in {"idle"}
  BY PushFacts DEF Came, Ends, Answers, Read, Onward, Takes, Moves, Starts, Locks, ReadsAgain, Judges, Repeats,
     Outcomes
<1>14. Recovered(t) => pc'[t] \in {"idle"}
  BY PushFacts DEF Came, Ends, Answers, Read, Onward, Takes, Moves, Starts, Locks, ReadsAgain, Judges, Repeats,
     Outcomes
<1>15. Drop(t) => pc'[t] \in {"idle"}
  BY PushFacts DEF Came, Ends, Answers, Read, Onward, Takes, Moves, Starts, Locks, ReadsAgain, Judges, Repeats,
     Outcomes
<1>16. Judged(t) => pc'[t] \in {"probe"}
  BY JudgedFacts DEF Came, Ends, Answers, Read, Onward, Takes, Moves, Starts, Locks, ReadsAgain, Judges, Repeats,
     Outcomes
<1>17. Probe(t) => pc'[t] \in {"verdict", "recovered", "idle"}
  BY ProbeFacts DEF Came, Ends, Answers, Read, Onward, Takes, Moves, Starts, Locks, ReadsAgain, Judges, Repeats,
     Outcomes
<1>18. Verdict(t) => pc'[t] \in {"mark", "idle"}
  BY VerdictFacts DEF Came, Ends, Answers, Read, Onward, Takes, Moves, Starts, Locks, ReadsAgain, Judges, Repeats,
     Outcomes
<1>19. Mark(t) => pc'[t] \in {"dead", "idle"}
  BY MarkFacts DEF Came, Ends, Answers, Read, Onward, Takes, Moves, Starts, Locks, ReadsAgain, Judges, Repeats,
     Outcomes
<1>20. Dead(t) => pc'[t] \in {"drop", "idle"}
  BY DeadFacts DEF Came, Ends, Answers, Read, Onward, Takes, Moves, Starts, Locks, ReadsAgain, Judges, Repeats,
     Outcomes
<1>21. CallOrgs(t) => pc'[t] \in {"mark", "begin", "idle"}
  BY CallOrgsFacts DEF Came, Ends, Answers, Read, Onward, Takes, Moves, Starts, Locks, ReadsAgain, Judges, Repeats,
     Outcomes
<1>22. QED
  BY <1>1, <1>2, <1>3, <1>4, <1>5, <1>6, <1>7, <1>8, <1>9, <1>10, <1>11, <1>12, <1>13, <1>14, <1>15, <1>16, <1>17,
     <1>18, <1>19, <1>20, <1>21

\* The steps that touch no bundle but the thread's own.
Quiet(t) ==
    \/ Begin(t) \/ Look(t) \/ FetchFails(t) \/ Lock(t) \/ Granted(t) \/ Denied(t) \/ Check(t)
    \/ Judged(t) \/ Probe(t) \/ Verdict(t) \/ Mark(t) \/ Dead(t) \/ CallOrgs(t)

LEMMA QuietFacts ==
    ASSUME TypeOK, NEW t \in Threads, Quiet(t) \/ \E c \in Operations : Call(t, c)
    PROVE  /\ UNCHANGED <<store, witness, over, gen, epoch, unstored, engine, cache, torn, expired, revoked>>
           /\ pc'[t] \notin SigningIn \union {"signOutPublish", "signOutEpoch", "signOutPush"}
           /\ pc'[t] \notin {"keep", "publish", "hold"}
           /\ pc'[t] = "store" => Check(t)
<1>1. CASE Begin(t)
  <2>1. UNCHANGED <<store, witness, over, gen, epoch, unstored, engine, cache, torn, expired, revoked>>
    BY <1>1 DEF Begin, worldVars, procVars
  <2>2. QED
    BY <1>1, <2>1, Whereto DEF Outcomes, SigningIn
<1>2. CASE Look(t)
  <2>1. UNCHANGED <<store, witness, over, gen, epoch, unstored, engine, cache, torn, expired, revoked>>
    BY <1>2 DEF Look, worldVars, procVars
  <2>2. QED
    BY <1>2, <2>1, Whereto DEF Outcomes, SigningIn
<1>3. CASE FetchFails(t)
  <2>1. UNCHANGED <<store, witness, over, gen, epoch, unstored, engine, cache, torn, expired, revoked>>
    BY <1>3 DEF FetchFails, worldVars, procVars
  <2>2. QED
    BY <1>3, <2>1, Whereto DEF Outcomes, SigningIn
<1>4. CASE Lock(t)
  <2>1. UNCHANGED <<store, witness, over, gen, epoch, unstored, engine, cache, torn, expired, revoked>>
    BY <1>4 DEF Lock, worldVars, procVars
  <2>2. QED
    BY <1>4, <2>1, Whereto DEF Outcomes, SigningIn
<1>5. CASE Granted(t)
  <2>1. UNCHANGED <<store, witness, over, gen, epoch, unstored, engine, cache, torn, expired, revoked>>
    BY <1>5 DEF Granted, worldVars, procVars
  <2>2. QED
    BY <1>5, <2>1, Whereto DEF Outcomes, SigningIn
<1>6. CASE Denied(t)
  <2>1. UNCHANGED <<store, witness, over, gen, epoch, unstored, engine, cache, torn, expired, revoked>>
    BY <1>6 DEF Denied, worldVars, procVars
  <2>2. QED
    BY <1>6, <2>1, Whereto DEF Outcomes, SigningIn
<1>7. CASE Check(t)
  <2>1. UNCHANGED <<store, witness, over, gen, epoch, unstored, engine, cache, torn, expired, revoked>>
    BY <1>7 DEF Check, worldVars, procVars
  <2>2. QED
    BY <1>7, <2>1, Whereto DEF Outcomes, SigningIn
<1>8. CASE Judged(t)
  <2>1. UNCHANGED <<store, witness, over, gen, epoch, unstored, engine, cache, torn, expired, revoked>>
    BY <1>8 DEF Judged, worldVars, procVars
  <2>2. QED
    BY <1>8, <2>1, Whereto DEF Outcomes, SigningIn
<1>9. CASE Probe(t)
  <2>1. UNCHANGED <<store, witness, over, gen, epoch, unstored, engine, cache, torn, expired, revoked>>
    BY <1>9 DEF Probe, worldVars, procVars
  <2>2. QED
    BY <1>9, <2>1, Whereto DEF Outcomes, SigningIn
<1>10. CASE Verdict(t)
  <2>1. UNCHANGED <<store, witness, over, gen, epoch, unstored, engine, cache, torn, expired, revoked>>
    BY <1>10 DEF Verdict, worldVars, procVars
  <2>2. QED
    BY <1>10, <2>1, Whereto DEF Outcomes, SigningIn
<1>11. CASE Mark(t)
  <2>1. UNCHANGED <<store, witness, over, gen, epoch, unstored, engine, cache, torn, expired, revoked>>
    BY <1>11 DEF Mark, worldVars, procVars
  <2>2. QED
    BY <1>11, <2>1, Whereto DEF Outcomes, SigningIn
<1>12. CASE Dead(t)
  <2>1. UNCHANGED <<store, witness, over, gen, epoch, unstored, engine, cache, torn, expired, revoked>>
    BY <1>12 DEF Dead, worldVars, procVars
  <2>2. QED
    BY <1>12, <2>1, Whereto DEF Outcomes, SigningIn
<1>13. CASE CallOrgs(t)
  <2>1. UNCHANGED <<store, witness, over, gen, epoch, unstored, engine, cache, torn, expired, revoked>>
    BY <1>13 DEF CallOrgs, worldVars, procVars
  <2>2. QED
    BY <1>13, <2>1, Whereto DEF Outcomes, SigningIn
<1>14. CASE \E c \in Operations : Call(t, c)
  <2>1. UNCHANGED <<store, witness, over, gen, epoch, unstored, engine, cache, torn, expired, revoked>>
    BY <1>14 DEF Call, worldVars, procVars
  <2>2. QED
    BY <1>14, <2>1, CallFacts DEF Calls, SigningIn
<1>15. QED
  BY <1>1, <1>2, <1>3, <1>4, <1>5, <1>6, <1>7, <1>8, <1>9, <1>10, <1>11, <1>12, <1>13, <1>14 DEF Quiet

Calm == \A k \in Threads : pc[k] \notin Landing

Cached ==
    /\ \A x \in Procs : cache[x].kept => cache[x].tok = store
    /\ \A t \in Threads : pc[t] = "keep" /\ t \notin torn => loc[t].tok = store

\* What is about to be stored or published renews the session in force.
Decided(t) == pc[t] \in {"store", "publish"} => loc[t].basis = gen[Home[t]] /\ Calm

Coherent == Base /\ Cached /\ \A t \in Threads : Decided(t)

LEMMA CachedFrame ==
    ASSUME TypeOK, NEW t \in Threads, Cached, Alone(t), pc'[t] # "keep", UNCHANGED <<store, cache>>,
           \A u \in Threads \ {t} : u \in torn => u \in torn'
    PROVE  Cached'
    BY DEF Cached, Alone, Same

LEMMA CachedWrite ==
    ASSUME TypeOK, OneProcess, NEW t \in Threads, NEW b \in Bundle, Write(Home[t], b), Alone(t), pc'[t] # "keep"
    PROVE  Cached'
<1>1. /\ \A y \in Procs : cache'[y].kept => y # Home[t]
      /\ \A u \in Threads : u \notin torn' => ~(Home[u] = Home[t] /\ pc[u] = "keep")
  BY Homes, WriteFacts
<1>2. \A y \in Procs : ~cache'[y].kept
  BY <1>1, Homes DEF OneProcess
<1>3. \A u \in Threads : pc'[u] = "keep" => u \in torn'
  BY <1>1, Homes DEF OneProcess, Alone
<1>4. QED
  BY <1>2, <1>3 DEF Cached

LEMMA CachedStep ==
    ASSUME Base, OneProcess, Prompt, Cached, NEW t \in Threads, Step(t) \/ \E c \in Operations : Call(t, c)
    PROVE  Cached'
<1>0. TypeOK /\ TypeOK' /\ Alone(t)
  BY StepBase, CallBase DEF Base, Turn
<1>1. CASE Quiet(t) \/ \E c \in Operations : Call(t, c)
  BY <1>0, <1>1, QuietFacts, CachedFrame
<1>2. CASE Fetch(t)
  <2>1. /\ UNCHANGED <<store, cache>> /\ torn' = torn \ {t} /\ loc'[t].tok = store
    BY <1>0, <1>2, FetchFacts DEF Fetch, Takes, worldVars, procVars
  <2>2. QED
    BY <1>0, <2>1 DEF Cached, Alone, Same
<1>3. CASE Keep(t)
  <2>1. /\ store' = store /\ torn' = torn \ {t} /\ pc[t] = "keep" /\ pc'[t] # "keep"
    BY <1>0, <1>3, Whereto DEF Keep, At, worldVars, Outcomes
  <2>2. \/ cache' = cache
        \/ /\ t \notin torn
           /\ cache' = [cache EXCEPT ![Home[t]] = [tok |-> loc[t].tok, wit |-> loc[t].wit, kept |-> TRUE]]
    BY <1>3 DEF Keep, Prompt
  <2>3. \A x \in Procs : cache'[x].kept => cache'[x].tok = store
    BY <1>0, <2>1, <2>2, Homes DEF Cached, TypeOK
  <2>4. \A u \in Threads : pc'[u] = "keep" /\ u \notin torn' => loc'[u].tok = store
    BY <1>0, <2>1 DEF Cached, Alone, Same
  <2>5. QED
    BY <2>1, <2>3, <2>4 DEF Cached
<1>4. ASSUME NEW b \in {store, None, loc[t].tok, store'}, Write(Home[t], b), pc'[t] # "keep"
      PROVE  Cached'
  <2>1. b \in Bundle
    BY <1>0, Typed, Blanks DEF TypeOK
  <2>2. QED
    BY <1>0, <1>4, <2>1, CachedWrite
<1>5. CASE Store(t)
  BY <1>0, <1>4, <1>5, StoreFacts DEF Moves
<1>6. CASE SignIn(t)
  BY <1>0, <1>4, <1>6, SignInFacts DEF Takes
<1>7. CASE SignOutDelete(t)
  BY <1>0, <1>4, <1>7, SignOutDeleteFacts DEF Outs
<1>8. CASE SignOutFails(t)
  BY <1>0, <1>4, <1>8, SignOutFailsFacts DEF Ends
<1>9. CASE SignInFails(t)
  <2>1. pc'[t] # "keep"
    BY <1>0, <1>9, SignInFailsFacts DEF Ends
  <2>2. CASE UNCHANGED <<store, cache, torn>>
    BY <1>0, <2>1, <2>2, CachedFrame DEF Base
  <2>3. QED
    BY <1>0, <1>4, <1>9, <2>1, <2>2, SignInFailsFacts
<1>10. CASE Publish(t) \/ Hold(t) \/ Push(t) \/ Recovered(t) \/ Drop(t)
  <2>1. pc'[t] # "keep"
    BY <1>0, <1>10, Whereto DEF Outcomes
  <2>2. UNCHANGED <<store, cache, torn>>
    BY <1>10 DEF Publish, Hold, Push, Recovered, Drop, worldVars
  <2>3. QED
    BY <1>0, <2>1, <2>2, CachedFrame
<1>11. CASE \/ SignInPublish(t) \/ Advance(t) \/ Stamp(t) \/ SignInPush(t)
            \/ SignOut(t) \/ SignOutPublish(t) \/ SignOutPush(t)
  <2>1. pc'[t] # "keep"
    BY <1>0, <1>11, SignInPublishFacts, AdvanceFacts, StampFacts, SignInPushFacts, SignOutFacts, SignOutPublishFacts,
       SignOutPushFacts DEF Moves, Ends
  <2>2. UNCHANGED <<store, cache, torn>>
    BY <1>11 DEF SignInPublish, Advance, Stamp, SignInPush, SignOut, SignOutPublish, SignOutPush, worldVars, procVars
  <2>3. QED
    BY <1>0, <2>1, <2>2, CachedFrame
<1>12. QED
  BY <1>1, <1>2, <1>3, <1>5, <1>6, <1>7, <1>8, <1>9, <1>10, <1>11 DEF Step, Quiet

\* One thread at a time is past the refresh lock.
LEMMA OneUnderLock ==
    ASSUME Base, OneProcess, NEW t \in Threads, NEW u \in Threads, UnderLock(t), UnderLock(u)
    PROVE  t = u
    BY Homes DEF Base, Fit, Locked, OneProcess

LEMMA DecidedFrame ==
    ASSUME NEW t \in Threads, \A u \in Threads : Decided(u), Alone(t), gen' = gen,
           pc'[t] \notin Landing \union {"store", "publish"}
    PROVE  \A u \in Threads : Decided(u)'
    BY DEF Decided, Alone, Same, Calm, Landing

LEMMA DecidedNobody ==
    ASSUME NEW t \in Threads, Alone(t), pc'[t] \notin {"store", "publish"},
           \A u \in Threads \ {t} : pc[u] \notin {"store", "publish"}
    PROVE  \A u \in Threads : Decided(u)'
    BY DEF Decided, Alone

LEMMA DecidedStep ==
    ASSUME Base, OneProcess, Prompt, \A u \in Threads : Decided(u),
           NEW t \in Threads, Step(t) \/ \E c \in Operations : Call(t, c)
    PROVE  \A u \in Threads : Decided(u)'
<1>0. TypeOK /\ Alone(t)
  BY StepBase, CallBase DEF Base, Turn
<1>1. CASE (Quiet(t) /\ ~Check(t)) \/ \E c \in Operations : Call(t, c)
  <2>1. gen' = gen /\ pc'[t] \notin Landing \union {"publish"} /\ (pc'[t] = "store" => Check(t))
    BY <1>0, <1>1, QuietFacts DEF Landing, SigningIn
  <2>2. pc'[t] # "store"
    BY <1>0, <1>1, <2>1, CallFacts DEF Calls
  <2>3. QED
    BY <1>0, <2>1, <2>2, DecidedFrame
<1>2. CASE Check(t)
  <2>1. /\ gen' = gen
        /\ \/ gen[Home[t]] = loc[t].basis /\ Moves(t, "store")
           \/ ReadsAgain(t)
    BY <1>0, <1>2, CheckFacts DEF Check, worldVars
  <2>2. Calm
    <3>1. Peers(t, Landing) = {}
      BY <1>2 DEF Check, MayCheck, Prompt
    <3>2. QED
      BY <3>1, Homes DEF Peers, OneProcess, Calm
  <2>3. CASE gen[Home[t]] = loc[t].basis /\ Moves(t, "store")
    BY <1>0, <2>1, <2>2, <2>3 DEF Decided, Moves, Alone, Same, Calm, Landing
  <2>4. CASE ReadsAgain(t)
    BY <1>0, <2>1, <2>4, DecidedFrame DEF ReadsAgain, Landing
  <2>5. QED
    BY <2>1, <2>3, <2>4
<1>3. CASE Store(t)
  <2>1. pc[t] = "store" /\ gen' = gen /\ (Moves(t, "publish") \/ Moves(t, "hold"))
    BY <1>0, <1>3, StoreFacts DEF Store, At
  <2>2. QED
    BY <1>0, <2>1 DEF Decided, Moves, Alone, Same, Calm, Landing
<1>4. CASE Publish(t) \/ Hold(t)
  <2>1. UnderLock(t)
    BY <1>4 DEF Publish, Hold, At, UnderLock
  <2>2. \A u \in Threads \ {t} : pc[u] \notin {"store", "publish"}
    BY <2>1, OneUnderLock DEF UnderLock
  <2>3. pc'[t] \notin {"store", "publish"}
    BY <1>0, <1>4, Whereto DEF Outcomes
  <2>4. QED
    BY <1>0, <2>2, <2>3, DecidedNobody
<1>5. CASE SignIn(t) \/ SignInPublish(t) \/ SignOutDelete(t) \/ SignOutPublish(t)
  <2>1. MayLand(t)
    BY <1>5 DEF SignIn, SignInPublish, SignOutDelete, SignOutPublish
  <2>2. \A u \in Threads : pc[u] \notin {"store", "publish"}
    BY <2>1, Homes DEF MayLand, Prompt, Hasty, OneProcess
  <2>3. pc'[t] \notin {"store", "publish"}
    BY <1>0, <1>5, SignInFacts, SignInPublishFacts, SignOutDeleteFacts, SignOutPublishFacts DEF Takes, Moves, Outs
  <2>4. QED
    BY <1>0, <2>2, <2>3, DecidedNobody
<1>6. CASE Fetch(t) \/ Keep(t) \/ Push(t) \/ Recovered(t) \/ Drop(t)
  <2>1. gen' = gen
    BY <1>6 DEF Fetch, Keep, Push, Recovered, Drop, procVars
  <2>2. pc'[t] \notin Landing \union {"store", "publish"}
    BY <1>0, <1>6, Whereto DEF Outcomes, Landing
  <2>3. QED
    BY <1>0, <2>1, <2>2, DecidedFrame
<1>7. CASE \/ SignInFails(t) \/ Advance(t) \/ Stamp(t) \/ SignInPush(t)
           \/ SignOut(t) \/ SignOutFails(t) \/ SignOutPush(t)
  <2>1. gen' = gen
    BY <1>7 DEF SignInFails, Advance, Stamp, SignInPush, SignOut, SignOutFails, SignOutPush, procVars
  <2>2. pc'[t] \notin Landing \union {"store", "publish"}
    BY <1>0, <1>7, SignInFailsFacts, AdvanceFacts, StampFacts, SignInPushFacts, SignOutFacts, SignOutFailsFacts,
       SignOutPushFacts DEF Moves, Ends, Landing
  <2>3. QED
    BY <1>0, <2>1, <2>2, DecidedFrame
<1>8. QED
  BY <1>1, <1>2, <1>3, <1>4, <1>5, <1>6, <1>7 DEF Step, Quiet

-----------------------------------------------------------------------------
(* Ended sessions.  A bundle is past the end of a session when its own is   *)
(* later than every one that has been ended, and, the nearer a sign-in or   *)
(* sign-out is to its end, than what that one ends: the keychain's bundle   *)
(* as soon as it is written, what rests on the generation once that has     *)
(* moved, what rests on the epoch once the epoch has.                       *)

OneHand == \A t, u \in Threads :
    Roles[t] \cap {"signIn", "signOut"} # {} /\ Roles[u] \cap {"signIn", "signOut"} # {} => t = u
NoRelay == \A t \in Threads : "relay" \notin Roles[t]

Past(b, outs, ins) ==
    b = None \/ /\ b.session > over
                /\ \A k \in Threads : /\ pc[k] \in outs => b.session > loc[k].over
                                      /\ pc[k] \in ins => b.session >= loc[k].tok.session
Stored(b) == Past(b, {"signOutPublish", "signOutEpoch", "signOutPush"}, SigningIn)
Sealed(b) == Past(b, {"signOutEpoch", "signOutPush"}, SigningIn \ {"signInPublish"})
Sworn(b) == Past(b, {"signOutPush"}, {"stamp", "signInPush"})

\* The same of a bundle in the next state.
PastNext(b, outs, ins) ==
    b = None \/ /\ b.session > over'
                /\ \A k \in Threads : /\ pc'[k] \in outs => b.session > loc'[k].over
                                      /\ pc'[k] \in ins => b.session >= loc'[k].tok.session
StoredNext(b) == PastNext(b, {"signOutPublish", "signOutEpoch", "signOutPush"}, SigningIn)
SealedNext(b) == PastNext(b, {"signOutEpoch", "signOutPush"}, SigningIn \ {"signInPublish"})
SwornNext(b) == PastNext(b, {"signOutPush"}, {"stamp", "signInPush"})

StoreSound == Stored(store)
KeptSound == \A x \in Procs : unstored[x].tok # None /\ unstored[x].gen = gen[x] => Sealed(unstored[x].tok)
EngineSound == \A x \in Procs : engine[x] = None \/ engine[x].session > over

\* The bundle a thread holds: `seen' and `basis' vouch for it with the
\* generation, `epoch' with the epoch.
Sound(t) ==
    /\ pc[t] \in {"lock", "keep"} /\ loc[t].phase = "first" /\ loc[t].seen = gen[Home[t]] => Sealed(loc[t].tok)
    /\ pc[t] \in Reading /\ UnderLock(t) /\ loc[t].basis = gen[Home[t]] => Sealed(loc[t].tok)
    /\ op[t] \in {"tick", "recheck"} /\ loc[t].epoch = epoch[Home[t]] => Sworn(loc[t].tok)
    /\ pc[t] \in Reading \cup {"look", "fetch"} => loc[t].over <= over
    /\ pc[t] \in Reading => loc[t].tok = None \/ loc[t].tok.session > loc[t].over
    /\ pc[t] \in SigningIn => loc[t].tok.session > over

Honest == Coherent /\ StoreSound /\ KeptSound /\ \A t \in Threads : Sound(t)

LEMMA Weaker ==
    /\ \A b \in Bundle : (Stored(b) => Sealed(b)) /\ (Sealed(b) => Sworn(b)) /\ (Sealed(b) /\ Calm => Stored(b))
    /\ Stored(None) /\ Sealed(None) /\ Sworn(None)
    /\ StoredNext(None) /\ SealedNext(None) /\ SwornNext(None)
    BY DEF Stored, Sealed, Sworn, Past, StoredNext, SealedNext, SwornNext, PastNext, Calm, Landing, SigningIn

\* What a step leaves past the end.
Lasting == \A b \in Bundle : (Stored(b) => StoredNext(b)) /\ (Sealed(b) => SealedNext(b)) /\ (Sworn(b) => SwornNext(b))

LEMMA ReaderLasting ==
    ASSUME NEW t \in Threads, Alone(t), over' = over,
           pc'[t] \notin SigningIn \union {"signOutPublish", "signOutEpoch", "signOutPush"}
    PROVE  Lasting
    BY DEF Lasting, Stored, Sealed, Sworn, Past, StoredNext, SealedNext, SwornNext, PastNext, Alone, Same, SigningIn

\* The other threads' bundles, when what vouches for them has stayed or gone.
LEMMA OthersSound ==
    ASSUME Base, TypeOK', Mono, OneProcess, NEW t \in Threads, Alone(t), \A u \in Threads : Sound(u),
           (\A b \in Bundle : Sealed(b) => SealedNext(b)) \/ gen'[Home[t]] # gen[Home[t]],
           (\A b \in Bundle : Sworn(b) => SwornNext(b)) \/ epoch'[Home[t]] # epoch[Home[t]],
           over' = over \/ \A u \in Threads \ {t} : pc[u] \notin SigningIn
    PROVE  \A u \in Threads \ {t} : Sound(u)'
<1> SUFFICES ASSUME NEW u \in Threads \ {t} PROVE Sound(u)'
  OBVIOUS
<1>1. /\ pc'[u] = pc[u] /\ op'[u] = op[u] /\ Same(u) /\ Sound(u) /\ Clocked(u) /\ Home[u] = Home[t]
      /\ UnderLock(u)' = UnderLock(u) /\ loc[u].tok \in Bundle
  BY Homes, Typed DEF Alone, Base, Fit, OneProcess, UnderLock, Same
<1>2. /\ Home[u] \in Procs /\ gen[Home[u]] \in Nat /\ gen'[Home[u]] \in Nat /\ loc[u].seen \in Nat
      /\ loc[u].basis \in Nat /\ epoch[Home[u]] \in Nat /\ epoch'[Home[u]] \in Nat /\ loc[u].epoch \in Nat
      /\ loc[u].over \in Nat /\ over \in Nat /\ over' \in Nat
  BY Typed DEF Base, TypeOK
<1>3. /\ loc[u].seen = gen'[Home[u]] => gen'[Home[u]] = gen[Home[u]]
      /\ loc[u].basis = gen'[Home[u]] => gen'[Home[u]] = gen[Home[u]]
      /\ loc[u].epoch = epoch'[Home[u]] => epoch'[Home[u]] = epoch[Home[u]]
      /\ loc[u].over <= over => loc[u].over <= over'
  BY <1>1, <1>2 DEF Clocked, Mono
<1>4. /\ gen'[Home[u]] = gen[Home[u]] /\ Sealed(loc[u].tok) => SealedNext(loc[u].tok)
      /\ epoch'[Home[u]] = epoch[Home[u]] /\ Sworn(loc[u].tok) => SwornNext(loc[u].tok)
  BY <1>1
<1>5. /\ SealedNext(loc[u].tok) => Sealed(loc[u].tok)'
      /\ SwornNext(loc[u].tok) => Sworn(loc[u].tok)'
  BY <1>1 DEF Sealed, SealedNext, Sworn, SwornNext, Past, PastNext, Same
<1>6. /\ pc'[u] \in {"lock", "keep"} /\ loc'[u].phase = "first" /\ loc'[u].seen = gen'[Home[u]] => Sealed(loc[u].tok)'
      /\ pc'[u] \in Reading /\ UnderLock(u)' /\ loc'[u].basis = gen'[Home[u]] => Sealed(loc[u].tok)'
      /\ op'[u] \in {"tick", "recheck"} /\ loc'[u].epoch = epoch'[Home[u]] => Sworn(loc[u].tok)'
  BY <1>1, <1>3, <1>4, <1>5 DEF Sound, Same
<1>7. pc'[u] \in SigningIn => loc'[u].tok.session > over'
  BY <1>1 DEF Sound, Same
<1>8. /\ pc'[u] \in Reading \cup {"look", "fetch"} => loc'[u].over <= over'
      /\ pc'[u] \in Reading => loc'[u].tok = None \/ loc'[u].tok.session > loc'[u].over
  BY <1>1, <1>3 DEF Sound, Same
<1>9. QED
  BY <1>6, <1>7, <1>8 DEF Sound

LEMMA StoreFrame ==
    ASSUME TypeOK, StoreSound, \A b \in Bundle : Stored(b) => StoredNext(b), store' \in {store, None}
    PROVE  StoreSound'
<1>1. StoredNext(store')
  BY Weaker DEF StoreSound, TypeOK
<1>2. QED
  BY <1>1 DEF StoreSound, Stored, StoredNext, Past, PastNext

LEMMA KeptFrame ==
    ASSUME Base, TypeOK', KeptSound,
           \A x \in Procs : \/ unstored'[x].tok = None
                            \/ /\ unstored'[x] = unstored[x]
                               /\ \/ gen'[x] = gen[x] + 1
                                  \/ gen'[x] = gen[x] /\ \A b \in Bundle : Sealed(b) => SealedNext(b)
    PROVE  KeptSound'
<1> SUFFICES ASSUME NEW x \in Procs, unstored'[x].tok # None, unstored'[x].gen = gen'[x]
             PROVE  Sealed(unstored[x].tok)'
  BY DEF KeptSound
<1>1. unstored[x].gen \in Nat /\ gen[x] \in Nat /\ unstored[x].gen <= gen[x] /\ unstored[x].tok \in Bundle
  BY Typed DEF Base, Stocked
<1>2. unstored'[x] = unstored[x] /\ gen'[x] = gen[x] /\ \A b \in Bundle : Sealed(b) => SealedNext(b)
  BY <1>1
<1>3. SealedNext(unstored'[x].tok)
  BY <1>1, <1>2 DEF KeptSound
<1>4. QED
  BY <1>3 DEF Sealed, SealedNext, Past, PastNext

LEMMA EndsSound ==
    ASSUME NEW t \in Threads, Ends(t)
    PROVE  Sound(t)'
    BY DEF Ends, Sound, Reading, SigningIn

LEMMA AnswersSound ==
    ASSUME NEW t \in Threads, NEW res, NEW b, Answers(t, res, b),
           op[t] \in {"tick", "recheck"} /\ loc[t].epoch = epoch'[Home[t]] => SwornNext(b)
    PROVE  Sound(t)'
<1>1. pc'[t] \notin Reading \cup {"look", "fetch"} \cup SigningIn
  BY DEF Answers, Reading, SigningIn
<1>2. op'[t] = op[t] /\ loc'[t].epoch = loc[t].epoch /\ loc'[t].tok = b
  BY DEF Answers
<1>3. op'[t] \in {"tick", "recheck"} /\ loc'[t].epoch = epoch'[Home[t]] => Sworn(loc[t].tok)'
  BY <1>2 DEF Sworn, SwornNext, Past, PastNext
<1>4. QED
  BY <1>1, <1>3 DEF Sound, Reading

LEMMA CameSound ==
    ASSUME NEW t \in Threads, NEW res, NEW b, Came(t, res, b),
           op[t] \in {"tick", "recheck"} /\ loc[t].epoch = epoch'[Home[t]] => SwornNext(b)
    PROVE  Sound(t)'
    BY EndsSound, AnswersSound DEF Came

\* A read returns a bundle that was vouched for, or goes on with it.
LEMMA ReadSound ==
    ASSUME Base, NEW t \in Threads, NEW b \in Bundle, Read(t, b), pc[t] \in {"look", "keep"}, Lasting, Sound(t),
           UNCHANGED <<gen, epoch, over>>,
           op[t] \in {"tick", "recheck"} /\ loc[t].epoch = epoch[Home[t]] => Sworn(b),
           loc[t].phase = "first" /\ loc[t].seen = gen[Home[t]] => Sealed(b),
           loc[t].phase # "first" /\ loc[t].basis = gen[Home[t]] => Sealed(b),
           b = None \/ b.session > loc[t].over
    PROVE  Sound(t)'
<1>1. /\ op[t] \in {"tick", "recheck"} /\ loc[t].epoch = epoch'[Home[t]] => SwornNext(b)
      /\ loc[t].phase = "first" /\ loc[t].seen = gen'[Home[t]] => SealedNext(b)
      /\ loc[t].phase # "first" /\ loc[t].basis = gen'[Home[t]] => SealedNext(b)
  BY DEF Lasting
<1>2. CASE Onward(t, b)
  <2>1. Takes(t, IF loc[t].phase = "first" THEN "lock" ELSE "post", b)
    BY <1>2 DEF Onward
  <2>2. /\ SealedNext(b) => Sealed(loc[t].tok)'
        /\ SwornNext(b) => Sworn(loc[t].tok)'
    BY <2>1 DEF Takes, Sealed, SealedNext, Sworn, SwornNext, Past, PastNext
  <2>3. /\ pc'[t] \in {"lock", "keep"} /\ loc'[t].phase = "first" /\ loc'[t].seen = gen'[Home[t]]
              => Sealed(loc[t].tok)'
        /\ pc'[t] \in Reading /\ UnderLock(t)' /\ loc'[t].basis = gen'[Home[t]] => Sealed(loc[t].tok)'
        /\ op'[t] \in {"tick", "recheck"} /\ loc'[t].epoch = epoch'[Home[t]] => Sworn(loc[t].tok)'
    BY <1>1, <2>1, <2>2 DEF Takes, UnderLock
  <2>4. /\ loc'[t].over <= over'
        /\ loc'[t].tok = None \/ loc'[t].tok.session > loc'[t].over
        /\ pc'[t] \notin SigningIn
    BY <2>1 DEF Takes, Sound, Reading, SigningIn
  <2>5. QED
    BY <2>3, <2>4 DEF Sound
<1>3. CASE Came(t, "signedOut", None) \/ Came(t, "unavailable", None)
  BY <1>3, CameSound, Weaker
<1>4. CASE Came(t, "live", b)
  BY <1>1, <1>4, CameSound
<1>5. QED
  BY <1>2, <1>3, <1>4 DEF Read

\* A step that keeps the bundle and is no longer, or not yet, about a read.
LEMMA AsideSound ==
    ASSUME Base, NEW t \in Threads, Sound(t), \A b \in Bundle : Sworn(b) => SwornNext(b), epoch' = epoch,
           op'[t] = op[t], loc'[t].epoch = loc[t].epoch, loc'[t].tok = loc[t].tok,
           pc'[t] \notin Reading \cup {"look", "fetch"} \cup SigningIn
    PROVE  Sound(t)'
<1>1. loc[t].tok \in Bundle
  BY Typed DEF Base
<1>2. op[t] \in {"tick", "recheck"} /\ loc[t].epoch = epoch'[Home[t]] => SwornNext(loc[t].tok)
  BY <1>1 DEF Sound
<1>3. op'[t] \in {"tick", "recheck"} /\ loc'[t].epoch = epoch'[Home[t]] => Sworn(loc[t].tok)'
  BY <1>2 DEF Sworn, SwornNext, Past, PastNext
<1>4. QED
  BY <1>3 DEF Sound, Reading

\* What the steps of a thread that reads, renews or judges have in common.
LEMMA ReaderFrame ==
    ASSUME Honest, OneProcess, NEW t \in Threads, TypeOK', Mono, Alone(t), over' = over, epoch' = epoch,
           pc'[t] \notin SigningIn \union {"signOutPublish", "signOutEpoch", "signOutPush"}
    PROVE  Lasting /\ \A u \in Threads \ {t} : Sound(u)'
<1>1. Lasting
  BY ReaderLasting
<1>2. \A u \in Threads \ {t} : Sound(u)'
  BY <1>1, OthersSound DEF Honest, Coherent, Lasting
<1>3. QED
  BY <1>1, <1>2

LEMMA QuietHonest ==
    ASSUME Honest, OneProcess, NEW t \in Threads, Quiet(t) \/ \E c \in Operations : Call(t, c)
    PROVE  StoreSound' /\ KeptSound' /\ \A u \in Threads : Sound(u)'
<1>0. /\ Base /\ TypeOK /\ TypeOK' /\ Mono /\ Alone(t) /\ Sound(t) /\ Fit(t) /\ StoreSound /\ KeptSound
      /\ UNCHANGED <<store, over, gen, epoch, unstored>>
      /\ pc'[t] \notin SigningIn \union {"signOutPublish", "signOutEpoch", "signOutPush"}
      /\ pc'[t] \notin {"keep", "publish", "hold"}
  BY StepBase, CallBase, QuietFacts DEF Honest, Coherent, Base, Turn, Step, Quiet
<1>1. Lasting /\ \A u \in Threads \ {t} : Sound(u)'
  BY <1>0, ReaderFrame
<1>2. StoreSound' /\ KeptSound'
  BY <1>0, <1>1, StoreFrame, KeptFrame DEF Lasting
<1>3. Sound(t)'
  <2>1. CASE Begin(t)
    <3>1. CASE Came(t, "signedOut", None)
      BY <3>1, CameSound, Weaker
    <3>2. CASE Starts(t)
      <4>1. op[t] \in {"tick", "recheck"} /\ loc[t].epoch = epoch'[Home[t]] => SwornNext(loc[t].tok)
        BY <1>0, <1>1, Typed DEF Sound, Lasting
      <4>2. op'[t] \in {"tick", "recheck"} /\ loc'[t].epoch = epoch'[Home[t]] => Sworn(loc[t].tok)'
        BY <3>2, <4>1 DEF Starts, Sworn, SwornNext, Past, PastNext
      <4>3. pc'[t] = "look" /\ loc'[t].over <= over'
        BY <1>0, <3>2, Typed DEF Starts
      <4>4. QED
        BY <4>2, <4>3 DEF Sound, Reading, SigningIn
    <3>3. QED
      BY <1>0, <2>1, <3>1, <3>2, BeginFacts
  <2>2. CASE Look(t)
    <3>1. pc[t] = "look" /\ Home[t] \in Procs /\ loc[t].over \in Nat /\ over \in Nat
      BY <1>0, <2>2, Typed DEF Look, At
    <3>2. ASSUME NEW b \in Bundle, Sealed(b), Read(t, b)
          PROVE  Sound(t)'
      <4>1. b = None \/ b.session > loc[t].over
        BY <1>0, <3>1, <3>2, Numbers DEF Sealed, Past, Sound
      <4>2. Sworn(b)
        BY <3>2, Weaker
      <4>3. QED
        BY <1>0, <1>1, <3>1, <3>2, <4>1, <4>2, ReadSound
    <3>3. CASE Standing(Home[t]) /\ Read(t, unstored[Home[t]].tok)
      <4>1. unstored[Home[t]].tok \in Bundle /\ Sealed(unstored[Home[t]].tok)
        BY <1>0, <3>1, <3>3, Typed DEF Standing, KeptSound
      <4>2. QED
        BY <3>2, <3>3, <4>1
    <3>4. CASE cache[Home[t]].kept /\ Read(t, cache[Home[t]].tok)
      <4>1. cache[Home[t]].tok = store /\ store \in Bundle
        BY <1>0, <3>1, <3>4, Typed DEF Honest, Coherent, Cached
      <4>2. Sealed(store)
        BY <1>0, <4>1, Weaker DEF StoreSound
      <4>3. QED
        BY <3>2, <3>4, <4>1, <4>2
    <3>5. CASE Moves(t, "fetch")
      <4>1. op[t] \in {"tick", "recheck"} /\ loc[t].epoch = epoch'[Home[t]] => SwornNext(loc[t].tok)
        BY <1>0, <1>1, Typed DEF Sound, Lasting
      <4>2. op'[t] \in {"tick", "recheck"} /\ loc'[t].epoch = epoch'[Home[t]] => Sworn(loc[t].tok)'
        BY <3>5, <4>1 DEF Moves, Same, Sworn, SwornNext, Past, PastNext
      <4>3. pc'[t] = "fetch" /\ loc'[t].over <= over'
        BY <1>0, <3>1, <3>5 DEF Moves, Same, Sound
      <4>4. QED
        BY <4>2, <4>3 DEF Sound, Reading, SigningIn
    <3>6. QED
      BY <1>0, <2>2, <3>3, <3>4, <3>5, LookFacts
  <2>3. CASE FetchFails(t)
    BY <1>0, <2>3, FetchFailsFacts, CameSound, Weaker
  <2>4. CASE Lock(t)
    <3>1. CASE Came(t, last[Home[t]], None)
      BY <3>1, CameSound, Weaker
    <3>2. CASE Locks(t)
      <4>1. pc[t] = "lock" /\ loc[t].phase = "first" /\ loc[t].tok \in Bundle
        BY <1>0, <2>4, Typed DEF Lock, At, Fit, Ordered
      <4>2. /\ op[t] \in {"tick", "recheck"} /\ loc[t].epoch = epoch'[Home[t]] => SwornNext(loc[t].tok)
            /\ gen[Home[t]] = loc[t].seen => SealedNext(loc[t].tok)
        BY <1>0, <1>1, <4>1 DEF Sound, Lasting
      <4>3. /\ op'[t] \in {"tick", "recheck"} /\ loc'[t].epoch = epoch'[Home[t]] => Sworn(loc[t].tok)'
            /\ gen[Home[t]] = loc[t].seen => Sealed(loc[t].tok)'
        BY <3>2, <4>2 DEF Locks, Sealed, SealedNext, Sworn, SwornNext, Past, PastNext
      <4>4. loc'[t].over <= over' /\ (loc'[t].tok = None \/ loc'[t].tok.session > loc'[t].over)
        BY <1>0, <3>2, <4>1 DEF Locks, Sound, Reading
      <4>5. QED
        BY <3>2, <4>3, <4>4 DEF Locks, Sound, Reading, SigningIn
    <3>3. QED
      BY <1>0, <2>4, <3>1, <3>2, LockFacts
  <2>5. CASE Granted(t)
    <3>1. /\ pc[t] = "post" /\ Takes(t, "granted", loc'[t].tok) /\ loc'[t].tok.session = loc[t].tok.session
          /\ loc[t].tok \in Bundle /\ loc[t].tok # None
      BY <1>0, <2>5, GrantedFacts, Typed DEF Granted, At, Fit, Ordered, Reading
    <3>2. /\ op[t] \in {"tick", "recheck"} /\ loc[t].epoch = epoch'[Home[t]] => SwornNext(loc[t].tok)
          /\ loc[t].basis = gen[Home[t]] => SealedNext(loc[t].tok)
      BY <1>0, <1>1, <3>1 DEF Sound, Lasting, Reading, UnderLock
    <3>3. /\ op'[t] \in {"tick", "recheck"} /\ loc'[t].epoch = epoch'[Home[t]] => Sworn(loc[t].tok)'
          /\ loc[t].basis = gen[Home[t]] => Sealed(loc[t].tok)'
      BY <3>1, <3>2 DEF Takes, Sealed, SealedNext, Sworn, SwornNext, Past, PastNext
    <3>4. loc'[t].over <= over' /\ loc'[t].tok.session > loc'[t].over
      BY <1>0, <3>1 DEF Takes, Sound, Reading
    <3>5. QED
      BY <1>0, <3>1, <3>3, <3>4 DEF Takes, Sound, SigningIn
  <2>6. CASE Denied(t)
    BY <1>0, <2>6, DeniedFacts, CameSound, Weaker
  <2>7. CASE Check(t)
    <3>1. pc[t] = "granted" /\ loc[t].tok \in Bundle
      BY <1>0, <2>7, Typed DEF Check, At
    <3>2. /\ op[t] \in {"tick", "recheck"} /\ loc[t].epoch = epoch'[Home[t]] => SwornNext(loc[t].tok)
          /\ loc[t].basis = gen[Home[t]] => SealedNext(loc[t].tok)
      BY <1>0, <1>1, <3>1 DEF Sound, Lasting, Reading, UnderLock
    <3>3. /\ op'[t] = op[t] /\ loc'[t].epoch = loc[t].epoch /\ loc'[t].tok = loc[t].tok /\ loc'[t].over = loc[t].over
          /\ loc'[t].basis = loc[t].basis /\ pc'[t] \in {"store", "look"}
      BY <1>0, <2>7, CheckFacts DEF Moves, Same, ReadsAgain
    <3>4. /\ op'[t] \in {"tick", "recheck"} /\ loc'[t].epoch = epoch'[Home[t]] => Sworn(loc[t].tok)'
          /\ loc[t].basis = gen[Home[t]] => Sealed(loc[t].tok)'
      BY <3>2, <3>3 DEF Sealed, SealedNext, Sworn, SwornNext, Past, PastNext
    <3>5. loc'[t].over <= over' /\ (loc'[t].tok = None \/ loc'[t].tok.session > loc'[t].over)
      BY <1>0, <3>1, <3>3 DEF Sound, Reading
    <3>6. QED
      BY <1>0, <3>3, <3>4, <3>5 DEF Sound, SigningIn
  <2>8. CASE Judged(t) \/ Probe(t) \/ Verdict(t) \/ Mark(t) \/ Dead(t) \/ CallOrgs(t)
    <3>1. CASE Ends(t)
      BY <3>1, EndsSound
    <3>2. CASE ~Ends(t)
      <4>1. op'[t] = op[t] /\ loc'[t].epoch = loc[t].epoch /\ loc'[t].tok = loc[t].tok
        BY <1>0, <2>8, <3>2, JudgedFacts, ProbeFacts, VerdictFacts, MarkFacts, DeadFacts, CallOrgsFacts
        DEF Moves, Same, Judges, Repeats
      <4>2. pc'[t] \notin Reading \cup {"look", "fetch"} \cup SigningIn
        BY <1>0, <2>8, Whereto DEF Reading, SigningIn
      <4>3. QED
        BY <1>0, <1>1, <4>1, <4>2, AsideSound DEF Lasting
    <3>3. QED
      BY <3>1, <3>2
  <2>9. CASE \E c \in Operations : Call(t, c)
    <3>1. PICK c \in Operations : Calls(t, c)
      BY <1>0, <2>9, CallFacts
    <3>2. loc'[t].tok = None /\ pc'[t] \notin Reading \cup {"look", "fetch"} \cup SigningIn
      BY <1>0, <3>1 DEF Calls, Fit, Ordered, Reading, SigningIn, Operations
    <3>3. Sworn(loc[t].tok)'
      BY <3>2 DEF Sworn, Past
    <3>4. QED
      BY <3>2, <3>3 DEF Sound, Reading
  <2>10. QED
    BY <2>1, <2>2, <2>3, <2>4, <2>5, <2>6, <2>7, <2>8, <2>9 DEF Quiet
<1>4. QED
  BY <1>1, <1>2, <1>3

\* Reads and renewals that write.
LEMMA WritesHonest ==
    ASSUME Honest, OneProcess, NEW t \in Threads, Fetch(t) \/ Keep(t) \/ Store(t) \/ Publish(t) \/ Hold(t)
    PROVE  StoreSound' /\ KeptSound' /\ \A u \in Threads : Sound(u)'
<1>0. /\ Base /\ TypeOK /\ TypeOK' /\ Mono /\ Alone(t) /\ Sound(t) /\ Fit(t) /\ StoreSound /\ KeptSound
      /\ Decided(t) /\ loc[t].tok \in Bundle /\ store \in Bundle /\ Home[t] \in Procs
      /\ loc[t].over \in Nat /\ over \in Nat
  <2>1. Step(t)
    BY DEF Step
  <2>2. QED
    BY <2>1, StepBase, Typed DEF Honest, Coherent, Base, Turn
<1>1. /\ UNCHANGED <<over, epoch>>
      /\ pc'[t] \notin SigningIn \union {"signOutPublish", "signOutEpoch", "signOutPush"}
  <2>1. UNCHANGED <<over, epoch>>
    BY DEF Fetch, Keep, Store, Publish, Hold, worldVars, procVars
  <2>2. QED
    BY <1>0, <2>1, Whereto DEF Outcomes, SigningIn
<1>2. Lasting /\ \A u \in Threads \ {t} : Sound(u)'
  BY <1>0, <1>1, ReaderFrame
<1>3. CASE Fetch(t)
  <2>1. UNCHANGED <<store, gen, unstored>> /\ pc[t] = "fetch" /\ Takes(t, "keep", store)
    BY <1>0, <1>3, FetchFacts DEF Fetch, At, worldVars, procVars
  <2>2. StoreSound' /\ KeptSound'
    BY <1>0, <1>2, <2>1, StoreFrame, KeptFrame DEF Lasting
  <2>3. StoredNext(store) /\ SealedNext(store) /\ SwornNext(store)
    BY <1>0, <1>2, Weaker DEF StoreSound, Lasting
  <2>4. Sealed(loc[t].tok)' /\ Sworn(loc[t].tok)'
    BY <2>1, <2>3 DEF Takes, Sealed, SealedNext, Sworn, SwornNext, Past, PastNext
  <2>5. loc[t].over <= over /\ (store = None \/ store.session > loc[t].over)
    BY <1>0, <2>1, Numbers DEF Sound, StoreSound, Stored, Past
  <2>6. Sound(t)'
    BY <1>1, <2>1, <2>4, <2>5 DEF Takes, Sound, SigningIn
  <2>7. QED
    BY <1>2, <2>2, <2>6
<1>4. CASE Keep(t)
  <2>1. UNCHANGED <<store, gen, unstored>> /\ pc[t] = "keep" /\ Read(t, loc[t].tok)
    BY <1>0, <1>4, KeepFacts DEF Keep, At, worldVars
  <2>2. StoreSound' /\ KeptSound'
    BY <1>0, <1>2, <2>1, StoreFrame, KeptFrame DEF Lasting
  <2>3. /\ op[t] \in {"tick", "recheck"} /\ loc[t].epoch = epoch[Home[t]] => Sworn(loc[t].tok)
        /\ loc[t].phase = "first" /\ loc[t].seen = gen[Home[t]] => Sealed(loc[t].tok)
        /\ loc[t].phase # "first" /\ loc[t].basis = gen[Home[t]] => Sealed(loc[t].tok)
        /\ loc[t].tok = None \/ loc[t].tok.session > loc[t].over
    BY <1>0, <2>1 DEF Sound, Reading, UnderLock
  <2>4. Sound(t)'
    BY <1>0, <1>1, <1>2, <2>1, <2>3, ReadSound
  <2>5. QED
    BY <1>2, <2>2, <2>4
<1>5. CASE Store(t)
  <2>1. UNCHANGED <<gen, unstored>> /\ pc[t] = "store" /\ (Moves(t, "publish") \/ Moves(t, "hold"))
        /\ store' \in {store, None, loc[t].tok}
    BY <1>0, <1>5, StoreFacts DEF Store, At, Write
  <2>2. loc[t].basis = gen[Home[t]] /\ Calm /\ Sealed(loc[t].tok) /\ Stored(loc[t].tok)
    BY <1>0, <2>1, Weaker DEF Decided, Sound, Reading, UnderLock
  <2>3. StoreSound'
    <3>1. StoredNext(store')
      BY <1>0, <1>2, <2>1, <2>2, Weaker DEF StoreSound, Lasting
    <3>2. QED
      BY <3>1 DEF StoreSound, Stored, StoredNext, Past, PastNext
  <2>4. KeptSound'
    BY <1>0, <1>2, <2>1, KeptFrame DEF Lasting
  <2>5. SealedNext(loc[t].tok) /\ SwornNext(loc[t].tok)
    BY <1>0, <1>2, <2>2, Weaker DEF Lasting
  <2>6. Sealed(loc[t].tok)' /\ Sworn(loc[t].tok)'
    BY <2>1, <2>5 DEF Moves, Same, Sealed, SealedNext, Sworn, SwornNext, Past, PastNext
  <2>7. loc[t].over <= over /\ (loc[t].tok = None \/ loc[t].tok.session > loc[t].over)
    BY <1>0, <2>1 DEF Sound, Reading
  <2>8. Sound(t)'
    BY <1>1, <2>1, <2>6, <2>7 DEF Moves, Same, Sound, SigningIn
  <2>9. QED
    BY <1>2, <2>3, <2>4, <2>8
<1>6. CASE Publish(t)
  <2>1. store' = store /\ pc[t] = "publish" /\ Came(t, "live", loc[t].tok)
        /\ \A x \in Procs : \/ unstored'[x].tok = None
                            \/ unstored'[x] = unstored[x] /\ gen'[x] = gen[x]
    BY <1>0, <1>6, PublishFacts, SupersedeFacts DEF Publish, At, worldVars
  <2>2. StoreSound' /\ KeptSound'
    BY <1>0, <1>2, <2>1, StoreFrame, KeptFrame DEF Lasting
  <2>3. loc[t].basis = gen[Home[t]] /\ Sealed(loc[t].tok)
    BY <1>0, <2>1 DEF Decided, Sound, Reading, UnderLock
  <2>4. SwornNext(loc[t].tok)
    BY <1>0, <1>2, <2>3, Weaker DEF Lasting
  <2>5. Sound(t)'
    BY <2>1, <2>4, CameSound
  <2>6. QED
    BY <1>2, <2>2, <2>5
<1>7. CASE Hold(t)
  <2>1. store' = store /\ pc[t] = "hold"
    BY <1>7 DEF Hold, At, worldVars
  <2>2. StoreSound'
    BY <1>0, <1>2, <2>1, StoreFrame DEF Lasting
  <2>3. CASE gen[Home[t]] = loc[t].basis /\ Holds(Home[t], loc[t].tok) /\ Came(t, "live", loc[t].tok)
    <3>1. SealedNext(loc[t].tok) /\ SwornNext(loc[t].tok)
      BY <1>0, <1>2, <2>1, <2>3, Weaker DEF Sound, Reading, UnderLock, Lasting
    <3>2. KeptSound'
      <4>1. \A x \in Procs : unstored'[x].tok = loc[t].tok
        BY <1>0, <2>3 DEF Holds, OneProcess
      <4>2. \A x \in Procs : SealedNext(unstored'[x].tok)
        BY <3>1, <4>1
      <4>3. QED
        BY <4>2 DEF KeptSound, Sealed, SealedNext, Past, PastNext
    <3>3. Sound(t)'
      BY <2>3, <3>1, CameSound
    <3>4. QED
      BY <1>2, <2>2, <3>2, <3>3
  <2>4. CASE UNCHANGED <<gen, rejected, unstored>> /\ Came(t, "unavailable", None)
    <3>1. KeptSound'
      BY <1>0, <1>2, <2>4, KeptFrame DEF Lasting
    <3>2. Sound(t)'
      BY <2>4, CameSound, Weaker
    <3>3. QED
      BY <1>2, <2>2, <3>1, <3>2
  <2>5. QED
    BY <1>0, <1>7, <2>3, <2>4, HoldFacts
<1>8. QED
  BY <1>3, <1>4, <1>5, <1>6, <1>7

LEMMA PushHonest ==
    ASSUME Honest, OneProcess, NEW t \in Threads, Push(t) \/ Recovered(t) \/ Drop(t)
    PROVE  StoreSound' /\ KeptSound' /\ \A u \in Threads : Sound(u)'
<1>0. /\ Base /\ TypeOK /\ TypeOK' /\ Mono /\ Alone(t) /\ StoreSound /\ KeptSound /\ Ends(t)
  <2>1. Step(t)
    BY DEF Step
  <2>2. QED
    BY <2>1, StepBase, PushFacts DEF Honest, Coherent, Base, Turn
<1>1. UNCHANGED <<store, over, gen, epoch, unstored>>
  BY DEF Push, Recovered, Drop, worldVars
<1>2. Lasting /\ \A u \in Threads \ {t} : Sound(u)'
  BY <1>0, <1>1, ReaderFrame DEF Ends, SigningIn
<1>3. StoreSound' /\ KeptSound'
  BY <1>0, <1>1, <1>2, StoreFrame, KeptFrame DEF Lasting
<1>4. QED
  BY <1>0, <1>2, <1>3, EndsSound

-----------------------------------------------------------------------------
(* Sign-in and sign-out, by the one thread that makes them.                *)

LEMMA OnlyHand ==
    ASSUME Base, OneHand, NEW t \in Threads, NEW u \in Threads, pc[t] \in HandLabels, pc[u] \in HandLabels
    PROVE  t = u
<1>1. Ordered(t) /\ Ordered(u)
  BY DEF Base, Fit
<1>2. Roles[t] \cap {"signIn", "signOut"} # {} /\ Roles[u] \cap {"signIn", "signOut"} # {}
  BY <1>1 DEF Ordered
<1>3. QED
  BY <1>2 DEF OneHand

LEMMA HandFrame ==
    ASSUME Base, OneHand, NEW t \in Threads, pc[t] \in HandLabels, Alone(t)
    PROVE  /\ \A u \in Threads \ {t} : pc[u] \notin HandLabels /\ pc'[u] \notin HandLabels
           /\ \A u \in Threads : pc[u] \in HandLabels \/ pc'[u] \in HandLabels => u = t
    BY OnlyHand DEF Alone

\* Everything the keychain holds is older than a bundle issued now.
LEMMA SignInHonest ==
    ASSUME Honest, OneProcess, OneHand, NEW t \in Threads, SignIn(t)
    PROVE  StoreSound' /\ KeptSound' /\ \A u \in Threads : Sound(u)'
<1>0. /\ Base /\ TypeOK /\ TypeOK' /\ Mono /\ Alone(t) /\ Sound(t) /\ Fit(t) /\ StoreSound /\ KeptSound /\ Stocked
  <2>1. Step(t)
    BY DEF Step
  <2>2. QED
    BY <2>1, StepBase DEF Honest, Coherent, Base, Turn
<1>1. /\ UNCHANGED <<over, gen, epoch, unstored>> /\ pc[t] = "signIn" /\ Takes(t, "signInPublish", store')
      /\ store'.session = issued + 1
  BY <1>0, SignInFacts DEF SignIn, At
<1>2. /\ \A u \in Threads \ {t} : pc[u] \notin HandLabels /\ pc'[u] \notin HandLabels
      /\ \A u \in Threads : pc'[u] \in HandLabels => u = t
  BY <1>0, <1>1, HandFrame DEF HandLabels
<1>3. \A b \in Bundle : (Sealed(b) => SealedNext(b)) /\ (Sworn(b) => SwornNext(b))
  BY <1>1, <1>2 DEF Takes, Sealed, Sworn, Past, SealedNext, SwornNext, PastNext, HandLabels, SigningIn
<1>4. \A u \in Threads \ {t} : Sound(u)'
  BY <1>0, <1>1, <1>3, OthersSound DEF Honest, Coherent
<1>5. issued + 1 > over /\ issued + 1 \in Nat
  BY <1>0, Typed DEF Stocked
<1>6. StoreSound'
  <2>1. loc'[t].tok = store' /\ store'.session >= store'.session
    BY <1>1, <1>5 DEF Takes
  <2>2. StoredNext(store')
    BY <1>1, <1>2, <1>5, <2>1 DEF StoredNext, PastNext, Takes, HandLabels, SigningIn
  <2>3. QED
    BY <2>2 DEF StoreSound, Stored, StoredNext, Past, PastNext
<1>7. KeptSound'
  BY <1>0, <1>1, <1>3, KeptFrame
<1>8. Sound(t)'
  <2>1. op'[t] = op[t] /\ op[t] \in {"signIn", "signOut"} /\ loc'[t].tok.session > over'
    BY <1>0, <1>1, <1>5 DEF Takes, Fit, Ordered, HandLabels
  <2>2. QED
    BY <1>1, <2>1 DEF Takes, Sound, Reading
<1>9. QED
  BY <1>4, <1>6, <1>7, <1>8

LEMMA HandOp ==
    ASSUME Base, NEW t \in Threads, pc[t] \in HandLabels
    PROVE  op[t] \in {"signIn", "signOut"}
    BY DEF Base, Fit, Ordered

LEMMA FailsHonest ==
    ASSUME Honest, OneProcess, NEW t \in Threads, SignInFails(t) \/ SignOutFails(t)
    PROVE  StoreSound' /\ KeptSound' /\ \A u \in Threads : Sound(u)'
<1>0. /\ Base /\ TypeOK /\ TypeOK' /\ Mono /\ Alone(t) /\ StoreSound /\ KeptSound
  <2>1. Step(t)
    BY DEF Step
  <2>2. QED
    BY <2>1, StepBase DEF Honest, Coherent, Base, Turn
<1>1. /\ Ends(t) /\ store' \in {store, None} /\ UNCHANGED <<over, gen, epoch>>
      /\ unstored' = unstored
  BY <1>0, SignInFailsFacts, SignOutFailsFacts DEF SignInFails, SignOutFails, Write
<1>2. Lasting /\ \A u \in Threads \ {t} : Sound(u)'
  BY <1>0, <1>1, ReaderFrame DEF Ends, SigningIn
<1>3. StoreSound' /\ KeptSound'
  BY <1>0, <1>1, <1>2, StoreFrame, KeptFrame DEF Lasting
<1>4. QED
  BY <1>1, <1>2, <1>3, EndsSound

LEMMA SignInPublishHonest ==
    ASSUME Honest, OneProcess, OneHand, NEW t \in Threads, SignInPublish(t)
    PROVE  StoreSound' /\ KeptSound' /\ \A u \in Threads : Sound(u)'
<1>0. /\ Base /\ TypeOK /\ TypeOK' /\ Mono /\ Alone(t) /\ Sound(t) /\ Fit(t) /\ StoreSound /\ KeptSound
      /\ Home[t] \in Procs /\ gen[Home[t]] \in Nat
  <2>1. Step(t)
    BY DEF Step
  <2>2. QED
    BY <2>1, StepBase, Typed DEF Honest, Coherent, Base, Turn
<1>1. /\ UNCHANGED <<store, over, epoch>> /\ pc[t] = "signInPublish" /\ Moves(t, "signInEpoch")
      /\ unstored'[Home[t]].tok = None /\ gen'[Home[t]] = gen[Home[t]] + 1
  BY <1>0, SignInPublishFacts, SupersedeFacts DEF SignInPublish, At, worldVars
<1>2. \A u \in Threads \ {t} : pc[u] \notin HandLabels /\ pc'[u] \notin HandLabels
  BY <1>0, <1>1, HandFrame DEF HandLabels, SigningIn
<1>3. \A b \in Bundle : (Stored(b) => StoredNext(b)) /\ (Sworn(b) => SwornNext(b))
  BY <1>1, <1>2 DEF Moves, Same, Stored, Sworn, Past, StoredNext, SwornNext, PastNext, HandLabels, SigningIn
<1>4. \A u \in Threads \ {t} : Sound(u)'
  BY <1>0, <1>1, <1>3, OthersSound DEF Honest, Coherent
<1>5. StoreSound'
  BY <1>0, <1>1, <1>3, StoreFrame
<1>6. KeptSound'
  BY <1>0, <1>1 DEF KeptSound, OneProcess
<1>7. Sound(t)'
  <2>1. op[t] \in {"signIn", "signOut"}
    BY <1>0, <1>1, HandOp DEF HandLabels, SigningIn
  <2>2. QED
    BY <1>0, <1>1, <2>1 DEF Moves, Same, Sound, Reading, SigningIn
<1>8. QED
  BY <1>4, <1>5, <1>6, <1>7

LEMMA AdvanceHonest ==
    ASSUME Honest, OneProcess, OneHand, NEW t \in Threads, Advance(t)
    PROVE  StoreSound' /\ KeptSound' /\ \A u \in Threads : Sound(u)'
<1>0. /\ Base /\ TypeOK /\ TypeOK' /\ Mono /\ Alone(t) /\ Sound(t) /\ Fit(t) /\ StoreSound /\ KeptSound
      /\ Home[t] \in Procs /\ epoch[Home[t]] \in Nat
  <2>1. Step(t)
    BY DEF Step
  <2>2. QED
    BY <2>1, StepBase, Typed DEF Honest, Coherent, Base, Turn
<1>1. /\ UNCHANGED <<store, over, gen, unstored>> /\ epoch'[Home[t]] = epoch[Home[t]] + 1
      /\ \/ pc[t] = "signInEpoch" /\ Moves(t, "stamp")
         \/ pc[t] = "signOutEpoch" /\ Moves(t, "signOutPush")
  BY <1>0, AdvanceFacts DEF Advance, worldVars, TypeOK
<1>2. \A u \in Threads \ {t} : pc[u] \notin HandLabels /\ pc'[u] \notin HandLabels
  BY <1>0, <1>1, HandFrame DEF HandLabels, SigningIn
<1>3. \A b \in Bundle : (Stored(b) => StoredNext(b)) /\ (Sealed(b) => SealedNext(b))
  BY <1>1, <1>2 DEF Moves, Same, Stored, Sealed, Past, StoredNext, SealedNext, PastNext, HandLabels, SigningIn
<1>4. \A u \in Threads \ {t} : Sound(u)'
  BY <1>0, <1>1, <1>3, OthersSound DEF Honest, Coherent
<1>5. StoreSound' /\ KeptSound'
  BY <1>0, <1>1, <1>3, StoreFrame, KeptFrame
<1>6. Sound(t)'
  <2>1. op[t] \in {"signIn", "signOut"}
    BY <1>0, <1>1, HandOp DEF HandLabels, SigningIn
  <2>2. QED
    BY <1>0, <1>1, <2>1 DEF Moves, Same, Sound, Reading, SigningIn
<1>7. QED
  BY <1>4, <1>5, <1>6

LEMMA StampHonest ==
    ASSUME Honest, OneProcess, OneHand, NEW t \in Threads, Stamp(t)
    PROVE  StoreSound' /\ KeptSound' /\ \A u \in Threads : Sound(u)'
<1>0. /\ Base /\ TypeOK /\ TypeOK' /\ Mono /\ Alone(t) /\ Sound(t) /\ Fit(t) /\ StoreSound /\ KeptSound
  <2>1. Step(t)
    BY DEF Step
  <2>2. QED
    BY <2>1, StepBase DEF Honest, Coherent, Base, Turn
<1>1. UNCHANGED <<store, over, gen, epoch, unstored>> /\ pc[t] = "stamp" /\ Moves(t, "signInPush")
  BY <1>0, StampFacts DEF Stamp, At, procVars
<1>2. \A u \in Threads \ {t} : pc[u] \notin HandLabels /\ pc'[u] \notin HandLabels
  BY <1>0, <1>1, HandFrame DEF HandLabels, SigningIn
<1>3. Lasting
  BY <1>1, <1>2 DEF Lasting, Moves, Same, Stored, Sealed, Sworn, Past, StoredNext, SealedNext, SwornNext, PastNext,
                    HandLabels, SigningIn
<1>4. \A u \in Threads \ {t} : Sound(u)'
  BY <1>0, <1>1, <1>3, OthersSound DEF Honest, Coherent, Lasting
<1>5. StoreSound' /\ KeptSound'
  BY <1>0, <1>1, <1>3, StoreFrame, KeptFrame DEF Lasting
<1>6. Sound(t)'
  <2>1. op[t] \in {"signIn", "signOut"}
    BY <1>0, <1>1, HandOp DEF HandLabels, SigningIn
  <2>2. QED
    BY <1>0, <1>1, <2>1 DEF Moves, Same, Sound, Reading, SigningIn
<1>7. QED
  BY <1>4, <1>5, <1>6

\* The sessions a sign-in or sign-out ends are over once its push is made.
LEMMA EndingHonest ==
    ASSUME Honest, OneProcess, OneHand, NEW t \in Threads, SignInPush(t) \/ SignOutPush(t)
    PROVE  StoreSound' /\ KeptSound' /\ \A u \in Threads : Sound(u)'
<1>0. /\ Base /\ TypeOK /\ TypeOK' /\ Mono /\ Alone(t) /\ StoreSound /\ KeptSound /\ Ends(t)
      /\ loc[t].tok \in Bundle /\ loc[t].over \in Nat /\ over \in Nat
  <2>1. Step(t)
    BY DEF Step
  <2>2. QED
    BY <2>1, StepBase, SignInPushFacts, SignOutPushFacts, Typed DEF Honest, Coherent, Base, Turn
<1>1. /\ UNCHANGED <<store, gen, epoch, unstored>>
      /\ \/ pc[t] = "signInPush" /\ over' = Larger(over, loc[t].tok.session - 1)
         \/ pc[t] = "signOutPush" /\ over' = Larger(over, loc[t].over)
  BY DEF SignInPush, SignOutPush, At
<1>2. \A u \in Threads \ {t} : pc[u] \notin HandLabels /\ pc'[u] \notin HandLabels
  BY <1>0, <1>1, HandFrame DEF HandLabels, SigningIn
<1>3. Lasting
  <2>1. SUFFICES ASSUME NEW b \in Bundle, Sworn(b)
                 PROVE  b = None \/ b.session > over'
    BY <1>0, <1>2, Weaker DEF Ends, Lasting, StoredNext, SealedNext, SwornNext, PastNext, HandLabels, SigningIn
  <2>2. b.session \in Nat /\ loc[t].tok.session \in Nat
    BY <1>0, Numbers
  <2>3. QED
    BY <1>0, <1>1, <2>1, <2>2 DEF Sworn, Past, Larger
<1>4. \A u \in Threads \ {t} : Sound(u)'
  BY <1>0, <1>1, <1>2, <1>3, OthersSound DEF Honest, Coherent, Lasting, HandLabels
<1>5. StoreSound' /\ KeptSound'
  BY <1>0, <1>1, <1>3, StoreFrame, KeptFrame DEF Lasting
<1>6. QED
  BY <1>0, <1>4, <1>5, EndsSound

\* Without the kept bundle nothing that was vouched for is lost.
LEMMA SignOutHonest ==
    ASSUME Honest, OneProcess, NEW t \in Threads, SignOut(t)
    PROVE  StoreSound' /\ KeptSound' /\ \A u \in Threads : Sound(u)'
<1>0. /\ Base /\ TypeOK /\ TypeOK' /\ Mono /\ Alone(t) /\ Sound(t) /\ Fit(t) /\ StoreSound /\ KeptSound
  <2>1. Step(t)
    BY DEF Step
  <2>2. QED
    BY <2>1, StepBase DEF Honest, Coherent, Base, Turn
<1>1. /\ UNCHANGED <<store, over, gen, epoch>> /\ Moves(t, "signOutDelete")
      /\ \A x \in Procs : unstored'[x].tok = None \/ unstored'[x] = unstored[x]
  BY <1>0, SignOutFacts DEF SignOut, worldVars, Drops
<1>2. Lasting /\ \A u \in Threads \ {t} : Sound(u)'
  BY <1>0, <1>1, ReaderFrame DEF Moves, SigningIn
<1>3. StoreSound' /\ KeptSound'
  BY <1>0, <1>1, <1>2, StoreFrame, KeptFrame DEF Lasting
<1>4. Sound(t)'
  BY <1>0, <1>1, <1>2, AsideSound DEF Moves, Same, Lasting, Reading, SigningIn
<1>5. QED
  BY <1>2, <1>3, <1>4

LEMMA SignOutDeleteHonest ==
    ASSUME Honest, OneProcess, OneHand, NEW t \in Threads, SignOutDelete(t)
    PROVE  StoreSound' /\ KeptSound' /\ \A u \in Threads : Sound(u)'
<1>0. /\ Base /\ TypeOK /\ TypeOK' /\ Mono /\ Alone(t) /\ StoreSound /\ KeptSound
  <2>1. Step(t)
    BY DEF Step
  <2>2. QED
    BY <2>1, StepBase DEF Honest, Coherent, Base, Turn
<1>1. /\ UNCHANGED <<over, gen, epoch, unstored>> /\ pc[t] = "signOutDelete" /\ Outs(t)
      /\ store' = None
  BY <1>0, SignOutDeleteFacts DEF SignOutDelete, At, Write
<1>2. \A u \in Threads \ {t} : pc[u] \notin HandLabels /\ pc'[u] \notin HandLabels
  BY <1>0, <1>1, HandFrame DEF HandLabels
<1>3. \A b \in Bundle : (Sealed(b) => SealedNext(b)) /\ (Sworn(b) => SwornNext(b))
  BY <1>1, <1>2 DEF Outs, Sealed, Sworn, Past, SealedNext, SwornNext, PastNext, HandLabels, SigningIn
<1>4. \A u \in Threads \ {t} : Sound(u)'
  BY <1>0, <1>1, <1>3, OthersSound DEF Honest, Coherent
<1>5. StoreSound'
  BY <1>1 DEF StoreSound, Stored, Past
<1>6. KeptSound'
  BY <1>0, <1>1, <1>3, KeptFrame
<1>7. Sound(t)'
  <2>1. op[t] \in {"signIn", "signOut"}
    BY <1>0, <1>1, HandOp DEF HandLabels
  <2>2. QED
    BY <1>1, <2>1 DEF Outs, Sound, Reading, SigningIn
<1>8. QED
  BY <1>4, <1>5, <1>6, <1>7

LEMMA SignOutPublishHonest ==
    ASSUME Honest, OneProcess, OneHand, NEW t \in Threads, SignOutPublish(t)
    PROVE  StoreSound' /\ KeptSound' /\ \A u \in Threads : Sound(u)'
<1>0. /\ Base /\ TypeOK /\ TypeOK' /\ Mono /\ Alone(t) /\ StoreSound /\ KeptSound
      /\ Home[t] \in Procs /\ gen[Home[t]] \in Nat
  <2>1. Step(t)
    BY DEF Step
  <2>2. QED
    BY <2>1, StepBase, Typed DEF Honest, Coherent, Base, Turn
<1>1. /\ UNCHANGED <<store, over, epoch, unstored>> /\ pc[t] = "signOutPublish" /\ Moves(t, "signOutEpoch")
      /\ gen'[Home[t]] = gen[Home[t]] + 1
  BY <1>0, SignOutPublishFacts DEF SignOutPublish, At, worldVars, TypeOK
<1>2. \A u \in Threads \ {t} : pc[u] \notin HandLabels /\ pc'[u] \notin HandLabels
  BY <1>0, <1>1, HandFrame DEF HandLabels
<1>3. \A b \in Bundle : (Stored(b) => StoredNext(b)) /\ (Sworn(b) => SwornNext(b))
  BY <1>1, <1>2 DEF Moves, Same, Stored, Sworn, Past, StoredNext, SwornNext, PastNext, HandLabels, SigningIn
<1>4. \A u \in Threads \ {t} : Sound(u)'
  BY <1>0, <1>1, <1>3, OthersSound DEF Honest, Coherent
<1>5. StoreSound'
  BY <1>0, <1>1, <1>3, StoreFrame
<1>6. KeptSound'
  <2>1. \A x \in Procs : gen'[x] = gen[x] + 1
    BY <1>0, <1>1 DEF OneProcess
  <2>2. QED
    BY <1>0, <1>1, <2>1, KeptFrame
<1>7. Sound(t)'
  <2>1. op[t] \in {"signIn", "signOut"}
    BY <1>0, <1>1, HandOp DEF HandLabels
  <2>2. QED
    BY <1>1, <2>1 DEF Moves, Same, Sound, Reading, SigningIn
<1>8. QED
  BY <1>4, <1>5, <1>6, <1>7

LEMMA StepHonest ==
    ASSUME Honest, OneProcess, OneHand, NEW t \in Threads, Step(t) \/ \E c \in Operations : Call(t, c)
    PROVE  StoreSound' /\ KeptSound' /\ \A u \in Threads : Sound(u)'
    BY QuietHonest, WritesHonest, PushHonest, SignInHonest, FailsHonest, SignInPublishHonest, AdvanceHonest,
       StampHonest, EndingHonest, SignOutHonest, SignOutDeleteHonest, SignOutPublishHonest DEF Step, Quiet

LEMMA InitCoherent == Init => Coherent
<1> SUFFICES ASSUME Init PROVE Coherent
  OBVIOUS
<1>1. Cached /\ \A t \in Threads : Decided(t)
  BY DEF Init, Cached, Decided, Uncached
<1>2. QED
  BY <1>1, InitBase DEF Coherent

LEMMA NextCoherent ==
    ASSUME OneProcess, Prompt
    PROVE  Coherent /\ [Next]_vars => Coherent'
<1> SUFFICES ASSUME Coherent, [Next]_vars PROVE Coherent'
  OBVIOUS
<1>0. Base /\ Base' /\ Cached /\ \A t \in Threads : Decided(t)
  BY NextBase DEF Coherent
<1>1. ASSUME NEW t \in Threads, Step(t) \/ \E o \in Operations : Call(t, o)
      PROVE  Coherent'
  BY <1>0, <1>1, CachedStep, DecidedStep DEF Coherent
<1>2. ASSUME UNCHANGED <<store, procVars, threadVars>>
      PROVE  Coherent'
  BY <1>0, <1>2 DEF Coherent, Cached, Decided, Calm, procVars, threadVars
<1>3. CASE Expire \/ (\E s \in 1 .. MaxTokens : Revoke(s)) \/ UNCHANGED vars
  BY <1>2, <1>3 DEF Expire, Revoke, vars, worldVars
<1>4. QED
  BY <1>1, <1>3 DEF Next

LEMMA InitHonest == Init => Honest
<1> SUFFICES ASSUME Init PROVE Honest
  OBVIOUS
<1>1. \A t \in Threads : pc[t] = "idle" /\ op[t] = "none"
  BY DEF Init
<1>2. store.session = 1 /\ over = 0
  BY DEF Init
<1>3. StoreSound
  BY <1>1, <1>2 DEF StoreSound, Stored, Past, SigningIn
<1>4. KeptSound
  BY DEF Init, KeptSound, Nothing
<1>5. \A t \in Threads : Sound(t)
  BY <1>1 DEF Sound, Reading, SigningIn
<1>6. QED
  BY <1>3, <1>4, <1>5, InitCoherent DEF Honest

LEMMA NextHonest ==
    ASSUME OneProcess, Prompt, OneHand
    PROVE  Honest /\ [Next]_vars => Honest'
<1> SUFFICES ASSUME Honest, [Next]_vars PROVE Honest'
  OBVIOUS
<1>0. Coherent /\ Coherent'
  BY NextCoherent DEF Honest
<1>1. ASSUME NEW t \in Threads, Step(t) \/ \E o \in Operations : Call(t, o)
      PROVE  Honest'
  BY <1>0, <1>1, StepHonest DEF Honest
<1>2. ASSUME UNCHANGED <<store, over, procVars, threadVars>>
      PROVE  Honest'
  BY <1>0, <1>2 DEF Honest, StoreSound, KeptSound, Sound, Stored, Sealed, Sworn, Past, UnderLock, procVars, threadVars
<1>3. CASE Expire \/ (\E s \in 1 .. MaxTokens : Revoke(s)) \/ UNCHANGED vars
  BY <1>2, <1>3 DEF Expire, Revoke, vars, worldVars
<1>4. QED
  BY <1>1, <1>3 DEF Next

\* What a push puts into the engine the epoch has vouched for.
LEMMA EngineStep ==
    ASSUME Honest, OneProcess, OneHand, NoRelay, EngineSound,
           NEW t \in Threads, Step(t) \/ \E c \in Operations : Call(t, c)
    PROVE  EngineSound'
<1>0. /\ Base /\ TypeOK /\ TypeOK' /\ Sound(t) /\ Fit(t) /\ Home[t] \in Procs /\ loc[t].tok \in Bundle
      /\ over \in Nat /\ loc[t].tok.session \in Nat
  <2>1. Base /\ TypeOK /\ TypeOK' /\ Sound(t) /\ Fit(t)
    BY StepBase, CallBase DEF Honest, Coherent, Base
  <2>2. Home[t] \in Procs /\ loc[t].tok \in Bundle /\ over \in Nat
    BY <2>1, Typed
  <2>3. QED
    BY <2>1, <2>2, Numbers
<1>1. CASE UNCHANGED <<engine, over>>
  BY <1>1 DEF EngineSound
<1>2. ASSUME over' = over, NEW b \in Bundle, b = None \/ b.session > over,
             engine' = [engine EXCEPT ![Home[t]] = b] \/ engine' = engine
      PROVE  EngineSound'
  <2>1. \A x \in Procs : engine'[x] = b \/ engine'[x] = engine[x]
    BY <1>0, <1>2 DEF TypeOK
  <2>2. QED
    BY <1>2, <2>1 DEF EngineSound
<1>3. CASE Push(t)
  <2>1. op[t] = "tick"
    BY <1>0, <1>3 DEF Push, At, Fit, Ordered, NoRelay
  <2>2. \/ engine' = [engine EXCEPT ![Home[t]] = engine[Home[t]]]
        \/ epoch[Home[t]] = loc[t].epoch /\ engine' = [engine EXCEPT ![Home[t]] = loc[t].tok]
    BY <1>3, <2>1 DEF Push
  <2>3. over' = over
    BY <1>3 DEF Push, worldVars
  <2>4. epoch[Home[t]] = loc[t].epoch => loc[t].tok = None \/ loc[t].tok.session > over
    BY <1>0, <2>1 DEF Sound, Sworn, Past
  <2>5. engine' = [engine EXCEPT ![Home[t]] = engine[Home[t]]] => engine' = engine
    BY <1>0 DEF TypeOK
  <2>6. QED
    BY <1>0, <1>1, <1>2, <2>2, <2>3, <2>4, <2>5
<1>4. CASE Recovered(t)
  <2>1. op[t] = "recheck"
    BY <1>0, <1>4 DEF Recovered, At, Fit, Ordered
  <2>2. \/ engine' = [engine EXCEPT ![Home[t]] = engine[Home[t]]]
        \/ epoch[Home[t]] = loc[t].epoch /\ engine' = [engine EXCEPT ![Home[t]] = loc[t].tok]
    BY <1>4, <2>1 DEF Recovered
  <2>3. over' = over
    BY <1>4 DEF Recovered, worldVars
  <2>4. epoch[Home[t]] = loc[t].epoch => loc[t].tok = None \/ loc[t].tok.session > over
    BY <1>0, <2>1 DEF Sound, Sworn, Past
  <2>5. engine' = [engine EXCEPT ![Home[t]] = engine[Home[t]]] => engine' = engine
    BY <1>0 DEF TypeOK
  <2>6. QED
    BY <1>0, <1>1, <1>2, <2>2, <2>3, <2>4, <2>5
<1>5. CASE Drop(t)
  BY <1>2, <1>5, Blanks DEF Drop, worldVars
<1>6. CASE SignInPush(t)
  <2>1. /\ engine' = [engine EXCEPT ![Home[t]] = loc[t].tok] /\ pc[t] = "signInPush"
        /\ over' = Larger(over, loc[t].tok.session - 1)
    BY <1>6 DEF SignInPush, At
  <2>2. loc[t].tok.session > over
    BY <1>0, <2>1 DEF Sound, SigningIn
  <2>3. loc[t].tok.session > over'
    BY <1>0, <2>1, <2>2 DEF Larger
  <2>4. \A x \in Procs : engine'[x] = loc[t].tok
    BY <1>0, <2>1 DEF TypeOK, OneProcess
  <2>5. QED
    BY <2>3, <2>4 DEF EngineSound
<1>7. CASE SignOutPush(t)
  <2>1. engine' = [engine EXCEPT ![Home[t]] = None]
    BY <1>7 DEF SignOutPush
  <2>2. \A x \in Procs : engine'[x] = None
    BY <1>0, <2>1 DEF TypeOK, OneProcess
  <2>3. QED
    BY <2>2 DEF EngineSound
<1>8. CASE Quiet(t) \/ \E c \in Operations : Call(t, c)
  BY <1>0, <1>1, <1>8, QuietFacts
<1>9. CASE Fetch(t) \/ Keep(t) \/ Store(t) \/ Publish(t) \/ Hold(t)
  BY <1>1, <1>9 DEF Fetch, Keep, Store, Publish, Hold, worldVars, procVars
<1>10. CASE \/ SignIn(t) \/ SignInFails(t) \/ SignInPublish(t) \/ Advance(t) \/ Stamp(t)
            \/ SignOut(t) \/ SignOutDelete(t) \/ SignOutFails(t) \/ SignOutPublish(t)
  BY <1>1, <1>10 DEF SignIn, SignInFails, SignInPublish, Advance, Stamp, SignOut, SignOutDelete, SignOutFails, SignOutPublish,
                     worldVars, procVars
<1>11. QED
  BY <1>3, <1>4, <1>5, <1>6, <1>7, <1>8, <1>9, <1>10 DEF Step, Quiet

LEMMA HonestEnded ==
    ASSUME Honest, EngineSound
    PROVE  EndedSessionsStayEnded
<1> SUFFICES ASSUME NEW x \in Procs
             PROVE  InForce(x) = None \/ InForce(x).session > over
  BY DEF EndedSessionsStayEnded, EngineSound
<1>1. CASE Standing(x)
  BY <1>1 DEF Standing, InForce, Honest, KeptSound, Sealed, Past
<1>2. CASE ~Standing(x)
  BY <1>2 DEF InForce, Honest, StoreSound, Stored, Past
<1>3. QED
  BY <1>1, <1>2

\* A session that a finished sign-out or a newer sign-in has ended is neither
\* read nor injected again: in one process without a relay, whose threads are
\* not suspended between a check and its use and of which one signs in and out.
THEOREM EndedStayEnded ==
    ASSUME OneProcess, Prompt, OneHand, NoRelay
    PROVE  Spec => []EndedSessionsStayEnded
<1> DEFINE Inv == Honest /\ EngineSound
<1>1. Init => Inv
  <2>1. Init => EngineSound
    BY DEF Init, EngineSound
  <2>2. QED
    BY <2>1, InitHonest
<1>2. Inv /\ [Next]_vars => Inv'
  <2> SUFFICES ASSUME Inv, [Next]_vars PROVE Inv'
    OBVIOUS
  <2>1. Honest'
    BY NextHonest
  <2>2. ASSUME NEW t \in Threads, Step(t) \/ \E o \in Operations : Call(t, o)
        PROVE  EngineSound'
    BY <2>2, EngineStep
  <2>3. ASSUME Expire \/ (\E s \in 1 .. MaxTokens : Revoke(s)) \/ UNCHANGED vars
        PROVE  EngineSound'
    <3>1. UNCHANGED <<engine, over>>
      BY <2>3 DEF Expire, Revoke, vars, worldVars, procVars
    <3>2. EngineSound
      OBVIOUS
    <3>3. QED
      BY <3>1, <3>2 DEF EngineSound
  <2>4. QED
    BY <2>1, <2>2, <2>3 DEF Next
<1>3. Inv => EndedSessionsStayEnded
  BY HonestEnded
<1>4. QED
  BY <1>1, <1>2, <1>3, PTL DEF Spec

\* Only a read or a renewal that has succeeded returns a bundle.
LEMMA LiveRead ==
    ASSUME NEW t \in Threads, NEW b \in Bundle, Read(t, b), loc[t].res # "live", loc'[t].res = "live"
    PROVE  b # None /\ loc'[t].tok = b
    BY DEF Read, Came, Onward, Takes, Ends, Answers

\* Nothing else returns a bundle.
LEMMA LiveBy ==
    ASSUME TypeOK, NEW t \in Threads, Step(t) \/ (\E c \in Operations : Call(t, c)),
           loc[t].res # "live", ~(Look(t) \/ Keep(t) \/ Publish(t) \/ Hold(t))
    PROVE  loc'[t].res # "live"
<1>1. CASE Lock(t)
  <2>1. last[Home[t]] # "live"
    BY Homes DEF TypeOK
  <2>2. QED
    BY <1>1, <2>1, LockFacts DEF Came, Ends, Answers, Locks
<1>2. CASE Begin(t) \/ Fetch(t) \/ FetchFails(t) \/ Granted(t) \/ Denied(t) \/ Check(t) \/ Store(t)
  BY <1>2, BeginFacts, FetchFacts, FetchFailsFacts, GrantedFacts, DeniedFacts, CheckFacts, StoreFacts
  DEF Came, Ends, Answers, Starts, Takes, Moves, Same, ReadsAgain
<1>3. CASE \/ Push(t) \/ Judged(t) \/ Probe(t) \/ Recovered(t) \/ Verdict(t) \/ Mark(t) \/ Dead(t) \/ Drop(t)
           \/ CallOrgs(t)
  BY <1>3, PushFacts, JudgedFacts, ProbeFacts, VerdictFacts, MarkFacts, DeadFacts, CallOrgsFacts
  DEF Ends, Moves, Same, Judges, Repeats
<1>4. CASE SignIn(t) \/ SignInFails(t) \/ SignInPublish(t) \/ Advance(t) \/ Stamp(t) \/ SignInPush(t)
  BY <1>4, SignInFacts, SignInFailsFacts, SignInPublishFacts, AdvanceFacts, StampFacts, SignInPushFacts
  DEF Ends, Moves, Same, Takes
<1>5. CASE SignOut(t) \/ SignOutDelete(t) \/ SignOutFails(t) \/ SignOutPublish(t) \/ SignOutPush(t)
  BY <1>5, SignOutFacts, SignOutDeleteFacts, SignOutFailsFacts, SignOutPublishFacts, SignOutPushFacts DEF Ends, Moves, Same, Outs
<1>6. CASE \E c \in Operations : Call(t, c)
  BY <1>6, CallFacts DEF Calls
<1>7. QED
  BY <1>1, <1>2, <1>3, <1>4, <1>5, <1>6 DEF Step

LEMMA LiveStep ==
    ASSUME Honest, NEW t \in Threads, Step(t) \/ (\E c \in Operations : Call(t, c)),
           loc[t].res # "live", loc'[t].res = "live"
    PROVE  loc'[t].tok.session > loc[t].over
<1>0. /\ Base /\ TypeOK /\ Sound(t) /\ Fit(t) /\ Home[t] \in Procs /\ loc[t].tok \in Bundle
      /\ over \in Nat /\ loc[t].over \in Nat
  BY Typed DEF Honest, Coherent, Base
<1>1. CASE Look(t)
  <2>1. pc[t] = "look" /\ loc[t].over <= over
    BY <1>0, <1>1 DEF Look, At, Sound
  <2>2. ASSUME NEW b \in Bundle, Read(t, b), b = None \/ b.session > over
        PROVE  loc'[t].tok.session > loc[t].over
    <3>1. b # None /\ loc'[t].tok = b /\ b.session \in Nat
      BY <2>2, LiveRead, Numbers
    <3>2. QED
      BY <1>0, <2>1, <2>2, <3>1
  <2>3. CASE Standing(Home[t]) /\ Read(t, unstored[Home[t]].tok)
    BY <1>0, <2>2, <2>3, Typed DEF Standing, Honest, KeptSound, Sealed, Past
  <2>4. CASE cache[Home[t]].kept /\ Read(t, cache[Home[t]].tok)
    BY <1>0, <2>2, <2>4, Typed DEF Honest, Coherent, Cached, StoreSound, Stored, Past
  <2>5. ~Moves(t, "fetch")
    BY DEF Moves, Same
  <2>6. QED
    BY <1>0, <1>1, <2>3, <2>4, <2>5, LookFacts
<1>2. CASE Keep(t)
  <2>1. pc[t] = "keep" /\ Read(t, loc[t].tok)
    BY <1>0, <1>2, KeepFacts DEF Keep, At
  <2>2. loc[t].tok # None /\ loc'[t].tok = loc[t].tok
    BY <1>0, <2>1, LiveRead
  <2>3. QED
    BY <1>0, <2>1, <2>2 DEF Sound, Reading
<1>3. CASE Publish(t) \/ Hold(t)
  <2>1. pc[t] \in {"publish", "hold"} /\ loc[t].tok # None
    BY <1>0, <1>3 DEF Publish, Hold, At, Fit, Ordered, Reading
  <2>2. loc'[t].tok = loc[t].tok
    BY <1>0, <1>3, PublishFacts, HoldFacts DEF Came, Ends, Answers
  <2>3. QED
    BY <1>0, <2>1, <2>2 DEF Sound, Reading
<1>4. ~(Look(t) \/ Keep(t) \/ Publish(t) \/ Hold(t)) => loc'[t].res # "live"
  BY <1>0, LiveBy
<1>5. QED
  BY <1>1, <1>2, <1>3, <1>4

\* A read that begins after a sign-out has finished does not return the
\* session it ended, under the same conditions; a relay makes no difference.
THEOREM SignOutsHonoured ==
    ASSUME OneProcess, Prompt, OneHand
    PROVE  Spec => SignOutHonoured
<1>1. Honest /\ [Next]_vars =>
          [\A t \in Threads : Returns(t) => loc'[t].tok.session > loc[t].over]_vars
  <2> SUFFICES ASSUME Honest, [Next]_vars, NEW t \in Threads, loc[t].res # "live", loc'[t].res = "live",
                      vars' # vars
               PROVE  loc'[t].tok.session > loc[t].over
    BY DEF Returns
  <2>1. ASSUME NEW u \in Threads, Step(u) \/ \E o \in Operations : Call(u, o)
        PROVE  loc'[t].tok.session > loc[t].over
    <3>1. Alone(u)
      BY <2>1, StepBase, CallBase DEF Honest, Coherent, Turn
    <3>2. t = u
      BY <3>1 DEF Alone, Same
    <3>3. QED
      BY <2>1, <3>2, LiveStep
  <2>2. ~(Expire \/ \E s \in 1 .. MaxTokens : Revoke(s))
    BY DEF Expire, Revoke, threadVars
  <2>3. QED
    BY <2>1, <2>2 DEF Next
<1>2. QED
  BY <1>1, InitHonest, NextHonest, PTL DEF Spec, SignOutHonoured

-----------------------------------------------------------------------------
(* Renewals.  What a thread has read, as long as the generation vouches for *)
(* it, is not behind the bundle in force: the keychain's, or the one the    *)
(* keychain refused.  Between a write and the generation's move nothing is  *)
(* claimed of either.                                                       *)

Settled == \A k \in Threads : pc[k] \notin Landing \union {"publish"}

Under(b, c) == b = None \/ (b.session = c.session /\ b.serial <= c.serial)
Current(x, c) == Under(store, c) /\ (Standing(x) => Under(unstored[x].tok, c))

\* Nothing kept stands while the keychain is being read for the session there is.
Unkept(t) == pc[t] = "fetch" /\ (loc[t].phase # "first" \/ loc[t].seen = gen[Home[t]]) => ~Standing(Home[t])

Renewed == \A x \in Procs : Standing(x) => Under(store, unstored[x].tok)

Held(t) ==
    /\ pc[t] \in {"lock", "keep"} /\ loc[t].phase = "first" /\ loc[t].seen = gen[Home[t]]
         => Current(Home[t], loc[t].tok)
    /\ pc[t] \in Reading /\ UnderLock(t) /\ loc[t].basis = gen[Home[t]] => Current(Home[t], loc[t].tok)

Abreast == Coherent /\ (\A t \in Threads : Unkept(t)) /\ (Settled => Renewed /\ \A t \in Threads : Held(t))

StandingNext(x) == unstored'[x].tok # None /\ unstored'[x].gen = gen'[x] /\ unstored'[x].wit = witness'
CurrentNext(x, c) == Under(store', c) /\ (StandingNext(x) => Under(unstored'[x].tok, c))

\* Nothing kept stands after a step but what stood before, or what is kept by it.
LEMMA UnstoredBy ==
    ASSUME TypeOK, NEW t \in Threads, Step(t) \/ (\E c \in Operations : Call(t, c)), ~Hold(t)
    PROVE  \A x \in Procs : unstored'[x] = unstored[x] \/ unstored'[x].tok = None
<1>1. CASE Quiet(t) \/ \E c \in Operations : Call(t, c)
  BY <1>1, QuietFacts
<1>2. CASE \/ Fetch(t) \/ Keep(t) \/ Store(t) \/ Push(t) \/ Recovered(t) \/ Drop(t) \/ SignIn(t) \/ SignInFails(t)
           \/ Advance(t) \/ Stamp(t) \/ SignInPush(t) \/ SignOutDelete(t) \/ SignOutFails(t)
           \/ SignOutPublish(t) \/ SignOutPush(t)
  BY <1>2 DEF Fetch, Keep, Store, Push, Recovered, Drop, SignIn, SignInFails, Advance, Stamp, SignInPush,
              SignOutDelete, SignOutFails, SignOutPublish, SignOutPush, procVars
<1>3. CASE Publish(t) \/ SignInPublish(t)
  <2>1. Supersede(Home[t]) /\ Home[t] \in Procs
    BY <1>3, Homes DEF Publish, SignInPublish
  <2>2. QED
    BY <2>1, SupersedeFacts
<1>4. CASE SignOut(t)
  BY <1>4, SignOutFacts, Homes DEF Drops
<1>5. QED
  BY <1>1, <1>2, <1>3, <1>4 DEF Step, Quiet

\* Only keep_unstored makes a bundle stand.
LEMMA StandsBack ==
    ASSUME Base, NEW t \in Threads, Step(t) \/ (\E c \in Operations : Call(t, c)), ~Hold(t)
    PROVE  \A x \in Procs : StandingNext(x) => Standing(x) /\ unstored'[x] = unstored[x]
<1>0. TypeOK /\ Mono /\ Stocked
  BY StepBase, CallBase DEF Base
<1>1. \A x \in Procs : unstored'[x] = unstored[x] \/ unstored'[x].tok = None
  BY <1>0, UnstoredBy
<1>2. SUFFICES ASSUME NEW x \in Procs, StandingNext(x)
               PROVE  Standing(x) /\ unstored'[x] = unstored[x]
  OBVIOUS
<1>3. unstored'[x] = unstored[x] /\ unstored[x].gen = gen'[x] /\ unstored[x].wit = witness' /\ unstored[x].tok # None
  BY <1>1, <1>2 DEF StandingNext
<1>4. /\ gen[x] \in Nat /\ unstored[x].gen \in Nat /\ unstored[x].wit \in Nat /\ witness \in Nat
      /\ unstored[x].gen <= gen[x] /\ unstored[x].wit <= witness /\ gen[x] <= gen'[x] /\ witness <= witness'
  BY <1>0, Typed DEF Stocked, Mono
<1>5. unstored[x].gen = gen[x] /\ unstored[x].wit = witness
  BY <1>3, <1>4
<1>6. QED
  BY <1>3, <1>5 DEF Standing

\* The generation moves when a bundle becomes the session or stops being it.
LEMMA GenerationMoves ==
    ASSUME TypeOK, NEW t \in Threads, Step(t) \/ (\E c \in Operations : Call(t, c))
    PROVE  /\ Publish(t) \/ SignInPublish(t) \/ SignOutPublish(t) => gen'[Home[t]] = gen[Home[t]] + 1
           /\ ~(Publish(t) \/ SignInPublish(t) \/ SignOutPublish(t) \/ Hold(t)) => gen' = gen
<1>1. ASSUME Publish(t) \/ SignInPublish(t)
      PROVE  gen'[Home[t]] = gen[Home[t]] + 1
  <2>1. Supersede(Home[t]) /\ Home[t] \in Procs
    BY <1>1, Homes DEF Publish, SignInPublish
  <2>2. QED
    BY <2>1, SupersedeFacts
<1>2. ASSUME SignOutPublish(t)
      PROVE  gen'[Home[t]] = gen[Home[t]] + 1
  BY <1>2, Homes DEF SignOutPublish, TypeOK
<1>3. Quiet(t) \/ (\E c \in Operations : Call(t, c)) => gen' = gen
  BY QuietFacts
<1>4. \/ Fetch(t) \/ Keep(t) \/ Store(t) \/ Push(t) \/ Recovered(t) \/ Drop(t) \/ SignIn(t) \/ SignInFails(t)
      \/ Advance(t) \/ Stamp(t) \/ SignInPush(t) \/ SignOut(t) \/ SignOutDelete(t) \/ SignOutFails(t) \/ SignOutPush(t)
      => gen' = gen
  BY DEF Fetch, Keep, Store, Push, Recovered, Drop, SignIn, SignInFails, Advance, Stamp, SignInPush,
         SignOut, SignOutDelete, SignOutFails, SignOutPush, procVars
<1>5. QED
  BY <1>1, <1>2, <1>3, <1>4 DEF Step, Quiet

\* A move of the generation leaves nothing standing.
LEMMA MovedFalls ==
    ASSUME Base, OneProcess, NEW t \in Threads, Publish(t) \/ SignInPublish(t) \/ SignOutPublish(t)
    PROVE  \A x \in Procs : ~StandingNext(x)
<1>1. Step(t) /\ ~Hold(t) /\ Home[t] \in Procs /\ gen[Home[t]] \in Nat
  BY Homes DEF Step, Publish, SignInPublish, SignOutPublish, Hold, At, Base, TypeOK
<1>2. gen'[Home[t]] = gen[Home[t]] + 1
  BY <1>1, GenerationMoves DEF Base
<1>3. SUFFICES ASSUME NEW x \in Procs, StandingNext(x)
               PROVE  FALSE
  OBVIOUS
<1>4. Standing(x) /\ unstored'[x] = unstored[x]
  BY <1>1, <1>3, StandsBack
<1>5. gen'[x] = gen[x]
  BY <1>3, <1>4 DEF Standing, StandingNext
<1>6. QED
  BY <1>1, <1>2, <1>5 DEF OneProcess

\* A bundle goes into the keychain at the start of what `Settled' excludes.
LEMMA SettledStore ==
    ASSUME TypeOK, NEW t \in Threads, Step(t) \/ (\E c \in Operations : Call(t, c)), Settled'
    PROVE  store' \in {store, None}
<1>1. CASE Quiet(t) \/ \E c \in Operations : Call(t, c)
  BY <1>1, QuietFacts
<1>2. CASE \/ Fetch(t) \/ Keep(t) \/ Push(t) \/ Recovered(t) \/ Drop(t) \/ Publish(t) \/ Hold(t) \/ SignInPublish(t)
           \/ Advance(t) \/ Stamp(t) \/ SignInPush(t) \/ SignOut(t) \/ SignOutPublish(t) \/ SignOutPush(t)
  BY <1>2 DEF Fetch, Keep, Push, Recovered, Drop, Publish, Hold, SignInPublish, Advance, Stamp, SignInPush,
              SignOut, SignOutPublish, SignOutPush, worldVars
<1>3. CASE Store(t)
  <2>1. \/ Moves(t, "publish")
        \/ Moves(t, "hold") /\ \E b \in {store, None} : Write(Home[t], b)
    BY <1>3, StoreFacts
  <2>2. ~Moves(t, "publish")
    BY DEF Moves, Settled
  <2>3. QED
    BY <2>1, <2>2 DEF Write
<1>4. CASE SignIn(t) \/ SignOutDelete(t)
  BY <1>4, SignInFacts, SignOutDeleteFacts DEF Takes, Outs, Settled, Landing
<1>5. CASE SignInFails(t) \/ SignOutFails(t)
  BY <1>5 DEF SignInFails, SignOutFails, Write
<1>6. QED
  BY <1>1, <1>2, <1>3, <1>4, <1>5 DEF Step, Quiet

\* It settles with a move of the generation, or was settled.
LEMMA Settles ==
    ASSUME TypeOK, NEW t \in Threads, Step(t) \/ (\E c \in Operations : Call(t, c)), Alone(t), Settled'
    PROVE  Settled \/ Publish(t) \/ SignInPublish(t) \/ SignOutPublish(t)
<1>1. SUFFICES ASSUME pc[t] \in Landing \union {"publish"}
               PROVE  Publish(t) \/ SignInPublish(t) \/ SignOutPublish(t)
  BY DEF Settled, Alone
<1>2. QED
  BY <1>1 DEF Landing, Step, At, Begin, Look, Fetch, FetchFails, Keep, Lock, Granted, Denied, Check, Store, Hold,
              Push, Judged, Probe, Recovered, Verdict, Mark, Dead, Drop, CallOrgs, SignIn, SignInFails,
              Advance, Stamp, SignInPush, SignOut, SignOutDelete, SignOutFails, SignOutPush, Call

\* What is current stays so.
LEMMA CurrentLasts ==
    ASSUME Base, NEW t \in Threads, Step(t) \/ (\E c \in Operations : Call(t, c)), ~Hold(t), Settled'
    PROVE  \A x \in Procs : \A c \in Bundle : Current(x, c) => CurrentNext(x, c)
<1>1. store' \in {store, None}
  BY SettledStore DEF Base
<1>2. QED
  BY <1>1, StandsBack DEF Current, CurrentNext, Under

LEMMA UnkeptOthers ==
    ASSUME Base, OneProcess, NEW t \in Threads, Step(t) \/ (\E c \in Operations : Call(t, c)), Alone(t), TypeOK',
           NEW u \in Threads \ {t}, Unkept(u)
    PROVE  Unkept(u)'
<1>0. /\ TypeOK /\ Mono /\ Clocked(u) /\ Home[u] \in Procs /\ Home[t] = Home[u] /\ Same(u) /\ pc'[u] = pc[u]
      /\ gen[Home[u]] \in Nat /\ gen'[Home[u]] \in Nat /\ loc[u].seen \in Nat
  <2>1. TypeOK /\ Mono /\ Clocked(u) /\ Same(u) /\ pc'[u] = pc[u]
    BY StepBase, CallBase DEF Base, Fit, Alone
  <2>2. Home[u] \in Procs /\ Home[t] = Home[u]
    BY Homes DEF OneProcess
  <2>3. QED
    BY <2>1, <2>2, Typed DEF TypeOK
<1>1. SUFFICES ASSUME pc[u] = "fetch", loc[u].phase # "first" \/ loc[u].seen = gen'[Home[u]], StandingNext(Home[u])
               PROVE  FALSE
  BY <1>0 DEF Unkept, Same, Standing, StandingNext
<1>2. loc[u].phase # "first" \/ loc[u].seen = gen[Home[u]]
  BY <1>0, <1>1 DEF Clocked, Mono
<1>3. CASE Hold(t)
  <2>1. UnderLock(t)
    BY <1>3 DEF Hold, At, UnderLock
  <2>2. ~UnderLock(u)
    BY <2>1, OneUnderLock
  <2>3. loc[u].seen = gen'[Home[u]]
    BY <1>1, <2>2 DEF UnderLock
  <2>4. gen'[Home[u]] = gen[Home[u]]
    BY <1>0, <2>3 DEF Clocked, Mono
  <2>5. StandingNext(Home[u]) => Standing(Home[u])
    BY <1>0, <1>3, <2>4, HoldFacts DEF Holds, Standing, StandingNext, Hold, worldVars
  <2>6. QED
    BY <1>1, <1>2, <2>5 DEF Unkept
<1>4. CASE ~Hold(t)
  BY <1>0, <1>1, <1>2, <1>4, StandsBack DEF Unkept
<1>5. QED
  BY <1>3, <1>4

\* The others' bundles, when what vouches for them has stayed or gone.
LEMMA HeldOthers ==
    ASSUME Base, OneProcess, TypeOK', Mono, NEW t \in Threads, Alone(t), NEW u \in Threads \ {t},
           \/ gen'[Home[t]] # gen[Home[t]]
           \/ Held(u) /\ \A x \in Procs : \A c \in Bundle : Current(x, c) => CurrentNext(x, c)
    PROVE  Held(u)'
<1>0. /\ Clocked(u) /\ Home[u] \in Procs /\ Home[t] = Home[u] /\ Same(u) /\ pc'[u] = pc[u]
      /\ gen[Home[u]] \in Nat /\ gen'[Home[u]] \in Nat /\ loc[u].seen \in Nat /\ loc[u].basis \in Nat
      /\ loc[u].tok \in Bundle /\ UnderLock(u)' = UnderLock(u)
  <2>1. TypeOK /\ Clocked(u) /\ Same(u) /\ pc'[u] = pc[u] /\ UnderLock(u)' = UnderLock(u)
    BY DEF Base, Fit, Alone, UnderLock, Same
  <2>2. Home[u] \in Procs /\ Home[t] = Home[u]
    BY Homes DEF OneProcess
  <2>3. QED
    BY <2>1, <2>2, Typed DEF TypeOK
<1>1. /\ loc[u].seen = gen'[Home[u]] => gen'[Home[u]] = gen[Home[u]]
      /\ loc[u].basis = gen'[Home[u]] => gen'[Home[u]] = gen[Home[u]]
  BY <1>0 DEF Clocked, Mono
<1>2. CurrentNext(Home[u], loc[u].tok) => Current(Home[u], loc[u].tok)'
  BY <1>0 DEF Current, CurrentNext, Standing, StandingNext, Same
<1>3. /\ pc[u] \in {"lock", "keep"} /\ loc[u].phase = "first" /\ loc[u].seen = gen'[Home[u]]
           => CurrentNext(Home[u], loc[u].tok)
      /\ pc[u] \in Reading /\ UnderLock(u) /\ loc[u].basis = gen'[Home[u]] => CurrentNext(Home[u], loc[u].tok)
  BY <1>0, <1>1 DEF Held
<1>4. QED
  BY <1>0, <1>2, <1>3 DEF Held, Same

LEMMA HeldAside ==
    ASSUME NEW t \in Threads, pc'[t] \notin Reading
    PROVE  Held(t)'
    BY DEF Held, Reading

\* A read that is due has the bundle in force.
LEMMA ReadHeld ==
    ASSUME NEW t \in Threads, NEW b \in Bundle, Read(t, b), gen' = gen,
           loc[t].phase = "first" /\ loc[t].seen = gen[Home[t]] => CurrentNext(Home[t], b),
           loc[t].phase # "first" /\ loc[t].basis = gen[Home[t]] => CurrentNext(Home[t], b)
    PROVE  Held(t)'
<1>1. CASE Onward(t, b)
  <2>1. Takes(t, IF loc[t].phase = "first" THEN "lock" ELSE "post", b)
    BY <1>1 DEF Onward
  <2>2. CurrentNext(Home[t], b) => Current(Home[t], loc[t].tok)'
    BY <2>1 DEF Takes, Current, CurrentNext, Standing, StandingNext
  <2>3. QED
    BY <2>1, <2>2 DEF Takes, Held, UnderLock
<1>2. CASE ~Onward(t, b)
  <2>1. pc'[t] \notin Reading
    BY <1>2 DEF Read, Came, Ends, Answers, Reading
  <2>2. QED
    BY <2>1, HeldAside
<1>3. QED
  BY <1>1, <1>2

LEMMA Reflexive == \A b \in Bundle : Under(b, b)
    BY Numbers DEF Under

LEMMA HeldOwn ==
    ASSUME Abreast, Settled, Settled', NEW t \in Threads, ~Hold(t), ~Publish(t),
           Step(t) \/ (\E c \in Operations : Call(t, c))
    PROVE  Held(t)'
<1>0. /\ Base /\ TypeOK /\ Held(t) /\ Unkept(t) /\ Fit(t) /\ Home[t] \in Procs /\ Renewed /\ Cached
      /\ loc[t].tok \in Bundle /\ store \in Bundle
  BY Typed DEF Abreast, Coherent, Base
<1>1. \A x \in Procs : \A c \in Bundle : Current(x, c) => CurrentNext(x, c)
  BY <1>0, CurrentLasts
<1>2. CASE Look(t)
  <2>1. pc[t] = "look" /\ gen' = gen
    BY <1>2 DEF Look, At, procVars
  <2>2. ASSUME NEW b \in Bundle, Read(t, b), Current(Home[t], b)
        PROVE  Held(t)'
    BY <1>0, <1>1, <2>1, <2>2, ReadHeld
  <2>3. CASE Standing(Home[t]) /\ Read(t, unstored[Home[t]].tok)
    <3>1. unstored[Home[t]].tok \in Bundle
      BY <1>0, Typed
    <3>2. Current(Home[t], unstored[Home[t]].tok)
      BY <1>0, <2>3, <3>1, Reflexive DEF Renewed, Current
    <3>3. QED
      BY <2>2, <2>3, <3>1, <3>2
  <2>4. CASE ~Standing(Home[t]) /\ cache[Home[t]].kept /\ Read(t, cache[Home[t]].tok)
    <3>1. cache[Home[t]].tok = store
      BY <1>0, <2>4 DEF Cached
    <3>2. Current(Home[t], store)
      BY <1>0, <2>4, Reflexive DEF Current
    <3>3. QED
      BY <1>0, <2>2, <2>4, <3>1, <3>2
  <2>5. CASE Moves(t, "fetch")
    BY <2>5, HeldAside DEF Moves, Reading
  <2>6. QED
    BY <1>0, <1>2, <2>3, <2>4, <2>5, LookFacts
<1>3. CASE Fetch(t)
  <2>1. pc[t] = "fetch" /\ gen' = gen /\ Takes(t, "keep", store)
    BY <1>0, <1>3, FetchFacts DEF Fetch, At, procVars
  <2>2. loc[t].phase # "first" \/ loc[t].seen = gen[Home[t]] => Current(Home[t], store)
    BY <1>0, <2>1, Reflexive DEF Unkept, Current
  <2>3. loc[t].phase # "first" \/ loc[t].seen = gen[Home[t]] => CurrentNext(Home[t], store)
    BY <1>0, <1>1, <2>2
  <2>4. CurrentNext(Home[t], store) => Current(Home[t], loc[t].tok)'
    BY <2>1 DEF Takes, Current, CurrentNext, Standing, StandingNext
  <2>5. QED
    BY <2>1, <2>3, <2>4 DEF Takes, Held, UnderLock
<1>4. CASE Keep(t)
  <2>1. pc[t] = "keep" /\ gen' = gen /\ Read(t, loc[t].tok)
    BY <1>0, <1>4, KeepFacts DEF Keep, At
  <2>2. /\ loc[t].phase = "first" /\ loc[t].seen = gen[Home[t]] => CurrentNext(Home[t], loc[t].tok)
        /\ loc[t].phase # "first" /\ loc[t].basis = gen[Home[t]] => CurrentNext(Home[t], loc[t].tok)
    BY <1>0, <1>1, <2>1 DEF Held, UnderLock, Reading
  <2>3. QED
    BY <1>0, <2>1, <2>2, ReadHeld
<1>5. CASE Lock(t)
  <2>1. pc[t] = "lock" /\ gen' = gen /\ loc[t].phase = "first"
    BY <1>0, <1>5 DEF Lock, At, procVars, Fit, Ordered
  <2>2. CASE Came(t, last[Home[t]], None)
    BY <2>2, HeldAside DEF Came, Ends, Answers, Reading
  <2>3. CASE Locks(t)
    <3>1. loc[t].seen = gen[Home[t]] => CurrentNext(Home[t], loc[t].tok)
      BY <1>0, <1>1, <2>1 DEF Held
    <3>2. CurrentNext(Home[t], loc[t].tok) => Current(Home[t], loc[t].tok)'
      BY <2>3 DEF Locks, Current, CurrentNext, Standing, StandingNext
    <3>3. QED
      BY <2>3, <3>1, <3>2 DEF Locks, Held, Reading
  <2>4. QED
    BY <1>0, <1>5, <2>2, <2>3, LockFacts
<1>6. CASE Granted(t)
  <2>1. /\ pc[t] = "post" /\ gen' = gen /\ Takes(t, "granted", loc'[t].tok)
        /\ loc'[t].tok.session = loc[t].tok.session /\ loc'[t].tok.serial = issued + 1
    BY <1>0, <1>6, GrantedFacts DEF Granted, At, procVars
  <2>2. loc[t].tok # None /\ loc[t].tok.serial <= issued /\ issued \in Nat /\ loc[t].tok.serial \in Nat
    BY <1>0, <2>1, Typed, Numbers DEF Fit, Ordered, Clocked, Reading
  <2>3. loc[t].basis = gen[Home[t]] => CurrentNext(Home[t], loc[t].tok)
    BY <1>0, <1>1, <2>1 DEF Held, UnderLock, Reading
  <2>4. \A b \in Bundle : Under(b, loc[t].tok) => Under(b, loc'[t].tok)
    BY <2>1, <2>2, Numbers DEF Under
  <2>5. store' \in Bundle /\ unstored'[Home[t]].tok \in Bundle
    <3>1. store' = store /\ unstored' = unstored
      BY <1>6 DEF Granted, procVars
    <3>2. QED
      BY <1>0, <3>1, Typed
  <2>6. CurrentNext(Home[t], loc[t].tok) => Current(Home[t], loc[t].tok)'
    BY <2>4, <2>5 DEF Current, CurrentNext, Standing, StandingNext
  <2>7. QED
    BY <2>1, <2>3, <2>6 DEF Takes, Held
<1>7. CASE Check(t) \/ Store(t)
  <2>1. /\ pc[t] \in {"granted", "store"} /\ gen' = gen /\ loc'[t].tok = loc[t].tok /\ loc'[t].basis = loc[t].basis
        /\ pc'[t] \notin {"lock", "keep"}
    BY <1>0, <1>7, CheckFacts, StoreFacts DEF Check, Store, At, worldVars, ReadsAgain, Moves, Same
  <2>2. loc[t].basis = gen[Home[t]] => CurrentNext(Home[t], loc[t].tok)
    BY <1>0, <1>1, <2>1 DEF Held, UnderLock, Reading
  <2>3. CurrentNext(Home[t], loc[t].tok) => Current(Home[t], loc[t].tok)'
    BY <2>1 DEF Current, CurrentNext, Standing, StandingNext
  <2>4. QED
    BY <2>1, <2>2, <2>3 DEF Held
<1>8. CASE Begin(t) \/ FetchFails(t) \/ Denied(t) \/ Push(t) \/ Recovered(t) \/ Drop(t) \/ Judged(t) \/ Probe(t)
           \/ Verdict(t) \/ Mark(t) \/ Dead(t) \/ CallOrgs(t)
  BY <1>0, <1>8, Whereto, HeldAside DEF Outcomes, Reading
<1>9. CASE SignIn(t) \/ SignInFails(t) \/ SignInPublish(t) \/ Advance(t) \/ Stamp(t) \/ SignInPush(t)
           \/ SignOut(t) \/ SignOutDelete(t) \/ SignOutFails(t) \/ SignOutPublish(t) \/ SignOutPush(t)
  BY <1>0, <1>9, HeldAside, SignInFacts, SignInFailsFacts, SignInPublishFacts, AdvanceFacts, StampFacts,
     SignInPushFacts, SignOutFacts, SignOutDeleteFacts, SignOutFailsFacts, SignOutPublishFacts, SignOutPushFacts
  DEF Takes, Moves, Ends, Outs, Reading
<1>10. CASE \E c \in Operations : Call(t, c)
  BY <1>0, <1>10, CallFacts, HeldAside DEF Calls, Reading
<1>11. QED
  BY <1>2, <1>3, <1>4, <1>5, <1>6, <1>7, <1>8, <1>9, <1>10 DEF Step

\* The keychain is read when nothing kept stands.
LEMMA FetchDue ==
    ASSUME Base, NEW t \in Threads, Step(t) \/ (\E c \in Operations : Call(t, c)), pc'[t] = "fetch"
    PROVE  Look(t) /\ ~StandingNext(Home[t])
<1>0. TypeOK
  BY DEF Base
<1>1. Look(t)
  <2>1. ~(Quiet(t) /\ ~Look(t))
    BY <1>0, Whereto DEF Quiet, Outcomes
  <2>2. ~(\/ Fetch(t) \/ Keep(t) \/ Store(t) \/ Publish(t) \/ Hold(t) \/ Push(t) \/ Recovered(t) \/ Drop(t))
    BY <1>0, Whereto DEF Outcomes
  <2>3. ~(SignIn(t) \/ SignInFails(t) \/ SignInPublish(t) \/ Advance(t) \/ Stamp(t) \/ SignInPush(t)
          \/ SignOut(t) \/ SignOutDelete(t) \/ SignOutFails(t) \/ SignOutPublish(t) \/ SignOutPush(t))
    BY <1>0, SignInFacts, SignInFailsFacts, SignInPublishFacts, AdvanceFacts, StampFacts,
       SignInPushFacts, SignOutFacts, SignOutDeleteFacts, SignOutFailsFacts, SignOutPublishFacts, SignOutPushFacts
    DEF Takes, Moves, Ends, Outs
  <2>4. ~(\E c \in Operations : Call(t, c))
    BY <1>0, CallFacts DEF Calls
  <2>5. QED
    BY <2>1, <2>2, <2>3, <2>4 DEF Step, Quiet
<1>2. ~Standing(Home[t])
  <2>1. ~Read(t, unstored[Home[t]].tok)
    BY DEF Read, Came, Ends, Answers, Onward, Takes
  <2>2. QED
    BY <1>0, <1>1, <2>1, LookFacts
<1>3. UNCHANGED <<unstored, gen, witness>>
  BY <1>1 DEF Look, worldVars, procVars
<1>4. QED
  BY <1>1, <1>2, <1>3 DEF Standing, StandingNext

LEMMA UnkeptOwn ==
    ASSUME Base, NEW t \in Threads, Step(t) \/ (\E c \in Operations : Call(t, c))
    PROVE  Unkept(t)'
    BY FetchDue DEF Unkept, Standing, StandingNext

LEMMA AbreastHold ==
    ASSUME Abreast, OneProcess, NEW t \in Threads, Hold(t)
    PROVE  Settled' => Renewed' /\ \A u \in Threads : Held(u)'
<1>0. /\ Base /\ TypeOK /\ TypeOK' /\ Mono /\ Alone(t) /\ Home[t] \in Procs /\ gen[Home[t]] \in Nat
  <2>1. Step(t)
    BY DEF Step
  <2>2. QED
    BY <2>1, StepBase, Typed DEF Abreast, Coherent, Base, Turn
<1>1. pc[t] = "hold" /\ UNCHANGED <<store, witness>>
  BY DEF Hold, At, worldVars
<1>2. SUFFICES ASSUME Settled'
               PROVE  Renewed' /\ \A u \in Threads : Held(u)'
  OBVIOUS
<1>3. Settled
  BY <1>0, <1>1, <1>2 DEF Settled, Alone, Landing
<1>4. Renewed /\ \A u \in Threads : Held(u)
  BY <1>3 DEF Abreast
<1>5. Held(t)'
  BY <1>0, Whereto, HeldAside DEF Outcomes, Reading
<1>6. CASE gen[Home[t]] = loc[t].basis /\ Holds(Home[t], loc[t].tok)
  <2>1. Under(store, loc[t].tok)
    BY <1>1, <1>4, <1>6 DEF Held, Reading, UnderLock, Current
  <2>2. \A x \in Procs : unstored'[x].tok = loc[t].tok
    BY <1>0, <1>6 DEF Holds, OneProcess
  <2>3. Renewed'
    BY <1>1, <2>1, <2>2 DEF Renewed
  <2>4. gen'[Home[t]] # gen[Home[t]]
    BY <1>0, <1>6 DEF Holds
  <2>5. \A u \in Threads \ {t} : Held(u)'
    BY <1>0, <2>4, HeldOthers
  <2>6. QED
    BY <1>5, <2>3, <2>5
<1>7. CASE UNCHANGED <<gen, unstored>>
  <2>1. \A x \in Procs : \A c \in Bundle : Current(x, c) => CurrentNext(x, c)
    BY <1>1, <1>7 DEF Current, CurrentNext, Standing, StandingNext
  <2>2. \A u \in Threads \ {t} : Held(u)'
    BY <1>0, <1>4, <2>1, HeldOthers
  <2>3. Renewed'
    BY <1>1, <1>4, <1>7 DEF Renewed, Standing
  <2>4. QED
    BY <1>5, <2>2, <2>3
<1>8. QED
  BY <1>0, <1>6, <1>7, HoldFacts

\* A sign-in, a sign-out or a stored renewal is published: nothing rests on
\* the generation there was.
LEMMA AbreastMoved ==
    ASSUME Abreast, OneProcess, NEW t \in Threads, Publish(t) \/ SignInPublish(t) \/ SignOutPublish(t)
    PROVE  Renewed' /\ \A u \in Threads : Held(u)'
<1>0. /\ Base /\ TypeOK /\ TypeOK' /\ Mono /\ Alone(t) /\ Home[t] \in Procs /\ gen[Home[t]] \in Nat
      /\ gen'[Home[t]] = gen[Home[t]] + 1 /\ ~Hold(t) /\ Step(t)
  <2>1. Step(t)
    BY DEF Step
  <2>2. ~Hold(t)
    BY DEF Publish, SignInPublish, SignOutPublish, Hold, At
  <2>3. QED
    BY <2>1, <2>2, StepBase, GenerationMoves, Typed DEF Abreast, Coherent, Base, Turn
<1>1. \A x \in Procs : ~StandingNext(x)
  BY <1>0, MovedFalls
<1>2. Renewed'
  BY <1>1 DEF Renewed, Standing, StandingNext
<1>3. \A u \in Threads \ {t} : Held(u)'
  BY <1>0, HeldOthers
<1>4. Held(t)'
  <2>1. pc'[t] \notin Reading
    BY <1>0, Whereto, SignInPublishFacts, SignOutPublishFacts DEF Moves, Outcomes, Reading
  <2>2. QED
    BY <2>1, HeldAside
<1>5. QED
  BY <1>2, <1>3, <1>4

LEMMA AbreastStep ==
    ASSUME Abreast, OneProcess, NEW t \in Threads, Step(t) \/ \E c \in Operations : Call(t, c)
    PROVE  (\A u \in Threads : Unkept(u)') /\ (Settled' => Renewed' /\ \A u \in Threads : Held(u)')
<1>0. /\ Base /\ TypeOK /\ TypeOK' /\ Mono /\ Alone(t) /\ \A u \in Threads : Unkept(u)
  BY StepBase, CallBase DEF Abreast, Coherent, Base, Turn
<1>1. \A u \in Threads : Unkept(u)'
  <2>1. \A u \in Threads \ {t} : Unkept(u)'
    BY <1>0, UnkeptOthers
  <2>2. QED
    BY <1>0, <2>1, UnkeptOwn
<1>2. CASE Hold(t)
  BY <1>1, <1>2, AbreastHold
<1>3. CASE Publish(t) \/ SignInPublish(t) \/ SignOutPublish(t)
  BY <1>1, <1>3, AbreastMoved
<1>4. ASSUME ~(Hold(t) \/ Publish(t) \/ SignInPublish(t) \/ SignOutPublish(t)), Settled'
      PROVE  Renewed' /\ \A u \in Threads : Held(u)'
  <2>1. Settled
    BY <1>0, <1>4, Settles
  <2>2. Renewed /\ \A u \in Threads : Held(u)
    BY <2>1 DEF Abreast
  <2>3. \A x \in Procs : \A c \in Bundle : Current(x, c) => CurrentNext(x, c)
    BY <1>0, <1>4, CurrentLasts
  <2>4. \A u \in Threads \ {t} : Held(u)'
    BY <1>0, <2>2, <2>3, HeldOthers
  <2>5. Held(t)'
    BY <1>4, <2>1, HeldOwn
  <2>6. Renewed'
    <3>1. store' \in {store, None} /\ \A x \in Procs : StandingNext(x) => Standing(x) /\ unstored'[x] = unstored[x]
      BY <1>0, <1>4, SettledStore, StandsBack
    <3>2. \A x \in Procs : StandingNext(x) => Under(store', unstored'[x].tok)
      BY <2>2, <3>1 DEF Renewed, Under
    <3>3. QED
      BY <3>2 DEF Renewed, Standing, StandingNext
  <2>7. QED
    BY <2>4, <2>5, <2>6
<1>5. QED
  BY <1>1, <1>2, <1>3, <1>4

LEMMA InitAbreast == Init => Abreast
<1> SUFFICES ASSUME Init PROVE Abreast
  OBVIOUS
<1>1. (\A t \in Threads : pc[t] = "idle") /\ \A x \in Procs : ~Standing(x)
  BY DEF Init, Standing, Nothing
<1>2. (\A t \in Threads : Unkept(t) /\ Held(t)) /\ Renewed
  BY <1>1 DEF Unkept, Held, Renewed, Reading
<1>3. QED
  BY <1>2, InitCoherent DEF Abreast

LEMMA NextAbreast ==
    ASSUME OneProcess, Prompt
    PROVE  Abreast /\ [Next]_vars => Abreast'
<1> SUFFICES ASSUME Abreast, [Next]_vars PROVE Abreast'
  OBVIOUS
<1>0. Coherent'
  BY NextCoherent DEF Abreast
<1>1. ASSUME NEW t \in Threads, Step(t) \/ \E o \in Operations : Call(t, o)
      PROVE  Abreast'
  BY <1>0, <1>1, AbreastStep DEF Abreast
<1>2. ASSUME UNCHANGED <<store, witness, procVars, threadVars>>
      PROVE  Abreast'
  BY <1>0, <1>2 DEF Abreast, Unkept, Held, Renewed, Settled, Current, Standing, UnderLock, procVars, threadVars
<1>3. CASE Expire \/ (\E s \in 1 .. MaxTokens : Revoke(s)) \/ UNCHANGED vars
  BY <1>2, <1>3 DEF Expire, Revoke, vars, worldVars
<1>4. QED
  BY <1>1, <1>3 DEF Next

LEMMA AbreastRefreshes ==
    ASSUME Abreast, OneProcess
    PROVE  RefreshesWhatStands
<1> SUFFICES ASSUME NEW t \in Threads, pc[t] = "post", gen[Home[t]] = loc[t].basis, Peers(t, Landing) = {},
                    InForce(Home[t]) # None
             PROVE  /\ InForce(Home[t]).session = loc[t].tok.session
                    /\ InForce(Home[t]).serial <= loc[t].tok.serial
  BY DEF RefreshesWhatStands, At
<1>1. \A k \in Threads : pc[k] \notin Landing
  BY Homes DEF Peers, OneProcess
<1>2. \A k \in Threads : pc[k] # "publish"
  BY OneUnderLock DEF UnderLock, Abreast, Coherent
<1>3. Settled
  BY <1>1, <1>2 DEF Settled
<1>4. Current(Home[t], loc[t].tok)
  BY <1>3 DEF Abreast, Held, Reading, UnderLock
<1>5. Under(InForce(Home[t]), loc[t].tok)
  BY <1>4 DEF Current, InForce
<1>6. QED
  BY <1>5 DEF Under

\* The token sent to the identity provider is that of the session in force, and
\* not one that another caller has renewed meanwhile: in one process whose
\* threads are not suspended between a check and its use, whatever they call.
THEOREM RefreshesTheSession ==
    ASSUME OneProcess, Prompt
    PROVE  Spec => []RefreshesWhatStands
<1>1. Abreast => RefreshesWhatStands
  BY AbreastRefreshes
<1>2. QED
  BY <1>1, InitAbreast, NextAbreast, PTL DEF Spec

-----------------------------------------------------------------------------
(* Reads.  A bundle is at most another when it is not of a later session,   *)
(* nor a later token of the same.  What the process has returned, the       *)
(* floors its reads are judged against and what they have fetched are bound *)
(* by the keychain's bundle or, while a kept one stands, by that; by both   *)
(* while a write waits to be published.                                     *)

AtMost(b, c) == ~Older(c, b)
Aged(b) == [b EXCEPT !.serial = 0]

\* What the process has returned, what its reads are judged against, and what
\* they have got from the keychain.
Bound(c) ==
    /\ \A x \in Procs : AtMost(served[x], c)
    /\ \A t \in Threads : AtMost(loc[t].floor, c) /\ (pc[t] = "keep" => AtMost(loc[t].tok, c))
BoundNext(c) ==
    /\ \A x \in Procs : AtMost(served'[x], c)
    /\ \A t \in Threads : AtMost(loc'[t].floor, c) /\ (pc'[t] = "keep" => AtMost(loc'[t].tok, c))

\* Floors stay, are cleared or lose their serial; a renewal is still current;
\* the processes have returned nothing but what they had, b, or an aged one.
Keeps == \A u \in Threads : loc'[u].floor \in {loc[u].floor, None, Aged(loc[u].floor)}
Renews(t) == gen[Home[t]] = loc[t].basis
Hears(b) == \A x \in Procs : served'[x] \in {served[x], Later(served[x], b), Aged(served[x])}

LEMMA Ages ==
    /\ \A b \in Bundle : AtMost(b, b) /\ AtMost(None, b) /\ Later(b, None) = b
    /\ \A b, c \in Bundle : AtMost(b, c) => AtMost(Aged(b), c)
    /\ \A b \in Bundle : Aged(b) \in Bundle /\ Aged(b).session = b.session /\ Aged(b).serial = 0
<1>1. \A b \in Bundle : Aged(b) \in Bundle /\ Aged(b).session = b.session /\ Aged(b).serial = 0
  BY DEF Bundle, Aged
<1>2. \A b \in Bundle : AtMost(b, b) /\ AtMost(None, b) /\ Later(b, None) = b
  BY Numbers DEF AtMost, Older, Later
<1>3. \A b, c \in Bundle : AtMost(b, c) => AtMost(Aged(b), c)
  BY <1>1, Numbers DEF AtMost, Older
<1>4. QED
  BY <1>1, <1>2, <1>3

LEMMA Ranks ==
    /\ \A a, b, c \in Bundle : AtMost(a, b) /\ AtMost(b, c) => AtMost(a, c)
    /\ \A b, c \in Bundle : Under(b, c) => AtMost(b, c)
    BY Numbers DEF AtMost, Older, Under

LEMMA Histories ==
    ASSUME TypeOK
    PROVE  /\ \A t \in Threads : loc[t].floor \in Bundle
           /\ \A x \in Procs : served[x] \in Bundle
           /\ \A t \in Threads : InForce(Home[t]) \in Bundle
<1>1. \A t \in Threads : loc[t] \in Locals
  BY DEF TypeOK
<1>2. \A t \in Threads : loc[t].floor \in Bundle
  BY <1>1 DEF Locals
<1>3. \A t \in Threads : InForce(Home[t]) \in Bundle
  BY Typed DEF InForce
<1>4. QED
  BY <1>2, <1>3 DEF TypeOK

LEMMA LeaveHistory ==
    ASSUME TypeOK, NEW t \in Threads, Leave(t)
    PROVE  Keeps
<1>1. loc' = [loc EXCEPT ![t] = Blank] /\ Blank.floor = None
  BY DEF Leave, Blank
<1>2. QED
  BY <1>1 DEF TypeOK, Keeps

LEMMA ReturnHistory ==
    ASSUME TypeOK, NEW t \in Threads, NEW res \in Results, NEW b \in Bundle, Return(t, res, b)
    PROVE  Keeps /\ Hears(b)
<1>1. Hears(b)
  <2>1. served' = [served EXCEPT ![Home[t]] = Later(@, b)]
    BY DEF Return
  <2>2. QED
    BY <2>1 DEF TypeOK, Hears
<1>2. CASE Resume(t, res) = "idle"
  BY <1>1, <1>2, LeaveHistory DEF Return
<1>3. CASE Resume(t, res) # "idle"
  <2> DEFINE m == [Blank EXCEPT !.res = res, !.tok = b, !.force = loc[t].force,
                                !.judged = loc[t].judged, !.epoch = loc[t].epoch]
  <2>1. loc' = [loc EXCEPT ![t] = m]
    BY <1>3 DEF Return
  <2>2. m.floor = None
    BY DEF Blank
  <2> HIDE DEF m
  <2>3. QED
    BY <1>1, <2>1, <2>2 DEF TypeOK, Keeps
<1>4. QED
  BY <1>2, <1>3

LEMMA FoundHistory ==
    ASSUME TypeOK, NEW t \in Threads, NEW b \in Bundle, Found(t, b)
    PROVE  Keeps /\ Hears(b)
<1>1. \/ b = None /\ Return(t, "signedOut", None)
      \/ Return(t, "live", b)
      \/ Return(t, "unavailable", None)
      \/ /\ loc' = [loc EXCEPT ![t] = [@ EXCEPT !.tok = b, !.wit = 0]] /\ served' = served
  BY DEF Found
<1>2. {"signedOut", "live", "unavailable"} \subseteq Results /\ None \in Bundle
  BY Blanks DEF Results
<1>3. CASE (b = None /\ Return(t, "signedOut", None)) \/ Return(t, "live", b)
  BY <1>2, <1>3, ReturnHistory
<1>4. CASE Return(t, "unavailable", None)
  <2>1. Keeps /\ Hears(None)
    BY <1>2, <1>4, ReturnHistory
  <2>2. Hears(None) => Hears(b)
    BY Histories, Ages DEF Hears
  <2>3. QED
    BY <2>1, <2>2
<1>5. CASE loc' = [loc EXCEPT ![t] = [@ EXCEPT !.tok = b, !.wit = 0]] /\ served' = served
  <2> DEFINE m == [loc[t] EXCEPT !.tok = b, !.wit = 0]
  <2>1. m.floor = loc[t].floor /\ loc' = [loc EXCEPT ![t] = m]
    BY <1>5 DEF TypeOK, Locals
  <2> HIDE DEF m
  <2>2. QED
    BY <1>5, <2>1 DEF TypeOK, Keeps, Hears
<1>6. QED
  BY <1>1, <1>3, <1>4, <1>5

LEMMA BeginHistory ==
    ASSUME TypeOK, NEW t \in Threads, Begin(t)
    PROVE  /\ Hears(None)
           /\ \A u \in Threads : loc'[u].floor \in {loc[u].floor, None, InForce(Home[t]), served[Home[t]], Aged(loc[u].floor)}
           /\ \A u \in Threads \ {t} : loc'[u].floor \in {loc[u].floor, None, Aged(loc[u].floor)}
<1>1. CASE ~loc[t].force /\ rejected[Home[t]]
  <2>1. Return(t, "signedOut", None) /\ "signedOut" \in Results /\ None \in Bundle
    BY <1>1, Blanks DEF Begin, Results
  <2>2. QED
    BY <2>1, ReturnHistory DEF Keeps
<1>2. CASE ~(~loc[t].force /\ rejected[Home[t]])
  <2> DEFINE m == [loc[t] EXCEPT !.seen = gen[Home[t]], !.over = over,
                            !.judged = IF op[t] = "recheck" THEN gen[Home[t]] ELSE 0,
                            !.floor = Later(InForce(Home[t]), served[Home[t]])]
  <2>1. loc' = [loc EXCEPT ![t] = m] /\ served' = served
    BY <1>2 DEF Begin
  <2>2. loc[t] \in Locals
    BY DEF TypeOK
  <2>3. m.floor = Later(InForce(Home[t]), served[Home[t]])
    BY <2>2 DEF Locals
  <2>4. m.floor \in {InForce(Home[t]), served[Home[t]]}
    BY <2>3 DEF Later
  <2> HIDE DEF m
  <2>5. QED
    BY <2>1, <2>4 DEF TypeOK, Hears
<1>3. QED
  BY <1>1, <1>2

\* The threads' floors and the bundles returned, when neither is touched.
LEMMA SilentHistory ==
    ASSUME TypeOK, NEW t \in Threads, UNCHANGED served,
           \/ loc' = loc
           \/ Leave(t)
           \/ \E m \in Locals : m.floor = loc[t].floor /\ loc' = [loc EXCEPT ![t] = m]
    PROVE  Keeps /\ Hears(None)
<1>1. Hears(None)
  BY DEF Hears
<1>2. CASE loc' = loc \/ Leave(t)
  BY <1>1, <1>2, LeaveHistory DEF Keeps
<1>3. CASE \E m \in Locals : m.floor = loc[t].floor /\ loc' = [loc EXCEPT ![t] = m]
  BY <1>1, <1>3 DEF TypeOK, Keeps
<1>4. QED
  BY <1>2, <1>3

\* A thread's own fields change, its floor apart.
LEMMA FloorKept ==
    ASSUME NEW l \in Locals, NEW b \in Bundle, NEW n \in Nat,
           NEW p \in {"first", "again", "after"}
    PROVE  /\ [l EXCEPT !.wit = n] \in Locals /\ [l EXCEPT !.wit = n].floor = l.floor
           /\ [l EXCEPT !.tok = b] \in Locals /\ [l EXCEPT !.tok = b].floor = l.floor
           /\ [l EXCEPT !.judged = n] \in Locals /\ [l EXCEPT !.judged = n].floor = l.floor
           /\ [l EXCEPT !.over = n] \in Locals /\ [l EXCEPT !.over = n].floor = l.floor
           /\ [l EXCEPT !.phase = p] \in Locals /\ [l EXCEPT !.phase = p].floor = l.floor
           /\ [l EXCEPT !.force = TRUE, !.res = "none"] \in Locals
           /\ [l EXCEPT !.force = TRUE, !.res = "none"].floor = l.floor
    BY DEF Locals, Results

LEMMA QuietHistory ==
    ASSUME TypeOK, NEW t \in Threads,
           (Quiet(t) /\ ~Begin(t) /\ ~Look(t)) \/ Fetch(t) \/ \E c \in Operations : Call(t, c)
    PROVE  Keeps /\ Hears(None)
<1>0. /\ loc[t] \in Locals /\ Home[t] \in Procs /\ None \in Bundle /\ {"unavailable", "refused"} \subseteq Results
      /\ gen[Home[t]] \in Nat /\ epoch[Home[t]] \in Nat /\ store \in Bundle /\ issued \in Nat
      /\ last[Home[t]] \in {"ok", "refused", "unavailable"}
  BY Homes, Blanks, Typed DEF TypeOK, Results
<1>1. CASE FetchFails(t)
  BY <1>0, <1>1, ReturnHistory DEF FetchFails
<1>2. CASE Lock(t)
  <2>1. CASE gen[Home[t]] = loc[t].seen /\ t \in missed /\ last[Home[t]] # "ok"
    <3>1. Return(t, last[Home[t]], None) /\ last[Home[t]] \in Results
      BY <1>0, <1>2, <2>1 DEF Lock
    <3>2. QED
      BY <1>0, <3>1, ReturnHistory
  <2>2. CASE ~(gen[Home[t]] = loc[t].seen /\ t \in missed /\ last[Home[t]] # "ok")
    <3> DEFINE p == IF gen[Home[t]] = loc[t].seen THEN loc[t].phase ELSE "again"
    <3>1. loc' = [loc EXCEPT ![t] = [@ EXCEPT !.basis = gen[Home[t]], !.seen = 0, !.phase = p]] /\ served' = served
      BY <1>2, <2>2 DEF Lock
    <3>2. p \in {"first", "again", "after"}
      BY Typed
    <3> HIDE DEF p
    <3> DEFINE m == [loc[t] EXCEPT !.basis = gen[Home[t]], !.seen = 0, !.phase = p]
    <3>3. m \in Locals /\ m.floor = loc[t].floor
      BY <1>0, <3>2 DEF Locals
    <3>4. loc' = [loc EXCEPT ![t] = m]
      BY <3>1
    <3> HIDE DEF m
    <3>5. QED
      BY <3>1, <3>3, <3>4, SilentHistory
  <2>3. QED
    BY <2>1, <2>2
<1>3. CASE Granted(t)
  <2> DEFINE b == [loc[t].tok EXCEPT !.serial = issued + 1]
             m == [loc[t] EXCEPT !.tok = b]
  <2>1. loc[t].tok \in Bundle
    BY Typed
  <2>2. b \in Bundle
    BY <1>0, <2>1 DEF Bundle
  <2>3. loc' = [loc EXCEPT ![t] = m] /\ served' = served
    BY <1>0, <1>3 DEF Granted, TypeOK
  <2> HIDE DEF b
  <2>4. m \in Locals /\ m.floor = loc[t].floor
    BY <1>0, <2>2, FloorKept
  <2> HIDE DEF m
  <2>5. QED
    BY <2>3, <2>4, SilentHistory
<1>4. CASE Denied(t)
  <2>1. PICK res \in {"refused", "unavailable"} : Return(t, res, None)
    BY <1>4 DEF Denied
  <2>2. QED
    BY <1>0, <2>1, ReturnHistory
<1>5. CASE Check(t)
  <2> DEFINE m == [loc[t] EXCEPT !.phase = "after"]
  <2>1. served' = served /\ (loc' = loc \/ loc' = [loc EXCEPT ![t] = m])
    BY <1>5 DEF Check, TypeOK
  <2>2. m \in Locals /\ m.floor = loc[t].floor
    BY <1>0, FloorKept
  <2> HIDE DEF m
  <2>3. QED
    BY <2>1, <2>2, SilentHistory
<1>6. CASE Judged(t)
  <2> DEFINE m == [loc[t] EXCEPT !.judged = gen[Home[t]]]
  <2>1. served' = served /\ loc' = [loc EXCEPT ![t] = m]
    BY <1>6 DEF Judged, TypeOK
  <2>2. m \in Locals /\ m.floor = loc[t].floor
    BY <1>0, FloorKept
  <2> HIDE DEF m
  <2>3. QED
    BY <2>1, <2>2, SilentHistory
<1>7. CASE Probe(t) \/ Verdict(t) \/ Mark(t) \/ Dead(t)
  BY <1>7, SilentHistory DEF Probe, Verdict, Mark, Dead
<1>8. CASE CallOrgs(t)
  <2> DEFINE m == [loc[t] EXCEPT !.force = TRUE, !.res = "none"]
  <2>1. served' = served /\ (loc' = loc \/ Leave(t) \/ loc' = [loc EXCEPT ![t] = m])
    BY <1>8 DEF CallOrgs
  <2>2. m \in Locals /\ m.floor = loc[t].floor
    BY <1>0, FloorKept
  <2> HIDE DEF m
  <2>3. QED
    BY <2>1, <2>2, SilentHistory
<1>9. CASE Fetch(t)
  <2> DEFINE m == [loc[t] EXCEPT !.tok = store]
  <2>1. served' = served /\ loc' = [loc EXCEPT ![t] = m]
    BY <1>9 DEF Fetch, TypeOK
  <2>2. m \in Locals /\ m.floor = loc[t].floor
    BY <1>0, FloorKept
  <2> HIDE DEF m
  <2>3. QED
    BY <2>1, <2>2, SilentHistory
<1>10. ASSUME NEW o \in Operations, Call(t, o)
       PROVE  Keeps /\ Hears(None)
  <2> DEFINE n == IF o \in {"tick", "recheck"} THEN epoch[Home[t]] ELSE 0
             f == (o = "recheck")
             m == [loc[t] EXCEPT !.epoch = n, !.force = f]
  <2>1. served' = served /\ loc' = [loc EXCEPT ![t] = m]
    BY <1>10 DEF Call
  <2>2. n \in Nat /\ f \in BOOLEAN
    BY <1>0
  <2> HIDE DEF n, f
  <2>3. m \in Locals /\ m.floor = loc[t].floor
    BY <1>0, <2>2 DEF Locals
  <2> HIDE DEF m
  <2>4. QED
    BY <2>1, <2>3, SilentHistory
<1>11. QED
  BY <1>1, <1>2, <1>3, <1>4, <1>5, <1>6, <1>7, <1>8, <1>9, <1>10 DEF Quiet

LEMMA OtherHistory ==
    ASSUME TypeOK, NEW t \in Threads
    PROVE  /\ Store(t) \/ Push(t) \/ Recovered(t) \/ Drop(t) => Keeps /\ Hears(None)
           /\ SignIn(t) \/ SignInFails(t) \/ SignInPublish(t) \/ Advance(t) \/ SignInPush(t) => Keeps /\ Hears(None)
           /\ SignOutDelete(t) \/ SignOutFails(t) \/ SignOutPublish(t) \/ SignOutPush(t) => Keeps /\ Hears(None)
           /\ SignOut(t) /\ ~Standing(Home[t]) => Keeps /\ Hears(None)
           /\ Keep(t) \/ Publish(t) => Keeps /\ Hears(loc[t].tok)
           /\ Hold(t) => Keeps /\ (Hears(None) \/ (Renews(t) /\ Hears(loc[t].tok)))
<1>0. /\ loc[t] \in Locals /\ loc[t].tok \in Bundle /\ None \in Bundle /\ issued \in Nat
      /\ {"live", "unavailable"} \subseteq Results
  BY Blanks, Typed DEF TypeOK, Results
<1>1. Store(t) \/ SignInPublish(t) \/ Advance(t) \/ SignOutPublish(t) => Keeps /\ Hears(None)
  BY SilentHistory DEF Store, SignInPublish, Advance, SignOutPublish
<1>2. \/ Push(t) \/ Recovered(t) \/ Drop(t) \/ SignInFails(t) \/ SignInPush(t)
      \/ SignOutFails(t) \/ SignOutPush(t)
      => Keeps /\ Hears(None)
  BY SilentHistory DEF Push, Recovered, Drop, SignInFails, SignInPush, SignOutFails, SignOutPush
<1>3. ASSUME SignIn(t) PROVE Keeps /\ Hears(None)
  <2> DEFINE b == [session |-> issued + 1, serial |-> issued + 1]
             m == [loc[t] EXCEPT !.tok = b]
  <2>1. b \in Bundle
    BY <1>0 DEF Bundle
  <2>2. served' = served /\ loc' = [loc EXCEPT ![t] = m]
    BY <1>3 DEF SignIn, TypeOK
  <2> HIDE DEF b
  <2>3. m \in Locals /\ m.floor = loc[t].floor
    BY <1>0, <2>1, FloorKept
  <2> HIDE DEF m
  <2>4. QED
    BY <2>2, <2>3, SilentHistory
<1>4. ASSUME SignOutDelete(t) PROVE Keeps /\ Hears(None)
  <2> DEFINE m == [loc[t] EXCEPT !.over = issued]
  <2>1. served' = served /\ loc' = [loc EXCEPT ![t] = m]
    BY <1>4 DEF SignOutDelete, TypeOK
  <2>2. m \in Locals /\ m.floor = loc[t].floor
    BY <1>0, FloorKept
  <2> HIDE DEF m
  <2>3. QED
    BY <2>1, <2>2, SilentHistory
<1>5. Keep(t) => Keeps /\ Hears(loc[t].tok)
  BY <1>0, FoundHistory DEF Keep
<1>6. Publish(t) => Keeps /\ Hears(loc[t].tok)
  BY <1>0, ReturnHistory DEF Publish
<1>7. Hold(t) => (Renews(t) /\ Return(t, "live", loc[t].tok)) \/ Return(t, "unavailable", None)
  BY DEF Hold, Renews
<1>8. Hold(t) => Keeps /\ (Hears(None) \/ (Renews(t) /\ Hears(loc[t].tok)))
  BY <1>0, <1>7, ReturnHistory
<1>9. SignOut(t) /\ ~Standing(Home[t]) => Keeps /\ Hears(None)
  BY SilentHistory DEF SignOut
<1>10. QED
  BY <1>1, <1>2, <1>3, <1>4, <1>5, <1>6, <1>8, <1>9

LEMMA LookHistory ==
    ASSUME TypeOK, Cached, NEW t \in Threads, Look(t)
    PROVE  Keeps /\ Hears(InForce(Home[t]))
<1>0. /\ loc[t] \in Locals /\ Home[t] \in Procs /\ witness \in Nat /\ InForce(Home[t]) \in Bundle
  BY Homes, Histories DEF TypeOK
<1>1. \/ Found(t, InForce(Home[t]))
      \/ loc' = [loc EXCEPT ![t].wit = witness] /\ served' = served
  BY <1>0 DEF Look, InForce, Cached
<1>2. CASE Found(t, InForce(Home[t]))
  BY <1>0, <1>2, FoundHistory
<1>3. CASE loc' = [loc EXCEPT ![t].wit = witness] /\ served' = served
  <2> DEFINE m == [loc[t] EXCEPT !.wit = witness]
  <2>1. served' = served /\ loc' = [loc EXCEPT ![t] = m]
    BY <1>3 DEF TypeOK
  <2>2. m \in Locals /\ m.floor = loc[t].floor
    BY <1>0, FloorKept
  <2> HIDE DEF m
  <2>3. Keeps
    BY <2>1, <2>2, SilentHistory
  <2>4. QED
    BY <1>3, <2>3 DEF Hears
<1>4. QED
  BY <1>1, <1>2, <1>3

\* What a step that forgets a kept bundle makes of the history.
LEMMA AgedHistory ==
    ASSUME TypeOK, OneProcess, NEW t \in Threads, Stamp(t) \/ (SignOut(t) /\ Standing(Home[t]))
    PROVE  /\ \A u \in Threads : loc'[u].floor = Aged(loc[u].floor)
           /\ \A x \in Procs : served'[x] = Aged(served[x])
<1>0. \A u \in Threads : loc[u] \in Locals /\ Home[u] = Home[t]
  BY Homes DEF TypeOK, OneProcess
<1>1. \A u \in Threads : [loc[u] EXCEPT !.floor.serial = 0].floor = Aged(loc[u].floor)
  BY <1>0 DEF Locals, Aged
<1>2. CASE Stamp(t)
  <2>1. /\ loc' = [u \in Threads |-> [loc[u] EXCEPT !.floor.serial = 0]]
        /\ served' = [x \in Procs |-> [served[x] EXCEPT !.serial = 0]]
    BY <1>2 DEF Stamp
  <2>2. \A u \in Threads : loc'[u] = [loc[u] EXCEPT !.floor.serial = 0]
    BY <2>1
  <2>3. \A u \in Threads : loc'[u].floor = Aged(loc[u].floor)
    BY <1>1, <2>2
  <2>4. QED
    BY <2>1, <2>3 DEF Aged
<1>3. CASE SignOut(t) /\ Standing(Home[t])
  <2>1. /\ loc' = [u \in Threads |-> IF Home[u] = Home[t] THEN [loc[u] EXCEPT !.floor.serial = 0] ELSE loc[u]]
        /\ served' = [served EXCEPT ![Home[t]].serial = 0]
    BY <1>3 DEF SignOut
  <2>2. \A u \in Threads : loc'[u] = [loc[u] EXCEPT !.floor.serial = 0]
    BY <1>0, <2>1
  <2>3. \A u \in Threads : loc'[u].floor = Aged(loc[u].floor)
    BY <1>1, <2>2
  <2>4. \A x \in Procs : served'[x] = Aged(served[x])
    BY <1>0, <2>1, Homes DEF TypeOK, OneProcess, Aged
  <2>5. QED
    BY <2>3, <2>4
<1>4. QED
  BY <1>2, <1>3

\* A bundle is in hand from the keychain when it has just been fetched.
LEMMA OnlyFetch ==
    ASSUME TypeOK, NEW t \in Threads, Step(t) \/ (\E c \in Operations : Call(t, c)), pc'[t] = "keep"
    PROVE  Fetch(t)
<1>1. ~(Quiet(t) \/ \E o \in Operations : Call(t, o))
  BY QuietFacts
<1>2. ~(Keep(t) \/ Store(t) \/ Publish(t) \/ Hold(t) \/ Push(t) \/ Recovered(t) \/ Drop(t))
  BY Whereto DEF Outcomes
<1>3. ~(SignIn(t) \/ SignInFails(t) \/ SignInPublish(t) \/ Advance(t) \/ Stamp(t) \/ SignInPush(t)
        \/ SignOut(t) \/ SignOutDelete(t) \/ SignOutFails(t) \/ SignOutPublish(t) \/ SignOutPush(t))
  BY SignInFacts, SignInFailsFacts, SignInPublishFacts, AdvanceFacts, StampFacts,
     SignInPushFacts, SignOutFacts, SignOutDeleteFacts, SignOutFailsFacts, SignOutPublishFacts, SignOutPushFacts
  DEF Takes, Moves, Ends, Outs
<1>4. QED
  BY <1>1, <1>2, <1>3 DEF Step, Quiet

\* What is known of after a step was known of before it, or was in force.
LEMMA BoundLasts ==
    ASSUME Base, Cached, OneProcess, NEW t \in Threads, Step(t) \/ (\E c \in Operations : Call(t, c))
    PROVE  \A c \in Bundle : /\ Bound(c) /\ AtMost(InForce(Home[t]), c) /\ AtMost(store, c)
                             /\ Publish(t) \/ (Hold(t) /\ Renews(t)) => AtMost(loc[t].tok, c)
                             => BoundNext(c)
<1>0. /\ TypeOK /\ TypeOK' /\ Alone(t) /\ Home[t] \in Procs
  BY StepBase, CallBase, Homes DEF Base, Turn
<1> SUFFICES ASSUME NEW c \in Bundle, Bound(c), AtMost(InForce(Home[t]), c), AtMost(store, c),
                    Publish(t) \/ (Hold(t) /\ Renews(t)) => AtMost(loc[t].tok, c)
             PROVE  BoundNext(c)
  OBVIOUS
<1>1. \/ Keeps /\ \E b \in Bundle : AtMost(b, c) /\ Hears(b)
      \/ Hears(None) /\ \A u \in Threads :
             loc'[u].floor \in {loc[u].floor, None, InForce(Home[t]), served[Home[t]], Aged(loc[u].floor)}
      \/ /\ \A u \in Threads : loc'[u].floor \in {None, Aged(loc[u].floor)}
         /\ \A x \in Procs : served'[x] = Aged(served[x])
  <2>0. None \in Bundle /\ AtMost(None, c) /\ InForce(Home[t]) \in Bundle /\ loc[t].tok \in Bundle
    BY <1>0, Ages, Blanks, Histories, Typed
  <2>1. CASE Begin(t)
    BY <1>0, <2>1, BeginHistory
  <2>2. CASE Look(t)
    BY <1>0, <2>0, <2>2, LookHistory
  <2>3. CASE Stamp(t) \/ (SignOut(t) /\ Standing(Home[t]))
    BY <1>0, <2>3, AgedHistory
  <2>4. CASE (Quiet(t) /\ ~Begin(t) /\ ~Look(t)) \/ Fetch(t) \/ \E o \in Operations : Call(t, o)
    BY <1>0, <2>0, <2>4, QuietHistory
  <2>5. CASE Keep(t) \/ Publish(t) \/ Hold(t)
    <3>1. Keep(t) \/ Publish(t) \/ (Hold(t) /\ Renews(t)) => AtMost(loc[t].tok, c)
      BY <2>5 DEF Bound, Keep, At
    <3>2. QED
      BY <1>0, <2>0, <2>5, <3>1, OtherHistory
  <2>6. CASE \/ Store(t) \/ Push(t) \/ Recovered(t) \/ Drop(t) \/ SignIn(t) \/ SignInFails(t) \/ SignInPublish(t)
             \/ Advance(t) \/ SignInPush(t) \/ (SignOut(t) /\ ~Standing(Home[t])) \/ SignOutDelete(t)
             \/ SignOutFails(t) \/ SignOutPublish(t) \/ SignOutPush(t)
    BY <1>0, <2>0, <2>6, OtherHistory
  <2>7. QED
    BY <2>1, <2>2, <2>3, <2>4, <2>5, <2>6 DEF Step, Quiet
<1>2. /\ AtMost(None, c) /\ AtMost(served[Home[t]], c)
      /\ \A u \in Threads : loc[u].floor \in Bundle /\ AtMost(loc[u].floor, c) /\ AtMost(Aged(loc[u].floor), c)
      /\ \A x \in Procs : served[x] \in Bundle /\ AtMost(served[x], c) /\ AtMost(Aged(served[x]), c)
  BY <1>0, Histories, Ages DEF Bound
<1>3. \A b \in Bundle : AtMost(b, c) /\ Hears(b) => \A x \in Procs : AtMost(served'[x], c)
  BY <1>2 DEF Hears, Later
<1>4. /\ \A u \in Threads : AtMost(loc'[u].floor, c)
      /\ \A x \in Procs : AtMost(served'[x], c)
  <2>1. None \in Bundle
    BY Blanks
  <2>2. QED
    BY <1>1, <1>2, <1>3, <2>1 DEF Keeps
<1>5. ASSUME NEW u \in Threads, pc'[u] = "keep"
      PROVE  AtMost(loc'[u].tok, c)
  <2>1. CASE u # t
    BY <1>0, <1>5, <2>1 DEF Alone, Same, Bound
  <2>2. CASE u = t
    <3>1. Fetch(t)
      BY <1>0, <1>5, <2>2, OnlyFetch
    <3>2. QED
      BY <1>0, <2>2, <3>1, FetchFacts DEF Takes
  <2>3. QED
    BY <2>1, <2>2
<1>6. QED
  BY <1>4, <1>5 DEF BoundNext

\* A greater bound bounds as well.
LEMMA BoundUp ==
    ASSUME TypeOK, NEW b \in Bundle, NEW c \in Bundle, AtMost(b, c)
    PROVE  (Bound(b) => Bound(c)) /\ (TypeOK' /\ BoundNext(b) => BoundNext(c))
<1>1. Bound(b) => Bound(c)
  BY Histories, Typed, Ranks DEF Bound
<1>2. TypeOK' /\ BoundNext(b) => BoundNext(c)
  <2> SUFFICES ASSUME TypeOK', BoundNext(b) PROVE BoundNext(c)
    OBVIOUS
  <2>1. /\ \A t \in Threads : loc'[t] \in Locals
        /\ \A x \in Procs : served'[x] \in Bundle
    BY DEF TypeOK
  <2>2. \A t \in Threads : loc'[t].floor \in Bundle /\ loc'[t].tok \in Bundle
    BY <2>1 DEF Locals
  <2>3. QED
    BY <2>1, <2>2, Ranks DEF BoundNext
<1>3. QED
  BY <1>1, <1>2

\* A session's bundle with the latest token; a write waits to be published.
Newest(s) == [session |-> s, serial |-> issued]
Open == \E k \in Threads : pc[k] \in {"publish", "signInPublish"}

\* No session is of the future, and nothing is known of a later token.
Dated ==
    /\ store.session <= issued
    /\ \A x \in Procs : unstored[x].tok.session <= issued
    /\ \A t \in Threads : loc[t].tok.session <= issued
    /\ Bound(Newest(issued))
\* A renewal that waits to be published is what the keychain holds.
Written == \A t \in Threads : pc[t] = "publish" => store = loc[t].tok
\* Where a bundle is kept after a sign-out has emptied the keychain, it stays empty until
\* somebody signs in.
Leaving ==
    \A x \in Procs : Standing(x) /\ (\E k \in Threads : pc[k] = "signOutPublish") => store = None \/ Open
\* The keychain's bundle bounds what is known, unless a kept one stands; the
\* kept one bounds it while no write waits to be published.
StoreLeads ==
    \A x \in Procs : store # None /\ (~Standing(x) \/ Open)
                        => Bound(store) /\ (Standing(x) => AtMost(unstored[x].tok, store))
KeptLeads == \A x \in Procs : Standing(x) /\ ~Open => Bound(unstored[x].tok)
\* A bundle fetched is not behind the read's floor, nor ahead of the keychain.
Fetched(t) ==
    /\ pc[t] = "fetch" => store = None \/ AtMost(loc[t].floor, store)
    /\ pc[t] = "keep" => /\ loc[t].tok = None \/ AtMost(loc[t].floor, loc[t].tok)
                         /\ store = None \/ AtMost(loc[t].tok, store)
\* The generation has not moved since the thread noted it.
Vouched(t) ==
    \/ pc[t] \in {"lock", "keep"} /\ loc[t].phase = "first" /\ loc[t].seen = gen[Home[t]]
    \/ pc[t] \in Reading /\ UnderLock(t) /\ loc[t].basis = gen[Home[t]]
\* Then its bundle is of the latest session known, and a token granted to it
\* is the latest issued.
Led(t) ==
    /\ Vouched(t) /\ loc[t].tok # None => Bound(Newest(loc[t].tok.session))
    /\ pc[t] \in {"granted", "store", "hold"} /\ loc[t].basis = gen[Home[t]] => loc[t].tok.serial = issued

\* The invariant.  A thread's generation counts once nobody is landing.
Ranked ==
    /\ Abreast /\ Dated /\ Written /\ Leaving /\ StoreLeads /\ KeptLeads
    /\ \A t \in Threads : Fetched(t)
    /\ Settled => \A t \in Threads : Led(t)

LEMMA Newer ==
    ASSUME TypeOK
    PROVE  /\ \A s \in Nat : Newest(s) \in Bundle /\ Newest(s).session = s /\ Newest(s).serial = issued
           /\ \A b \in Bundle : \A s \in Nat : b.session <= s /\ b.serial <= issued => AtMost(b, Newest(s))
           /\ \A b \in Bundle : b.serial = issued => Newest(b.session) = b
<1>0. issued \in Nat
  BY DEF TypeOK
<1>1. \A s \in Nat : Newest(s) \in Bundle /\ Newest(s).session = s /\ Newest(s).serial = issued
  BY <1>0 DEF Newest, Bundle
<1>2. \A b \in Bundle : \A s \in Nat : b.session <= s /\ b.serial <= issued => AtMost(b, Newest(s))
  BY <1>0, <1>1, Numbers DEF AtMost, Older
<1>3. \A b \in Bundle : b.serial = issued => Newest(b.session) = b
  BY DEF Newest, Bundle
<1>4. QED
  BY <1>1, <1>2, <1>3

\* The bundle a thread has after a step.
LEMMA TokBy ==
    ASSUME TypeOK, Cached, NEW t \in Threads, Step(t) \/ (\E c \in Operations : Call(t, c))
    PROVE  \/ loc'[t].tok \in {loc[t].tok, None}
           \/ Look(t) /\ loc'[t].tok = InForce(Home[t])
           \/ Fetch(t) /\ loc'[t].tok = store
           \/ Granted(t) /\ loc'[t].tok.session = loc[t].tok.session
           \/ SignIn(t) /\ loc'[t].tok = store'
<1>1. \A b : Read(t, b) => loc'[t].tok \in {b, None}
  BY DEF Read, Came, Ends, Answers, Onward, Takes
<1>2. CASE Look(t)
  BY <1>1, <1>2, LookFacts, Homes DEF Cached, InForce, Moves, Same
<1>3. CASE Fetch(t) \/ Granted(t) \/ SignIn(t)
  BY <1>3, FetchFacts, GrantedFacts, SignInFacts DEF Takes
<1>4. CASE Keep(t) \/ Publish(t) \/ Hold(t)
  BY <1>1, <1>4, KeepFacts, PublishFacts, HoldFacts DEF Came, Ends, Answers
<1>5. CASE Begin(t) \/ FetchFails(t) \/ Lock(t) \/ Denied(t) \/ Check(t) \/ Store(t)
  BY <1>5, BeginFacts, FetchFailsFacts, LockFacts, DeniedFacts, CheckFacts, StoreFacts
  DEF Came, Ends, Answers, Starts, Locks, ReadsAgain, Moves, Same
<1>6. CASE \/ Push(t) \/ Judged(t) \/ Probe(t) \/ Recovered(t) \/ Verdict(t) \/ Mark(t) \/ Dead(t) \/ Drop(t)
           \/ CallOrgs(t)
  BY <1>6, PushFacts, JudgedFacts, ProbeFacts, VerdictFacts, MarkFacts, DeadFacts, CallOrgsFacts
  DEF Ends, Moves, Same, Judges, Repeats
<1>7. CASE SignInFails(t) \/ SignInPublish(t) \/ Advance(t) \/ Stamp(t) \/ SignInPush(t)
  BY <1>7, SignInFailsFacts, SignInPublishFacts, AdvanceFacts, StampFacts, SignInPushFacts DEF Ends, Moves, Same
<1>8. CASE SignOut(t) \/ SignOutDelete(t) \/ SignOutFails(t) \/ SignOutPublish(t) \/ SignOutPush(t)
  BY <1>8, SignOutFacts, SignOutDeleteFacts, SignOutFailsFacts, SignOutPublishFacts, SignOutPushFacts DEF Ends, Moves, Same, Outs
<1>9. CASE \E c \in Operations : Call(t, c)
  BY <1>9, CallFacts DEF Calls
<1>10. QED
  BY <1>2, <1>3, <1>4, <1>5, <1>6, <1>7, <1>8, <1>9 DEF Step

\* Only a renewal and a sign-in put a bundle into the keychain.
LEMMA StoreBy ==
    ASSUME TypeOK, NEW t \in Threads, Step(t) \/ \E c \in Operations : Call(t, c)
    PROVE  store' \in {store, None} \/ SignIn(t) \/ (Store(t) /\ Moves(t, "publish") /\ store' = loc[t].tok)
<1>1. CASE Quiet(t) \/ \E c \in Operations : Call(t, c)
  BY <1>1, QuietFacts
<1>2. CASE \/ Fetch(t) \/ Keep(t) \/ Push(t) \/ Recovered(t) \/ Drop(t) \/ Publish(t) \/ Hold(t) \/ SignInPublish(t)
           \/ Advance(t) \/ Stamp(t) \/ SignInPush(t) \/ SignOut(t) \/ SignOutPublish(t) \/ SignOutPush(t)
  BY <1>2 DEF Fetch, Keep, Push, Recovered, Drop, Publish, Hold, SignInPublish, Advance, Stamp, SignInPush,
              SignOut, SignOutPublish, SignOutPush, worldVars
<1>3. CASE Store(t)
  <2>1. \/ Moves(t, "publish") /\ Write(Home[t], loc[t].tok)
        \/ \E b \in {store, None} : Write(Home[t], b)
    BY <1>3, StoreFacts
  <2>2. QED
    BY <1>3, <2>1 DEF Write
<1>4. CASE SignOutDelete(t) \/ SignInFails(t) \/ SignOutFails(t)
  BY <1>4 DEF SignOutDelete, SignInFails, SignOutFails, Write
<1>5. QED
  BY <1>1, <1>2, <1>3, <1>4 DEF Step, Quiet

\* Nobody lands on a thread between its check and what that is for.
LEMMA Unhurried ==
    ASSUME OneProcess, Prompt, NEW t \in Threads, NEW u \in Threads, Hasty(u)
    PROVE  ~(SignIn(t) \/ SignInPublish(t) \/ SignOutDelete(t) \/ SignOutPublish(t))
<1>1. Home[u] = Home[t]
  BY Homes DEF OneProcess
<1>2. ~MayLand(t)
  BY <1>1 DEF MayLand, Prompt
<1>3. QED
  BY <1>2 DEF SignIn, SignInPublish, SignOutDelete, SignOutPublish

\* What binds the bundle of a thread that may renew it binds the one in force.
LEMMA CurrentLow ==
    ASSUME TypeOK, NEW x \in Procs, NEW c \in Bundle, Current(x, c)
    PROVE  AtMost(store, c) /\ AtMost(InForce(x), c) /\ (Standing(x) => AtMost(unstored[x].tok, c))
    BY Ranks, Typed DEF Current, InForce

LEMMA DatedStep ==
    ASSUME Ranked, OneProcess, NEW t \in Threads, Step(t) \/ (\E c \in Operations : Call(t, c))
    PROVE  Dated' /\ BoundNext(Newest(issued))
<1>0. /\ Base /\ TypeOK /\ TypeOK' /\ Alone(t) /\ Home[t] \in Procs /\ Cached /\ Dated /\ Fit(t) /\ Stocked
      /\ issued \in Nat /\ issued' \in Nat /\ issued <= issued'
  <2>1. Base /\ Cached /\ Dated
    BY DEF Ranked, Abreast, Coherent
  <2>2. TypeOK' /\ Mono /\ Alone(t)
    BY <2>1, StepBase, CallBase DEF Base, Turn
  <2>3. QED
    BY <2>1, <2>2, Typed DEF Base, Mono, TypeOK
<1>1. /\ loc[t].tok.session <= issued /\ loc[t].tok.session \in Nat
      /\ InForce(Home[t]).session <= issued /\ InForce(Home[t]).session \in Nat
      /\ store.session <= issued /\ store.session \in Nat
  BY <1>0, Typed, Numbers DEF Dated, InForce
<1>2. SignIn(t) => store'.session <= issued' /\ issued' = issued + 1
  <2>1. SignIn(t) => issued' = issued + 1
    BY DEF SignIn
  <2>2. SignIn(t) => store'.session = issued + 1
    BY <1>0, SignInFacts
  <2>3. QED
    BY <1>0, <2>1, <2>2
<1>3. store'.session <= issued'
  <2>1. store' \in {store, None} \/ SignIn(t) \/ store' = loc[t].tok
    BY <1>0, StoreBy
  <2>2. QED
    BY <1>0, <1>1, <1>2, <2>1, Numbers
<1>4. \A x \in Procs : unstored'[x].tok.session <= issued'
  <2>1. \A x \in Procs : unstored'[x].tok \in {unstored[x].tok, None, loc[t].tok}
    BY <1>0, UnstoredBy, HoldFacts DEF Holds
  <2>2. \A x \in Procs : unstored[x].tok.session \in Nat /\ unstored[x].tok.session <= issued
    BY <1>0, Typed, Numbers DEF Dated
  <2>3. QED
    BY <1>0, <1>1, <2>1, <2>2, Numbers
<1>5. \A u \in Threads : loc'[u].tok.session <= issued'
  <2>1. loc'[t].tok.session <= issued'
    BY <1>0, <1>1, <1>2, TokBy, Numbers
  <2>2. \A u \in Threads : loc[u].tok.session \in Nat /\ loc[u].tok.session <= issued
    BY <1>0, Typed, Numbers DEF Dated
  <2>3. QED
    BY <1>0, <2>1, <2>2 DEF Alone, Same
<1>6. BoundNext(Newest(issued))
  <2>1. Newest(issued) \in Bundle
    BY <1>0, Newer
  <2>2. /\ InForce(Home[t]) \in Bundle /\ store \in Bundle /\ loc[t].tok \in Bundle
        /\ InForce(Home[t]).serial <= issued /\ store.serial <= issued /\ loc[t].tok.serial <= issued
    BY <1>0, Typed DEF Stocked, InForce, Fit, Clocked
  <2>3. AtMost(InForce(Home[t]), Newest(issued)) /\ AtMost(store, Newest(issued)) /\ AtMost(loc[t].tok, Newest(issued))
    BY <1>0, <1>1, <2>2, Newer
  <2>4. Bound(Newest(issued))
    BY <1>0 DEF Dated
  <2>5. QED
    BY <1>0, <2>1, <2>3, <2>4, BoundLasts
<1>7. Bound(Newest(issued))'
  <2> DEFINE n == [session |-> issued', serial |-> issued']
  <2>1. n \in Bundle /\ Newest(issued) \in Bundle
    BY <1>0, Newer DEF Bundle
  <2>2. AtMost(Newest(issued), n)
    BY <1>0, Newer DEF AtMost, Older
  <2>3. BoundNext(n)
    BY <1>0, <1>6, <2>1, <2>2, BoundUp
  <2>4. n = Newest(issued)'
    BY DEF Newest
  <2> HIDE DEF n
  <2>5. QED
    BY <2>3, <2>4 DEF Bound, BoundNext
<1>8. QED
  BY <1>3, <1>4, <1>5, <1>6, <1>7 DEF Dated

\* While a renewal waits to be published, nobody else writes.
LEMMA PublishAlone ==
    ASSUME Base, OneProcess, Prompt, NEW t \in Threads, Step(t) \/ (\E c \in Operations : Call(t, c)),
           NEW u \in Threads \ {t}, pc[u] = "publish"
    PROVE  store' = store
<1>1. ~(SignIn(t) \/ SignInPublish(t) \/ SignOutDelete(t) \/ SignOutPublish(t))
  BY Unhurried DEF Hasty
<1>2. Home[u] = Home[t]
  BY Homes DEF OneProcess
<1>3. ~MayLand(t)
  BY <1>2 DEF MayLand, Prompt, Hasty
<1>4. ~Store(t)
  BY OneUnderLock DEF UnderLock, Store, At
<1>5. ~SignOutFails(t)
  BY <1>3 DEF SignOutFails
<1>6. SignInFails(t) => store' = store
  BY <1>3 DEF SignInFails
<1>7. CASE Quiet(t) \/ \E c \in Operations : Call(t, c)
  BY <1>7, QuietFacts DEF Base
<1>8. CASE \/ Fetch(t) \/ Keep(t) \/ Push(t) \/ Recovered(t) \/ Drop(t) \/ Publish(t) \/ Hold(t)
           \/ Advance(t) \/ Stamp(t) \/ SignInPush(t) \/ SignOut(t) \/ SignOutPush(t)
  BY <1>8 DEF Fetch, Keep, Push, Recovered, Drop, Publish, Hold, Advance, Stamp, SignInPush, SignOut, SignOutPush,
              worldVars
<1>9. QED
  BY <1>1, <1>4, <1>5, <1>6, <1>7, <1>8 DEF Step, Quiet

\* A renewal is published by the thread that wrote it.
LEMMA OnlyStore ==
    ASSUME TypeOK, NEW t \in Threads, Step(t) \/ (\E c \in Operations : Call(t, c))
    PROVE  /\ pc'[t] = "publish" => Store(t) /\ Moves(t, "publish") /\ store' = loc[t].tok
           /\ pc'[t] = "signInPublish" => SignIn(t)
           /\ pc'[t] = "signOutPublish" => SignOutDelete(t)
<1>1. CASE Quiet(t) \/ \E c \in Operations : Call(t, c)
  BY <1>1, QuietFacts DEF SigningIn
<1>2. CASE Fetch(t) \/ Keep(t) \/ Publish(t) \/ Hold(t) \/ Push(t) \/ Recovered(t) \/ Drop(t)
  BY <1>2, Whereto DEF Outcomes
<1>3. CASE Store(t)
  BY <1>3, StoreFacts DEF Moves, Write
<1>4. CASE SignIn(t) \/ SignInFails(t) \/ SignInPublish(t) \/ Advance(t) \/ Stamp(t) \/ SignInPush(t)
  BY <1>4, SignInFacts, SignInFailsFacts, SignInPublishFacts, AdvanceFacts, StampFacts, SignInPushFacts
  DEF Takes, Moves, Ends
<1>5. CASE SignOut(t) \/ SignOutDelete(t) \/ SignOutFails(t) \/ SignOutPublish(t) \/ SignOutPush(t)
  BY <1>5, SignOutFacts, SignOutDeleteFacts, SignOutFailsFacts, SignOutPublishFacts, SignOutPushFacts DEF Moves, Ends, Outs
<1>6. QED
  BY <1>1, <1>2, <1>3, <1>4, <1>5 DEF Step, Quiet

LEMMA WrittenStep ==
    ASSUME Ranked, OneProcess, Prompt, NEW t \in Threads, Step(t) \/ (\E c \in Operations : Call(t, c))
    PROVE  Written'
<1>0. Base /\ TypeOK /\ Alone(t) /\ Written
  BY StepBase, CallBase DEF Ranked, Abreast, Coherent, Base, Turn
<1>1. pc'[t] = "publish" => store' = loc'[t].tok
  BY <1>0, OnlyStore DEF Moves, Same
<1>2. \A u \in Threads \ {t} : pc'[u] = "publish" => store' = loc'[u].tok
  BY <1>0, PublishAlone DEF Written, Alone, Same
<1>3. QED
  BY <1>1, <1>2 DEF Written

\* Nothing is kept while somebody lands.
LEMMA HoldCalm ==
    ASSUME Base, OneProcess, Prompt, NEW t \in Threads, Hold(t)
    PROVE  Settled /\ ~Open
<1>1. UnderLock(t) /\ pc[t] = "hold"
  BY DEF Hold, At, UnderLock
<1>2. \A k \in Threads : pc[k] # "publish"
  BY <1>1, OneUnderLock DEF UnderLock
<1>3. Peers(t, Landing) = {}
  BY DEF Hold, MayCheck, Prompt
<1>4. \A k \in Threads : pc[k] \notin Landing
  BY <1>3, Homes DEF Peers, OneProcess
<1>5. QED
  BY <1>2, <1>4 DEF Settled, Open, Landing

\* A write is published, once written, with a move of the generation.
LEMMA Closes ==
    ASSUME Base, OneProcess, NEW t \in Threads, Step(t) \/ (\E c \in Operations : Call(t, c)), Open, ~Open'
    PROVE  Publish(t) \/ SignInPublish(t)
<1>1. Alone(t)
  BY StepBase, CallBase DEF Base, Turn
<1>2. pc[t] \in {"publish", "signInPublish"}
  BY <1>1 DEF Open, Alone
<1>3. QED
  BY <1>2 DEF Step, At, Begin, Look, Fetch, FetchFails, Keep, Lock, Granted, Denied, Check, Store,
              Hold, Push, Judged, Probe, Recovered, Verdict, Mark, Dead, Drop, CallOrgs, SignIn, SignInFails,
              Advance, Stamp, SignInPush, SignOut, SignOutDelete, SignOutFails, SignOutPublish, SignOutPush, Call

LEMMA LeavingStep ==
    ASSUME Ranked, OneProcess, Prompt, NEW t \in Threads, Step(t) \/ (\E c \in Operations : Call(t, c))
    PROVE  Leaving'
<1>0. Base /\ TypeOK /\ Alone(t) /\ Leaving
  BY StepBase, CallBase DEF Ranked, Abreast, Coherent, Base, Turn
<1>1. SUFFICES ASSUME NEW x \in Procs, StandingNext(x), NEW k \in Threads, pc'[k] = "signOutPublish",
                      store' # None, ~Open'
               PROVE  FALSE
  BY DEF Leaving, Standing, StandingNext
<1>2. CASE k = t
  <2>1. SignOutDelete(t)
    BY <1>0, <1>1, <1>2, OnlyStore
  <2>2. QED
    BY <1>1, <2>1 DEF SignOutDelete, Write
<1>3. CASE k # t
  <2>1. pc[k] = "signOutPublish"
    BY <1>0, <1>1, <1>3 DEF Alone
  <2>2. ~Hold(t)
    BY <1>0, <2>1, HoldCalm DEF Settled, Landing
  <2>3. Standing(x)
    BY <1>0, <1>1, <2>2, StandsBack
  <2>4. ~Open
    BY <1>0, <1>1, Closes, MovedFalls
  <2>5. store = None
    BY <1>0, <2>1, <2>3, <2>4 DEF Leaving
  <2>6. SignIn(t) \/ (Store(t) /\ Moves(t, "publish"))
    BY <1>0, <1>1, <2>5, StoreBy
  <2>7. pc'[t] \in {"publish", "signInPublish"}
    BY <1>0, <2>6, SignInFacts DEF Takes, Moves
  <2>8. QED
    BY <1>1, <2>7 DEF Open
<1>4. QED
  BY <1>2, <1>3

\* What stops a kept bundle from standing, the generation's move apart.
LEMMA Falls ==
    ASSUME Base, OneProcess, NEW t \in Threads, Step(t) \/ (\E c \in Operations : Call(t, c)), ~Hold(t),
           NEW x \in Procs, Standing(x), ~StandingNext(x)
    PROVE  Publish(t) \/ SignInPublish(t) \/ SignOutPublish(t) \/ Stamp(t) \/ SignOut(t)
<1> SUFFICES ASSUME ~(Publish(t) \/ SignInPublish(t) \/ SignOutPublish(t) \/ Stamp(t) \/ SignOut(t))
             PROVE  FALSE
  OBVIOUS
<1>1. UNCHANGED <<gen, unstored, witness>>
  <2>1. CASE Quiet(t) \/ \E c \in Operations : Call(t, c)
    BY <2>1, QuietFacts DEF Base
  <2>2. CASE \/ Fetch(t) \/ Keep(t) \/ Store(t) \/ Push(t) \/ Recovered(t) \/ Drop(t) \/ SignIn(t) \/ SignInFails(t)
             \/ Advance(t) \/ SignInPush(t) \/ SignOutDelete(t) \/ SignOutFails(t) \/ SignOutPush(t)
    BY <2>2 DEF Fetch, Keep, Store, Push, Recovered, Drop, SignIn, SignInFails, Advance, SignInPush,
                SignOutDelete, SignOutFails, SignOutPush, worldVars, procVars
  <2>3. QED
    BY <2>1, <2>2 DEF Step, Quiet
<1>2. QED
  BY <1>1 DEF Standing, StandingNext

\* A renewal that is about to be stored, or kept, is ahead of all that is known.
LEMMA RenewalLeads ==
    ASSUME Ranked, OneProcess, Prompt, NEW t \in Threads, Settled,
           \/ Store(t)
           \/ Hold(t) /\ Renews(t)
    PROVE  Bound(loc[t].tok) /\ Current(Home[t], loc[t].tok) /\ loc[t].tok # None /\ loc[t].tok \in Bundle
<1>1. /\ Base /\ Led(t) /\ Held(t) /\ Fit(t) /\ loc[t].tok \in Bundle /\ Decided(t)
  BY Typed DEF Ranked, Abreast, Coherent, Base
<1>2. pc[t] \in {"store", "hold"} /\ loc[t].basis = gen[Home[t]]
  BY <1>1 DEF Store, Hold, At, Renews, Decided
<1>3. UnderLock(t) /\ pc[t] \in Reading \ {"keep"}
  BY <1>2 DEF UnderLock, Reading
<1>4. loc[t].tok # None /\ loc[t].tok.serial = issued /\ Bound(Newest(loc[t].tok.session))
  BY <1>1, <1>2, <1>3 DEF Fit, Ordered, Led, Vouched
<1>5. Newest(loc[t].tok.session) = loc[t].tok
  BY <1>1, <1>4, Newer DEF Base
<1>6. Current(Home[t], loc[t].tok)
  BY <1>1, <1>2, <1>3 DEF Held
<1>7. QED
  BY <1>1, <1>4, <1>5, <1>6

LEMMA StoreSettled ==
    ASSUME Coherent, OneProcess, NEW t \in Threads, Store(t)
    PROVE  Settled
<1>1. pc[t] = "store" /\ UnderLock(t) /\ Decided(t)
  BY DEF Store, At, UnderLock, Coherent
<1>2. \A k \in Threads : pc[k] # "publish"
  BY <1>1, OneUnderLock DEF UnderLock, Coherent
<1>3. QED
  BY <1>1, <1>2 DEF Decided, Calm, Settled

\* With a kept bundle dropped, what is known has its session for bound.
LEMMA AgedLeads ==
    ASSUME Ranked, OneProcess, NEW t \in Threads, Stamp(t) \/ SignOut(t), NEW x \in Procs,
           Standing(x), ~Open, store # None
    PROVE  BoundNext(store)
<1>0. /\ Base /\ TypeOK /\ Alone(t) /\ Step(t) /\ store \in Bundle /\ unstored[x].tok \in Bundle
      /\ Bound(unstored[x].tok)
  <2>1. Base /\ Step(t) /\ KeptLeads
    BY DEF Ranked, Abreast, Coherent, Step
  <2>2. QED
    BY <2>1, StepBase, Typed DEF Base, Turn, KeptLeads
<1>1. Settled
  BY DEF Ranked, Leaving, Open, Settled, Landing
<1>2. store.session = unstored[x].tok.session
  BY <1>1 DEF Ranked, Abreast, Renewed, Under
<1>3. \A b \in Bundle : AtMost(b, unstored[x].tok) => AtMost(Aged(b), store)
  BY <1>0, <1>2, Ages, Numbers DEF AtMost, Older
<1>4. /\ \A u \in Threads : AtMost(loc'[u].floor, store)
      /\ \A y \in Procs : AtMost(served'[y], store)
  <2>1. Home[t] = x
    BY Homes DEF OneProcess
  <2>2. QED
    BY <1>0, <1>3, <2>1, AgedHistory, Histories, Ages DEF Bound
<1>5. ASSUME NEW u \in Threads, pc'[u] = "keep"
      PROVE  AtMost(loc'[u].tok, store)
  <2>1. u # t
    BY <1>0, <1>5, StampFacts, SignOutFacts DEF Moves
  <2>2. pc[u] = "keep" /\ loc'[u].tok = loc[u].tok
    BY <1>0, <1>5, <2>1 DEF Alone, Same
  <2>3. QED
    BY <2>2 DEF Ranked, Fetched
<1>6. QED
  BY <1>4, <1>5 DEF BoundNext

LEMMA StoreLeadsStep ==
    ASSUME Ranked, OneProcess, Prompt, NEW t \in Threads, Step(t) \/ (\E c \in Operations : Call(t, c)),
           NEW x \in Procs, store' # None, ~StandingNext(x) \/ Open'
    PROVE  BoundNext(store') /\ (StandingNext(x) => AtMost(unstored'[x].tok, store'))
<1>0. /\ Base /\ TypeOK /\ TypeOK' /\ Alone(t) /\ Home[t] \in Procs /\ Cached /\ Home[t] = x
      /\ store \in Bundle /\ store' \in Bundle /\ loc[t].tok \in Bundle /\ Coherent
  <2>1. Base /\ Cached /\ Coherent
    BY DEF Ranked, Abreast, Coherent
  <2>2. TypeOK' /\ Alone(t)
    BY <2>1, StepBase, CallBase DEF Base, Turn
  <2>3. store' \in Bundle
    BY <2>2 DEF TypeOK
  <2>4. QED
    BY <2>1, <2>2, <2>3, Typed, Homes DEF Base, OneProcess
<1>1. CASE Store(t) /\ store' = loc[t].tok
  <2>1. Bound(loc[t].tok) /\ Current(Home[t], loc[t].tok)
    BY <1>0, <1>1, StoreSettled, RenewalLeads
  <2>2. AtMost(store, loc[t].tok) /\ AtMost(InForce(Home[t]), loc[t].tok)
        /\ (Standing(x) => AtMost(unstored[x].tok, loc[t].tok))
    BY <1>0, <2>1, CurrentLow
  <2>3. BoundNext(loc[t].tok)
    <3>1. ~(Publish(t) \/ Hold(t))
      BY <1>1 DEF Store, Publish, Hold, At
    <3>2. QED
      BY <1>0, <2>1, <2>2, <3>1, BoundLasts
  <2>4. StandingNext(x) => Standing(x) /\ unstored'[x] = unstored[x]
    <3>1. ~Hold(t)
      BY <1>1 DEF Store, Hold, At
    <3>2. QED
      BY <1>0, <3>1, StandsBack
  <2>5. QED
    BY <1>1, <2>2, <2>3, <2>4
<1>2. CASE SignIn(t)
  <2>1. store'.session = issued + 1 /\ store'.serial = issued + 1 /\ issued \in Nat
    BY <1>0, <1>2, SignInFacts, Typed
  <2>2. BoundNext(Newest(issued)) /\ Newest(issued) \in Bundle /\ AtMost(Newest(issued), store')
    <3>1. Newest(issued) \in Bundle /\ Newest(issued).session = issued
      BY <1>0, <2>1, Newer
    <3>2. AtMost(Newest(issued), store')
      BY <2>1, <3>1 DEF AtMost, Older
    <3>3. QED
      BY <3>1, <3>2, DatedStep
  <2>3. BoundNext(store')
    BY <1>0, <2>2, BoundUp
  <2>4. StandingNext(x) => unstored'[x] = unstored[x]
    <3>1. ~Hold(t)
      BY <1>2 DEF SignIn, Hold, At
    <3>2. QED
      BY <1>0, <3>1, StandsBack
  <2>5. AtMost(unstored[x].tok, store')
    <3>1. unstored[x].tok.session <= issued /\ unstored[x].tok.session \in Nat
      BY <1>0, Typed, Numbers DEF Ranked, Dated
    <3>2. QED
      BY <2>1, <3>1 DEF AtMost, Older
  <2>6. QED
    BY <2>3, <2>4, <2>5
<1>3. CASE store' = store /\ ~Hold(t) /\ (~Standing(x) \/ Open)
  <2>1. Bound(store) /\ (Standing(x) => AtMost(unstored[x].tok, store)) /\ AtMost(store, store)
    BY <1>0, <1>3, Ages DEF Ranked, StoreLeads
  <2>2. AtMost(InForce(Home[t]), store)
    BY <1>0, <2>1 DEF InForce
  <2>3. Publish(t) => loc[t].tok = store
    BY DEF Ranked, Written, Publish, At
  <2>4. BoundNext(store)
    BY <1>0, <1>3, <2>1, <2>2, <2>3, BoundLasts
  <2>5. StandingNext(x) => Standing(x) /\ unstored'[x] = unstored[x]
    BY <1>0, <1>3, StandsBack
  <2>6. QED
    BY <1>3, <2>1, <2>4, <2>5
<1>4. CASE store' = store /\ Standing(x) /\ ~Open /\ ~Hold(t) /\ ~StandingNext(x)
  <2>1. ~Publish(t) /\ ~SignInPublish(t)
    BY <1>4 DEF Open, Publish, SignInPublish, At
  <2>2. ~SignOutPublish(t)
    BY <1>4 DEF Ranked, Leaving, SignOutPublish, At
  <2>3. Stamp(t) \/ SignOut(t)
    BY <1>0, <1>4, <2>1, <2>2, Falls
  <2>4. QED
    BY <1>4, <2>3, AgedLeads
<1>5. CASE ~Open /\ Open'
  <2>1. pc'[t] \in {"publish", "signInPublish"}
    BY <1>0, <1>5 DEF Open, Alone
  <2>2. QED
    BY <1>0, <1>1, <1>2, <2>1, OnlyStore
<1>6. CASE Hold(t)
  <2>1. store' = store /\ witness' = witness /\ pc'[t] \in Outcomes /\ ~Open
    BY <1>0, <1>6, Whereto, HoldCalm DEF Hold, worldVars
  <2>2. ~Open'
    BY <1>0, <2>1 DEF Open, Alone, Outcomes
  <2>3. UNCHANGED <<gen, unstored>> /\ ~Renews(t)
    <3>1. ~(Renews(t) /\ Holds(Home[t], loc[t].tok))
      <4>1. loc[t].tok # None
        BY <1>0, <1>6 DEF Base, Fit, Ordered, Hold, At, Reading
      <4>2. QED
        BY <1>0, <2>1, <2>2, <4>1 DEF Holds, StandingNext
    <3>2. QED
      BY <1>0, <1>6, <3>1, HoldFacts DEF Renews
  <2>4. ~Standing(x)
    BY <2>1, <2>2, <2>3 DEF Standing, StandingNext
  <2>5. Bound(store) /\ AtMost(store, store) /\ InForce(Home[t]) = store
    BY <1>0, <2>1, <2>4, Ages DEF Ranked, StoreLeads, InForce
  <2>6. BoundNext(store)
    <3>1. ~Publish(t)
      BY <1>6 DEF Publish, Hold, At
    <3>2. QED
      BY <1>0, <2>3, <2>5, <3>1, BoundLasts
  <2>7. QED
    BY <2>1, <2>2, <2>6
<1>7. QED
  <2>1. store' = store \/ SignIn(t) \/ (Store(t) /\ store' = loc[t].tok)
    BY <1>0, StoreBy
  <2>2. QED
    BY <1>1, <1>2, <1>3, <1>4, <1>5, <1>6, <2>1

LEMMA KeptLeadsStep ==
    ASSUME Ranked, OneProcess, Prompt, NEW t \in Threads, Step(t) \/ (\E c \in Operations : Call(t, c)),
           NEW x \in Procs, StandingNext(x), ~Open'
    PROVE  BoundNext(unstored'[x].tok)
<1>0. /\ Base /\ TypeOK /\ Alone(t) /\ Home[t] = x /\ Cached
      /\ loc[t].tok \in Bundle /\ unstored[x].tok \in Bundle
  BY StepBase, CallBase, Typed, Homes DEF Ranked, Abreast, Coherent, Base, Turn, OneProcess
<1>1. CASE Hold(t) /\ Renews(t)
  <2>1. Bound(loc[t].tok) /\ Current(Home[t], loc[t].tok)
    BY <1>0, <1>1, HoldCalm, RenewalLeads
  <2>2. AtMost(store, loc[t].tok) /\ AtMost(InForce(Home[t]), loc[t].tok) /\ AtMost(loc[t].tok, loc[t].tok)
    BY <1>0, <2>1, CurrentLow, Ages
  <2>3. BoundNext(loc[t].tok)
    BY <1>0, <2>1, <2>2, BoundLasts
  <2>4. unstored'[x].tok = loc[t].tok
    BY <1>0, <1>1, HoldFacts DEF Holds, Renews
  <2>5. QED
    BY <2>3, <2>4
<1>2. CASE ~(Hold(t) /\ Renews(t))
  <2>1. Standing(x) /\ unstored'[x] = unstored[x]
    <3>1. CASE Hold(t)
      BY <1>0, <1>2, <3>1, HoldFacts DEF Renews, Standing, StandingNext, Hold, worldVars
    <3>2. CASE ~Hold(t)
      BY <1>0, <3>2, StandsBack
    <3>3. QED
      BY <3>1, <3>2
  <2>2. ~(Publish(t) \/ SignInPublish(t) \/ SignOutPublish(t))
    BY <1>0, MovedFalls
  <2>3. ~Open
    BY <1>0, <2>2, Closes
  <2>4. Bound(unstored[x].tok)
    BY <2>1, <2>3 DEF Ranked, KeptLeads
  <2>5. store = None \/ Settled
    BY <2>1, <2>3 DEF Ranked, Leaving, Open, Settled, Landing
  <2>6. AtMost(store, unstored[x].tok) /\ AtMost(InForce(Home[t]), unstored[x].tok)
    <3>1. Under(store, unstored[x].tok) /\ store \in Bundle
      BY <1>0, <2>1, <2>5, Typed DEF Ranked, Abreast, Renewed, Under
    <3>2. QED
      BY <1>0, <2>1, <3>1, Ranks, Ages DEF InForce
  <2>7. BoundNext(unstored[x].tok)
    BY <1>0, <1>2, <2>2, <2>4, <2>6, BoundLasts
  <2>8. QED
    BY <2>1, <2>7
<1>3. QED
  BY <1>1, <1>2

LEMMA FetchedStep ==
    ASSUME Ranked, OneProcess, Prompt, NEW t \in Threads, Step(t) \/ (\E c \in Operations : Call(t, c)),
           NEW u \in Threads
    PROVE  Fetched(u)'
<1>0. /\ Base /\ TypeOK /\ TypeOK' /\ Alone(t) /\ Cached /\ Fetched(u) /\ Home[u] \in Procs
      /\ store \in Bundle /\ loc[u].tok \in Bundle /\ loc[u].floor \in Bundle
  BY StepBase, CallBase, Typed, Histories, Homes DEF Ranked, Abreast, Coherent, Base, Turn
<1>1. CASE u # t /\ store' \notin {store, None}
  <2>1. Open'
    <3>1. SignIn(t) \/ (Store(t) /\ Moves(t, "publish"))
      BY <1>0, <1>1, StoreBy
    <3>2. pc'[t] \in {"publish", "signInPublish"}
      BY <1>0, <3>1, SignInFacts DEF Takes, Moves
    <3>3. QED
      BY <3>2 DEF Open
  <2>2. BoundNext(store')
    BY <1>0, <1>1, <2>1, StoreLeadsStep
  <2>3. loc'[u].tok = loc[u].tok /\ pc'[u] = pc[u]
    BY <1>0, <1>1 DEF Alone, Same
  <2>4. loc'[u].floor \in {loc[u].floor, None, Aged(loc[u].floor)}
    BY <1>0, <1>1, <2>1, StoreBy, OtherHistory DEF Keeps
  <2>5. pc[u] = "keep" => loc[u].tok = None \/ AtMost(loc'[u].floor, loc[u].tok)
    BY <1>0, <2>4, Ages DEF Fetched
  <2>6. QED
    BY <2>2, <2>3, <2>5 DEF Fetched, BoundNext
<1>2. CASE u # t /\ store' \in {store, None}
  <2>1. loc'[u].tok = loc[u].tok /\ pc'[u] = pc[u]
    BY <1>0, <1>2 DEF Alone, Same
  <2>2. loc'[u].floor \in {loc[u].floor, None, Aged(loc[u].floor)}
    <3>1. CASE Begin(t)
      BY <1>0, <1>2, <3>1, BeginHistory
    <3>2. CASE Stamp(t) \/ (SignOut(t) /\ Standing(Home[t]))
      BY <1>0, <3>2, AgedHistory
    <3>3. CASE Look(t)
      BY <1>0, <3>3, LookHistory DEF Keeps
    <3>4. CASE (Quiet(t) /\ ~Begin(t) /\ ~Look(t)) \/ Fetch(t) \/ \E o \in Operations : Call(t, o)
      BY <1>0, <3>4, QuietHistory DEF Keeps
    <3>5. QED
      BY <1>0, <3>1, <3>2, <3>3, <3>4, OtherHistory DEF Keeps, Step, Quiet
  <2>3. QED
    BY <1>0, <1>2, <2>1, <2>2, Ages DEF Fetched
<1>3. CASE u = t /\ pc'[t] = "fetch"
  <2>1. Look(t) /\ ~StandingNext(Home[t])
    BY <1>0, <1>3, FetchDue
  <2>2. store' # None => BoundNext(store')
    BY <1>0, <1>3, <2>1, StoreLeadsStep
  <2>3. QED
    BY <1>3, <2>2 DEF Fetched, BoundNext
<1>4. CASE u = t /\ pc'[t] = "keep"
  <2>1. Fetch(t) /\ pc[t] = "fetch" /\ loc'[t].tok = store /\ store' = store
    BY <1>0, <1>4, OnlyFetch, FetchFacts DEF Fetch, At, Takes, worldVars
  <2>2. loc'[t].floor \in {loc[t].floor, None, Aged(loc[t].floor)}
    BY <1>0, <2>1, QuietHistory DEF Keeps
  <2>3. store = None \/ AtMost(loc'[t].floor, store)
    BY <1>0, <1>4, <2>1, <2>2, Ages DEF Fetched
  <2>4. QED
    BY <1>0, <1>4, <2>1, <2>3, Ages DEF Fetched
<1>5. CASE u = t /\ pc'[t] \notin {"fetch", "keep"}
  BY <1>5 DEF Fetched
<1>6. QED
  BY <1>1, <1>2, <1>3, <1>4, <1>5

\* What is issued meanwhile only raises a bound.
LEMMA Raised ==
    ASSUME TypeOK, TypeOK', issued <= issued', NEW s \in Nat, NEW b \in Bundle, b.session = s, b.serial <= issued,
           BoundNext(b) \/ BoundNext(Newest(s))
    PROVE  BoundNext([session |-> s, serial |-> issued'])
<1> DEFINE n == [session |-> s, serial |-> issued']
<1>0. issued \in Nat /\ issued' \in Nat
  BY DEF TypeOK
<1>1. n \in Bundle /\ Newest(s) \in Bundle
  BY <1>0, Newer DEF Bundle
<1>2. AtMost(Newest(s), n) /\ AtMost(b, n)
  BY <1>0, Newer, Numbers DEF AtMost, Older
<1> HIDE DEF n
<1>3. BoundNext(n)
  BY <1>1, <1>2, BoundUp
<1>4. QED
  BY <1>3 DEF n

\* Where the generation vouches for a bundle, it leads what is known after the step.
LEMMA LedLasts ==
    ASSUME Ranked, OneProcess, NEW t \in Threads, Step(t) \/ (\E c \in Operations : Call(t, c)),
           ~Publish(t), ~(Hold(t) /\ Renews(t)), Settled, NEW u \in Threads, Vouched(u), loc[u].tok # None
    PROVE  BoundNext([session |-> loc[u].tok.session, serial |-> issued'])
<1>0. /\ Base /\ TypeOK /\ TypeOK' /\ Cached /\ Led(u) /\ Held(u) /\ Clocked(u) /\ Home[u] = Home[t]
      /\ Home[t] \in Procs /\ loc[u].tok \in Bundle /\ store \in Bundle /\ InForce(Home[t]) \in Bundle
      /\ loc[u].tok.session \in Nat /\ issued <= issued'
  <2>1. Base /\ Cached /\ Led(u) /\ Held(u)
    BY DEF Ranked, Abreast, Coherent
  <2>2. TypeOK' /\ Mono /\ Clocked(u)
    BY <2>1, StepBase, CallBase DEF Base, Fit
  <2>3. QED
    BY <2>1, <2>2, Typed, Histories, Homes, Numbers DEF Base, Mono, OneProcess
<1>1. Bound(Newest(loc[u].tok.session)) /\ Current(Home[t], loc[u].tok)
  BY <1>0 DEF Led, Held, Vouched
<1>2. AtMost(store, loc[u].tok) /\ AtMost(InForce(Home[t]), loc[u].tok)
  BY <1>0, <1>1, CurrentLow
<1>3. Newest(loc[u].tok.session) \in Bundle /\ AtMost(loc[u].tok, Newest(loc[u].tok.session))
  BY <1>0, Newer DEF Clocked
<1>4. AtMost(store, Newest(loc[u].tok.session)) /\ AtMost(InForce(Home[t]), Newest(loc[u].tok.session))
  BY <1>0, <1>2, <1>3, Ranks
<1>5. BoundNext(Newest(loc[u].tok.session))
  BY <1>0, <1>1, <1>3, <1>4, BoundLasts
<1>6. QED
  BY <1>0, <1>5, Raised DEF Clocked

\* The bundle in force, when things are settled, leads all that is known.
LEMMA InForceLeads ==
    ASSUME Ranked, OneProcess, Settled, NEW t \in Threads, InForce(Home[t]) # None
    PROVE  Bound(InForce(Home[t])) /\ AtMost(store, InForce(Home[t]))
<1>1. ~Open /\ TypeOK /\ Home[t] \in Procs /\ store \in Bundle /\ unstored[Home[t]].tok \in Bundle
  BY Typed, Homes DEF Open, Settled, Landing, Ranked, Abreast, Coherent, Base
<1>2. CASE Standing(Home[t])
  <2>1. Bound(unstored[Home[t]].tok) /\ Under(store, unstored[Home[t]].tok)
    BY <1>1, <1>2 DEF Ranked, KeptLeads, Abreast, Renewed
  <2>2. QED
    BY <1>1, <1>2, <2>1, Ranks DEF InForce
<1>3. CASE ~Standing(Home[t])
  BY <1>1, <1>3, Ages DEF InForce, Ranked, StoreLeads
<1>4. QED
  BY <1>2, <1>3

LEMMA NothingVouched ==
    ASSUME Base, OneProcess, Mono, NEW t \in Threads, Alone(t), gen'[Home[t]] # gen[Home[t]],
           gen'[Home[t]] \in Nat, pc'[t] \notin Reading
    PROVE  \A u \in Threads : Led(u)'
<1>1. SUFFICES ASSUME NEW u \in Threads \ {t}
               PROVE  ~Vouched(u)' /\ (pc'[u] \in Reading => loc'[u].basis # gen'[Home[u]])
  BY DEF Led, Vouched, Reading
<1>2. /\ Clocked(u) /\ Home[u] = Home[t] /\ Home[u] \in Procs /\ Same(u) /\ pc'[u] = pc[u]
      /\ gen[Home[u]] \in Nat /\ loc[u].seen \in Nat /\ loc[u].basis \in Nat
  BY Typed, Homes DEF Base, Fit, Alone, OneProcess
<1>3. loc[u].seen # gen'[Home[u]] /\ loc[u].basis # gen'[Home[u]]
  BY <1>2 DEF Clocked, Mono
<1>4. QED
  BY <1>2, <1>3 DEF Vouched, Same

LEMMA LedOthers ==
    ASSUME Ranked, OneProcess, NEW t \in Threads, Step(t) \/ (\E c \in Operations : Call(t, c)), gen' = gen,
           ~Publish(t), ~(Hold(t) /\ Renews(t)), Settled, Settled', NEW u \in Threads \ {t}
    PROVE  Led(u)'
<1>0. Base /\ TypeOK /\ Same(u) /\ pc'[u] = pc[u] /\ Led(u)
  BY StepBase, CallBase DEF Ranked, Abreast, Coherent, Base, Turn, Alone
<1>1. Vouched(u)' => Vouched(u)
  BY <1>0 DEF Vouched, UnderLock, Same
<1>2. Vouched(u)' /\ loc'[u].tok # None => BoundNext([session |-> loc[u].tok.session, serial |-> issued'])
  BY <1>0, <1>1, LedLasts DEF Same
<1>3. Vouched(u)' /\ loc'[u].tok # None => Bound(Newest(loc[u].tok.session))'
  BY <1>0, <1>2 DEF Bound, BoundNext, Newest, Same
<1>4. ASSUME pc[u] \in {"granted", "store", "hold"}
      PROVE  issued' = issued
  <2>1. ~Granted(t)
    BY <1>0, <1>4, OneUnderLock DEF UnderLock, Granted, At
  <2>2. ~SignIn(t)
    BY <1>0, SignInFacts DEF Settled, Landing, Takes
  <2>3. QED
    BY <2>1, <2>2 DEF Step, Begin, Look, Fetch, FetchFails, Keep, Lock, Denied, Check, Store, Publish,
       Hold, Push, Judged, Probe, Recovered, Verdict, Mark, Dead, Drop, CallOrgs, SignInFails, SignInPublish,
       Advance, Stamp, SignInPush, SignOut, SignOutDelete, SignOutFails, SignOutPublish, SignOutPush, Call, worldVars
<1>5. QED
  BY <1>0, <1>3, <1>4 DEF Led, Same

\* A read that is due has the bundle in force.
LEMMA LookRead ==
    ASSUME TypeOK, Cached, NEW t \in Threads, Look(t), pc'[t] \in Reading
    PROVE  loc'[t].tok = InForce(Home[t])
<1>1. \A b : Read(t, b) => loc'[t].tok = b
  BY DEF Read, Came, Ends, Answers, Onward, Takes, Reading
<1>2. ~Moves(t, "fetch")
  BY DEF Moves, Reading
<1>3. QED
  BY <1>1, <1>2, LookFacts, Homes DEF Cached, InForce

LEMMA LedOwn ==
    ASSUME Ranked, OneProcess, NEW t \in Threads, Step(t) \/ (\E c \in Operations : Call(t, c)), gen' = gen,
           ~Publish(t), ~Hold(t), Settled, Settled', pc'[t] \in Reading, loc'[t].tok # None,
           Vouched(t)'
    PROVE  BoundNext([session |-> loc'[t].tok.session, serial |-> issued'])
<1>0. /\ Base /\ TypeOK /\ TypeOK' /\ Cached /\ Home[t] \in Procs /\ store \in Bundle
      /\ InForce(Home[t]) \in Bundle /\ issued <= issued' /\ Unkept(t) /\ Fit(t) /\ Stocked
  <2>1. Base /\ Cached /\ Unkept(t)
    BY DEF Ranked, Abreast, Coherent
  <2>2. TypeOK' /\ Mono
    BY <2>1, StepBase, CallBase DEF Base
  <2>3. QED
    BY <2>1, <2>2, Typed, Histories DEF Base, Mono
<1>1. ASSUME Vouched(t), loc[t].tok # None, loc'[t].tok.session = loc[t].tok.session
      PROVE  BoundNext([session |-> loc'[t].tok.session, serial |-> issued'])
  BY <1>1, LedLasts
<1>2. ASSUME NEW b \in Bundle, b # None, Bound(b), AtMost(store, b), AtMost(InForce(Home[t]), b),
             loc'[t].tok = b, b.serial <= issued
      PROVE  BoundNext([session |-> loc'[t].tok.session, serial |-> issued'])
  <2>1. BoundNext(b)
    BY <1>0, <1>2, BoundLasts
  <2>2. b.session \in Nat
    BY Numbers
  <2>3. QED
    BY <1>0, <1>2, <2>1, <2>2, Raised
<1>3. CASE Look(t)
  <2>1. loc'[t].tok = InForce(Home[t])
    BY <1>0, <1>3, LookRead
  <2>2. Bound(InForce(Home[t])) /\ AtMost(store, InForce(Home[t]))
    BY <2>1, InForceLeads
  <2>3. InForce(Home[t]).serial <= issued
    BY <1>0 DEF InForce, Stocked
  <2>4. QED
    BY <1>0, <1>2, <2>1, <2>2, <2>3, Ages
<1>4. CASE Fetch(t)
  <2>1. pc[t] = "fetch" /\ loc'[t].tok = store /\ Takes(t, "keep", store)
    BY <1>0, <1>4, FetchFacts DEF Fetch, At, Takes
  <2>2. loc[t].phase # "first" \/ loc[t].seen = gen[Home[t]]
    BY <2>1 DEF Vouched, Takes, UnderLock
  <2>3. ~Standing(Home[t])
    BY <1>0, <2>1, <2>2 DEF Unkept
  <2>4. InForce(Home[t]) = store
    BY <2>3 DEF InForce
  <2>5. Bound(store) /\ AtMost(store, store)
    BY <1>0, <2>1, <2>4, InForceLeads, Ages
  <2>6. QED
    BY <1>0, <1>2, <2>1, <2>4, <2>5 DEF Stocked
<1>5. CASE Keep(t)
  <2>1. pc[t] = "keep" /\ Onward(t, loc[t].tok)
    BY <1>0, <1>5, KeepFacts DEF Keep, At, Read, Came, Ends, Answers, Reading
  <2>2. Vouched(t) /\ loc'[t].tok = loc[t].tok
    BY <2>1 DEF Onward, Takes, Vouched, UnderLock, Reading
  <2>3. QED
    BY <1>1, <2>2
<1>6. CASE Lock(t)
  <2>1. pc[t] = "lock" /\ Locks(t) /\ pc'[t] = "post"
    BY <1>0, <1>6, LockFacts DEF Lock, At, Came, Ends, Answers, Reading, Locks
  <2>2. Vouched(t) /\ loc'[t].tok = loc[t].tok
    BY <1>0, <2>1 DEF Locks, Vouched, Fit, Ordered
  <2>3. QED
    BY <1>1, <2>2
<1>7. CASE Granted(t)
  <2>1. pc[t] = "post" /\ Takes(t, "granted", loc'[t].tok) /\ loc'[t].tok.session = loc[t].tok.session
    BY <1>0, <1>7, GrantedFacts DEF Granted, At
  <2>2. Vouched(t) /\ loc[t].tok # None
    BY <1>0, <2>1 DEF Takes, Vouched, UnderLock, Reading, Fit, Ordered
  <2>3. QED
    BY <1>1, <2>1, <2>2
<1>8. CASE Check(t) \/ Store(t)
  <2>1. pc[t] \in {"granted", "store"} /\ pc'[t] \in {"store", "publish", "hold"}
    BY <1>0, <1>8, Whereto DEF Check, Store, At, Reading
  <2>2. Same(t)
    BY <1>0, <1>8, <2>1, CheckFacts, StoreFacts DEF ReadsAgain, Moves
  <2>3. Vouched(t) /\ loc'[t].tok = loc[t].tok
    BY <1>0, <2>1, <2>2 DEF Same, Vouched, UnderLock, Reading
  <2>4. QED
    BY <1>1, <2>3
<1>9. CASE Begin(t) \/ FetchFails(t) \/ Denied(t) \/ Push(t) \/ Recovered(t) \/ Drop(t) \/ Judged(t) \/ Probe(t)
           \/ Verdict(t) \/ Mark(t) \/ Dead(t) \/ CallOrgs(t)
  BY <1>0, <1>9, Whereto DEF Outcomes, Reading
<1>10. CASE SignIn(t) \/ SignInFails(t) \/ SignInPublish(t) \/ Advance(t) \/ Stamp(t) \/ SignInPush(t)
           \/ SignOut(t) \/ SignOutDelete(t) \/ SignOutFails(t) \/ SignOutPublish(t) \/ SignOutPush(t)
  BY <1>0, <1>10, SignInFacts, SignInFailsFacts, SignInPublishFacts, AdvanceFacts, StampFacts,
     SignInPushFacts, SignOutFacts, SignOutDeleteFacts, SignOutFailsFacts, SignOutPublishFacts, SignOutPushFacts
  DEF Takes, Moves, Ends, Outs, Reading
<1>11. CASE \E c \in Operations : Call(t, c)
  BY <1>0, <1>11, CallFacts DEF Calls, Reading
<1>12. QED
  BY <1>3, <1>4, <1>5, <1>6, <1>7, <1>8, <1>9, <1>10, <1>11 DEF Step

\* A renewal's token is the latest one issued.
LEMMA GrantingOwn ==
    ASSUME Ranked, NEW t \in Threads, Step(t) \/ (\E c \in Operations : Call(t, c)), gen' = gen, Settled,
           pc'[t] \in {"granted", "store", "hold"}, loc'[t].basis = gen[Home[t]]
    PROVE  loc'[t].tok.serial = issued'
<1>0. Base /\ TypeOK /\ Led(t)
  BY DEF Ranked, Abreast, Coherent, Base
<1>1. CASE Granted(t)
  BY <1>0, <1>1, GrantedFacts DEF Granted
<1>2. CASE Check(t) \/ Store(t)
  <2>1. pc[t] \in {"granted", "store"} /\ issued' = issued /\ Same(t)
    BY <1>0, <1>2, CheckFacts, StoreFacts DEF Check, Store, At, worldVars, ReadsAgain, Moves
  <2>2. QED
    BY <1>0, <2>1 DEF Led, Same
<1>3. Granted(t) \/ Check(t) \/ Store(t)
  <2>1. ~(Quiet(t) /\ ~Granted(t) /\ ~Check(t))
    BY <1>0, Whereto DEF Quiet, Outcomes
  <2>2. ~(Fetch(t) \/ Keep(t) \/ Publish(t) \/ Hold(t) \/ Push(t) \/ Recovered(t) \/ Drop(t))
    BY <1>0, Whereto DEF Outcomes
  <2>3. ~(SignIn(t) \/ SignInFails(t) \/ SignInPublish(t) \/ Advance(t) \/ Stamp(t) \/ SignInPush(t)
          \/ SignOut(t) \/ SignOutDelete(t) \/ SignOutFails(t) \/ SignOutPublish(t) \/ SignOutPush(t))
    BY <1>0, SignInFacts, SignInFailsFacts, SignInPublishFacts, AdvanceFacts, StampFacts,
       SignInPushFacts, SignOutFacts, SignOutDeleteFacts, SignOutFailsFacts, SignOutPublishFacts, SignOutPushFacts
    DEF Takes, Moves, Ends, Outs
  <2>4. ~(\E c \in Operations : Call(t, c))
    BY <1>0, CallFacts DEF Calls
  <2>5. QED
    BY <2>1, <2>2, <2>3, <2>4 DEF Step, Quiet
<1>4. QED
  BY <1>1, <1>2, <1>3

LEMMA LedStep ==
    ASSUME Ranked, OneProcess, Prompt, NEW t \in Threads, Step(t) \/ (\E c \in Operations : Call(t, c)), Settled'
    PROVE  \A u \in Threads : Led(u)'
<1>0. /\ Base /\ TypeOK /\ TypeOK' /\ Mono /\ Alone(t) /\ Home[t] \in Procs
      /\ gen[Home[t]] \in Nat /\ gen'[Home[t]] \in Nat
  <2>1. Base
    BY DEF Ranked, Abreast, Coherent
  <2>2. TypeOK' /\ Mono /\ Alone(t)
    BY <2>1, StepBase, CallBase DEF Base, Turn
  <2>3. QED
    BY <2>1, <2>2, Homes DEF Base, TypeOK
<1>1. CASE Publish(t) \/ SignInPublish(t) \/ SignOutPublish(t)
  <2>1. gen'[Home[t]] # gen[Home[t]]
    BY <1>0, <1>1, GenerationMoves
  <2>2. pc'[t] \notin Reading
    BY <1>0, <1>1, Whereto, SignInPublishFacts, SignOutPublishFacts DEF Moves, Outcomes, Reading
  <2>3. QED
    BY <1>0, <2>1, <2>2, NothingVouched
<1>2. CASE Hold(t)
  <2>1. pc'[t] \in Outcomes /\ pc'[t] \notin Reading
    BY <1>0, <1>2, Whereto DEF Outcomes, Reading
  <2>2. CASE Renews(t)
    <3>1. gen'[Home[t]] # gen[Home[t]]
      BY <1>0, <1>2, <2>2, HoldFacts DEF Holds, Renews
    <3>2. QED
      BY <1>0, <2>1, <3>1, NothingVouched
  <2>3. CASE ~Renews(t)
    <3>1. gen' = gen /\ Settled /\ ~Publish(t)
      BY <1>0, <1>2, <2>3, HoldFacts, HoldCalm DEF Renews, Publish, Hold, At
    <3>2. \A u \in Threads \ {t} : Led(u)'
      BY <2>3, <3>1, LedOthers
    <3>3. Led(t)'
      BY <2>1 DEF Led, Vouched, Reading
    <3>4. QED
      BY <3>2, <3>3
  <2>4. QED
    BY <2>2, <2>3
<1>3. CASE ~(Publish(t) \/ SignInPublish(t) \/ SignOutPublish(t) \/ Hold(t))
  <2>1. gen' = gen /\ Settled
    BY <1>0, <1>3, GenerationMoves, Settles
  <2>2. \A u \in Threads \ {t} : Led(u)'
    BY <1>3, <2>1, LedOthers
  <2>3. Vouched(t)' /\ loc'[t].tok # None => BoundNext([session |-> loc'[t].tok.session, serial |-> issued'])
    <3>1. Vouched(t)' => pc'[t] \in Reading
      BY DEF Vouched, Reading
    <3>2. QED
      BY <1>3, <2>1, <3>1, LedOwn
  <2>4. Vouched(t)' /\ loc'[t].tok # None => Bound(Newest(loc[t].tok.session))'
    BY <2>3 DEF Bound, BoundNext, Newest
  <2>5. pc'[t] \in {"granted", "store", "hold"} /\ loc'[t].basis = gen[Home[t]] => loc'[t].tok.serial = issued'
    BY <2>1, GrantingOwn
  <2>6. Led(t)'
    BY <2>1, <2>4, <2>5 DEF Led
  <2>7. QED
    BY <2>2, <2>6
<1>4. QED
  BY <1>1, <1>2, <1>3

LEMMA InitRanked == Init => Ranked
<1> SUFFICES ASSUME Init PROVE Ranked
  OBVIOUS
<1>1. /\ store = [session |-> 1, serial |-> 1] /\ issued = 1
      /\ \A x \in Procs : ~Standing(x) /\ unstored[x].tok = None /\ served[x] = None
      /\ \A t \in Threads : pc[t] = "idle" /\ loc[t].tok = None /\ loc[t].floor = None
  BY DEF Init, Standing, Nothing, Blank
<1>2. Abreast /\ TypeOK /\ store \in Bundle /\ Newest(issued) \in Bundle
  BY <1>1, InitAbreast, Newer DEF Abreast, Coherent, Base, TypeOK
<1>3. \A c \in Bundle : Bound(c)
  BY <1>1, Ages DEF Bound
<1>4. Dated
  BY <1>1, <1>2, <1>3, Numbers DEF Dated
<1>5. Written /\ Leaving /\ StoreLeads /\ KeptLeads
  BY <1>1, <1>2, <1>3 DEF Written, Leaving, StoreLeads, KeptLeads
<1>6. \A t \in Threads : Fetched(t) /\ Led(t)
  BY <1>1 DEF Fetched, Led, Vouched, Reading
<1>7. QED
  BY <1>2, <1>4, <1>5, <1>6 DEF Ranked

LEMMA StepRanked ==
    ASSUME Ranked, OneProcess, Prompt, NEW t \in Threads, Step(t) \/ (\E c \in Operations : Call(t, c)), Abreast'
    PROVE  Ranked'
<1>1. Dated' /\ Written' /\ Leaving'
  BY DatedStep, WrittenStep, LeavingStep
<1>2. StoreLeads'
  <2>1. \A x \in Procs : store' # None /\ (~StandingNext(x) \/ Open') =>
            BoundNext(store') /\ (StandingNext(x) => AtMost(unstored'[x].tok, store'))
    BY StoreLeadsStep
  <2>2. QED
    BY <2>1 DEF StoreLeads, Bound, BoundNext, Standing, StandingNext, AtMost
<1>3. KeptLeads'
  <2>1. \A x \in Procs : StandingNext(x) /\ ~Open' => BoundNext(unstored'[x].tok)
    BY KeptLeadsStep
  <2>2. QED
    BY <2>1 DEF KeptLeads, Bound, BoundNext, Standing, StandingNext, AtMost
<1>4. \A u \in Threads : Fetched(u)'
  BY FetchedStep
<1>5. Settled' => \A u \in Threads : Led(u)'
  BY LedStep
<1>6. QED
  BY <1>1, <1>2, <1>3, <1>4, <1>5 DEF Ranked

LEMMA NextRanked ==
    ASSUME OneProcess, Prompt
    PROVE  Ranked /\ [Next]_vars => Ranked'
<1> SUFFICES ASSUME Ranked, [Next]_vars PROVE Ranked'
  OBVIOUS
<1>0. Abreast'
  BY NextAbreast DEF Ranked
<1>1. ASSUME NEW t \in Threads, Step(t) \/ \E o \in Operations : Call(t, o)
      PROVE  Ranked'
  BY <1>0, <1>1, StepRanked
<1>2. ASSUME UNCHANGED <<store, witness, issued, procVars, threadVars>>
      PROVE  Ranked'
  <2>1. /\ Dated' /\ Written' /\ Leaving' /\ StoreLeads' /\ KeptLeads'
    BY <1>2 DEF Ranked, Dated, Written, Leaving, StoreLeads, KeptLeads, Bound, Newest, Open, Standing, AtMost, Older,
                procVars, threadVars
  <2>2. (\A t \in Threads : Fetched(t)') /\ (Settled' => \A t \in Threads : Led(t)')
    BY <1>2 DEF Ranked, Fetched, Led, Vouched, Settled, UnderLock, Bound, Newest, AtMost, Older, procVars, threadVars
  <2>3. QED
    BY <1>0, <2>1, <2>2 DEF Ranked
<1>3. CASE Expire \/ (\E s \in 1 .. MaxTokens : Revoke(s)) \/ UNCHANGED vars
  BY <1>2, <1>3 DEF Expire, Revoke, vars, worldVars
<1>4. QED
  BY <1>1, <1>3 DEF Next

\* A read that returns a bundle returns none older than its floor.
LEMMA ReadRanked ==
    ASSUME Ranked, OneProcess, Prompt, NEW t \in Threads, Step(t) \/ (\E c \in Operations : Call(t, c)),
           loc[t].res # "live", loc'[t].res = "live", Peers(t, {"publish", "signInPublish"}) \ {t} = {}
    PROVE  AtMost(loc[t].floor, loc'[t].tok)
<1>0. /\ Base /\ TypeOK /\ Cached /\ Fit(t) /\ Home[t] \in Procs /\ loc[t].tok \in Bundle
  BY Typed DEF Ranked, Abreast, Coherent, Base
<1>1. pc[t] \notin {"publish", "signInPublish"} => ~Open
  BY <1>0, Homes DEF Open, Peers, OneProcess
<1>2. CASE Look(t)
  <2>1. ~Open
    BY <1>1, <1>2 DEF Look, At
  <2>2. CASE Standing(Home[t]) /\ Read(t, unstored[Home[t]].tok)
    <3>1. unstored[Home[t]].tok \in Bundle /\ Bound(unstored[Home[t]].tok)
      BY <1>0, <2>1, <2>2, Typed DEF Ranked, KeptLeads
    <3>2. loc'[t].tok = unstored[Home[t]].tok
      BY <2>2, <3>1, LiveRead
    <3>3. QED
      BY <3>1, <3>2 DEF Bound
  <2>3. CASE ~Standing(Home[t]) /\ cache[Home[t]].kept /\ Read(t, cache[Home[t]].tok)
    <3>1. cache[Home[t]].tok = store /\ store \in Bundle
      BY <1>0, <2>3, Typed DEF Cached
    <3>2. store # None /\ loc'[t].tok = store
      BY <2>3, <3>1, LiveRead
    <3>3. Bound(store)
      BY <1>0, <2>3, <3>2 DEF Ranked, StoreLeads
    <3>4. QED
      BY <3>2, <3>3 DEF Bound
  <2>4. ~Moves(t, "fetch")
    BY DEF Moves, Same
  <2>5. QED
    BY <1>0, <1>2, <2>2, <2>3, <2>4, LookFacts
<1>3. CASE Keep(t)
  <2>1. pc[t] = "keep" /\ Read(t, loc[t].tok) /\ Fetched(t)
    BY <1>0, <1>3, KeepFacts DEF Keep, At, Ranked
  <2>2. loc[t].tok # None /\ loc'[t].tok = loc[t].tok
    BY <1>0, <2>1, LiveRead
  <2>3. QED
    BY <2>1, <2>2 DEF Fetched
<1>4. CASE Publish(t)
  <2>1. pc[t] = "publish" /\ loc[t].tok # None /\ Open
    BY <1>0, <1>4 DEF Publish, At, Fit, Ordered, Reading, Open
  <2>2. loc'[t].tok = loc[t].tok
    BY <1>0, <1>4, PublishFacts DEF Came, Ends, Answers
  <2>3. store = loc[t].tok
    BY <2>1 DEF Ranked, Written
  <2>4. Bound(store)
    BY <1>0, <2>1, <2>3 DEF Ranked, StoreLeads
  <2>5. QED
    BY <2>2, <2>3, <2>4 DEF Bound
<1>5. CASE Hold(t)
  <2>1. Renews(t) /\ loc'[t].tok = loc[t].tok
    BY <1>0, <1>5, HoldFacts DEF Came, Ends, Answers, Renews
  <2>2. Bound(loc[t].tok)
    BY <1>0, <1>5, <2>1, HoldCalm, RenewalLeads
  <2>3. QED
    BY <2>1, <2>2 DEF Bound
<1>6. ~(Look(t) \/ Keep(t) \/ Publish(t) \/ Hold(t)) => loc'[t].res # "live"
  BY <1>0, LiveBy
<1>7. QED
  BY <1>2, <1>3, <1>4, <1>5, <1>6

\* No read returns a bundle older than the one in force when it began, or than
\* one that an earlier read of the process has returned: in one process whose
\* threads are not suspended between a check and its use, whatever they call.
\* The exceptions are those of the property: a read that ends while a write waits
\* to be published, and, of the serial only, what was read before a sign-out
\* dropped a kept bundle in force or a sign-in outdated one.
THEOREM ReadsGoForward ==
    ASSUME OneProcess, Prompt
    PROVE  Spec => ReadsMoveOn
<1>1. Ranked /\ [Next]_vars =>
          [\A t \in Threads : Returns(t) /\ Peers(t, {"publish", "signInPublish"}) \ {t} = {}
                                  => ~Older(loc'[t].tok, loc[t].floor)]_vars
  <2> SUFFICES ASSUME Ranked, [Next]_vars, NEW t \in Threads, loc[t].res # "live", loc'[t].res = "live",
                      Peers(t, {"publish", "signInPublish"}) \ {t} = {}, vars' # vars
               PROVE  ~Older(loc'[t].tok, loc[t].floor)
    BY DEF Returns
  <2>1. ASSUME NEW u \in Threads, Step(u) \/ \E o \in Operations : Call(u, o)
        PROVE  ~Older(loc'[t].tok, loc[t].floor)
    <3>1. Alone(u)
      BY <2>1, StepBase, CallBase DEF Ranked, Abreast, Coherent, Turn
    <3>2. t = u
      BY <3>1 DEF Alone, Same
    <3>3. QED
      BY <2>1, <3>2, ReadRanked DEF AtMost
  <2>2. ~(Expire \/ \E s \in 1 .. MaxTokens : Revoke(s))
    BY DEF Expire, Revoke, threadVars
  <2>3. QED
    BY <2>1, <2>2 DEF Next
<1>2. QED
  BY <1>1, InitRanked, NextRanked, PTL DEF Spec, ReadsMoveOn

-----------------------------------------------------------------------------
(***************************************************************************)
(* The credential store the session is kept in (module Keychain), for any  *)
(* secrets, any sizes and any number of cuts: a read of the secret finds a *)
(* whole value or none, and an operation that ends well leaves what it was *)
(* asked for.                                                              *)
(*                                                                         *)
(* The invariant says what the order of the calls is for: a manifest is    *)
(* only ever in the store over the whole of a value's chunks, because      *)
(* `remove' takes it away before it touches one and `set' puts it back     *)
(* only when the last is written.                                          *)
(***************************************************************************)
USE DEF Empty, Single, Manifest, NoPiece, Piece, StoreCalls

\* The first n chunks are the pieces of v.
Prefix(v, n) == \A i \in 0..Limit : i < n => chunk[i] = Piece(v, i)

\* What a manifest counts is there.
Whole == base.kind = "manifest" => \E v \in Values : Size[v] > 0 /\ Assembles(v)

\* Chunks are only touched while nothing names them.
Unnamed == call \in {"unchunk", "sweep", "single", "chunk", "name", "takeBack"} => base = Empty

Writing ==
    /\ call \in {"single", "chunk", "name"} => asked \in Values
    /\ call = "chunk" => at < Size[asked] /\ Prefix(asked, at)
    /\ call = "name" => Size[asked] > 0 /\ Prefix(asked, Size[asked])
    /\ call = "takeBack" => at <= wrote

SecretInv ==
    /\ KeychainTypeOK
    /\ chunk[Limit] = NoPiece
    /\ Whole
    /\ Unnamed
    /\ Writing

-----------------------------------------------------------------------------
(* What a read finds. *)

\* No entry, no value.
LEMMA ReadNone == base = Empty => Get = Absent
BY DEF Get

\* An entry that holds the value.
LEMMA ReadSingle == ASSUME NEW v, base = Single(v) PROVE Get = v
BY DEF Get

\* A manifest over the pieces of a value: no other value has them.
LEMMA ReadPieces ==
    ASSUME NEW v \in Values, Size[v] > 0, Assembles(v)
    PROVE  Get = v
<1>1. \A w \in Values : Assembles(w) => w = v
  <2>1. SUFFICES ASSUME NEW w \in Values, Assembles(w) PROVE w = v
    OBVIOUS
  <2>2. Size[w] = Size[v]
    BY <2>1 DEF Assembles
  <2>3. chunk[0] = Piece(w, 0) /\ chunk[0] = Piece(v, 0)
    BY <2>1, <2>2, LimitAssumption, SizeAssumption DEF Assembles
  <2> QED
    BY <2>3
<1>2. base.kind = "manifest" /\ base # Empty
  BY DEF Assembles
<1> QED
  BY <1>1, <1>2 DEF Get

-----------------------------------------------------------------------------
(* The invariant. *)

LEMMA InitSecretInv == KeychainInit => SecretInv
BY LimitAssumption, SizeAssumption DEF KeychainInit, SecretInv, KeychainTypeOK, Whole, Unnamed, Writing, Prefix

\* The manifest's chunks stay where the base entry and the chunks do.
LEMMA WholeKept == Whole /\ UNCHANGED <<base, chunk>> => Whole'
BY DEF Whole, Assembles

\* Deleting an entry and writing one keep the entries' type.
LEMMA Entries ==
    ASSUME chunk \in [0..Limit -> {NoPiece} \cup Pieces], NEW i,
           NEW e \in {NoPiece} \cup Pieces
    PROVE  [chunk EXCEPT ![i] = e] \in [0..Limit -> {NoPiece} \cup Pieces]
OBVIOUS

LEMMA StepSecretInv == SecretInv /\ [KeychainNext]_keychainVars => SecretInv'
<1> SUFFICES ASSUME SecretInv, [KeychainNext]_keychainVars PROVE SecretInv'
  OBVIOUS
<1> USE LimitAssumption, SizeAssumption, AbsentAssumption, CutsAssumption
<1>1. ASSUME NEW v \in Values \cup {Absent}, SetOrDelete(v) PROVE SecretInv'
  <2>1. Whole'
    BY <1>1, WholeKept DEF SecretInv, SetOrDelete
  <2> QED
    BY <1>1, <2>1 DEF SecretInv, KeychainTypeOK, Unnamed, Writing, SetOrDelete
<1>2. CASE Count
  <2>1. Whole'
    BY <1>2, WholeKept DEF SecretInv, Count
  <2>2. base.count \in 0..Limit
    BY DEF SecretInv, KeychainTypeOK
  <2> QED
    BY <1>2, <2>1, <2>2 DEF SecretInv, KeychainTypeOK, Unnamed, Writing, Count
<1>3. CASE Unname
  BY <1>3 DEF SecretInv, KeychainTypeOK, Whole, Unnamed, Writing, Unname
<1>4. CASE Unchunk
  <2>1. base = Empty /\ UNCHANGED base
    BY <1>4 DEF SecretInv, Unnamed, Unchunk
  <2>2. KeychainTypeOK' /\ (chunk[Limit] = NoPiece)'
    <3>1. chunk' \in [0..Limit -> {NoPiece} \cup Pieces] /\ chunk'[Limit] = NoPiece
      BY <1>4, Entries DEF SecretInv, KeychainTypeOK, Unchunk
    <3> QED
      BY <1>4, <3>1 DEF SecretInv, KeychainTypeOK, Unchunk
  <2> QED
    BY <1>4, <2>1, <2>2 DEF SecretInv, Whole, Unnamed, Writing, Unchunk
<1>5. CASE Sweep
  <2>1. base = Empty /\ UNCHANGED base
    BY <1>5 DEF SecretInv, Unnamed, Sweep
  <2>2. KeychainTypeOK' /\ (chunk[Limit] = NoPiece)'
    <3>1. chunk' \in [0..Limit -> {NoPiece} \cup Pieces] /\ chunk'[Limit] = NoPiece
      BY <1>5, Entries DEF SecretInv, KeychainTypeOK, Sweep
    <3>2. at' \in 0..Limit
      BY <1>5 DEF SecretInv, KeychainTypeOK, Sweep
    <3>3. call' \in StoreCalls
      BY <1>5 DEF SecretInv, KeychainTypeOK, Sweep, Removed
    <3> QED
      BY <1>5, <3>1, <3>2, <3>3 DEF SecretInv, KeychainTypeOK, Sweep
  <2>3. Writing'
    BY <1>5 DEF SecretInv, KeychainTypeOK, Writing, Prefix, Sweep, Removed
  <2> QED
    BY <1>5, <2>1, <2>2, <2>3 DEF SecretInv, Whole, Unnamed
<1>6. CASE SetSingle
  BY <1>6 DEF SecretInv, KeychainTypeOK, Whole, Unnamed, Writing, SetSingle
<1>7. CASE SetChunk
  <2>1. base = Empty /\ UNCHANGED base /\ asked \in Values /\ at < Size[asked] /\ UNCHANGED asked
    BY <1>7 DEF SecretInv, Unnamed, Writing, SetChunk
  <2>2. Size[asked] \in 0..Limit /\ at \in 0..Limit
    BY <2>1 DEF SecretInv, KeychainTypeOK
  <2>3. KeychainTypeOK' /\ (chunk[Limit] = NoPiece)'
    <3>1. Piece(asked, at) \in Pieces
      BY <2>1, <2>2 DEF Pieces
    <3>2. chunk' \in [0..Limit -> {NoPiece} \cup Pieces] /\ chunk'[Limit] = NoPiece
      BY <1>7, <2>1, <2>2, <3>1, Entries DEF SecretInv, KeychainTypeOK, SetChunk
    <3> QED
      BY <1>7, <2>1, <2>2, <3>2 DEF SecretInv, KeychainTypeOK, SetChunk
  <2>4. \A i \in 0..Limit : i < at + 1 => chunk'[i] = Piece(asked, i)
    <3>1. Prefix(asked, at)
      BY <1>7 DEF SecretInv, Writing, SetChunk
    <3>2. at \in DOMAIN chunk /\ chunk' = [chunk EXCEPT ![at] = Piece(asked, at)]
      BY <1>7, <2>2 DEF SecretInv, KeychainTypeOK, SetChunk
    <3>3. ASSUME NEW i \in 0..Limit, i < at + 1 PROVE chunk'[i] = Piece(asked, i)
      <4>1. CASE i = at
        BY <3>2, <4>1
      <4>2. CASE i # at
        BY <3>1, <3>2, <3>3, <4>2, <2>2 DEF Prefix, SecretInv, KeychainTypeOK
      <4> QED
        BY <4>1, <4>2
    <3> QED
      BY <3>3
  <2>5. Writing'
    BY <1>7, <2>1, <2>2, <2>4 DEF Writing, Prefix, SetChunk
  <2> QED
    BY <2>1, <2>3, <2>5 DEF SecretInv, Whole, Unnamed
<1>8. CASE Name
  <2>1. asked \in Values /\ Size[asked] > 0 /\ Prefix(asked, Size[asked])
    BY <1>8 DEF SecretInv, Writing, Name
  <2>2. Assembles(asked)'
    BY <1>8, <2>1 DEF Assembles, Prefix, Name
  <2>3. Whole'
    BY <1>8, <2>1, <2>2 DEF Whole, Name
  <2>4. KeychainTypeOK' /\ (chunk[Limit] = NoPiece)'
    BY <1>8, <2>1 DEF SecretInv, KeychainTypeOK, Name
  <2> QED
    BY <1>8, <2>3, <2>4 DEF SecretInv, Unnamed, Writing, Name
<1>9. CASE TakeBack
  <2>1. base = Empty /\ UNCHANGED base
    BY <1>9 DEF SecretInv, Unnamed, TakeBack
  <2>2. KeychainTypeOK' /\ (chunk[Limit] = NoPiece)'
    <3>1. chunk' \in [0..Limit -> {NoPiece} \cup Pieces] /\ chunk'[Limit] = NoPiece
      BY <1>9, Entries DEF SecretInv, KeychainTypeOK, TakeBack
    <3>2. at' \in 0..Limit
      BY <1>9 DEF SecretInv, KeychainTypeOK, Writing, TakeBack
    <3> QED
      BY <1>9, <3>1, <3>2 DEF SecretInv, KeychainTypeOK, TakeBack
  <2> QED
    BY <1>9, <2>1, <2>2 DEF SecretInv, KeychainTypeOK, Whole, Unnamed, Writing, TakeBack
<1>10. CASE CallRefused
  <2>1. Whole'
    BY <1>10, WholeKept DEF SecretInv, CallRefused
  <2>2. KeychainTypeOK' /\ (chunk[Limit] = NoPiece)'
    <3>1. cuts' \in Nat
      BY <1>10 DEF SecretInv, KeychainTypeOK, CallRefused, Cut
    <3>4. clean' \in BOOLEAN
      BY <1>10 DEF CallRefused, Cut
    <3>2. at' \in 0..Limit /\ wrote' \in 0..Limit
      BY <1>10 DEF SecretInv, KeychainTypeOK, CallRefused
    <3>3. call' \in StoreCalls
      BY <1>10 DEF SecretInv, KeychainTypeOK, CallRefused, Removed
    <3> QED
      BY <1>10, <3>1, <3>2, <3>3, <3>4 DEF SecretInv, KeychainTypeOK, CallRefused
  <2>3. Unnamed'
    BY <1>10 DEF SecretInv, KeychainTypeOK, Unnamed, CallRefused, Removed
  <2>4. Writing'
    BY <1>10 DEF SecretInv, KeychainTypeOK, Writing, Prefix, CallRefused, Removed
  <2> QED
    BY <2>1, <2>2, <2>3, <2>4 DEF SecretInv
<1>11. CASE Kill
  <2>1. Whole'
    BY <1>11, WholeKept DEF SecretInv, Kill
  <2>2. cuts' \in Nat
    BY <1>11 DEF SecretInv, KeychainTypeOK, Kill, Cut
  <2>3. clean' \in BOOLEAN
    BY <1>11 DEF Kill, Cut
  <2> QED
    BY <1>11, <2>1, <2>2, <2>3 DEF SecretInv, KeychainTypeOK, Unnamed, Writing, Kill
<1>12. CASE UNCHANGED keychainVars
  <2>1. Whole'
    BY <1>12, WholeKept DEF SecretInv, keychainVars
  <2> QED
    BY <1>12, <2>1 DEF SecretInv, KeychainTypeOK, Unnamed, Writing, Prefix, keychainVars
<1> QED
  BY <1>1, <1>2, <1>3, <1>4, <1>5, <1>6, <1>7, <1>8, <1>9, <1>10, <1>11, <1>12 DEF KeychainNext

LEMMA SecretKept == KeychainSpec => []SecretInv
BY InitSecretInv, StepSecretInv, PTL DEF KeychainSpec

\* Every variable stays in its range: in particular a deletion counts no chunk
\* past the ones a value can have.
THEOREM KeychainTypeCorrect == KeychainSpec => []KeychainTypeOK
<1>1. SecretInv => KeychainTypeOK
  BY DEF SecretInv
<1> QED
  BY <1>1, SecretKept, PTL

-----------------------------------------------------------------------------
(* The secret as a register. *)

LEMMA InitRefines == KeychainInit => Register!Init
BY ReadNone DEF KeychainInit, Register!Init

\* A step that leaves the entries alone, or touches chunks nothing names, does
\* not change what a read finds.
LEMMA ReadKept ==
    ASSUME SecretInv, UNCHANGED base, base = Empty \/ UNCHANGED chunk
    PROVE  Get' = Get
<1>1. CASE base = Empty
  <2>1. Get = Absent /\ Get' = Absent
    BY <1>1 DEF Get
  <2> QED
    BY <2>1
<1>2. CASE UNCHANGED chunk
  BY <1>2 DEF Get, Assembles, Torn
<1> QED
  BY <1>1, <1>2

LEMMA StepRefines == SecretInv /\ SecretInv' /\ [KeychainNext]_keychainVars => [Register!Next]_<<Get, asked>>
<1> SUFFICES ASSUME SecretInv, SecretInv', [KeychainNext]_keychainVars PROVE [Register!Next]_<<Get, asked>>
  OBVIOUS
<1>1. ASSUME NEW v \in Values \cup {Absent}, SetOrDelete(v) PROVE Register!Ask
  <2>1. Get' = Get
    BY <1>1, ReadKept DEF SetOrDelete
  <2> QED
    BY <1>1, <2>1 DEF SetOrDelete, Register!Ask
<1>2. CASE Count \/ CallRefused \/ Kill \/ UNCHANGED keychainVars
  <2>1. UNCHANGED <<base, chunk, asked>>
    BY <1>2 DEF Count, CallRefused, Kill, keychainVars
  <2> QED
    BY <2>1, ReadKept
<1>3. CASE Unname
  <2>1. Get' = Absent
    BY <1>3 DEF Unname, Get
  <2> QED
    BY <1>3, <2>1 DEF Unname, Register!Next, Register!Lose
<1>4. CASE Unchunk \/ Sweep \/ SetChunk \/ TakeBack
  <2>1. base = Empty /\ UNCHANGED <<base, asked>>
    BY <1>4 DEF SecretInv, Unnamed, Unchunk, Sweep, SetChunk, TakeBack
  <2> QED
    BY <2>1, ReadKept
<1>5. CASE SetSingle
  <2>1. Get = Absent
    BY <1>5, ReadNone DEF SecretInv, Unnamed, SetSingle
  <2>2. Get' = asked
    BY <1>5 DEF SetSingle, Get
  <2> QED
    BY <1>5, <2>1, <2>2 DEF SetSingle, Register!Next, Register!Store
<1>6. CASE Name
  <2>1. Get = Absent
    BY <1>6, ReadNone DEF SecretInv, Unnamed, Name
  <2>2. asked \in Values /\ Size[asked] > 0 /\ Assembles(asked)'
    BY <1>6 DEF SecretInv, Writing, Prefix, Assembles, Name
  <2>3. Get' = asked
    <3>1. asked' = asked
      BY <1>6 DEF Name
    <3>2. \A w \in Values : Assembles(w)' => w = asked
      <4>1. SUFFICES ASSUME NEW w \in Values, Assembles(w)' PROVE w = asked
        OBVIOUS
      <4>2. chunk'[0] = Piece(w, 0) /\ chunk'[0] = Piece(asked, 0)
        BY <2>2, <4>1, <3>1, LimitAssumption, SizeAssumption DEF Assembles
      <4> QED
        BY <4>2
    <3>3. base'.kind = "manifest" /\ base' # Empty
      BY <1>6 DEF Name
    <3> QED
      BY <2>2, <3>1, <3>2, <3>3 DEF Get
  <2> QED
    BY <1>6, <2>1, <2>3 DEF Name, Register!Next, Register!Store
<1> QED
  BY <1>1, <1>2, <1>3, <1>4, <1>5, <1>6 DEF KeychainNext, Register!Next

\* However an operation is cut short, and however often, a read finds a whole
\* value, the one it was asked to store, or none (keychain.rs:307).
THEOREM Refinement == KeychainSpec => Atomic
BY InitRefines, SecretKept, StepRefines, PTL DEF KeychainSpec, Atomic, Register!Spec

-----------------------------------------------------------------------------

EndsWell == Completed /\ (call = "takeBack" => ~clean)

LEMMA StepEnds == SecretInv /\ SecretInv' /\ EndsWell /\ [KeychainNext]_keychainVars => EndsWell'
<1> SUFFICES ASSUME SecretInv, SecretInv', EndsWell, [KeychainNext]_keychainVars PROVE EndsWell'
  OBVIOUS
<1>1. CASE \E v \in Values \cup {Absent} : SetOrDelete(v)
  BY <1>1 DEF SetOrDelete, EndsWell, Completed
<1>2. CASE Count \/ Unname \/ Unchunk \/ SetChunk
  BY <1>2 DEF Count, Unname, Unchunk, SetChunk, EndsWell, Completed
<1>3. CASE CallRefused \/ Kill
  BY <1>3 DEF CallRefused, Kill, Cut, EndsWell, Completed
<1>4. CASE Sweep
  <2>1. call' # "takeBack"
    BY <1>4 DEF Sweep, Removed
  <2>2. Get' = Absent
    BY <1>4 DEF SecretInv, Unnamed, Sweep, Get
  <2>3. call' = "idle" => asked' = Absent
    BY <1>4 DEF Sweep, Removed
  <2> QED
    BY <2>1, <2>2, <2>3 DEF EndsWell, Completed
<1>5. CASE SetSingle
  BY <1>5 DEF SetSingle, Get, EndsWell, Completed
<1>6. CASE Name
  <2>1. Get = Absent
    BY <1>6, ReadNone DEF SecretInv, Unnamed, Name
  <2>2. Get' = asked /\ asked' = asked
    <3>1. [Register!Next]_<<Get, asked>>
      BY StepRefines
    <3>2. Get' # Absent
      <4>1. asked \in Values /\ Size[asked] > 0 /\ Assembles(asked)' /\ asked' = asked
        BY <1>6 DEF SecretInv, Writing, Prefix, Assembles, Name
      <4>2. base' # Empty /\ base'.kind = "manifest"
        BY <1>6 DEF Name
      <4>3. Get' \in Values
        BY <4>1, <4>2 DEF Get
      <4> QED
        BY <4>3, AbsentAssumption
    <3> QED
      BY <1>6, <2>1, <3>1, <3>2 DEF Name, Register!Next, Register!Ask, Register!Lose, Register!Store
  <2> QED
    BY <1>6, <2>2 DEF Name, EndsWell, Completed
<1>7. CASE TakeBack
  BY <1>7 DEF TakeBack, EndsWell, Completed
<1>8. CASE UNCHANGED keychainVars
  <2>1. Get' = Get
    BY <1>8, ReadKept DEF keychainVars
  <2> QED
    BY <1>8, <2>1 DEF keychainVars, EndsWell, Completed
<1> QED
  BY <1>1, <1>2, <1>3, <1>4, <1>5, <1>6, <1>7, <1>8 DEF KeychainNext

\* A set that succeeded has replaced the secret and a delete that succeeded has
\* removed it, over whatever earlier cuts had left (keychain.rs:358, 426).
THEOREM Completion == KeychainSpec => []Completed
<1>1. KeychainInit => EndsWell
  BY ReadNone DEF KeychainInit, EndsWell, Completed
<1>2. EndsWell => Completed
  BY DEF EndsWell
<1> QED
  BY <1>1, <1>2, SecretKept, StepEnds, PTL DEF KeychainSpec
=============================================================================
