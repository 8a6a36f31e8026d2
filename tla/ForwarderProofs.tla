-------------------------- MODULE ForwarderProofs ---------------------------
(***************************************************************************)
(* What Forwarder keeps for every band of ports, every choice of calls and *)
(* of faults but those named: the port tools hold is never given up, there *)
(* is one forwarder at a time, after a stop nothing starts one, and after  *)
(* a drain who is served stays served until the session ends.              *)
(***************************************************************************)
EXTENDS Forwarder, FiniteSetTheorems, TLAPS

\* Ports come free, and forwarders bind, within the time that is waited.
Quick == "slow" \notin Faults

\* Nobody is killed in a first install between the agent's file and the port's.
Whole == "cut" \notin Faults

-----------------------------------------------------------------------------
(* The inductive invariant. *)

\* The lock: one thread is inside an operation.
Exclusive == \A t, u \in Threads : ~At(t, "idle") /\ ~At(u, "idle") => t = u

Vacant == \A p \in Ports : direct[p] = "none"

\* From where an agent is put in place until it is given up, and until another
\* one is started, nothing runs outside launchd.
Starting == {"install", "reload", "bootstrap", "await", "restart",
             "abandonOut", "abandonFile", "freed", "spawn"}
Placed(t) ==
    /\ pc[t] \in Starting => Vacant /\ ~spawning
    /\ pc[t] \in {"reload", "bootstrap"} => local[t].port \in Ports /\ plist = local[t].port
    /\ pc[t] \in {"reload", "bootstrap"} /\ portfile # NoPort => local[t].port = portfile
    /\ pc[t] \in {"await", "restart", "abandonOut", "abandonFile", "freed", "spawn"} =>
          portfile # NoPort
    /\ pc[t] \in {"abandonFile", "freed", "spawn"} => job = NoPort
    /\ pc[t] \in {"freed", "spawn"} => plist = NoPort
    /\ At(t, "spawn") => lingering # portfile

\* What runs outside launchd holds the recorded port, and launchd has nothing.
Outside == \A p \in Ports : direct[p] # "none" =>
              p = portfile /\ job = NoPort /\ plist = NoPort /\ ~spawning

\* The port on record is the one the agent is given, once there is one.
Recorded ==
    /\ portfile = NoPort =>
          /\ job = NoPort
          /\ plist # NoPort => \E t \in Threads : pc[t] \in {"reload", "bootstrap"}
    /\ portfile # NoPort => plist \in {NoPort, portfile} /\ job \in {NoPort, portfile}

\* What is about to bind finds the recorded port free.
Coming ==
    spawning =>
        /\ \A t \in Threads : pc[t] \in {"idle", "answer"}
        /\ job = NoPort /\ plist = NoPort /\ Vacant
        /\ portfile # NoPort /\ lingering # portfile

\* What a stop has taken away, step by step.
Stopping ==
    /\ word = "stop" => LetGo /\ \A t \in Threads : At(t, "idle")
    /\ \A t \in Threads : At(t, "stopOut") => marker = "none"
    /\ \A t \in Threads : At(t, "stopFile") => marker = "none" /\ job = NoPort

Inv ==
    /\ TypeOK
    /\ Exclusive
    /\ Outside
    /\ Recorded
    /\ Coming
    /\ \A t \in Threads : Placed(t)

\* Of a forwarder and an agent that a failed install left nothing is known but their
\* types, until a login.
Safe == TypeOK /\ Exclusive /\ (torn \/ Inv)

-----------------------------------------------------------------------------
(* Types. *)

LEMMA InitType == Init => TypeOK
<1> SUFFICES ASSUME Init PROVE TypeOK
  OBVIOUS
<1> USE DEF Init
<1>1. pc \in [Threads -> Labels] /\ op \in [Threads -> Operations]
  BY DEF Labels, Operations
<1>2. local \in [Threads -> [drained : BOOLEAN, fronting : BOOLEAN, port : Ports \cup {NoPort}]]
  BY DEF Fresh
<1>3. direct \in [Ports -> {"none", "up", "old"}] /\ spent \in [{"app", "cli"} -> SUBSET Once]
  OBVIOUS
<1> QED  BY <1>1, <1>2, <1>3 DEF TypeOK

LEMMA CallType ==
  ASSUME TypeOK, NEW t \in Threads, Call(t)
  PROVE  TypeOK'
<1> USE DEF TypeOK, Threads, Operations, Labels, Once, Home, At,
            disk, launchd, spawned, history
<1>1. ASSUME NEW o \in Operations, NEW label \in Labels, Begin(t, o, label),
             word' \in {"none", "ensure", "stop", "drain", "over"}
      PROVE  TypeOK'
  BY <1>1 DEF Begin
<1>2. CASE Ensure(t)
  BY <1>1, <1>2 DEF Ensure
<1>3. CASE Supervise(t)
  BY <1>1, <1>3 DEF Supervise
<1>4. CASE Stop(t)
  BY <1>1, <1>4 DEF Stop
<1>5. CASE Drain(t)
  BY <1>1, <1>5 DEF Drain
<1> QED  BY <1>2, <1>3, <1>4, <1>5 DEF Call

LEMMA MoveType ==
  ASSUME TypeOK, NEW t \in Threads, NEW label \in Labels,
         NEW mine \in [drained : BOOLEAN, fronting : BOOLEAN, port : Ports \cup {NoPort}],
         GotoWith(t, label, mine) \/ Goto(t, label) \/ Return(t)
  PROVE  /\ pc' \in [Threads -> Labels] /\ op' \in [Threads -> Operations]
         /\ local' \in [Threads -> [drained : BOOLEAN, fronting : BOOLEAN,
                                    port : Ports \cup {NoPort}]]
<1> USE DEF TypeOK, Operations
<1>1. Fresh \in [drained : BOOLEAN, fronting : BOOLEAN, port : Ports \cup {NoPort}]
  BY DEF Fresh
<1>2. "idle" \in Labels
  BY DEF Labels
<1>3. CASE Return(t)
  BY <1>1, <1>2, <1>3 DEF Return
<1>4. CASE GotoWith(t, label, mine)
  BY <1>4 DEF GotoWith
<1>5. CASE Goto(t, label)
  BY <1>5 DEF Goto, GotoWith
<1> QED  BY <1>3, <1>4, <1>5

LEMMA ThreadType ==
  ASSUME TypeOK, NEW t \in Threads, Thread(t)
  PROVE  TypeOK'
<1> USE DEF TypeOK, At, Unheard, disk, launchd, spawned, history
<1> DEFINE Moves == /\ pc' \in [Threads -> Labels] /\ op' \in [Threads -> Operations]
                    /\ local' \in [Threads -> [drained : BOOLEAN, fronting : BOOLEAN,
                                               port : Ports \cup {NoPort}]]
<1>1. ASSUME NEW label \in Labels, Goto(t, label) PROVE Moves
  BY <1>1, MoveType
<1>2. ASSUME NEW label \in Labels,
             NEW mine \in [drained : BOOLEAN, fronting : BOOLEAN, port : Ports \cup {NoPort}],
             GotoWith(t, label, mine)
      PROVE  Moves
  BY <1>2, MoveType
<1>3. Return(t) => Moves
  BY MoveType DEF Labels
<1>4. Labels = {"idle", "mark", "restore", "probe", "retire", "retireOut", "retireFile", "retired",
           "install", "reload", "bootstrap", "await", "restart", "abandonOut", "abandonFile",
           "freed", "spawn", "answer", "adopt", "adopting", "stop", "stopOut", "stopFile",
           "drain", "forget"}
  BY DEF Labels
<1>5. local[t] \in [drained : BOOLEAN, fronting : BOOLEAN, port : Ports \cup {NoPort}]
  OBVIOUS
<1>6. \A what \in Once : Spend(t, what) => spent' \in [{"app", "cli"} -> SUBSET Once]
  BY DEF Spend, Home, Threads
<1> HIDE DEF Moves
<1>33. Replace(t) => Moves
  <2>1. [local[t] EXCEPT !.fronting = FALSE]
          \in [drained : BOOLEAN, fronting : BOOLEAN, port : Ports \cup {NoPort}]
    BY <1>5
  <2> QED  BY <1>1, <1>2, <1>4, <2>1 DEF Replace
<1>7. ASSUME Moves, NEW next \in Labels, Unmark(t, next) \/ Bootout(t, next) \/ Unlist(t, next)
      PROVE  TypeOK'
  BY <1>7 DEF Moves, Unmark, Bootout, Unlist, BootedOut
<1>8. \A next \in Labels : Unmark(t, next) \/ Bootout(t, next) \/ Unlist(t, next) => TypeOK'
  BY <1>1, <1>7 DEF Unmark, Bootout, Unlist
<1>9. CASE Retire(t)
  BY <1>4, <1>8, <1>9 DEF Retire
<1>10. CASE RetireOut(t)
  BY <1>4, <1>8, <1>10 DEF RetireOut
<1>11. CASE RetireFile(t)
  BY <1>4, <1>8, <1>11 DEF RetireFile
<1>12. CASE Adopt(t)
  BY <1>4, <1>8, <1>12 DEF Adopt
<1>13. CASE Reload(t)
  BY <1>4, <1>8, <1>13 DEF Reload
<1>14. CASE AbandonOut(t)
  BY <1>4, <1>8, <1>14 DEF AbandonOut
<1>15. CASE AbandonFile(t)
  BY <1>4, <1>8, <1>15 DEF AbandonFile
<1>16. CASE StopMarker(t)
  BY <1>4, <1>8, <1>16 DEF StopMarker
<1>17. CASE StopOut(t)
  BY <1>4, <1>8, <1>17 DEF StopOut
<1>18. CASE Mark(t)
  <2> DEFINE mine == [local[t] EXCEPT !.drained = marker = "draining"]
  <2>1. mine \in [drained : BOOLEAN, fronting : BOOLEAN, port : Ports \cup {NoPort}]
    BY <1>5
  <2>2. Moves
    BY <1>2, <1>3, <1>4, <1>18, <2>1 DEF Mark
  <2> QED  BY <1>18, <2>2 DEF Mark, Moves
<1>19. CASE Restore(t)
  <2>1. Moves
    BY <1>1, <1>3, <1>4, <1>19 DEF Restore
  <2> QED  BY <1>19, <2>1 DEF Restore, Moves
<1>20. CASE Probe(t)
  <2>1. [local[t] EXCEPT !.fronting = TRUE]
          \in [drained : BOOLEAN, fronting : BOOLEAN, port : Ports \cup {NoPort}]
    BY <1>5
  <2>2. Moves
    BY <1>1, <1>2, <1>3, <1>4, <1>20, <2>1 DEF Probe
  <2>3. spent' \in [{"app", "cli"} -> SUBSET Once]
    BY <1>6, <1>20 DEF Probe, Once
  <2> QED  BY <1>20, <2>2, <2>3 DEF Probe, Moves, Build
<1>21. CASE Retired(t)
  <2>1. Moves
    BY <1>1, <1>3, <1>4, <1>21 DEF Retired
  <2> QED  BY <1>21, <2>1 DEF Retired, Moves
<1>22. CASE Adopting(t)
  <2>1. Moves
    BY <1>1, <1>3, <1>4, <1>22 DEF Adopting
  <2> QED  BY <1>22, <2>1 DEF Adopting, Moves
<1>23. CASE Install(t)
  <2>1. ASSUME NEW p \in Ports, plist' = p,
               \E next \in {"reload"} \cup {"bootstrap" : x \in {plist} \cap {p}} :
                  GotoWith(t, next, [local[t] EXCEPT !.port = p])
        PROVE  Moves
    <3>1. [local[t] EXCEPT !.port = p]
            \in [drained : BOOLEAN, fronting : BOOLEAN, port : Ports \cup {NoPort}]
      BY <1>5
    <3> QED  BY <1>2, <1>4, <2>1, <3>1
  <2>2. Replace(t) => Moves
    BY <1>33
  <2>3. plist' \in Ports \cup {NoPort} /\ Moves
    BY <1>23, <2>1, <2>2 DEF Install
  <2> QED  BY <1>23, <2>3 DEF Install, Moves
<1>24. CASE Bootstrap(t)
  <2>1. Moves
    BY <1>1, <1>4, <1>24, <1>33 DEF Bootstrap
  <2>2. portfile' \in Ports \cup {NoPort} /\ torn' \in BOOLEAN
    BY <1>5, <1>24 DEF Bootstrap, Replace
  <2>3. /\ job' \in Ports \cup {NoPort} /\ lingering' \in Ports \cup {NoPort}
        /\ agent' \in {"idle", "up", "old", "hung"} /\ (job' = NoPort => agent' = "idle")
    BY <1>24 DEF Bootstrap
  <2> QED  BY <1>24, <2>1, <2>2, <2>3 DEF Bootstrap, Moves
<1>25. CASE Await(t)
  <2>1. Moves
    BY <1>1, <1>3, <1>4, <1>25 DEF Await
  <2> QED  BY <1>25, <2>1 DEF Await, Moves, Build
<1>26. CASE Restart(t)
  <2>1. Moves
    BY <1>1, <1>3, <1>4, <1>26 DEF Restart
  <2> QED  BY <1>26, <2>1 DEF Restart, Moves
<1>27. CASE Freed(t)
  <2>1. Moves
    BY <1>27, <1>33 DEF Freed
  <2> QED  BY <1>27, <2>1 DEF Freed, Moves
<1>28. CASE Spawn(t)
  <2>1. Moves
    BY <1>1, <1>3, <1>4, <1>28 DEF Spawn
  <2>2. spent' \in [{"app", "cli"} -> SUBSET Once]
    BY <1>6, <1>28 DEF Spawn, Once
  <2> QED  BY <1>28, <2>1, <2>2 DEF Spawn, Moves
<1>29. CASE Answer(t)
  <2>1. Moves
    BY <1>1, <1>3, <1>4, <1>29 DEF Answer
  <2> QED  BY <1>29, <2>1 DEF Answer, Moves
<1>30. CASE StopFile(t)
  <2>1. Moves
    BY <1>1, <1>3, <1>4, <1>30 DEF StopFile
  <2> QED  BY <1>30, <2>1 DEF StopFile, Moves
<1>31. CASE DrainMarker(t)
  <2>1. Moves
    BY <1>1, <1>3, <1>4, <1>31 DEF DrainMarker
  <2> QED  BY <1>31, <2>1 DEF DrainMarker, Moves
<1>32. CASE Forget(t)
  <2>1. Moves
    BY <1>1, <1>3, <1>4, <1>32 DEF Forget
  <2> QED  BY <1>32, <2>1 DEF Forget, Moves
<1> QED
  BY <1>9, <1>10, <1>11, <1>12, <1>13, <1>14, <1>15, <1>16,
     <1>17, <1>18, <1>19, <1>20, <1>21, <1>22, <1>23, <1>24,
     <1>25, <1>26, <1>27, <1>28, <1>29, <1>30, <1>31, <1>32 DEF Thread

LEMMA StopsType ==
  ASSUME TypeOK, NEW x, Stopped(x)
  PROVE  /\ pc' \in [Threads -> Labels] /\ op' \in [Threads -> Operations]
         /\ local' \in [Threads -> [drained : BOOLEAN, fronting : BOOLEAN,
                                    port : Ports \cup {NoPort}]]
<1>1. \A t \in Threads : pc[t] \in Labels /\ op[t] \in Operations
        /\ local[t] \in [drained : BOOLEAN, fronting : BOOLEAN, port : Ports \cup {NoPort}]
  BY DEF TypeOK
<1>2. "idle" \in Labels /\ "ensure" \in Operations
  BY DEF Labels, Operations
<1>3. Fresh \in [drained : BOOLEAN, fronting : BOOLEAN, port : Ports \cup {NoPort}]
  BY DEF Fresh
<1> QED  BY <1>1, <1>2, <1>3 DEF Stopped

LEMMA TypeStep == TypeOK /\ [Next]_vars => TypeOK'
<1> SUFFICES ASSUME TypeOK, [Next]_vars PROVE TypeOK'
  OBVIOUS
<1>1. ASSUME NEW t \in Threads, Call(t) \/ Thread(t) PROVE TypeOK'
  BY <1>1, CallType, ThreadType
<1> USE DEF TypeOK, disk, launchd, spawned, threads, history
<1>2. CASE Bind
  BY <1>2 DEF Bind
<1>3. CASE Notice
  BY <1>3 DEF Notice
<1>4. CASE Wake
  BY <1>4 DEF Wake
<1>5. CASE Release
  BY <1>5 DEF Release
<1>6. CASE Launch
  BY <1>6 DEF Launch, Once
<1>7. CASE Relogin
  BY <1>7 DEF Relogin
<1>8. CASE Dies
  BY <1>8 DEF Dies
<1>9. CASE Update
  BY <1>9 DEF Update
<1>10. ASSUME NEW x \in {"app", "cli"}, Kill(x) PROVE TypeOK'
  BY <1>10, StopsType DEF Kill, Unheard
<1>11. CASE UNCHANGED vars
  BY <1>11 DEF vars
<1> QED
  BY <1>1, <1>2, <1>3, <1>4, <1>5, <1>6, <1>7, <1>8, <1>9, <1>10, <1>11
  DEF Next, System, Fault

\* Every variable stays in the set the code keeps it in, for every band of ports
\* and every choice of calls and faults.
THEOREM TypeCorrect == Spec => []TypeOK
<1> QED  BY InitType, TypeStep, PTL DEF Spec

-----------------------------------------------------------------------------
(* The lock, and what a stop takes away. *)

\* A step of one thread finds and leaves the others idle.
LEMMA OthersIdle ==
  ASSUME TypeOK, Exclusive, NEW t \in Threads, Call(t) \/ Thread(t)
  PROVE  \A u \in Threads \ {t} : pc[u] = "idle" /\ pc'[u] = "idle"
<1> USE DEF TypeOK, At
<1>1. CASE Call(t)
  BY <1>1 DEF Call, Ensure, Supervise, Stop, Drain, Begin
<1>2. CASE Thread(t)
  <2>1. pc[t] # "idle" /\ \A u \in Threads \ {t} : pc'[u] = pc[u]
    <3>1. CASE Mark(t)
      BY <3>1 DEF Mark, Goto, GotoWith, Return
    <3>2. CASE Restore(t)
      BY <3>2 DEF Restore, Goto, GotoWith, Return
    <3>3. CASE Probe(t)
      BY <3>3 DEF Probe, Goto, GotoWith, Return
    <3>4. CASE Retire(t)
      BY <3>4 DEF Retire, Goto, GotoWith, Return, Unmark
    <3>5. CASE RetireOut(t)
      BY <3>5 DEF RetireOut, Goto, GotoWith, Return, Bootout
    <3>6. CASE RetireFile(t)
      BY <3>6 DEF RetireFile, Goto, GotoWith, Return, Unlist
    <3>7. CASE Retired(t)
      BY <3>7 DEF Retired, Goto, GotoWith, Return
    <3>8. CASE Adopt(t)
      BY <3>8 DEF Adopt, Goto, GotoWith, Return, Unmark
    <3>9. CASE Adopting(t)
      BY <3>9 DEF Adopting, Goto, GotoWith, Return
    <3>10. CASE Install(t)
      BY <3>10 DEF Install, Replace, Goto, GotoWith, Return
    <3>11. CASE Reload(t)
      BY <3>11 DEF Reload, Goto, GotoWith, Return, Bootout
    <3>12. CASE Bootstrap(t)
      BY <3>12 DEF Bootstrap, Replace, Goto, GotoWith, Return
    <3>13. CASE Await(t)
      BY <3>13 DEF Await, Goto, GotoWith, Return
    <3>14. CASE Restart(t)
      BY <3>14 DEF Restart, Goto, GotoWith, Return
    <3>15. CASE AbandonOut(t)
      BY <3>15 DEF AbandonOut, Goto, GotoWith, Return, Bootout
    <3>16. CASE AbandonFile(t)
      BY <3>16 DEF AbandonFile, Goto, GotoWith, Return, Unlist
    <3>17. CASE Freed(t)
      BY <3>17 DEF Freed, Goto, GotoWith, Return, Replace
    <3>18. CASE Spawn(t)
      BY <3>18 DEF Spawn, Goto, GotoWith, Return
    <3>19. CASE Answer(t)
      BY <3>19 DEF Answer, Goto, GotoWith, Return
    <3>20. CASE StopMarker(t)
      BY <3>20 DEF StopMarker, Goto, GotoWith, Return, Unmark
    <3>21. CASE StopOut(t)
      BY <3>21 DEF StopOut, Goto, GotoWith, Return, Bootout
    <3>22. CASE StopFile(t)
      BY <3>22 DEF StopFile, Goto, GotoWith, Return
    <3>23. CASE DrainMarker(t)
      BY <3>23 DEF DrainMarker, Goto, GotoWith, Return
    <3>24. CASE Forget(t)
      BY <3>24 DEF Forget, Goto, GotoWith, Return
    <3> QED
      BY <1>2, <3>1, <3>2, <3>3, <3>4, <3>5, <3>6, <3>7, <3>8,
         <3>9, <3>10, <3>11, <3>12, <3>13, <3>14, <3>15, <3>16,
         <3>17, <3>18, <3>19, <3>20, <3>21, <3>22, <3>23, <3>24 DEF Thread
  <2> QED  BY <2>1 DEF Exclusive
<1> QED  BY <1>1, <1>2

\* Nothing else moves a thread, but a kill that ends its operation.
LEMMA ThreadsRest ==
  ASSUME TypeOK, Next, ~\E t \in Threads : Call(t) \/ Thread(t)
  PROVE  /\ UNCHANGED threads \/ \E x \in {"app", "cli"} : Stopped(x)
         /\ \A u \in Threads : pc'[u] \in {pc[u], "idle"}
         /\ \A u \in Threads : pc'[u] # "idle" => local'[u] = local[u]
<1>1. UNCHANGED threads \/ \E x \in {"app", "cli"} : Stopped(x)
  <2>1. CASE Kill("app") \/ Kill("cli")
    BY <2>1 DEF Kill
  <2>2. CASE ~(Kill("app") \/ Kill("cli"))
    BY <2>2 DEF Next, System, Fault, Bind, Notice, Release, Wake, Launch, Relogin, Dies, Update
  <2> QED  BY <2>1, <2>2
<1> QED  BY <1>1 DEF TypeOK, threads, Stopped

LEMMA ExclusiveStep == TypeOK /\ Exclusive /\ [Next]_vars => Exclusive'
<1> SUFFICES ASSUME TypeOK, Exclusive, [Next]_vars PROVE Exclusive'
  OBVIOUS
<1>1. ASSUME NEW t \in Threads, Call(t) \/ Thread(t) PROVE Exclusive'
  BY <1>1, OthersIdle DEF Exclusive, At
<1>2. CASE Next /\ ~\E t \in Threads : Call(t) \/ Thread(t)
  BY <1>2, ThreadsRest DEF Exclusive, At
<1>3. CASE UNCHANGED vars
  BY <1>3 DEF vars, Exclusive, At
<1> QED  BY <1>1, <1>2, <1>3

LEMMA StoppingStep == TypeOK /\ Exclusive /\ Stopping /\ [Next]_vars => Stopping'
<1> SUFFICES ASSUME TypeOK, Exclusive, Stopping, [Next]_vars PROVE Stopping'
  OBVIOUS
<1> USE DEF Stopping, LetGo, At
<1>1. ASSUME NEW t \in Threads, Call(t) PROVE Stopping'
  <2>1. pc[t] = "idle" /\ pc'[t] \notin {"stopOut", "stopFile"} /\ word' # "stop"
    BY <1>1 DEF Call, Ensure, Supervise, Stop, Drain, Begin, TypeOK
  <2> QED  BY <1>1, <2>1, OthersIdle
<1>2. ASSUME NEW t \in Threads, Thread(t) PROVE Stopping'
  <2> DEFINE Fine == /\ word' = "stop" => LetGo' /\ pc'[t] = "idle"
                     /\ pc'[t] = "stopOut" => marker' = "none"
                     /\ pc'[t] = "stopFile" => marker' = "none" /\ job' = NoPort
  <2>1. word # "stop"
    BY <1>2 DEF Thread, Mark, Restore, Probe, Retire, RetireOut, RetireFile, Retired, Adopt,
                Adopting, Install, Reload, Bootstrap, Await, Restart, AbandonOut, AbandonFile,
                Freed, Spawn, Answer, StopMarker, StopOut, StopFile, DrainMarker, Forget
  <2>2. Fine
    <3> USE <2>1 DEF TypeOK, Goto, GotoWith, Return, Unheard, disk, launchd, history
    <3>1. CASE Mark(t)
      BY <3>1 DEF Mark
    <3>2. CASE Restore(t)
      BY <3>2 DEF Restore
    <3>3. CASE Probe(t)
      BY <3>3 DEF Probe
    <3>4. CASE Retire(t)
      BY <3>4 DEF Retire, Unmark
    <3>5. CASE RetireOut(t)
      BY <3>5 DEF RetireOut, Bootout
    <3>6. CASE RetireFile(t)
      BY <3>6 DEF RetireFile, Unlist
    <3>7. CASE Retired(t)
      BY <3>7 DEF Retired
    <3>8. CASE Adopt(t)
      BY <3>8 DEF Adopt, Unmark
    <3>9. CASE Adopting(t)
      BY <3>9 DEF Adopting
    <3>10. CASE Install(t)
      BY <3>10 DEF Install, Replace
    <3>11. CASE Reload(t)
      BY <3>11 DEF Reload, Bootout
    <3>12. CASE Bootstrap(t)
      BY <3>12 DEF Bootstrap, Replace
    <3>13. CASE Await(t)
      BY <3>13 DEF Await
    <3>14. CASE Restart(t)
      BY <3>14 DEF Restart
    <3>15. CASE AbandonOut(t)
      BY <3>15 DEF AbandonOut, Bootout
    <3>16. CASE AbandonFile(t)
      BY <3>16 DEF AbandonFile, Unlist
    <3>17. CASE Freed(t)
      BY <3>17 DEF Freed, Replace
    <3>18. CASE Spawn(t)
      BY <3>18 DEF Spawn
    <3>19. CASE Answer(t)
      BY <3>19 DEF Answer
    <3>20. CASE StopMarker(t)
      BY <3>20 DEF StopMarker, Unmark
    <3>21. CASE StopOut(t)
      BY <3>21 DEF StopOut, Bootout, BootedOut
    <3>22. CASE StopFile(t)
      BY <3>22 DEF StopFile
    <3>23. CASE DrainMarker(t)
      BY <3>23 DEF DrainMarker
    <3>24. CASE Forget(t)
      BY <3>24 DEF Forget
    <3> QED
      BY <1>2, <3>1, <3>2, <3>3, <3>4, <3>5, <3>6, <3>7, <3>8,
         <3>9, <3>10, <3>11, <3>12, <3>13, <3>14, <3>15, <3>16,
         <3>17, <3>18, <3>19, <3>20, <3>21, <3>22, <3>23, <3>24 DEF Thread
  <2> QED  BY <1>2, <2>2, OthersIdle
<1>3. CASE Next /\ ~\E t \in Threads : Call(t) \/ Thread(t)
  <2>1. \A u \in Threads : pc'[u] \in {pc[u], "idle"}
    BY <1>3, ThreadsRest
  <2> USE DEF disk, launchd, spawned, threads, history, Unheard
  <2>2. CASE Relogin
    BY <2>1, <2>2 DEF Relogin
  <2>3. CASE ~Relogin
    <3>1. UNCHANGED <<marker, job, plist>> /\ (word' = "stop" => word = "stop")
      BY <1>3, <2>3
      DEF Next, System, Fault, Bind, Notice, Release, Wake, Launch, Dies, Update, Kill
    <3> QED  BY <2>1, <3>1
  <2> QED  BY <2>2, <2>3
<1>4. CASE UNCHANGED vars
  BY <1>4 DEF vars
<1> QED  BY <1>1, <1>2, <1>3, <1>4

\* Once a stop is done, and until somebody asks for a forwarder, there is no
\* marker, no loaded agent and no file of one: no supervisory pass puts them
\* back, whatever its timing, and whatever dies or logs in meanwhile.
THEOREM StopStands == Spec => []LetGo
<1> DEFINE J == TypeOK /\ Exclusive /\ Stopping
<1>1. Init => J
  BY InitType DEF Init, Exclusive, Stopping, At
<1>2. J /\ [Next]_vars => J'
  BY TypeStep, ExclusiveStep, StoppingStep
<1>3. J => LetGo
  BY DEF Stopping, LetGo
<1> QED  BY <1>1, <1>2, <1>3, PTL DEF Spec

-----------------------------------------------------------------------------
(* The port, and one forwarder at a time. *)

LEMMA CallStep ==
  ASSUME Inv, Quick, NEW t \in Threads, Call(t)
  PROVE  Outside' /\ Recorded' /\ Coming' /\ \A u \in Threads : Placed(u)'
<1>1. /\ ~spawning /\ pc'[t] \in {"mark", "stop", "drain"}
      /\ UNCHANGED <<disk, launchd, spawned>>
  BY DEF Inv, TypeOK, Quick, Call, Ensure, Supervise, Stop, Drain, Begin
<1>2. \A u \in Threads : pc'[u] \in {"mark", "stop", "drain", "idle"}
  BY <1>1, OthersIdle DEF Inv
<1>3. Outside' /\ Coming'
  BY <1>1 DEF Inv, Outside, Coming, disk, launchd, spawned, Vacant
<1>4. \A u \in Threads : pc[u] = "idle"
  BY DEF Call, Ensure, Supervise, Stop, Drain, Begin, At
<1>5. Recorded'
  BY <1>1, <1>4 DEF Inv, Recorded, disk, launchd
<1> QED  BY <1>2, <1>3, <1>5 DEF Placed, Starting, At

LEMMA ThreadStep ==
  ASSUME Inv, Quick, ~torn', NEW t \in Threads, Thread(t)
  PROVE  Outside' /\ Recorded' /\ Coming' /\ \A u \in Threads : Placed(u)'
<1> DEFINE Mine == /\ Outside' /\ Placed(t)'
                   /\ portfile' = NoPort => job' = NoPort
                                         /\ (plist' # NoPort => pc'[t] \in {"reload", "bootstrap"})
                   /\ portfile' # NoPort => plist' \in {NoPort, portfile'} /\ job' \in {NoPort, portfile'}
                   /\ spawning' => /\ pc'[t] \in {"idle", "answer"}
                                   /\ job' = NoPort /\ plist' = NoPort /\ Vacant'
                                   /\ portfile' # NoPort /\ lingering' # portfile'
<1>0. \A u \in Threads \ {t} : pc[u] = "idle" /\ pc'[u] = "idle"
  BY OthersIdle DEF Inv
<1>1. Mine
  <2>0. portfile = NoPort /\ plist # NoPort => pc[t] \in {"reload", "bootstrap"}
    BY <1>0 DEF Inv, Recorded
  <2> USE <2>0 DEF Inv, Recorded, TypeOK, Outside, Coming, Placed, Starting, Vacant, At,
              Goto, GotoWith, Return, disk, launchd, spawned, history
  <2>1. CASE Mark(t)
    BY <2>1 DEF Mark
  <2>2. CASE Restore(t)
    BY <2>2 DEF Restore, Chosen
  <2>3. CASE Probe(t)
    BY <2>3, PortsAssumption DEF Probe, Build
  <2>4. CASE Retire(t)
    BY <2>4 DEF Retire, Unmark
  <2>5. CASE RetireOut(t)
    BY <2>5 DEF RetireOut, Bootout, BootedOut
  <2>6. CASE RetireFile(t)
    BY <2>6 DEF RetireFile, Unlist
  <2>7. CASE Retired(t)
    BY <2>7, PortsAssumption DEF Retired, Waited, Live, Holds, Quick
  <2>8. CASE Adopt(t)
    BY <2>8 DEF Adopt, Unmark
  <2>9. CASE Adopting(t)
    BY <2>9, PortsAssumption DEF Adopting, Waited, Live, Holds, Quick
  <2>10. CASE Install(t)
    BY <2>10 DEF Install, Chosen
  <2>11. CASE Reload(t)
    BY <2>11 DEF Reload, Bootout, BootedOut
  <2>12. CASE Bootstrap(t)
    BY <2>12, PortsAssumption DEF Bootstrap, Holds
  <2>13. CASE Await(t)
    BY <2>13 DEF Await, Build
  <2>14. CASE Restart(t)
    BY <2>14 DEF Restart
  <2>15. CASE AbandonOut(t)
    BY <2>15 DEF AbandonOut, Bootout, BootedOut
  <2>16. CASE AbandonFile(t)
    BY <2>16 DEF AbandonFile, Unlist
  <2>17. CASE Freed(t)
    BY <2>17 DEF Freed, Replace, Waited, Live, Holds, Quick
  <2>18. CASE Spawn(t)
    BY <2>18 DEF Spawn
  <2>19. CASE Answer(t)
    BY <2>19 DEF Answer
  <2>20. CASE StopMarker(t)
    BY <2>20 DEF StopMarker, Unmark
  <2>21. CASE StopOut(t)
    BY <2>21 DEF StopOut, Bootout, BootedOut
  <2>22. CASE StopFile(t)
    BY <2>22 DEF StopFile
  <2>23. CASE DrainMarker(t)
    BY <2>23 DEF DrainMarker
  <2>24. CASE Forget(t)
    BY <2>24 DEF Forget
  <2> QED
    BY <2>1, <2>2, <2>3, <2>4, <2>5, <2>6, <2>7, <2>8,
       <2>9, <2>10, <2>11, <2>12, <2>13, <2>14, <2>15, <2>16,
       <2>17, <2>18, <2>19, <2>20, <2>21, <2>22, <2>23, <2>24 DEF Thread
<1>2. Coming'
  BY <1>0, <1>1 DEF Coming
<1> QED  BY <1>0, <1>1, <1>2 DEF Recorded, Placed, Starting, At

LEMMA Unrecorded ==
  ASSUME Recorded, portfile = NoPort, \A t \in Threads : pc[t] \notin {"reload", "bootstrap"}
  PROVE  plist = NoPort
BY DEF Recorded

LEMMA OtherStep ==
  ASSUME Inv, Whole, Next, ~\E t \in Threads : Call(t) \/ Thread(t)
  PROVE  Outside' /\ Recorded' /\ Coming' /\ \A u \in Threads : Placed(u)'
<1>1. /\ \A u \in Threads : pc'[u] \in {pc[u], "idle"}
      /\ \A u \in Threads : pc'[u] # "idle" => local'[u] = local[u]
  BY ThreadsRest DEF Inv
<1>u. (\A t \in Threads : pc[t] \notin {"reload", "bootstrap"}) /\ portfile = NoPort =>
        plist = NoPort
  BY Unrecorded DEF Inv
<1> USE DEF Whole, Inv, Recorded, TypeOK, Outside, Coming, Placed, Starting, Vacant,
        At, disk, launchd, spawned, history
<1>2. CASE Bind
  <2>1. PICK p \in Ports :
          /\ (portfile # NoPort /\ ~Live(portfile)) => p = portfile
          /\ direct' = [direct EXCEPT ![p] = "up"] /\ portfile' = p
    BY <1>2 DEF Bind
  <2>2. /\ job' = NoPort /\ plist' = NoPort /\ spawning' = FALSE
        /\ \A q \in Ports : direct'[q] # "none" => q = p
        /\ \A u \in Threads : pc'[u] \in {"idle", "answer"}
    BY <1>1, <1>2, <2>1 DEF Bind
  <2> QED  BY <2>1, <2>2
<1>3. CASE Notice
  BY <1>1, <1>3 DEF Notice
<1>4. CASE Wake
  BY <1>1, <1>4 DEF Wake
<1>5. CASE Release
  <2>1. UNCHANGED <<portfile, job, plist, direct, spawning, pc, local>> /\ lingering' = NoPort
    BY <1>5 DEF Release, threads
  <2> QED  BY <2>1
<1>6. CASE Launch
  <2>1. UNCHANGED <<portfile, job, plist, lingering, direct, spawning, pc, local>>
    BY <1>6 DEF Launch, threads
  <2> QED  BY <2>1
<1>7. CASE Relogin
  <2>1. /\ \A t \in Threads : pc[t] = "idle"
        /\ portfile' = portfile /\ plist' = plist /\ job' = plist /\ lingering' = NoPort
        /\ spawning' = FALSE /\ \A p \in Ports : direct'[p] = "none"
    BY <1>7 DEF Relogin
  <2>2. portfile = NoPort => plist = NoPort
    BY <2>1, <1>u
  <2>3. \A t \in Threads : pc'[t] = "idle"
    BY <1>1, <2>1
  <2>4. Outside' /\ Coming' /\ \A u \in Threads : Placed(u)'
    BY <2>1, <2>3
  <2>5. Recorded'
    BY <2>1, <2>2
  <2> QED  BY <2>4, <2>5
<1>8. CASE Dies
  <2>1. /\ UNCHANGED <<portfile, job, plist, lingering, pc, local>> /\ (spawning' => spawning)
        /\ \A p \in Ports : direct'[p] \in {direct[p], "none"}
    BY <1>8 DEF Dies, threads
  <2> QED  BY <2>1
<1>9. CASE Update
  <2>1. /\ UNCHANGED <<portfile, job, plist, lingering, spawning, pc, local>>
        /\ \A p \in Ports : direct[p] = "none" <=> direct'[p] = "none"
    BY <1>9 DEF Update, threads
  <2> QED  BY <2>1
<1>10. CASE Kill("app") \/ Kill("cli")
  <2>1. \A t \in Threads : pc[t] \in {"reload", "bootstrap"} => portfile # NoPort
    BY <1>10 DEF Kill
  <2>2. portfile = NoPort => plist = NoPort
    BY <2>1, <1>u
  <2>3. UNCHANGED <<portfile, job, plist, lingering, direct, spawning>>
    BY <1>10 DEF Kill
  <2>4. Recorded'
    BY <2>2, <2>3
  <2>5. Outside'
    BY <2>3
  <2>6. Coming'
    BY <1>1, <2>3
  <2>7. ASSUME NEW u \in Threads PROVE Placed(u)'
    <3>1. pc'[u] = "idle" \/ (pc'[u] = pc[u] /\ local'[u] = local[u])
      BY <1>1
    <3> QED  BY <2>3, <3>1
  <2> QED  BY <2>4, <2>5, <2>6, <2>7
<1> QED
  BY <1>2, <1>3, <1>4, <1>5, <1>6, <1>7, <1>8, <1>9, <1>10 DEF Next, System, Fault

\* A login whose files agree leaves one agent, on the recorded port, and nothing else.
LEMMA LoginStep ==
  ASSUME TypeOK, TypeOK', Exclusive', Relogin, plist \in {NoPort, portfile}
  PROVE  Inv'
<1>1. /\ \A t \in Threads : pc'[t] = "idle"
      /\ portfile' = portfile /\ plist' = plist /\ job' = plist
      /\ spawning' = FALSE /\ \A p \in Ports : direct'[p] = "none"
  BY DEF Relogin, At, threads, disk
<1>2. Outside' /\ Coming' /\ \A u \in Threads : Placed(u)'
  BY <1>1 DEF Outside, Coming, Placed, Starting, At
<1>3. Recorded'
  BY <1>1 DEF Recorded
<1> QED  BY <1>2, <1>3 DEF Inv

LEMMA TornStep == Next /\ torn /\ ~torn' => Relogin /\ plist \in {NoPort, portfile}
<1> USE DEF history
<1>1. ASSUME NEW t \in Threads, Call(t) \/ Thread(t), torn PROVE torn'
  BY <1>1
  DEF Call, Ensure, Supervise, Stop, Drain, Begin, Thread, Mark, Restore, Probe, Retire,
      RetireOut, RetireFile, Retired, Adopt, Adopting, Install, Reload, Bootstrap, Await,
      Restart, AbandonOut, AbandonFile, Freed, Spawn, Answer, StopMarker, StopOut, StopFile,
      DrainMarker, Forget, Unmark, Bootout, Unlist
<1>2. System \/ Wake \/ Launch \/ Fault => torn' = torn
  BY DEF System, Fault, Bind, Notice, Wake, Release, Launch, Dies, Update, Kill
<1>3. Relogin => torn' = (torn /\ plist \notin {NoPort, portfile})
  BY DEF Relogin
<1> QED  BY <1>1, <1>2, <1>3 DEF Next

LEMMA InvStep == Quick /\ Whole /\ Inv /\ ~torn' /\ [Next]_vars => Inv'
<1> SUFFICES ASSUME Quick, Whole, Inv, ~torn', [Next]_vars PROVE Inv'
  OBVIOUS
<1>1. TypeOK' /\ Exclusive'
  BY TypeStep, ExclusiveStep DEF Inv
<1>2. ASSUME NEW t \in Threads, Call(t) \/ Thread(t) PROVE Inv'
  BY <1>1, <1>2, CallStep, ThreadStep DEF Inv
<1>3. CASE Next /\ ~\E t \in Threads : Call(t) \/ Thread(t)
  BY <1>1, <1>3, OtherStep DEF Inv
<1>4. CASE UNCHANGED vars
  BY <1>1, <1>4 DEF vars, Inv, Outside, Recorded, Coming, Placed, Vacant, At
<1> QED  BY <1>2, <1>3, <1>4

LEMMA SafeHolds == ASSUME Quick, Whole PROVE Spec => []Safe
<1>1. Init => Safe
  BY InitType DEF Init, Safe, Inv, Exclusive, Outside, Recorded, Coming, Placed, Starting, At
<1>2. Safe /\ [Next]_vars => Safe'
  <2> SUFFICES ASSUME Safe, [Next]_vars PROVE Safe'
    OBVIOUS
  <2>1. TypeOK' /\ Exclusive'
    BY TypeStep, ExclusiveStep DEF Safe
  <2>2. CASE torn'
    BY <2>1, <2>2 DEF Safe
  <2>3. CASE ~torn /\ ~torn'
    BY <2>1, <2>3, InvStep DEF Safe
  <2>4. CASE torn /\ ~torn'
    BY <2>1, <2>4, TornStep, LoginStep DEF Safe, vars
  <2> QED  BY <2>2, <2>3, <2>4
<1> QED  BY <1>1, <1>2, PTL DEF Spec

LEMMA PortStep ==
  ASSUME Inv, ~torn', Next, portfile # NoPort
  PROVE  portfile' = portfile
<1>1. CASE Bind
  BY <1>1 DEF Bind, Inv, Coming, Live, Holds, Vacant, TypeOK
<1>2. ASSUME NEW t \in Threads, Bootstrap(t) PROVE portfile' = portfile
  BY <1>2 DEF Bootstrap, Inv, Placed, At
<1>3. CASE Wake \/ \E t \in Threads : Restart(t)
  BY <1>3 DEF Wake, Restart, Inv, Recorded
<1>4. CASE ~Bind /\ ~Wake /\ ~\E t \in Threads : Bootstrap(t) \/ Restart(t)
  BY <1>4
  DEF Next, System, Fault, Notice, Release, Launch, Relogin, Dies, Update, Kill,
      Call, Ensure, Supervise, Stop, Drain, Begin, Thread, Mark, Restore, Probe, Retire,
      RetireOut, RetireFile, Retired, Adopt, Adopting, Install, Reload, Await,
      AbandonOut, AbandonFile, Freed, Spawn, Answer, StopMarker, StopOut, StopFile,
      DrainMarker, Forget, Unmark, Bootout, Unlist, disk
<1> QED  BY <1>1, <1>2, <1>3, <1>4

\* The port the forwarder once recorded stays the recorded one: whoever dies, is
\* replaced, handed back or abandoned, the next forwarder comes back on it.  Not so
\* after an install that fails half-way (forwarder.rs:684, :698), which leaves the agent
\* on the port that the direct start then wants, until a login finds the files agreeing.
THEOREM PortStays == ASSUME Quick, Whole PROVE Spec => PortKept
<1>1. Safe /\ [Next]_vars => [portfile # NoPort /\ ~torn' => portfile' = portfile]_vars
  <2> SUFFICES ASSUME Safe, Next, portfile # NoPort, ~torn' PROVE portfile' = portfile
    OBVIOUS
  <2>1. CASE torn
    BY <2>1, TornStep DEF Relogin, disk
  <2>2. CASE ~torn
    BY <2>2, PortStep DEF Safe
  <2> QED  BY <2>1, <2>2
<1> QED  BY <1>1, SafeHolds, PTL DEF Spec, PortKept

\* There is never a forwarder of launchd's and one outside it, nor two outside, but
\* after an install that failed half-way and until a login finds the files agreeing:
\* whoever is killed outside a first install, and whatever markers cannot be written.
THEOREM OneAtATime == ASSUME Quick, Whole PROVE Spec => []OneForwarder
<1>1. ASSUME Safe, ~torn
      PROVE  Cardinality({p \in Ports : direct[p] # "none"}) + (IF job = NoPort THEN 0 ELSE 1) <= 1
  <2> DEFINE D == {p \in Ports : direct[p] # "none"}
  <2>1. CASE D = {}
    <3>1. Cardinality(D) = 0
      BY <2>1, FS_EmptySet
    <3> QED  BY <3>1
  <2>2. CASE D # {}
    <3>1. D = {portfile} /\ job = NoPort
      BY <1>1, <2>2 DEF Safe, Inv, Outside
    <3>2. Cardinality(D) = 1
      BY <3>1, FS_Singleton
    <3> QED  BY <3>1, <3>2
  <2> QED  BY <2>1, <2>2
<1>2. Safe => OneForwarder
  BY <1>1 DEF OneForwarder
<1> QED  BY <1>2, SafeHolds, PTL

-----------------------------------------------------------------------------
(* What a drain leaves. *)

Over == {"drain", "over"}
Draining ==
    /\ word \in Over => marker = "draining" /\ plist = NoPort /\ \A t \in Threads : At(t, "idle")
    /\ word = "drain" => Holds(portfile)
    /\ word = "over" => job = NoPort /\ Vacant
    /\ word \in Over \/ (\E t \in Threads : pc[t] \in {"drain", "forget"}) => ~spawning
    /\ \A t \in Threads : At(t, "forget") => marker = "draining"

\* Nobody calls without a new word but the watcher, and it finds the mark.
LEMMA DrainingCall ==
  ASSUME Quick, TypeOK, Exclusive, Draining, NEW t \in Threads, Call(t)
  PROVE  Draining'
<1>1. word' \notin Over
  BY DEF Call, Ensure, Supervise, Stop, Drain, Draining, Over
<1>2. \A u \in Threads : pc'[u] # "forget"
  BY OthersIdle DEF TypeOK, Call, Ensure, Supervise, Stop, Drain, Begin
<1>3. ~spawning'
  BY DEF Quick, Call, Ensure, Supervise, Stop, Drain, Begin, spawned
<1> QED  BY <1>1, <1>2, <1>3 DEF Draining, Over, At

LEMMA DrainingThread ==
  ASSUME TypeOK, Exclusive, Draining, NEW t \in Threads, Thread(t)
  PROVE  Draining'
<1> USE DEF Over, At, Unheard, history
<1>1. word \notin Over
  BY DEF Draining, Thread, Mark, Restore, Probe, Retire, RetireOut, RetireFile, Retired, Adopt,
         Adopting, Install, Reload, Bootstrap, Await, Restart, AbandonOut, AbandonFile,
         Freed, Spawn, Answer, StopMarker, StopOut, StopFile, DrainMarker, Forget
<1>2. pc \in [Threads -> Labels] /\ \A u \in Threads \ {t} : pc'[u] = "idle"
  BY OthersIdle DEF TypeOK
<1>3. CASE Forget(t)
  <2>1. /\ marker' = "draining" /\ plist' = NoPort /\ pc'[t] = "idle"
        /\ word' = IF Holds(portfile) THEN "drain" ELSE word
    BY <1>2, <1>3 DEF Forget, Return, Draining
  <2>2. Holds(portfile)' <=> Holds(portfile)
    BY <1>3 DEF Forget, Holds, launchd, spawned
  <2>3. ~spawning'
    BY <1>3 DEF Forget, Draining, spawned
  <2> QED  BY <1>1, <1>2, <2>1, <2>2, <2>3 DEF Draining
<1>4. CASE ~Forget(t)
  <2>1. word' \notin Over
    BY <1>1, <1>4
    DEF Thread, Mark, Restore, Probe, Retire, RetireOut, RetireFile, Retired, Adopt,
        Adopting, Install, Reload, Bootstrap, Await, Restart, AbandonOut, AbandonFile,
        Freed, Spawn, Answer, StopMarker, StopOut, StopFile, DrainMarker, Unmark, Bootout, Unlist
  <2>2. pc'[t] # "drain" /\ (pc'[t] = "forget" => marker' = "draining" /\ ~spawning')
    <3>1. CASE DrainMarker(t)
      BY <1>2, <3>1 DEF DrainMarker, Goto, GotoWith, Return, Draining, spawned
    <3>2. CASE ~DrainMarker(t)
      <4> DEFINE Elsewhere == \E label \in Labels \ {"drain", "forget"} : pc' = [pc EXCEPT ![t] = label]
      <4> USE DEF Goto, GotoWith, Return, Labels
      <4>1. Mark(t) \/ Restore(t) \/ Retire(t) \/ RetireOut(t) \/ RetireFile(t) \/ Retired(t) \/ Adopt(t)
              => Elsewhere
        BY DEF Mark, Restore, Retire, RetireOut, RetireFile, Retired, Adopt, Unmark, Bootout, Unlist
      <4>2. Probe(t) \/ Adopting(t) \/ Reload(t) \/ Bootstrap(t) \/ Await(t) \/ Restart(t) => Elsewhere
        BY DEF Probe, Adopting, Reload, Bootstrap, Await, Restart, Bootout, Replace
      <4>3. Install(t) => Elsewhere
        BY DEF Install, Replace
      <4>4. AbandonOut(t) \/ AbandonFile(t) \/ Freed(t) \/ Spawn(t) \/ Answer(t) => Elsewhere
        BY DEF AbandonOut, AbandonFile, Freed, Replace, Spawn, Answer, Bootout, Unlist
      <4>5. StopMarker(t) \/ StopOut(t) \/ StopFile(t) => Elsewhere
        BY DEF StopMarker, StopOut, StopFile, Unmark, Bootout
      <4>6. Elsewhere
        BY <1>4, <3>2, <4>1, <4>2, <4>3, <4>4, <4>5 DEF Thread
      <4> QED  BY <1>2, <4>6
    <3> QED  BY <3>1, <3>2
  <2> QED  BY <1>2, <2>1, <2>2 DEF Draining
<1> QED  BY <1>3, <1>4

LEMMA DrainingRest ==
  ASSUME TypeOK, Draining, Next, ~\E t \in Threads : Call(t) \/ Thread(t)
  PROVE  Draining'
<1>1. \A u \in Threads : pc'[u] \in {pc[u], "idle"}
  BY ThreadsRest
<1>2. marker' = marker /\ plist' = plist
  BY DEF Next, System, Fault, Bind, Notice, Release, Wake, Launch, Relogin, Dies, Update, Kill, disk
<1> USE DEF Draining, Over, At, disk, launchd, spawned, history
<1>3. CASE Bind
  <2>1. word \notin Over /\ word' = word /\ ~spawning'
    BY <1>3 DEF Bind
  <2> QED  BY <1>1, <1>2, <2>1
<1>4. CASE Notice
  <2>1. word \notin Over /\ word' = word /\ spawning' = spawning /\ UNCHANGED pc
    BY <1>4 DEF Notice, threads
  <2> QED  BY <1>2, <2>1
<1>5. CASE Wake \/ Release \/ Launch
  <2>1. UNCHANGED <<job, direct, spawning, word>>
        /\ (portfile' = portfile \/ (job # NoPort /\ portfile' = job))
    BY <1>5 DEF Wake, Release, Launch
  <2>2. UNCHANGED pc
    BY <1>5 DEF Wake, Release, Launch, threads
  <2>3. Holds(portfile) => Holds(portfile)'
    BY <2>1 DEF Holds
  <2> QED  BY <1>2, <2>1, <2>2, <2>3 DEF Vacant
<1>6. CASE Relogin
  BY <1>1, <1>2, <1>6 DEF Relogin, Vacant
<1>7. CASE Dies
  <2>1. /\ portfile' = portfile /\ job' = job
        /\ word' = "drain" => word = "drain" /\ direct' = direct
        /\ word' = "over" => word = "over"
        /\ \A p \in Ports : direct'[p] \in {direct[p], "none"}
        /\ spawning' => spawning
    BY <1>7 DEF Dies, TypeOK
  <2> QED  BY <1>1, <1>2, <2>1 DEF Holds, Vacant
<1>8. CASE Update
  <2>1. /\ UNCHANGED <<portfile, job, spawning, word>>
        /\ \A p \in Ports : direct'[p] = "none" <=> direct[p] = "none"
    BY <1>8 DEF Update, TypeOK
  <2>2. portfile \in Ports \cup {NoPort}
    BY DEF TypeOK
  <2> QED  BY <1>1, <1>2, <2>1, <2>2 DEF Holds, Vacant
<1>9. CASE Kill("app") \/ Kill("cli")
  <2>1. UNCHANGED <<portfile, job, direct, spawning>> /\ (word' \in Over => word' = word)
    BY <1>9 DEF Kill, Unheard
  <2> QED  BY <1>1, <1>2, <2>1 DEF Holds, Vacant
<1> QED  BY <1>3, <1>4, <1>5, <1>6, <1>7, <1>8, <1>9 DEF Next, System, Fault

\* A drain leaves whoever was served served until the session ends, and nothing
\* of Gate's after it, whatever the watcher does meanwhile (forget leaves the
\* job loaded, and the draining mark is what a supervisory pass reads).
THEOREM DrainStands == ASSUME Quick PROVE Spec => []Drained
<1> DEFINE J == TypeOK /\ Exclusive /\ Draining
<1>1. Init => J
  BY InitType DEF Init, Exclusive, Draining, Over, At
<1>2. J /\ [Next]_vars => J'
  <2> SUFFICES ASSUME J, [Next]_vars PROVE J'
    OBVIOUS
  <2>1. TypeOK' /\ Exclusive'
    BY TypeStep, ExclusiveStep
  <2>2. CASE UNCHANGED vars
    BY <2>1, <2>2 DEF vars, Draining, Over, At, Holds, Vacant
  <2> QED  BY <2>1, <2>2, DrainingCall, DrainingThread, DrainingRest
<1>3. J => Drained
  BY DEF Draining, Drained, Over, Holds, Vacant
<1> QED  BY <1>1, <1>2, <1>3, PTL DEF Spec
=============================================================================
