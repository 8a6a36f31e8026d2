-------------------------- MODULE LoginItemProofs --------------------------
(***************************************************************************)
(* What LoginItem keeps for every limit and every other fault: routing     *)
(* never outlives its net, the user's choice stands, a crash loop ends and *)
(* a registration is armed again.  Each theorem names the faults it needs  *)
(* absent.                                                                 *)
(***************************************************************************)
EXTENDS LoginItem, TLAPS

\* No thread is held up inside the few file operations of a section.
Prompt == "preempt" \notin Faults
\* The system proxy can be put back.
Revertible == "revert" \notin Faults
\* crash-restart.json can be written.
Recorded == "unrecorded" \notin Faults
\* The setup does not crash before it has recorded the start.
LateCrash == "early" \notin Faults

-----------------------------------------------------------------------------
(* The inductive invariants. *)

\* Only one thread is inside a section.
Exclusive == \A t, u \in Threads : pc[t] \in Sections /\ pc[u] \in Sections => t = u

\* Where the login item is about to go, the system proxy is the user's.
Reverted == {"check", "finish", "forget", "offItem"}
Safe == \A t \in Threads : pc[t] \in Reverted => ~pointed

\* What a thread in the middle of a change of the login item relies on.
Held(t) ==
    /\ At(t, "onItem") => ~marker
    /\ At(t, "onArm") => ~marker /\ item
    /\ At(t, "netItem") => marker /\ ~item
    /\ At(t, "finishMark") => choice # "on" /\ ~item

\* Before the first run is over there has been no routing and no toggle.
FirstRun == ~defaulted => ~marker /\ pc["main"] \in Setup \cup {"none"}

\* What a step has to keep of it.
Kept == FirstRun /\ ChoiceStands /\ \A t \in Threads : Held(t)

NetInv == TypeOK /\ Exclusive /\ Safe /\ Netted

\* A relaunch that is counted is in the streak too, from record_start on; and
\* only an unspent streak leaves the policy behind, while nobody touches the
\* app and the item stays.
Counted ==
    /\ At("main", "record") => autos <= Streak(open, aged, streak) /\ autos <= MaxUnclean
    /\ At("main", "policy") => open
    /\ ~At("main", "record") /\ (Up \/ crashed) /\ open => autos <= streak
Spent ==
    pc["main"] \notin {"record", "policy"} /\ (Up \/ crashed) /\ policy => autos < MaxUnclean
Untouched ==
    autos > 0 =>
        /\ At("work", "none")
        /\ pc["main"] \in Setup \cup {"ready", "exit", "revert", "finish", "finishMark", "none"}
        /\ ~At("main", "defaultArm")
        /\ pc["main"] \in {"record", "policy", "default", "defaultMark"} => item
        /\ pc["main"] \in {"exit", "revert", "finish", "finishMark"} => At("boot", "none")
        /\ pc["boot"] \in {"none", "reconcile", "check", "enable", "point", "net", "finish",
                           "finishMark", "ask"}
        /\ pc["boot"] \in {"reconcile", "check", "enable", "point", "net"} => item
LoopInv == TypeOK /\ Counted /\ Spent /\ Untouched /\ LoopStops

\* The policy is in the file wherever nobody is about to put it there.
Armed ==
    pc["main"] \in {"default", "defaultMark", "ready", "onItem", "offItem"} /\ item
      /\ (\A t \in Threads : ~At(t, "netArm")) =>
        policy \/ Exhausted(streak)

-----------------------------------------------------------------------------
(* Types. *)

\* The threads, and what is in the files and in the process.
ThreadsOK ==
    /\ pc \in [Threads -> Labels]
    /\ pc["main"] \in Setup \cup {"none"} => pc["boot"] = "none" /\ pc["work"] = "none"
FileOK ==
    /\ item \in BOOLEAN /\ policy \in BOOLEAN /\ (policy => item)
    /\ marker \in BOOLEAN /\ defaulted \in BOOLEAN /\ intent \in BOOLEAN /\ pointed \in BOOLEAN
RecordOK == open \in BOOLEAN /\ aged \in BOOLEAN /\ streak \in 0 .. MaxUnclean + 1
ProcessOK ==
    /\ silent \in BOOLEAN /\ restarting \in BOOLEAN /\ exited \in BOOLEAN /\ crashed \in BOOLEAN
HistoryOK ==
    /\ choice \in {"on", "off", "unknown"} /\ exposed \in BOOLEAN /\ autos \in 0 .. MaxUnclean + 1

LEMMA TypeParts == TypeOK <=> ThreadsOK /\ FileOK /\ RecordOK /\ ProcessOK /\ HistoryOK
  BY DEF TypeOK, ThreadsOK, FileOK, RecordOK, ProcessOK, HistoryOK

\* A thread goes to a label that is open to it.
LEMMA Moves ==
  ASSUME ThreadsOK, NEW t \in Threads, NEW l \in Labels, Goto(t, l),
         t = "main" /\ l \in Setup \cup {"none"} => pc["boot"] = "none" /\ pc["work"] = "none",
         t # "main" => pc["main"] \notin Setup \cup {"none"} \/ l = "none"
  PROVE  ThreadsOK'
  BY DEF ThreadsOK, Goto, Threads

LEMMA Stops == ASSUME Ended PROVE ThreadsOK'
  BY DEF Ended, ThreadsOK, Threads, Labels

LEMMA Stays == ASSUME ThreadsOK, UNCHANGED pc PROVE ThreadsOK'
  BY DEF ThreadsOK

\* At its label a thread of the second line finds the setup over.
LEMMA SetupOver ==
  ASSUME ThreadsOK, NEW t \in {"boot", "work"}, pc[t] # "none"
  PROVE  pc["main"] \notin Setup \cup {"none"}
  BY DEF ThreadsOK

\* Each step moves the threads as it may.
LEMMA MainMoves == ASSUME ThreadsOK, Main PROVE ThreadsOK'
  <1> USE DEF At, Labels, Setup, Threads
  <1>1. CASE Record BY <1>1, Moves DEF Record, ThreadsOK
  <1>2. CASE Policy BY <1>2, Moves DEF Policy, ThreadsOK
  <1>3. CASE Default
    <2>1. CASE SetUp BY <2>1 DEF SetUp, ThreadsOK
    <2> QED BY <1>3, <2>1, Moves DEF Default, ThreadsOK
  <1>4. CASE DefaultArm BY <1>4, Moves DEF DefaultArm, ThreadsOK
  <1>5. CASE DefaultMark BY <1>5 DEF DefaultMark, SetUp, ThreadsOK
  <1>6. CASE OnItem BY <1>6, Moves DEF OnItem
  <1>7. CASE OnArm BY <1>7, Moves DEF OnArm
  <1>8. CASE OffItem BY <1>8, Moves DEF OffItem
  <1>9. CASE CleanExit BY <1>9, Moves DEF CleanExit
  <1>10. CASE Revert BY <1>10, Moves, Stops DEF Revert
  <1>11. CASE Finish("main") BY <1>11, Moves, Stops DEF Finish, After
  <1>12. CASE FinishMark("main") BY <1>12, Stops DEF FinishMark, After
  <1> QED
    BY <1>1, <1>2, <1>3, <1>4, <1>5, <1>6, <1>7, <1>8, <1>9, <1>10, <1>11, <1>12 DEF Main

LEMMA BootMoves == ASSUME ThreadsOK, Boot PROVE ThreadsOK'
  <1>1. pc["boot"] # "none" /\ "boot" \in Threads
    BY DEF Boot, Reconcile, Check, Ask, Enable, Point, Net, NetItem, NetArm, Finish, FinishMark,
           At, Threads
  <1>2. pc["main"] \notin Setup \cup {"none"} BY <1>1, SetupOver
  <1>3. CASE Ask
    BY <1>2, <1>3 DEF Ask, ThreadsOK, Threads, Labels, Setup
  <1>4. CASE ~Ask
    <2>1. \E l \in Labels : Goto("boot", l)
      BY <1>4 DEF Boot, Reconcile, Check, Enable, Point, Net, NetItem, NetArm, Finish, FinishMark,
                  After, Labels
    <2> QED BY <2>1, <1>1, <1>2, Moves
  <1> QED BY <1>3, <1>4

LEMMA WorkMoves == ASSUME ThreadsOK, Work PROVE ThreadsOK'
  <1>1. pc["work"] # "none" /\ "work" \in Threads
    BY DEF Work, Enable, Point, Net, NetItem, NetArm, Disable, Forget, Finish, FinishMark,
           At, Threads
  <1>2. pc["main"] \notin Setup \cup {"none"} BY <1>1, SetupOver
  <1>3. \E l \in Labels : Goto("work", l)
    BY DEF Work, Enable, Point, Net, NetItem, NetArm, Disable, Forget, Finish, FinishMark,
           After, Labels
  <1> QED BY <1>1, <1>2, <1>3, Moves

LEMMA OtherMoves ==
  ASSUME ThreadsOK, User \/ Login \/ Relaunch \/ EngineDies \/ Crash \/ Kill \/ Age \/ UNCHANGED vars
  PROVE  ThreadsOK'
  <1> USE DEF At, Labels, Setup, Threads
  <1>1. CASE Open \/ Login \/ Relaunch
    <2>1. Launched(TRUE) \/ Launched(FALSE) BY <1>1 DEF Open, Login, Relaunch
    <2> QED BY <2>1, Moves DEF Launched, Up, ThreadsOK
  <1>2. CASE ToggleOn BY <1>2, Moves DEF ToggleOn
  <1>3. CASE ToggleOff BY <1>3, Moves, Stays DEF ToggleOff
  <1>4. CASE Command
    <2>1. PICK l \in {"enable", "disable"} : Goto("work", l) BY <1>4 DEF Command
    <2> QED BY <1>4, <2>1, Moves DEF Command
  <1>5. CASE Quit BY <1>5, Moves DEF Quit
  <1>6. CASE Crash \/ Kill BY <1>6, Stops DEF Crash, Kill, Dies
  <1>7. CASE EngineDies \/ Age \/ UNCHANGED vars BY <1>7, Stays DEF EngineDies, Age, vars
  <1> QED BY <1>1, <1>2, <1>3, <1>4, <1>5, <1>6, <1>7 DEF User

LEMMA NextMoves == ASSUME ThreadsOK, [Next]_vars PROVE ThreadsOK'
  BY MainMoves, BootMoves, WorkMoves, OtherMoves DEF Next

-----------------------------------------------------------------------------
(* What a step does to the files, the process and the history. *)

LEMMA ArmFile == ASSUME FileOK, Arm PROVE item' \in BOOLEAN /\ policy' \in BOOLEAN /\ (policy' => item')
  BY DEF FileOK, Arm
LEMMA RegisterFile == ASSUME Register PROVE item' \in BOOLEAN /\ policy' \in BOOLEAN /\ (policy' => item')
  BY DEF Register
LEMMA DeregisterFile == ASSUME Deregister PROVE item' \in BOOLEAN /\ policy' \in BOOLEAN /\ (policy' => item')
  BY DEF Deregister

\* No step writes anything but a truth value into a file.
FileStep ==
    /\ \/ Arm \/ Register \/ Deregister \/ UNCHANGED file
       \/ policy' = FALSE /\ UNCHANGED item
    /\ marker' \in BOOLEAN /\ defaulted' \in BOOLEAN /\ intent' \in BOOLEAN /\ pointed' \in BOOLEAN

LEMMA FileStepOK == ASSUME FileOK, FileStep PROVE FileOK'
  <1>1. item' \in BOOLEAN /\ policy' \in BOOLEAN /\ (policy' => item')
    <2>1. CASE UNCHANGED file BY <2>1 DEF FileOK, file
    <2>2. CASE policy' = FALSE /\ UNCHANGED item BY <2>2 DEF FileOK
    <2> QED BY <2>1, <2>2, ArmFile, RegisterFile, DeregisterFile DEF FileStep
  <1> QED BY <1>1 DEF FileStep, FileOK

LEMMA MainFiles == ASSUME FileOK, Main PROVE FileStep
  <1> USE DEF FileOK, FileStep, file
  <1>1. CASE Record BY <1>1 DEF Record
  <1>2. CASE Policy BY <1>2 DEF Policy
  <1>3. CASE Default
    <2>1. Register \/ UNCHANGED file BY <1>3 DEF Default
    <2>2. UNCHANGED <<marker, defaulted, intent, pointed>> BY <1>3 DEF Default
    <2> QED BY <2>1, <2>2
  <1>4. CASE DefaultArm BY <1>4 DEF DefaultArm
  <1>5. CASE DefaultMark BY <1>5 DEF DefaultMark
  <1>6. CASE OnItem BY <1>6 DEF OnItem
  <1>7. CASE OnArm BY <1>7 DEF OnArm
  <1>8. CASE OffItem BY <1>8 DEF OffItem
  <1>9. CASE CleanExit BY <1>9 DEF CleanExit
  <1>10. CASE Revert BY <1>10 DEF Revert, Unpoint
  <1>11. CASE Finish("main") BY <1>11 DEF Finish
  <1>12. CASE FinishMark("main") BY <1>12 DEF FinishMark
  <1> QED
    BY <1>1, <1>2, <1>3, <1>4, <1>5, <1>6, <1>7, <1>8, <1>9, <1>10, <1>11, <1>12 DEF Main

\* The steps the startup thread and a routing command share.
Routing(t) ==
    Enable(t) \/ Point(t) \/ Net(t) \/ NetItem(t) \/ NetArm(t) \/ Finish(t) \/ FinishMark(t)

LEMMA RoutingFiles == ASSUME FileOK, NEW t, Routing(t) PROVE FileStep
  <1> USE DEF FileOK, FileStep, file
  <1>1. CASE Enable(t) BY <1>1 DEF Enable
  <1>2. CASE Point(t) BY <1>2 DEF Point
  <1>3. CASE Net(t) BY <1>3 DEF Net
  <1>4. CASE NetItem(t) BY <1>4 DEF NetItem
  <1>5. CASE NetArm(t) BY <1>5 DEF NetArm
  <1>6. CASE Finish(t) BY <1>6 DEF Finish
  <1>7. CASE FinishMark(t) BY <1>7 DEF FinishMark
  <1> QED BY <1>1, <1>2, <1>3, <1>4, <1>5, <1>6, <1>7 DEF Routing

LEMMA OtherFiles ==
  ASSUME FileOK,
         \/ Reconcile \/ Check \/ Ask \/ Disable \/ Forget
         \/ User \/ Login \/ Relaunch \/ EngineDies \/ Crash \/ Kill \/ Age \/ UNCHANGED vars
  PROVE  FileStep
  <1> USE DEF FileOK, FileStep, file
  <1>1. CASE Reconcile BY <1>1 DEF Reconcile, Unpoint
  <1>2. CASE Check \/ Ask BY <1>2 DEF Check, Ask
  <1>3. CASE Disable \/ Forget BY <1>3 DEF Disable, Forget
  <1>4. CASE Open \/ Login \/ Relaunch BY <1>4 DEF Open, Login, Relaunch, Launched
  <1>5. CASE ToggleOn BY <1>5 DEF ToggleOn
  <1>6. CASE ToggleOff
    <2>1. RoutingOn \in BOOLEAN BY DEF RoutingOn
    <2>2. marker' \in BOOLEAN BY <1>6, <2>1 DEF ToggleOff
    <2> QED BY <1>6, <2>2 DEF ToggleOff
  <1>7. CASE Command \/ Quit BY <1>7 DEF Command, Quit
  <1>8. CASE Crash \/ Kill BY <1>8 DEF Crash, Kill, Dies
  <1>9. CASE EngineDies \/ Age \/ UNCHANGED vars BY <1>9 DEF EngineDies, Age, vars
  <1> QED BY <1>1, <1>2, <1>3, <1>4, <1>5, <1>6, <1>7, <1>8, <1>9 DEF User

\* Next, with the steps the two threads share taken together.
Alike ==
    \/ Main \/ \E t \in {"boot", "work"} : Routing(t)
    \/ Reconcile \/ Check \/ Ask \/ Disable \/ Forget
    \/ User \/ Login \/ Relaunch \/ EngineDies \/ Crash \/ Kill \/ Age \/ UNCHANGED vars

LEMMA NextAlike == ASSUME [Next]_vars PROVE Alike
  BY DEF Alike, Next, Boot, Work, Routing

LEMMA NextFiles == ASSUME FileOK, [Next]_vars PROVE FileOK'
  BY NextAlike, MainFiles, RoutingFiles, OtherFiles, FileStepOK DEF Alike

\* The record of starts counts no further than one past the limit.
LEMMA NextRecord == ASSUME RecordOK, [Next]_vars PROVE RecordOK'
  <1> USE UncleanAssumption DEF RecordOK
  <1>1. CASE Record
    <2>1. streak \in Nat /\ MaxUnclean \in Nat /\ MaxUnclean > 0 OBVIOUS
    <2>2. Streak(open, aged, streak) \in 0 .. MaxUnclean + 1 BY <2>1, SMT DEF Streak
    <2>3. CASE open' = TRUE /\ aged' = FALSE /\ streak' = Streak(open, aged, streak)
      BY <2>2, <2>3
    <2>4. CASE UNCHANGED record BY <2>4 DEF record
    <2> QED BY <1>1, <2>3, <2>4 DEF Record
  <1>2. CASE CleanExit \/ Kill
    <2>1. CASE open' = FALSE /\ streak' = 0 /\ aged' = FALSE
      <3>1. streak' \in 0 .. MaxUnclean + 1 BY <2>1, SMT
      <3> QED BY <2>1, <3>1
    <2>2. CASE UNCHANGED record BY <2>2 DEF record
    <2> QED BY <1>2, <2>1, <2>2 DEF CleanExit, Kill
  <1>4. CASE Age BY <1>4 DEF Age
  <1>5. CASE UNCHANGED record BY <1>5 DEF record
  <1>6. Record \/ CleanExit \/ Kill \/ Age \/ UNCHANGED record
    <2>1. Main => Record \/ CleanExit \/ UNCHANGED record
      BY DEF Main, Policy, Default, DefaultArm, DefaultMark, OnItem, OnArm, OffItem, Revert, Finish,
             FinishMark
    <2>2. \A t : Routing(t) => UNCHANGED record
      BY DEF Routing, Enable, Point, Net, NetItem, NetArm, Finish, FinishMark
    <2>3. User => UNCHANGED record
      BY DEF User, Open, Launched, ToggleOn, ToggleOff, Command, Quit
    <2>4. Reconcile \/ Check \/ Ask \/ Disable \/ Forget \/ EngineDies => UNCHANGED record
      BY DEF Reconcile, Check, Ask, Disable, Forget, EngineDies
    <2>5. Login \/ Relaunch \/ Crash => UNCHANGED record
      BY DEF Login, Relaunch, Launched, Crash
    <2>6. UNCHANGED vars => UNCHANGED record BY DEF vars, record
    <2> QED BY NextAlike, <2>1, <2>2, <2>3, <2>4, <2>5, <2>6 DEF Alike
  <1> QED BY <1>1, <1>2, <1>4, <1>5, <1>6

LEMMA NextProcess == ASSUME ProcessOK, [Next]_vars PROVE ProcessOK'
  <1> USE DEF ProcessOK, process
  <1>1. Main => ProcessOK'
    <2>1. CASE Revert BY <2>1 DEF Revert
    <2>2. CASE Finish("main") BY <2>2 DEF Finish, Leaving
    <2>3. CASE FinishMark("main") BY <2>3 DEF FinishMark, Leaving
    <2> QED
      BY <2>1, <2>2, <2>3
         DEF Main, Record, Policy, Default, DefaultArm, DefaultMark, OnItem, OnArm, OffItem, CleanExit
  <1>2. \A t \in {"boot", "work"} : Routing(t) => ProcessOK'
    BY DEF Routing, Enable, Point, Net, NetItem, NetArm, Finish, FinishMark, Leaving
  <1>3. User => ProcessOK'
    BY DEF User, Open, Launched, ToggleOn, ToggleOff, Command, Quit
  <1>4. Reconcile \/ Check \/ Ask \/ Disable \/ Forget \/ EngineDies \/ Age => ProcessOK'
    BY DEF Reconcile, Check, Ask, Disable, Forget, EngineDies, Age
  <1>5. Login \/ Relaunch => ProcessOK'
    BY DEF Login, Relaunch, Launched
  <1>6. Crash \/ Kill => ProcessOK'
    BY DEF Crash, Kill, Dies
  <1>7. UNCHANGED vars => ProcessOK' BY DEF vars
  <1> QED BY NextAlike, <1>1, <1>2, <1>3, <1>4, <1>5, <1>6, <1>7 DEF Alike

\* The history counts no further than one past the limit either.
LEMMA NextHistory == ASSUME HistoryOK, [Next]_vars PROVE HistoryOK'
  <1> USE UncleanAssumption DEF HistoryOK, history
  <1>1. Main => HistoryOK'
    <2>1. CASE Default BY <2>1 DEF Default
    <2>2. CASE OnItem \/ OnArm \/ OffItem BY <2>2 DEF OnItem, OnArm, OffItem
    <2>3. CASE Revert BY <2>3 DEF Revert, Unpoint
    <2>4. CASE Finish("main") \/ FinishMark("main") BY <2>4 DEF Finish, FinishMark
    <2> QED
      BY <2>1, <2>2, <2>3, <2>4 DEF Main, Record, Policy, DefaultArm, DefaultMark, CleanExit
  <1>2. \A t : Routing(t) => HistoryOK'
    BY DEF Routing, Enable, Point, Net, NetItem, NetArm, Finish, FinishMark
  <1>3. User => HistoryOK'
    BY DEF User, Open, Launched, ToggleOn, ToggleOff, Command, Quit
  <1>4. Reconcile \/ Check \/ Ask \/ Disable \/ Forget \/ EngineDies \/ Age => HistoryOK'
    BY DEF Reconcile, Unpoint, Check, Ask, Disable, Forget, EngineDies, Age
  <1>5. Login \/ Relaunch => HistoryOK'
    BY DEF Login, Relaunch, Launched
  <1>6. Crash \/ Kill => HistoryOK'
    BY DEF Crash, Kill, Dies
  <1>7. UNCHANGED vars => HistoryOK' BY DEF vars
  <1> QED BY NextAlike, <1>1, <1>2, <1>3, <1>4, <1>5, <1>6, <1>7 DEF Alike

LEMMA TypeInit == Init => TypeOK
  <1> SUFFICES ASSUME Init PROVE TypeOK OBVIOUS
  <1>1. 0 \in 0 .. MaxUnclean + 1 BY UncleanAssumption
  <1>2. ThreadsOK BY DEF Init, ThreadsOK, Threads, Labels
  <1>3. FileOK BY DEF Init, FileOK
  <1>4. RecordOK /\ ProcessOK /\ HistoryOK BY <1>1 DEF Init, RecordOK, ProcessOK, HistoryOK
  <1> QED BY <1>2, <1>3, <1>4, TypeParts

LEMMA TypeNext == TypeOK /\ [Next]_vars => TypeOK'
  <1>1. ASSUME TypeOK, [Next]_vars
        PROVE  ThreadsOK' /\ FileOK' /\ RecordOK' /\ ProcessOK' /\ HistoryOK'
    BY <1>1, TypeParts, NextMoves, NextFiles, NextRecord, NextProcess, NextHistory
  <1>2. ThreadsOK' /\ FileOK' /\ RecordOK' /\ ProcessOK' /\ HistoryOK' => TypeOK'
    BY DEF TypeOK, ThreadsOK, FileOK, RecordOK, ProcessOK, HistoryOK
  <1> QED BY <1>1, <1>2

\* Type correctness, whatever goes wrong.
THEOREM TypeCorrect == Spec => []TypeOK
  BY TypeInit, TypeNext, PTL DEF Spec

-----------------------------------------------------------------------------
(* One thread at a time. *)

\* A thread enters a section alone, and goes on inside it.
Enters(t, l) == l \in Sections => pc[t] \in Sections \/ Alone(t)
Walk ==
    \/ Ended \/ Ask \/ SetUp \/ UNCHANGED pc
    \/ \E t \in Threads, l \in Labels : Goto(t, l) /\ Enters(t, l)

LEMMA MainWalks == ASSUME Main PROVE Walk
  <1> USE DEF Walk, Enters, Labels, Setup, Threads, Sections, At
  <1>1. CASE Record \/ Policy \/ DefaultArm BY <1>1 DEF Record, Policy, DefaultArm
  <1>2. CASE Default \/ DefaultMark BY <1>2 DEF Default, DefaultMark
  <1>3. CASE OnItem \/ OnArm \/ OffItem BY <1>3 DEF OnItem, OnArm, OffItem
  <1>4. CASE CleanExit BY <1>4 DEF CleanExit
  <1>5. CASE Revert BY <1>5 DEF Revert
  <1>6. CASE Finish("main") \/ FinishMark("main") BY <1>6 DEF Finish, FinishMark, After
  <1> QED BY <1>1, <1>2, <1>3, <1>4, <1>5, <1>6 DEF Main

LEMMA RoutingWalks == ASSUME NEW t \in {"boot", "work"}, Routing(t) PROVE Walk
  <1> USE DEF Walk, Enters, Labels, Setup, Threads, Sections, At
  <1>1. CASE Enable(t) \/ Point(t) \/ NetArm(t) BY <1>1 DEF Enable, Point, NetArm
  <1>2. CASE Net(t) \/ NetItem(t) BY <1>2 DEF Net, NetItem
  <1>3. CASE Finish(t) \/ FinishMark(t) BY <1>3 DEF Finish, FinishMark, After
  <1> QED BY <1>1, <1>2, <1>3 DEF Routing

LEMMA NextWalks == ASSUME [Next]_vars PROVE Walk
  <1> USE DEF Walk, Enters, Labels, Setup, Threads, Sections, At
  <1>1. Reconcile => Walk BY DEF Reconcile
  <1>2. Check => Walk BY DEF Check
  <1>3. Disable \/ Forget => Walk BY DEF Disable, Forget
  <1>4. Open \/ Login \/ Relaunch => Walk BY DEF Open, Login, Relaunch, Launched
  <1>5. ToggleOn => Walk BY DEF ToggleOn
  <1>6. ToggleOff => Walk BY DEF ToggleOff
  <1>7. Command \/ Quit => Walk BY DEF Command, Quit
  <1>8. Crash \/ Kill => Walk BY DEF Crash, Kill, Dies
  <1>9. EngineDies \/ Age \/ UNCHANGED vars => Walk BY DEF EngineDies, Age, vars
  <1>10. Ask => Walk OBVIOUS
  <1> QED
    BY NextAlike, MainWalks, RoutingWalks, <1>1, <1>2, <1>3, <1>4, <1>5, <1>6, <1>7, <1>8, <1>9, <1>10
       DEF Alike, User

LEMMA NextExclusive ==
  ASSUME Prompt, ThreadsOK, Exclusive, [Next]_vars
  PROVE  Exclusive'
  <1>1. CASE Ended BY <1>1 DEF Ended, Exclusive, Sections
  <1>2. CASE Ask BY <1>2 DEF Ask, Exclusive, Sections, ThreadsOK, Threads
  <1>3. CASE SetUp BY <1>3 DEF SetUp, Exclusive, Sections, ThreadsOK, Threads
  <1>4. CASE UNCHANGED pc BY <1>4 DEF Exclusive
  <1>5. ASSUME NEW t \in Threads, NEW l \in Labels, Goto(t, l), Enters(t, l) PROVE Exclusive'
    BY <1>5 DEF Goto, Enters, Alone, Prompt, Exclusive, ThreadsOK
  <1> QED BY NextWalks, <1>1, <1>2, <1>3, <1>4, <1>5 DEF Walk

-----------------------------------------------------------------------------
(* The net. *)

\* A thread in a section keeps the others out of theirs.
LEMMA Only ==
  ASSUME Exclusive, NEW t \in Threads, NEW u \in Threads, t # u, pc[t] \in Sections
  PROVE  pc[u] \notin Sections
  BY DEF Exclusive

\* The system proxy is pointed at the engine by one step only.
LEMMA Pointing ==
  ASSUME [Next]_vars, pointed', ~pointed
  PROVE  \E t \in {"boot", "work"} : Point(t) /\ Alone(t) /\ Goto(t, "net") /\ exposed'
  <1>1. ~Main
    BY DEF Main, Record, Policy, Default, DefaultArm, DefaultMark, OnItem, OnArm, OffItem, CleanExit,
           Revert, Unpoint, Finish, FinishMark
  <1>2. ~User BY DEF User, Open, Launched, ToggleOn, ToggleOff, Command, Quit
  <1>3. ~(Reconcile \/ Check \/ Ask \/ Disable \/ Forget)
    BY DEF Reconcile, Unpoint, Check, Ask, Disable, Forget
  <1>4. ~(Login \/ Relaunch \/ EngineDies \/ Crash \/ Kill \/ Age \/ UNCHANGED vars)
    BY DEF Login, Relaunch, Launched, EngineDies, Crash, Kill, Dies, Age, vars
  <1>5. PICK t \in {"boot", "work"} : Routing(t) BY NextAlike, <1>1, <1>2, <1>3, <1>4 DEF Alike
  <1>6. Point(t) BY <1>5 DEF Routing, Enable, Net, NetItem, NetArm, Finish, FinishMark
  <1> QED BY <1>6 DEF Point

\* A thread comes to where the login item may go with the proxy put back.
LEMMA Reverting ==
  ASSUME Revertible, ThreadsOK, [Next]_vars,
         NEW t \in Threads, pc'[t] \in Reverted, pc[t] \notin Reverted
  PROVE  ~pointed'
  <1> USE DEF Reverted, ThreadsOK, Threads, Goto, At, Revertible
  <1>1. CASE Main
    <2>1. CASE Revert BY <2>1 DEF Revert, Unpoint
    <2>2. CASE Default \/ DefaultMark BY <2>2 DEF Default, DefaultMark, SetUp
    <2>3. CASE Finish("main") \/ FinishMark("main")
      BY <2>3 DEF Finish, FinishMark, After, Ended
    <2>4. CASE Record \/ Policy \/ DefaultArm BY <2>4 DEF Record, Policy, DefaultArm
    <2>5. CASE OnItem \/ OnArm \/ OffItem BY <2>5 DEF OnItem, OnArm, OffItem
    <2>6. CASE CleanExit BY <2>6 DEF CleanExit
    <2> QED BY <1>1, <2>1, <2>2, <2>3, <2>4, <2>5, <2>6 DEF Main
  <1>2. ASSUME NEW u \in {"boot", "work"}, Routing(u) PROVE ~pointed'
    <2>1. CASE Enable(u) \/ Point(u) BY <2>1 DEF Enable, Point
    <2>2. CASE Net(u) \/ NetItem(u) \/ NetArm(u) BY <2>2 DEF Net, NetItem, NetArm
    <2>3. CASE Finish(u) \/ FinishMark(u) BY <2>3 DEF Finish, FinishMark, After
    <2> QED BY <1>2, <2>1, <2>2, <2>3 DEF Routing
  <1>3. CASE Reconcile BY <1>3 DEF Reconcile, Unpoint
  <1>4. CASE Check \/ Ask BY <1>4 DEF Check, Ask
  <1>5. CASE Disable BY <1>5 DEF Disable
  <1>6. CASE Forget BY <1>6 DEF Forget
  <1>7. CASE Open \/ Login \/ Relaunch BY <1>7 DEF Open, Login, Relaunch, Launched
  <1>8. CASE ToggleOn BY <1>8 DEF ToggleOn
  <1>9. CASE ToggleOff BY <1>9 DEF ToggleOff, RoutingOn
  <1>10. CASE Command \/ Quit BY <1>10 DEF Command, Quit
  <1>11. CASE Crash \/ Kill BY <1>11 DEF Crash, Kill, Dies, Ended
  <1>12. CASE EngineDies \/ Age \/ UNCHANGED vars BY <1>12 DEF EngineDies, Age, vars
  <1> QED
    BY NextAlike, <1>1, <1>2, <1>3, <1>4, <1>5, <1>6, <1>7, <1>8, <1>9, <1>10, <1>11, <1>12
       DEF Alike, User

LEMMA NextSafe ==
  ASSUME Prompt, Revertible, ThreadsOK, Exclusive, Safe, [Next]_vars
  PROVE  Safe'
  <1> SUFFICES ASSUME NEW t \in Threads, pc'[t] \in Reverted, pointed' PROVE FALSE
    BY DEF Safe
  <1>1. pc[t] \in Reverted BY Reverting
  <1>2. ~pointed BY <1>1 DEF Safe
  <1>3. PICK u \in {"boot", "work"} : Alone(u) /\ At(u, "point") /\ Goto(u, "net")
    BY <1>2, Pointing DEF Point
  <1>4. t # u BY <1>1, <1>3 DEF Reverted, At
  <1> QED BY <1>1, <1>3, <1>4 DEF Alone, Prompt, Reverted, Sections

\* The login item goes only where the system proxy is the user's.
LEMMA Leaves ==
  ASSUME [Next]_vars, item, ~item'
  PROVE  pointed' = pointed /\ \E t \in Threads : pc[t] \in Reverted
  <1> USE DEF Threads, Reverted, At, file
  <1>1. CASE Main
    <2>1. CASE OffItem BY <2>1 DEF OffItem
    <2>2. CASE Finish("main") BY <2>2 DEF Finish
    <2>3. ~(Record \/ Policy \/ Default \/ DefaultArm \/ DefaultMark \/ OnItem \/ OnArm)
      BY DEF Record, Policy, Arm, Default, Register, DefaultArm, DefaultMark, OnItem, OnArm
    <2>4. ~(CleanExit \/ Revert \/ FinishMark("main")) BY DEF CleanExit, Revert, FinishMark
    <2> QED BY <1>1, <2>1, <2>2, <2>3, <2>4 DEF Main
  <1>2. ASSUME NEW u \in {"boot", "work"}, Routing(u)
        PROVE  pointed' = pointed /\ \E t \in Threads : pc[t] \in Reverted
    <2>1. Finish(u)
      BY <1>2 DEF Routing, Enable, Point, Net, NetItem, Register, NetArm, Arm, FinishMark
    <2> QED BY <2>1 DEF Finish
  <1>3. ~(Reconcile \/ Check \/ Ask \/ Disable \/ Forget)
    BY DEF Reconcile, Check, Ask, Disable, Forget
  <1>4. ~(User \/ Login \/ Relaunch)
    BY DEF User, Open, Login, Relaunch, Launched, ToggleOn, ToggleOff, Command, Quit
  <1>5. ~(EngineDies \/ Crash \/ Kill \/ Age \/ UNCHANGED vars)
    BY DEF EngineDies, Crash, Kill, Dies, Age, vars
  <1> QED BY NextAlike, <1>1, <1>2, <1>3, <1>4, <1>5 DEF Alike

\* Routing is said to have its net only when there is one.
LEMMA Covers ==
  ASSUME [Next]_vars, pointed, pointed', exposed, ~exposed'
  PROVE  item'
  <1> USE DEF At, file
  <1>1. ~Main
    BY DEF Main, Record, Policy, Default, DefaultArm, DefaultMark, OnItem, OnArm, OffItem, CleanExit,
           Revert, Unpoint, Finish, FinishMark, history
  <1>2. ~User BY DEF User, Open, Launched, ToggleOn, ToggleOff, Command, Quit
  <1>3. ~(Reconcile \/ Check \/ Ask \/ Disable \/ Forget)
    BY DEF Reconcile, Unpoint, Check, Ask, Disable, Forget, history
  <1>4. ~(Login \/ Relaunch \/ EngineDies \/ Crash \/ Kill \/ Age \/ UNCHANGED vars)
    BY DEF Login, Relaunch, Launched, EngineDies, Crash, Kill, Dies, Age, vars, history
  <1>5. PICK t \in {"boot", "work"} : Routing(t) BY NextAlike, <1>1, <1>2, <1>3, <1>4 DEF Alike
  <1>6. Net(t) \/ NetItem(t)
    BY <1>5 DEF Routing, Enable, Point, NetArm, Finish, FinishMark, history
  <1>7. CASE Net(t) BY <1>7 DEF Net
  <1>8. CASE NetItem(t) BY <1>8 DEF NetItem, Register
  <1> QED BY <1>6, <1>7, <1>8

LEMMA NextNetted ==
  ASSUME Prompt, Revertible, NetInv, [Next]_vars
  PROVE  NetInv'
  <1>1. TypeOK' /\ ThreadsOK BY TypeNext, TypeParts DEF NetInv
  <1>2. Exclusive' /\ Safe' BY <1>1, NextExclusive, NextSafe DEF NetInv
  <1>3. ASSUME pointed', ~exposed' PROVE item'
    <2>1. pointed BY <1>3, Pointing
    <2>2. CASE exposed BY <1>3, <2>1, <2>2, Covers
    <2>3. CASE ~exposed
      <3>1. item BY <2>1, <2>3 DEF NetInv, Netted
      <3>2. \A t \in Threads : pc[t] \notin Reverted BY <2>1 DEF NetInv, Safe
      <3> QED BY <3>1, <3>2, Leaves
    <2> QED BY <2>2, <2>3
  <1> QED BY <1>1, <1>2, <1>3 DEF NetInv, Netted

\* Whatever is killed whenever, and whatever the registrations, the intents and
\* the engines do: a system proxy that has had its net keeps it.
THEOREM NetKept == ASSUME Prompt, Revertible PROVE Spec => []Netted
  <1>1. Init => NetInv
    <2> SUFFICES ASSUME Init PROVE NetInv OBVIOUS
    <2>1. \A t \in Threads : pc[t] = "none" BY DEF Init
    <2>2. Exclusive /\ Safe BY <2>1 DEF Exclusive, Safe, Sections, Reverted
    <2>3. Netted BY DEF Init, Netted
    <2> QED BY <2>2, <2>3, TypeInit DEF NetInv
  <1>2. NetInv /\ [Next]_vars => NetInv' BY NextNetted
  <1>3. NetInv => Netted BY DEF NetInv
  <1> QED BY <1>1, <1>2, <1>3, PTL DEF Spec

-----------------------------------------------------------------------------
(* The user's choice. *)

\* A step of a thread, seen by one whose label it leaves alone.
LEMMA Elsewhere ==
  ASSUME ThreadsOK, NEW t \in Threads, NEW u \in Threads, NEW l, Goto(t, l)
  PROVE  pc'[u] = IF u = t THEN l ELSE pc[u]
  BY DEF ThreadsOK, Goto

\* A section is entered, or gone on with, alone.
LEMMA Sole ==
  ASSUME Prompt, ThreadsOK, Exclusive, NEW t \in Threads, pc[t] \in Sections \/ Alone(t),
         NEW u \in Threads \ {t}
  PROVE  pc[u] \notin Sections
  BY DEF Exclusive, Alone, Prompt

Toggling == {"onItem", "onArm", "offItem"}

\* A step that changes nothing of it and enters no section keeps it.
LEMMA ChoiceStays ==
  ASSUME Kept, ThreadsOK, UNCHANGED <<item, marker, defaulted, choice>>,
         NEW t \in Threads, NEW l \in Labels, Goto(t, l),
         l \notin {"onItem", "onArm", "netItem", "finishMark"},
         pc[t] \notin Toggling,
         t = "main" /\ l \notin Setup \cup {"none"} => pc["main"] \notin Setup \cup {"none"}
  PROVE  Kept'
  <1> USE DEF Threads
  <1>1. \A u \in Threads : pc'[u] = IF u = t THEN l ELSE pc[u] BY Elsewhere
  <1>2. FirstRun' BY <1>1 DEF Kept, FirstRun
  <1>3. ChoiceStands' BY <1>1 DEF Kept, ChoiceStands, Toggling
  <1>4. ASSUME NEW u \in Threads PROVE Held(u)' BY <1>1 DEF Kept, Held, At
  <1> QED BY <1>2, <1>3, <1>4 DEF Kept

\* The end of the process.
LEMMA ChoiceEnds ==
  ASSUME Kept, Ended, UNCHANGED <<item, marker, defaulted>>,
         choice' = IF pc["main"] \in Toggling THEN "unknown" ELSE choice
  PROVE  Kept'
  <1> USE DEF Threads
  <1>1. \A u \in Threads : pc'[u] = "none" BY DEF Ended
  <1>2. FirstRun' BY <1>1 DEF Kept, FirstRun
  <1>3. ChoiceStands' BY <1>1 DEF Kept, ChoiceStands, Toggling
  <1>4. ASSUME NEW u \in Threads PROVE Held(u)' BY <1>1 DEF Held, At
  <1> QED BY <1>2, <1>3, <1>4 DEF Kept

\* One thread in a section: the others hold nothing.
LEMMA OthersFree ==
  ASSUME NEW t \in Threads, NEW u \in Threads, u # t, ThreadsOK, NEW l, Goto(t, l),
         pc[u] \notin Sections
  PROVE  Held(u)'
  <1>1. pc'[u] = pc[u] BY Elsewhere
  <1> QED BY <1>1 DEF Held, At, Sections

\* The opt-out, whoever finishes it.
LEMMA ChoiceFinish ==
  ASSUME Kept, ThreadsOK, Exclusive, NEW t \in Threads, Finish(t) \/ FinishMark(t)
  PROVE  Kept'
  <1> USE DEF Threads, Labels, Setup, At, Toggling
  <1>1. pc[t] \in {"finish", "finishMark"} BY DEF Finish, FinishMark
  <1>2. \A u \in Threads \ {t} : pc[u] \notin Sections BY <1>1, Only DEF Sections
  <1>3. pc["main"] \notin Toggling /\ defaulted
    BY <1>1, <1>2 DEF Sections, Kept, FirstRun, ThreadsOK
  <1>4. UNCHANGED <<defaulted, choice>> BY DEF Finish, FinishMark, history
  <1>5. CASE UNCHANGED <<item, marker>> /\ After(t)
    <2>1. CASE t = "main" BY <1>3, <1>4, <1>5, <2>1, ChoiceEnds DEF After
    <2>2. CASE t = "boot" BY <1>1, <1>3, <1>4, <1>5, <2>2, ChoiceStays DEF After
    <2>3. CASE t = "work" BY <1>1, <1>3, <1>4, <1>5, <2>3, ChoiceStays DEF After
    <2> QED BY <2>1, <2>2, <2>3
  <1>6. CASE Finish(t) /\ marker /\ Deregister /\ Goto(t, "finishMark")
    <2>1. choice # "on" BY <1>3, <1>6 DEF Kept, ChoiceStands
    <2>2. pc'[t] = "finishMark" BY <1>6 DEF Goto, ThreadsOK
    <2>3. \A u \in Threads \ {t} : Held(u)' BY <1>2, <1>6, OthersFree
    <2>4. ~item' /\ marker' BY <1>6 DEF Finish, Deregister
    <2> QED BY <1>3, <1>4, <2>1, <2>2, <2>3, <2>4 DEF Kept, FirstRun, ChoiceStands, Held
  <1>7. CASE FinishMark(t)
    <2>1. choice # "on" /\ ~item BY <1>7 DEF FinishMark, Kept, Held
    <2>2. ~marker' /\ UNCHANGED item BY <1>7 DEF FinishMark, file
    <2>3. pc'[t] \in {"none", "ask"} BY <1>7 DEF FinishMark, After, Ended, Goto, ThreadsOK
    <2>4. \A u \in Threads \ {t} : Held(u)'
      <3>1. CASE Ended BY <3>1 DEF Ended, Held
      <3>2. CASE \E l : Goto(t, l) BY <1>2, <3>2, OthersFree
      <3> QED BY <1>7, <3>1, <3>2 DEF FinishMark, After
    <2> QED BY <1>3, <1>4, <2>1, <2>2, <2>3, <2>4 DEF Kept, FirstRun, ChoiceStands, Held
  <1> QED BY <1>5, <1>6, <1>7 DEF Finish, file

LEMMA ChoiceMain ==
  ASSUME Prompt, Kept, ThreadsOK, Exclusive, Main
  PROVE  Kept'
  <1> USE DEF Threads, Labels, Setup, At, file, history, Toggling
  <1>1. CASE Record BY <1>1, ChoiceStays DEF Record
  <1>2. CASE Policy BY <1>2, ChoiceStays DEF Policy, Arm
  <1>3. CASE Default
    <2>1. CASE SetUp
      <3>1. UNCHANGED <<item, marker, defaulted, choice>> /\ defaulted
        BY <1>3, <2>1 DEF Default, SetUp, Goto, ThreadsOK
      <3>2. \A u \in Threads : pc'[u] = IF u = "main" THEN "ready"
                                        ELSE IF u = "boot" THEN "reconcile" ELSE pc[u]
        BY <2>1 DEF SetUp, ThreadsOK
      <3>3. FirstRun' /\ ChoiceStands'
        BY <1>3, <3>1, <3>2 DEF Default, Kept, FirstRun, ChoiceStands
      <3>4. \A u \in Threads : Held(u)' BY <3>1, <3>2 DEF Kept, Held
      <3> QED BY <3>3, <3>4 DEF Kept
    <2>2. CASE Register /\ choice' = "on" /\ Goto("main", "defaultArm") /\ ~defaulted
      <3>1. pc["boot"] = "none" /\ pc["work"] = "none" BY <1>3 DEF Default, ThreadsOK
      <3>2. \A u \in Threads : pc'[u] = IF u = "main" THEN "defaultArm" ELSE "none"
        BY <2>2, <3>1 DEF Goto, ThreadsOK
      <3>3. item' /\ ~marker' /\ UNCHANGED defaulted
        BY <1>3, <2>2 DEF Default, Register, Kept, FirstRun
      <3> QED BY <2>2, <3>2, <3>3 DEF Kept, FirstRun, ChoiceStands, Held
    <2>3. CASE Goto("main", "defaultMark") /\ UNCHANGED <<file, choice, autos>>
      BY <1>3, <2>3, ChoiceStays DEF Default
    <2> QED BY <1>3, <2>1, <2>2, <2>3 DEF Default
  <1>4. CASE DefaultArm BY <1>4, ChoiceStays DEF DefaultArm, Arm
  <1>5. CASE DefaultMark
    <2>1. \A u \in Threads : pc'[u] = IF u = "main" THEN "ready"
                                      ELSE IF u = "boot" THEN "reconcile" ELSE pc[u]
      BY <1>5 DEF DefaultMark, SetUp, ThreadsOK
    <2>2. UNCHANGED <<item, marker, choice>> /\ defaulted' BY <1>5 DEF DefaultMark
    <2>3. FirstRun' /\ ChoiceStands'
      BY <1>5, <2>1, <2>2 DEF DefaultMark, Kept, FirstRun, ChoiceStands
    <2>4. \A u \in Threads : Held(u)' BY <2>1, <2>2 DEF Kept, Held
    <2> QED BY <2>3, <2>4 DEF Kept
  <1>6. CASE OnItem \/ OnArm \/ OffItem
    <2>1. pc["main"] \in {"onItem", "onArm", "offItem"} /\ UNCHANGED <<marker, defaulted>>
      BY <1>6 DEF OnItem, OnArm, OffItem
    <2>2. \A u \in Threads \ {"main"} : pc[u] \notin Sections
      BY <2>1, Only DEF Sections
    <2>3. PICK l \in {"onArm", "ready"} : Goto("main", l) BY <1>6 DEF OnItem, OnArm, OffItem
    <2>4. \A u \in Threads \ {"main"} : Held(u)' BY <2>2, <2>3, OthersFree
    <2>5. pc'["main"] = l BY <2>3 DEF Goto, ThreadsOK
    <2>6. defaulted BY <2>1 DEF Kept, FirstRun
    <2>7. CASE OnItem
      <3>1. ~marker BY <2>7 DEF OnItem, Kept, Held
      <3>2. CASE Register /\ Goto("main", "onArm") /\ UNCHANGED choice
        BY <2>1, <2>4, <2>5, <2>6, <3>1, <3>2
           DEF Register, Kept, FirstRun, ChoiceStands, Held, Goto, ThreadsOK
      <3>3. CASE choice' = "unknown" /\ Goto("main", "ready")
        BY <2>1, <2>4, <2>6, <3>1, <3>3 DEF Kept, FirstRun, ChoiceStands, Held, Goto, ThreadsOK
      <3> QED BY <2>7, <3>2, <3>3 DEF OnItem
    <2>8. CASE OnArm
      <3>1. ~marker /\ item BY <2>8 DEF OnArm, Kept, Held
      <3>2. item' /\ choice' = "on" /\ pc'["main"] = "ready"
        BY <2>8, <3>1 DEF OnArm, Arm, Goto, ThreadsOK
      <3> QED BY <2>1, <2>4, <2>6, <3>1, <3>2 DEF Kept, FirstRun, ChoiceStands, Held
    <2>9. CASE OffItem
      <3>1. pc'["main"] = "ready" BY <2>9 DEF OffItem, Goto, ThreadsOK
      <3>2. choice' = "unknown" \/ (choice' = "off" /\ ~item')
        BY <2>9 DEF OffItem, Deregister
      <3> QED BY <2>1, <2>4, <2>6, <3>1, <3>2 DEF Kept, FirstRun, ChoiceStands, Held
    <2> QED BY <1>6, <2>7, <2>8, <2>9
  <1>7. CASE CleanExit BY <1>7, ChoiceStays DEF CleanExit
  <1>8. CASE Revert
    <2>1. CASE Ended BY <1>8, <2>1, ChoiceEnds DEF Revert
    <2>2. CASE Goto("main", "finish") BY <1>8, <2>2, ChoiceStays DEF Revert
    <2> QED BY <1>8, <2>1, <2>2 DEF Revert
  <1>9. CASE Finish("main") \/ FinishMark("main") BY <1>9, ChoiceFinish
  <1> QED BY <1>1, <1>2, <1>3, <1>4, <1>5, <1>6, <1>7, <1>8, <1>9 DEF Main

LEMMA ChoiceRouting ==
  ASSUME Prompt, Kept, ThreadsOK, Exclusive, NEW t \in {"boot", "work"}, Routing(t)
  PROVE  Kept'
  <1> USE DEF Threads, Labels, Setup, At, file, history, Toggling
  <1>1. CASE Enable(t) BY <1>1, ChoiceStays DEF Enable
  <1>2. CASE Point(t) BY <1>2, ChoiceStays DEF Point
  <1>3. CASE NetArm(t) BY <1>3, ChoiceStays DEF NetArm, Arm
  <1>4. CASE Finish(t) \/ FinishMark(t) BY <1>4, ChoiceFinish
  <1>5. CASE Net(t) \/ NetItem(t)
    <2>1. \A u \in Threads \ {t} : pc[u] \notin Sections
      BY <1>5, Sole DEF Net, NetItem, Sections
    <2>2. pc["main"] \notin Toggling /\ defaulted
      BY <1>5, <2>1 DEF Net, NetItem, Sections, Kept, FirstRun, ThreadsOK
    <2>3. UNCHANGED <<defaulted, choice>> BY <1>5 DEF Net, NetItem
    <2>4. PICK l \in {"none", "netItem", "netArm"} : Goto(t, l) BY <1>5 DEF Net, NetItem
    <2>5. \A u \in Threads \ {t} : Held(u)' BY <2>1, <2>4, OthersFree
    <2>6. pc'[t] = l BY <2>4 DEF Goto, ThreadsOK
    <2>7. CASE Net(t)
      <3>1. CASE UNCHANGED marker /\ Goto(t, "none") BY <2>7, <3>1, ChoiceStays DEF Net
      <3>2. CASE ~item /\ marker' /\ Goto(t, "netItem")
        <4>1. choice # "on" BY <2>2, <3>2 DEF Kept, ChoiceStands
        <4>2. ~item' BY <2>7, <3>2 DEF Net
        <4> QED BY <2>2, <2>3, <2>5, <3>2, <4>1, <4>2, Elsewhere DEF Kept, FirstRun, ChoiceStands, Held
      <3> QED BY <2>7, <3>1, <3>2 DEF Net
    <2>8. CASE NetItem(t)
      <3>1. marker /\ ~item BY <2>8 DEF NetItem, Kept, Held
      <3>2. choice # "on" BY <2>2, <3>1 DEF Kept, ChoiceStands
      <3>3. CASE Register /\ Goto(t, "netArm") /\ UNCHANGED marker
        BY <2>2, <2>3, <2>5, <3>1, <3>2, <3>3, Elsewhere
           DEF Register, Kept, FirstRun, ChoiceStands, Held
      <3>4. CASE marker' = FALSE /\ Goto(t, "none") /\ UNCHANGED file
        BY <2>2, <2>3, <2>5, <3>1, <3>2, <3>4, Elsewhere DEF Kept, FirstRun, ChoiceStands, Held
      <3> QED BY <2>8, <3>3, <3>4 DEF NetItem
    <2> QED BY <1>5, <2>7, <2>8
  <1> QED BY <1>1, <1>2, <1>3, <1>4, <1>5 DEF Routing

LEMMA ChoiceOther ==
  ASSUME Prompt, Kept, ThreadsOK, Exclusive,
         \/ Reconcile \/ Check \/ Ask \/ Disable \/ Forget
         \/ User \/ Login \/ Relaunch \/ EngineDies \/ Crash \/ Kill \/ Age \/ UNCHANGED vars
  PROVE  Kept'
  <1> USE DEF Threads, Labels, Setup, At, file, history, Toggling
  <1>1. CASE Reconcile BY <1>1, ChoiceStays DEF Reconcile
  <1>2. CASE Check
    <2>1. PICK l \in {"finish", "enable", "none"} : Goto("boot", l) BY <1>2 DEF Check
    <2> QED BY <1>2, <2>1, ChoiceStays DEF Check
  <1>3. CASE Ask
    <2>1. \A u \in Threads : pc'[u] \in {"exit", "none", pc[u]} /\ (u = "main" => pc'[u] = "exit")
      BY <1>3 DEF Ask, ThreadsOK
    <2>2. UNCHANGED <<item, marker, defaulted, choice>> /\ pc["main"] = "ready" BY <1>3 DEF Ask
    <2>3. FirstRun' /\ ChoiceStands' BY <2>1, <2>2 DEF Kept, FirstRun, ChoiceStands
    <2>4. \A u \in Threads : Held(u)' BY <2>1, <2>2 DEF Kept, Held
    <2> QED BY <2>3, <2>4 DEF Kept
  <1>4. CASE Disable
    <2>1. PICK l \in {"forget", "none"} : Goto("work", l) BY <1>4 DEF Disable
    <2> QED BY <1>4, <2>1, ChoiceStays DEF Disable
  <1>5. CASE Forget BY <1>5, ChoiceStays DEF Forget
  <1>6. CASE Open \/ Login \/ Relaunch
    <2>1. PICK b \in BOOLEAN : Launched(b) BY <1>6 DEF Open, Login, Relaunch
    <2>2. UNCHANGED choice BY <2>1 DEF Launched
    <2> QED BY <2>1, <2>2, ChoiceStays DEF Launched, Up
  <1>7. CASE ToggleOn \/ ToggleOff
    <2>1. \A u \in Threads \ {"main"} : pc[u] \notin Sections
      BY <1>7, Sole DEF ToggleOn, ToggleOff
    <2>2. defaulted /\ defaulted' BY <1>7 DEF ToggleOn, ToggleOff, Kept, FirstRun
    <2>3. UNCHANGED item BY <1>7 DEF ToggleOn, ToggleOff
    <2>4. CASE ToggleOn
      <3>1. Goto("main", "onItem") /\ ~marker' BY <2>4 DEF ToggleOn
      <3>2. \A u \in Threads \ {"main"} : Held(u)' BY <2>1, <3>1, OthersFree
      <3> QED BY <2>2, <3>1, <3>2, Elsewhere DEF Kept, FirstRun, ChoiceStands, Held
    <2>5. CASE ToggleOff
      <3>1. CASE RoutingOn
        <4>1. UNCHANGED pc /\ marker' /\ choice' = "off" /\ pc["main"] = "ready"
          BY <2>5, <3>1 DEF ToggleOff
        <4>2. \A u \in Threads : Held(u)' BY <2>1, <4>1 DEF Held, Sections
        <4> QED BY <2>2, <4>1, <4>2 DEF Kept, FirstRun, ChoiceStands
      <3>2. CASE ~RoutingOn
        <4>1. Goto("main", "offItem") BY <2>5, <3>2 DEF ToggleOff
        <4>2. \A u \in Threads \ {"main"} : Held(u)' BY <2>1, <4>1, OthersFree
        <4> QED BY <2>2, <4>1, <4>2, Elsewhere DEF Kept, FirstRun, ChoiceStands, Held
      <3> QED BY <3>1, <3>2
    <2> QED BY <1>7, <2>4, <2>5
  <1>8. CASE Command
    <2>1. PICK l \in {"enable", "disable"} : Goto("work", l) BY <1>8 DEF Command
    <2> QED BY <1>8, <2>1, ChoiceStays DEF Command
  <1>9. CASE Quit BY <1>9, ChoiceStays DEF Quit
  <1>10. CASE Crash \/ Kill BY <1>10, ChoiceEnds DEF Crash, Kill, Dies
  <1>11. CASE EngineDies \/ Age \/ UNCHANGED vars
    <2>1. UNCHANGED <<pc, item, marker, defaulted, choice>> BY <1>11 DEF EngineDies, Age, vars
    <2> QED BY <2>1 DEF Kept, FirstRun, ChoiceStands, Held
  <1> QED
    BY <1>1, <1>2, <1>3, <1>4, <1>5, <1>6, <1>7, <1>8, <1>9, <1>10, <1>11 DEF User

\* Whenever it is killed and whatever fails, launch at login stays as the user
\* left it.
THEOREM ChoiceKept == ASSUME Prompt PROVE Spec => []ChoiceStands
  <1> DEFINE Inv == TypeOK /\ Exclusive /\ Kept
  <1>1. Init => Inv
    <2> SUFFICES ASSUME Init PROVE Inv OBVIOUS
    <2>1. \A t \in Threads : pc[t] = "none" BY DEF Init
    <2>2. Exclusive BY <2>1 DEF Exclusive, Sections
    <2>3. Kept BY <2>1 DEF Init, Kept, FirstRun, ChoiceStands, Held, At, Threads
    <2> QED BY <2>2, <2>3, TypeInit
  <1>2. Inv /\ [Next]_vars => Inv'
    <2> SUFFICES ASSUME Inv, [Next]_vars PROVE Inv' OBVIOUS
    <2>1. TypeOK' /\ ThreadsOK BY TypeNext, TypeParts
    <2>2. Exclusive' BY <2>1, NextExclusive
    <2>3. Kept' BY <2>1, NextAlike, ChoiceMain, ChoiceRouting, ChoiceOther DEF Alike
    <2> QED BY <2>1, <2>2, <2>3
  <1>3. Inv => ChoiceStands BY DEF Kept
  <1> HIDE DEF Inv
  <1> QED BY <1>1, <1>2, <1>3, PTL DEF Spec

-----------------------------------------------------------------------------
(* Crash loops. *)

LEMMA NoLess == \A n \in Nat : n >= 0 /\ n + 1 >= 0
  OBVIOUS

\* Whatever somebody does to the app starts the count again.
LEMMA LoopReset ==
  ASSUME TypeOK', autos' = 0, At("main", "policy")' => open'
  PROVE  LoopInv'
  <1>1. MaxUnclean \in Nat /\ MaxUnclean > 0 /\ streak' \in Nat
    BY UncleanAssumption DEF TypeOK
  <1>2. Streak(open', aged', streak') >= 0
    <2>1. CASE ~open'
      <3>1. Streak(open', aged', streak') = 0 BY <2>1 DEF Streak
      <3> QED BY <3>1
    <2>2. CASE open' /\ aged'
      <3>1. Streak(open', aged', streak') = 1 BY <2>2 DEF Streak
      <3> QED BY <3>1
    <2>3. CASE open' /\ ~aged'
      <3>1. Streak(open', aged', streak') = IF streak' > MaxUnclean THEN streak' ELSE streak' + 1
        BY <2>3 DEF Streak
      <3>2. streak' >= 0 /\ streak' + 1 >= 0 BY <1>1, NoLess
      <3> QED BY <3>1, <3>2
    <2> QED BY <2>1, <2>2, <2>3
  <1>3. Streak(open, aged, streak)' >= 0 BY <1>2 DEF Streak
  <1>4. Counted'
    <2>1. autos' <= Streak(open, aged, streak)' /\ autos' <= MaxUnclean /\ autos' <= streak'
      BY <1>1, <1>3
    <2> QED BY <2>1 DEF Counted
  <1>5. Spent' /\ Untouched' /\ LoopStops' BY <1>1 DEF Spent, Untouched, LoopStops
  <1> QED BY <1>4, <1>5 DEF LoopInv

\* A relaunch is counted as record_start will count it.
LEMMA LoopRelaunch == ASSUME LoopInv, Relaunch, TypeOK' PROVE LoopInv'
  <1> USE DEF At
  <1>1. /\ MaxUnclean \in Nat /\ MaxUnclean > 0 /\ streak \in Nat /\ autos \in Nat
        /\ UNCHANGED <<open, aged, streak, item>>
    BY UncleanAssumption DEF LoopInv, TypeOK, Relaunch, Launched, file, record
  <1>2. pc["main"] = "none" /\ policy /\ crashed BY DEF Relaunch, Launched, Up
  <1>3. pc["boot"] = "none" /\ pc["work"] = "none" /\ item
    BY <1>2 DEF LoopInv, TypeOK
  <1>4. autos < MaxUnclean BY <1>2 DEF LoopInv, Spent
  <1>5. open => autos <= streak BY <1>2 DEF LoopInv, Counted
  <1>6. autos' = IF ~open THEN 0 ELSE IF aged THEN 1 ELSE autos + 1
    BY <1>1, <1>4 DEF Relaunch
  <1>7. autos' <= MaxUnclean /\ autos' <= Streak(open, aged, streak)
    BY <1>1, <1>4, <1>5, <1>6 DEF Streak
  <1>8. pc' = [pc EXCEPT !["main"] = "record"] /\ pc \in [Threads -> Labels]
    BY DEF Relaunch, Launched, Goto, LoopInv, TypeOK
  <1>9. pc'["main"] = "record" /\ pc'["boot"] = "none" /\ pc'["work"] = "none"
    BY <1>3, <1>8 DEF Threads
  <1>10. Counted' BY <1>1, <1>7, <1>9 DEF Counted, Streak
  <1>11. Spent' /\ LoopStops' BY <1>7, <1>9 DEF Spent, LoopStops
  <1>12. Untouched' BY <1>1, <1>3, <1>9 DEF Untouched, Setup
  <1> QED BY <1>10, <1>11, <1>12 DEF LoopInv

\* A step that changes no count, and moves no thread nearer the policy.
LEMMA LoopStays ==
  ASSUME LoopInv, TypeOK', UNCHANGED <<autos, streak, crashed>>,
         open' => open, open' = open \/ pc["main"] # "policy",
         policy' => policy,
         pc["main"] \notin {"none", "record", "policy"},
         pc'["main"] \notin {"record", "policy"},
         autos > 0 => Untouched'
  PROVE  LoopInv'
  BY DEF LoopInv, Counted, Spent, Untouched, LoopStops, Up, At

\* What an untouched Gate does by itself.
LEMMA LoopMain ==
  ASSUME Recorded, LoopInv, ThreadsOK, TypeOK', Main
  PROVE  LoopInv'
  <1> USE DEF At, Threads, file, record, process, history
  <1>1. CASE Record
    <2>1. open' /\ streak' = Streak(open, aged, streak) /\ UNCHANGED <<autos, item>>
      BY <1>1 DEF Record, Recorded
    <2>2. pc["main"] = "record" /\ pc["boot"] = "none" /\ pc["work"] = "none"
      BY <1>1 DEF Record, ThreadsOK, Setup
    <2>3. pc'["main"] = "policy" /\ pc'["boot"] = "none" /\ pc'["work"] = "none"
      BY <1>1, <2>2 DEF Record, Recorded, Goto, ThreadsOK
    <2>4. autos <= Streak(open, aged, streak) /\ autos <= MaxUnclean
      BY <2>2 DEF LoopInv, Counted
    <2>5. Counted' BY <2>1, <2>3, <2>4 DEF Counted
    <2>6. Untouched' BY <2>1, <2>2, <2>3 DEF Untouched, Setup, LoopInv
    <2> QED BY <2>1, <2>3, <2>4, <2>5, <2>6 DEF LoopInv, Spent, LoopStops
  <1>2. CASE Policy
    <2>1. UNCHANGED <<open, streak, autos, item>> BY <1>2 DEF Policy, Arm
    <2>2. pc["main"] = "policy" /\ pc["boot"] = "none" /\ pc["work"] = "none"
      BY <1>2 DEF Policy, ThreadsOK, Setup
    <2>3. pc'["main"] = "default" /\ pc'["boot"] = "none" /\ pc'["work"] = "none"
      BY <1>2, <2>2 DEF Policy, Goto, ThreadsOK
    <2>4. open /\ autos <= streak BY <2>2 DEF LoopInv, Counted, Up
    <2>5. policy' => streak < MaxUnclean
      <3>1. streak \in Nat /\ MaxUnclean \in Nat BY UncleanAssumption DEF LoopInv, TypeOK
      <3>2. policy' => ~Exhausted(streak) BY <1>2 DEF Policy
      <3> QED BY <3>1, <3>2 DEF Exhausted
    <2>6. Counted' BY <2>1, <2>3, <2>4 DEF Counted
    <2>7. Untouched' BY <2>1, <2>2, <2>3 DEF Untouched, Setup, LoopInv
    <2>8. policy' => autos' < MaxUnclean
      BY <2>1, <2>4, <2>5, UncleanAssumption DEF LoopInv, TypeOK
    <2> QED BY <2>1, <2>6, <2>7, <2>8 DEF LoopInv, Spent, LoopStops
  <1>3. CASE Default
    <2>1. pc["main"] = "default" /\ pc["boot"] = "none" /\ pc["work"] = "none"
      BY <1>3 DEF Default, ThreadsOK, Setup
    <2>2. CASE autos' = 0
      <3>1. pc'["main"] # "policy" BY <1>3 DEF Default, SetUp, Goto, ThreadsOK
      <3> QED BY <2>2, <3>1, LoopReset
    <2>3. CASE autos' # 0
      <3>1. UNCHANGED <<file, autos, open, streak, crashed>> BY <1>3, <2>3 DEF Default
      <3>2. SetUp \/ Goto("main", "defaultMark") BY <1>3, <2>3 DEF Default
      <3>3. /\ pc'["main"] \in {"ready", "defaultMark"} /\ pc'["work"] = "none"
            /\ pc'["boot"] \in {"none", "reconcile"}
        BY <2>1, <3>2 DEF SetUp, Goto, ThreadsOK
      <3>4. autos > 0 => Untouched' BY <2>1, <3>1, <3>3 DEF Untouched, Setup, LoopInv
      <3> QED BY <2>1, <3>1, <3>3, <3>4, LoopStays
    <2> QED BY <2>2, <2>3
  <1>4. CASE DefaultArm
    <2>1. autos' = 0
      BY <1>4, UncleanAssumption DEF DefaultArm, LoopInv, Untouched, TypeOK
    <2>2. pc'["main"] # "policy" BY <1>4 DEF DefaultArm, Goto, ThreadsOK
    <2> QED BY <2>1, <2>2, LoopReset
  <1>5. CASE DefaultMark
    <2>1. pc["main"] = "defaultMark" /\ pc["boot"] = "none" /\ pc["work"] = "none"
      BY <1>5 DEF DefaultMark, ThreadsOK, Setup
    <2>2. UNCHANGED <<file, autos, open, streak, crashed>> BY <1>5 DEF DefaultMark
    <2>3. pc'["main"] = "ready" /\ pc'["work"] = "none" /\ pc'["boot"] = "reconcile"
      BY <1>5, <2>1 DEF DefaultMark, SetUp, ThreadsOK
    <2>4. autos > 0 => Untouched' BY <2>1, <2>2, <2>3 DEF Untouched, Setup, LoopInv
    <2> QED BY <2>1, <2>2, <2>3, <2>4, LoopStays
  <1>6. CASE OnItem \/ OnArm \/ OffItem
    <2>1. pc["main"] \in {"onItem", "onArm", "offItem"} /\ UNCHANGED autos
      BY <1>6 DEF OnItem, OnArm, OffItem
    <2>2. autos' = 0 BY <2>1, UncleanAssumption DEF LoopInv, Untouched, TypeOK, Setup
    <2>3. pc'["main"] # "policy" BY <1>6 DEF OnItem, OnArm, OffItem, Goto, ThreadsOK
    <2> QED BY <2>2, <2>3, LoopReset
  <1>7. CASE CleanExit
    <2>1. pc["main"] = "exit" /\ UNCHANGED <<policy, autos, crashed>> /\ ~open'
      BY <1>7 DEF CleanExit, Recorded
    <2>2. pc'["main"] = "revert" /\ pc'["boot"] = pc["boot"] /\ pc'["work"] = pc["work"]
      BY <1>7 DEF CleanExit, Goto, ThreadsOK
    <2>3. Counted' BY <2>1, <2>2 DEF Counted
    <2>4. Spent' BY <2>1, <2>2 DEF LoopInv, Spent, Up
    <2>5. Untouched' BY <2>1, <2>2 DEF LoopInv, Untouched, Setup
    <2> QED BY <2>1, <2>3, <2>4, <2>5 DEF LoopInv, LoopStops
  <1>8. CASE Revert \/ Finish("main") \/ FinishMark("main")
    <2>1. pc["main"] \in {"revert", "finish", "finishMark"} /\ UNCHANGED <<autos, open, streak, crashed>>
      BY <1>8 DEF Revert, Finish, FinishMark, Leaving
    <2>2. policy' => policy BY <1>8 DEF Revert, Finish, FinishMark, Deregister
    <2>3. \/ Ended
          \/ Goto("main", "finish") \/ Goto("main", "finishMark")
      BY <1>8 DEF Revert, Finish, FinishMark, After
    <2>4. pc'["main"] \in {"none", "finish", "finishMark"} BY <2>3 DEF Ended, Goto, ThreadsOK
    <2>5. autos > 0 => Untouched'
      BY <2>1, <2>3 DEF Ended, Goto, ThreadsOK, LoopInv, Untouched, Setup
    <2> QED BY <2>1, <2>2, <2>4, <2>5, LoopStays
  <1> QED BY <1>1, <1>2, <1>3, <1>4, <1>5, <1>6, <1>7, <1>8 DEF Main

LEMMA LoopBoot ==
  ASSUME LoopInv, ThreadsOK, TypeOK', Boot
  PROVE  LoopInv'
  <1> USE DEF At, Threads, file, record, process, history
  <1>1. pc["boot"] # "none" /\ UNCHANGED <<autos, open, streak>>
    BY DEF Boot, Reconcile, Check, Ask, Enable, Point, Net, NetItem, NetArm, Finish, FinishMark
  <1>2. pc["main"] \notin Setup \cup {"none"} BY <1>1, SetupOver
  <1>3. UNCHANGED crashed
    BY DEF Boot, Reconcile, Check, Ask, Enable, Point, Net, NetItem, NetArm, Finish, FinishMark,
           Leaving
  <1>4. pc'["main"] = IF Ask THEN "exit" ELSE pc["main"]
    BY DEF Boot, Reconcile, Check, Ask, Enable, Point, Net, NetItem, NetArm, Finish, FinishMark,
           After, Goto, ThreadsOK
  <1>5. CASE autos' = 0 BY <1>2, <1>4, <1>5, LoopReset DEF Setup
  <1>6. CASE autos' # 0
    <2>1. autos > 0 BY <1>1, <1>6 DEF LoopInv, TypeOK
    <2>2. /\ pc["work"] = "none"
          /\ pc["main"] \in {"ready", "exit", "revert", "finish", "finishMark"}
          /\ pc["boot"] \notin {"netItem", "netArm"}
          /\ pc["boot"] \in {"reconcile", "check", "enable", "point", "net"} => item
          /\ pc["main"] \in {"exit", "revert", "finish", "finishMark"} => pc["boot"] = "none"
      BY <1>2, <2>1 DEF LoopInv, Untouched, Setup
    <2>3. pc["main"] = "ready" BY <1>1, <2>2
    <2>4. pc'["work"] = "none"
      BY <2>2 DEF Boot, Reconcile, Check, Ask, Enable, Point, Net, NetItem, NetArm, Finish,
                  FinishMark, After, Goto, ThreadsOK
    <2>5. CASE Ask
      <3>1. pc'["boot"] = "none" /\ pc'["main"] = "exit" /\ UNCHANGED file
        BY <2>5 DEF Ask, ThreadsOK
      <3>2. Untouched' BY <2>4, <3>1 DEF Untouched
      <3> QED BY <1>1, <1>3, <2>3, <3>1, <3>2, LoopStays
    <2>6. CASE Finish("boot") \/ FinishMark("boot")
      <3>1. policy' => policy BY <2>6 DEF Finish, FinishMark, Deregister
      <3>2. pc'["boot"] \in {"finishMark", "ask"}
        BY <2>6 DEF Finish, FinishMark, After, Goto, ThreadsOK
      <3>3. pc'["main"] = "ready" BY <2>3, <2>6 DEF Finish, FinishMark, After, Goto, ThreadsOK
      <3>4. Untouched' BY <2>4, <3>2, <3>3 DEF Untouched, Setup
      <3> QED BY <1>1, <1>3, <2>3, <3>1, <3>3, <3>4, LoopStays
    <2>7. CASE Reconcile \/ Check \/ Enable("boot") \/ Point("boot") \/ Net("boot")
      <3>1. UNCHANGED file BY <2>7 DEF Reconcile, Check, Enable, Point, Net
      <3>2. /\ pc["boot"] \in {"reconcile", "check", "enable", "point", "net"}
            /\ item
            /\ pc'["boot"] \in {"none", "check", "finish", "enable", "point", "net"}
        BY <2>2, <2>7 DEF Reconcile, Check, Enable, Point, Net, Goto, ThreadsOK
      <3>3. pc'["main"] = "ready"
        BY <2>3, <2>7 DEF Reconcile, Check, Enable, Point, Net, Goto, ThreadsOK
      <3>4. Untouched' BY <2>4, <3>1, <3>2, <3>3 DEF Untouched, Setup
      <3> QED BY <1>1, <1>3, <2>3, <3>1, <3>3, <3>4, LoopStays
    <2> QED BY <2>2, <2>5, <2>6, <2>7 DEF Boot, NetItem, NetArm
  <1> QED BY <1>5, <1>6

LEMMA LoopWork ==
  ASSUME LoopInv, ThreadsOK, TypeOK', Work
  PROVE  LoopInv'
  <1> USE DEF At, Threads, file, record, process, history
  <1>1. pc["work"] # "none" /\ UNCHANGED autos
    BY DEF Work, Enable, Point, Net, NetItem, NetArm, Disable, Forget, Finish, FinishMark
  <1>2. autos' = 0 BY <1>1 DEF LoopInv, Untouched, TypeOK
  <1>3. pc["main"] \notin Setup \cup {"none"} BY <1>1, SetupOver
  <1>4. pc'["main"] = pc["main"]
    BY DEF Work, Enable, Point, Net, NetItem, NetArm, Disable, Forget, Finish, FinishMark, After,
           Goto, ThreadsOK
  <1> QED BY <1>2, <1>3, <1>4, LoopReset DEF Setup

LEMMA LoopOther ==
  ASSUME LateCrash, LoopInv, ThreadsOK, TypeOK',
         User \/ Login \/ Relaunch \/ EngineDies \/ Crash \/ Kill \/ Age \/ UNCHANGED vars
  PROVE  LoopInv'
  <1> USE DEF At, Threads, file, record, process, history
  <1>1. CASE User \/ Login
    <2>1. autos' = 0 BY <1>1 DEF User, Open, ToggleOn, ToggleOff, Command, Quit, Login
    <2>2. CASE Open \/ Login
      <3>1. pc'["main"] = "record" BY <2>2 DEF Open, Login, Launched, Goto, ThreadsOK
      <3> QED BY <2>1, <3>1, LoopReset
    <2>3. CASE ToggleOn \/ ToggleOff \/ Command \/ Quit
      <3>1. pc["main"] = "ready" BY <2>3 DEF ToggleOn, ToggleOff, Command, Quit
      <3>2. pc'["main"] # "policy"
        BY <2>3, <3>1 DEF ToggleOn, ToggleOff, Command, Quit, Goto, ThreadsOK
      <3> QED BY <2>1, <3>2, LoopReset
    <2> QED BY <1>1, <2>2, <2>3 DEF User
  <1>2. CASE Relaunch BY <1>2, LoopRelaunch
  <1>3. CASE EngineDies \/ UNCHANGED vars
    <2>1. UNCHANGED <<pc, autos, open, aged, streak, item, policy, crashed>>
      BY <1>3 DEF EngineDies, vars
    <2> QED BY <2>1 DEF LoopInv, Counted, Spent, Untouched, LoopStops, Up
  <1>4. CASE Age
    <2>1. UNCHANGED <<pc, autos, open, streak, item, policy, crashed>> /\ pc["main"] # "record"
      BY <1>4 DEF Age
    <2> QED BY <2>1 DEF LoopInv, Counted, Spent, Untouched, LoopStops, Up
  <1>5. CASE Crash
    <2>1. UNCHANGED <<autos, open, streak, item, policy>> BY <1>5 DEF Crash, Dies
    <2>2. pc["main"] \notin {"none", "record", "policy"}
      BY <1>5 DEF Crash, Dies, Up, LateCrash, Setup
    <2>3. \A t \in Threads : pc'[t] = "none" BY <1>5 DEF Crash, Dies, Ended
    <2>4. open => autos <= streak BY <2>2 DEF LoopInv, Counted, Up
    <2>5. policy => autos < MaxUnclean BY <2>2 DEF LoopInv, Spent, Up
    <2>6. Untouched' BY <2>3 DEF Untouched
    <2> QED BY <2>1, <2>3, <2>4, <2>5, <2>6 DEF LoopInv, Counted, Spent, LoopStops
  <1>6. CASE Kill
    <2>1. ~crashed' /\ UNCHANGED autos BY <1>6 DEF Kill, Dies
    <2>2. \A t \in Threads : pc'[t] = "none" BY <1>6 DEF Kill, Dies, Ended
    <2>3. Untouched' BY <2>2 DEF Untouched
    <2> QED BY <2>1, <2>2, <2>3 DEF LoopInv, Counted, Spent, Up, LoopStops
  <1> QED BY <1>1, <1>2, <1>3, <1>4, <1>5, <1>6

\* For every limit: a start that crashes again and again, with nobody touching
\* the app, is relaunched no more often than the limit.
THEOREM LoopsEnd == ASSUME Recorded, LateCrash PROVE Spec => []LoopStops
  <1>1. Init => LoopInv
    <2> SUFFICES ASSUME Init PROVE LoopInv OBVIOUS
    <2>1. \A t \in Threads : pc[t] = "none" BY DEF Init
    <2>2. autos = 0 /\ ~crashed /\ MaxUnclean \in Nat BY UncleanAssumption DEF Init
    <2>3. Counted /\ Spent /\ Untouched /\ LoopStops
      BY <2>1, <2>2 DEF Counted, Spent, Untouched, LoopStops, At, Up, Threads
    <2> QED BY <2>3, TypeInit DEF LoopInv
  <1>2. LoopInv /\ [Next]_vars => LoopInv'
    <2> SUFFICES ASSUME LoopInv, [Next]_vars PROVE LoopInv' OBVIOUS
    <2>1. TypeOK' /\ ThreadsOK BY TypeNext, TypeParts DEF LoopInv
    <2> QED BY <2>1, LoopMain, LoopBoot, LoopWork, LoopOther DEF Next
  <1>3. LoopInv => LoopStops BY DEF LoopInv
  <1> QED BY <1>1, <1>2, <1>3, PTL DEF Spec

-----------------------------------------------------------------------------
(* The policy, after registrations that erase it. *)

\* A step that registers nothing and disarms nothing.
LEMMA ArmedStays ==
  ASSUME Armed, UNCHANGED streak,
         item' => UNCHANGED policy /\ item,
         \A t \in Threads : At(t, "netArm") => At(t, "netArm")',
         pc'["main"] \in {"default", "defaultMark", "ready", "onItem", "offItem"}
           => pc["main"] \in {"default", "defaultMark", "ready", "onItem", "offItem"}
  PROVE  Armed'
  BY DEF Armed, Exhausted, At

LEMMA ArmedMain ==
  ASSUME Recorded, ThreadsOK, Armed, Main
  PROVE  Armed'
  <1> USE DEF At, file, record, process, history
  <1>1. CASE Record
    <2>1. pc'["main"] = "policy" BY <1>1 DEF Record, Recorded, Goto, ThreadsOK, Threads
    <2> QED BY <2>1 DEF Armed
  <1>2. CASE Policy
    <2>1. UNCHANGED streak BY <1>2 DEF Policy
    <2>2. CASE Exhausted(streak) BY <2>1, <2>2 DEF Armed, Exhausted
    <2>3. CASE ~Exhausted(streak)
      <3>1. policy' = item' BY <1>2, <2>3 DEF Policy, Arm
      <3> QED BY <3>1 DEF Armed
    <2> QED BY <2>2, <2>3
  <1>3. CASE Default
    <2>1. pc["main"] = "default" /\ UNCHANGED streak BY <1>3 DEF Default
    <2>2. CASE Goto("main", "defaultArm")
      <3>1. pc'["main"] = "defaultArm" BY <2>2 DEF Goto, ThreadsOK, Threads
      <3> QED BY <3>1 DEF Armed
    <2>3. CASE ~Goto("main", "defaultArm")
      <3>1. UNCHANGED file BY <1>3, <2>3 DEF Default
      <3>2. \A t \in Threads : pc[t] # "netArm"
        BY <2>1 DEF ThreadsOK, Setup, Threads
      <3> QED BY <2>1, <3>1, <3>2, ArmedStays
    <2> QED BY <2>2, <2>3
  <1>4. CASE DefaultArm \/ OnArm
    <2>1. policy' = item' BY <1>4 DEF DefaultArm, OnArm, Arm
    <2> QED BY <2>1 DEF Armed
  <1>5. CASE DefaultMark
    <2>1. UNCHANGED file /\ UNCHANGED streak /\ pc["main"] = "defaultMark"
      BY <1>5 DEF DefaultMark
    <2>2. \A t \in Threads : pc[t] # "netArm" BY <2>1 DEF ThreadsOK, Setup, Threads
    <2> QED BY <2>1, <2>2, ArmedStays
  <1>6. CASE OnItem
    <2>1. pc["main"] = "onItem" /\ UNCHANGED streak BY <1>6 DEF OnItem
    <2>2. CASE Goto("main", "onArm")
      <3>1. pc'["main"] = "onArm" BY <2>2 DEF Goto, ThreadsOK, Threads
      <3> QED BY <3>1 DEF Armed
    <2>3. CASE UNCHANGED file /\ Goto("main", "ready")
      <3>1. \A t \in Threads : pc[t] = "netArm" => pc'[t] = "netArm"
        BY <2>1, <2>3 DEF Goto, ThreadsOK, Threads
      <3> QED BY <2>1, <2>3, <3>1, ArmedStays
    <2> QED BY <1>6, <2>2, <2>3 DEF OnItem
  <1>7. CASE OffItem
    <2>1. pc["main"] = "offItem" /\ UNCHANGED streak /\ Goto("main", "ready")
      BY <1>7 DEF OffItem
    <2>2. item' => UNCHANGED file BY <1>7 DEF OffItem, Deregister
    <2>3. \A t \in Threads : pc[t] = "netArm" => pc'[t] = "netArm"
      BY <2>1 DEF Goto, ThreadsOK, Threads
    <2> QED BY <2>1, <2>2, <2>3, ArmedStays
  <1>8. CASE CleanExit \/ Revert \/ Finish("main") \/ FinishMark("main")
    <2>1. pc'["main"] \in {"revert", "none", "finish", "finishMark"}
      BY <1>8 DEF CleanExit, Revert, Finish, FinishMark, After, Ended, Goto, ThreadsOK, Threads
    <2> QED BY <2>1 DEF Armed
  <1> QED BY <1>1, <1>2, <1>3, <1>4, <1>5, <1>6, <1>7, <1>8 DEF Main

LEMMA ArmedRouting ==
  ASSUME ThreadsOK, Armed, Boot \/ Work
  PROVE  Armed'
  <1> USE DEF At, file, record, process, history
  <1>1. UNCHANGED streak
    BY DEF Boot, Work, Reconcile, Check, Ask, Enable, Point, Net, NetItem, NetArm, Disable, Forget,
           Finish, FinishMark
  <1>2. PICK t \in {"boot", "work"} :
          \/ Enable(t) \/ Point(t) \/ Net(t) \/ NetItem(t) \/ NetArm(t)
          \/ Finish(t) \/ FinishMark(t)
          \/ (t = "boot" /\ (Reconcile \/ Check \/ Ask)) \/ (t = "work" /\ (Disable \/ Forget))
    BY DEF Boot, Work
  <1>3. CASE NetItem(t) /\ Goto(t, "netArm")
    <2>1. pc'[t] = "netArm" BY <1>3 DEF Goto, ThreadsOK, Threads
    <2> QED BY <2>1 DEF Armed, Threads
  <1>4. CASE NetArm(t)
    <2>1. policy' = item' BY <1>4 DEF NetArm, Arm
    <2> QED BY <2>1 DEF Armed
  <1>5. CASE ~(NetItem(t) /\ Goto(t, "netArm")) /\ ~NetArm(t)
    <2>1. item' => UNCHANGED file
      BY <1>2, <1>5 DEF Reconcile, Check, Ask, Enable, Point, Net, NetItem, Disable, Forget, Finish,
                        FinishMark, Deregister
    <2>2. pc[t] # "netArm"
      BY <1>2, <1>5 DEF Reconcile, Check, Ask, Enable, Point, Net, NetItem, Disable, Forget, Finish,
                        FinishMark
    <2>3. CASE Ask
      <3>1. pc'["main"] = "exit" BY <2>3 DEF Ask, ThreadsOK, Threads
      <3> QED BY <3>1 DEF Armed
    <2>4. CASE ~Ask
      <3>1. \E l \in Labels : Goto(t, l)
        BY <1>2, <1>5, <2>4 DEF Reconcile, Check, Enable, Point, Net, NetItem, Disable, Forget,
                                Finish, FinishMark, After, Labels
      <3>2. \A u \in Threads \ {t} : pc'[u] = pc[u] BY <3>1 DEF Goto, ThreadsOK
      <3> QED BY <1>1, <2>1, <2>2, <3>2, ArmedStays DEF Threads
    <2> QED BY <2>3, <2>4
  <1> QED BY <1>3, <1>4, <1>5

LEMMA ArmedOther ==
  ASSUME ThreadsOK, Armed,
         User \/ Login \/ Relaunch \/ EngineDies \/ Crash \/ Kill \/ Age \/ UNCHANGED vars
  PROVE  Armed'
  <1> USE DEF At, file, record, process, history
  <1>1. CASE Open \/ Login \/ Relaunch
    <2>1. pc'["main"] = "record"
      BY <1>1 DEF Open, Login, Relaunch, Launched, Goto, ThreadsOK, Threads
    <2> QED BY <2>1 DEF Armed
  <1>2. CASE ToggleOn \/ ToggleOff \/ Command
    <2>1. pc["main"] = "ready" /\ UNCHANGED file /\ UNCHANGED streak
      BY <1>2 DEF ToggleOn, ToggleOff, Command
    <2>2. CASE Command
      <3>1. PICK l \in {"enable", "disable"} : Goto("work", l) BY <2>2 DEF Command
      <3>2. pc["work"] = "none" BY <2>2 DEF Command
      <3>3. \A t \in Threads : pc[t] = "netArm" => pc'[t] = "netArm"
        BY <3>1, <3>2 DEF Goto, ThreadsOK
      <3> QED BY <2>1, <3>3, ArmedStays
    <2>3. CASE ToggleOn \/ ToggleOff
      <3>1. UNCHANGED pc \/ \E l \in Labels : Goto("main", l)
        BY <2>3 DEF ToggleOn, ToggleOff, Labels
      <3>2. \A t \in Threads : pc[t] = "netArm" => pc'[t] = "netArm"
        BY <2>1, <3>1 DEF Goto, ThreadsOK
      <3> QED BY <2>1, <3>2, ArmedStays
    <2> QED BY <1>2, <2>2, <2>3
  <1>3. CASE Quit
    <2>1. pc'["main"] = "exit" BY <1>3 DEF Quit, Goto, ThreadsOK, Threads
    <2> QED BY <2>1 DEF Armed
  <1>4. CASE EngineDies \/ Age \/ UNCHANGED vars
    BY <1>4, ArmedStays DEF EngineDies, Age, vars
  <1>5. CASE Crash \/ Kill
    <2>1. pc'["main"] = "none" BY <1>5 DEF Crash, Kill, Dies, Ended, Threads
    <2> QED BY <2>1 DEF Armed
  <1> QED BY <1>1, <1>2, <1>3, <1>4, <1>5 DEF User

\* Whoever registers the login item and so erases the policy, the next crash is
\* restarted again once they are done.
THEOREM PolicyKept == ASSUME Recorded PROVE Spec => []StaysArmed
  <1> DEFINE Inv == TypeOK /\ Armed
  <1>1. Init => Inv
    <2> SUFFICES ASSUME Init PROVE Inv OBVIOUS
    <2>1. pc["main"] = "none" BY DEF Init, Threads
    <2> QED BY <2>1, TypeInit DEF Armed
  <1>2. Inv /\ [Next]_vars => Inv'
    <2> SUFFICES ASSUME Inv, [Next]_vars PROVE Inv' OBVIOUS
    <2>1. ThreadsOK BY TypeParts
    <2>2. TypeOK' BY TypeNext
    <2>3. Armed' BY <2>1, ArmedMain, ArmedRouting, ArmedOther DEF Next
    <2> QED BY <2>2, <2>3
  <1>3. Inv => StaysArmed BY DEF Armed, StaysArmed, At
  <1> HIDE DEF Inv
  <1> QED BY <1>1, <1>2, <1>3, PTL DEF Spec
=============================================================================
