------------------------- MODULE HelperDaemonProofs -------------------------
(***************************************************************************)
(* The helper daemon never intercepts for nobody, for any number of        *)
(* processes, any calls and any faults.  The argument is a count: every    *)
(* connection the daemon has accepted and not yet let go is one of a       *)
(* process or one whose peer is gone, and the one that takes the counter   *)
(* to zero is between there and its disarm.  Then the two promises of the  *)
(* client: a shutdown that has come back has ended the engine it met, and  *)
(* a launch over what a kill left behind points the machine at an engine   *)
(* or nowhere.                                                             *)
(***************************************************************************)
EXTENDS HelperDaemon, FiniteSetTheorems, TLAPS

\* What the counter counts.
Counts == clients = Cardinality(Connected) + Late

\* An armed daemon that was not asked to stay still has a connection to count,
\* or a task on its way to disarm it.
Guarded ==
    engine = "armed" /\ ~detached =>
        clients > 0 \/ gone["last"] > 0 \/ gone["disarm"] > 0

\* The part of the type invariant the count rests on.
Tasks == Counted \cup {"none", "ok", "failed"}
ServedType ==
    /\ engine \in {"none", "passing", "armed"}
    /\ clients \in Nat
    /\ task \in [Procs -> Tasks]
    /\ gone \in [Leaving -> Nat]

ServedInv == ServedType /\ Counts /\ Guarded

-----------------------------------------------------------------------------
\* The processes with a connection are finitely many.
LEMMA ConnectedFinite == IsFiniteSet(Connected) /\ Cardinality(Connected) \in Nat
  <1>1. Connected \subseteq Procs BY DEF Connected
  <1>2. IsFiniteSet(Connected) BY <1>1, ProcsAssumption, FS_Subset
  <1> QED BY <1>2, FS_CardinalityType

\* A connection of a process, or of a peer that is gone, is in the count.
LEMMA SomebodyCounted ==
  ASSUME ServedInv,
         \/ \E p \in Procs : task[p] # "none"
         \/ \E s \in Counted : gone[s] > 0
  PROVE  clients > 0
  <1>1. IsFiniteSet(Connected) /\ Cardinality(Connected) \in Nat BY ConnectedFinite
  <1>2. CASE \E p \in Procs : task[p] # "none"
    <2>1. Connected # {} BY <1>2 DEF Connected
    <2>2. Cardinality(Connected) # 0 BY <1>1, <2>1, FS_EmptySet
    <2>3. Late \in Nat
      BY DEF Late, ServedInv, ServedType, Leaving, Counted, Requests, Halfway
    <2> QED BY <1>1, <2>2, <2>3 DEF ServedInv, Counts
  <1>3. CASE \E s \in Counted : gone[s] > 0
    <2>1. Late > 0
      BY <1>3 DEF Late, ServedInv, ServedType, Leaving, Counted, Requests, Halfway
    <2>2. Late \in Nat
      BY DEF Late, ServedInv, ServedType, Leaving, Counted, Requests, Halfway
    <2> QED BY <1>1, <2>1, <2>2 DEF ServedInv, Counts
  <1> QED BY <1>2, <1>3

\* A step that leaves connected who was connected leaves their number alone.
LEMMA SameConnected ==
  ASSUME ServedType, NEW p \in Procs, NEW s \in Tasks \ {"none"}, task[p] # "none",
         task' = [task EXCEPT ![p] = s]
  PROVE  task' \in [Procs -> Tasks] /\ Connected' = Connected
  BY DEF ServedType, Connected

\* A reader's step of a task, whoever it serves.
LEMMA StoreKeeps ==
  ASSUME NEW s, Store(s)
  PROVE  s \in Requests /\ Read(s) \in Halfway /\ engine' = engine
  BY DEF Store, Read, Requests, Halfway

LEMMA ApplyKeeps ==
  ASSUME ServedType, NEW s, NEW ok \in BOOLEAN, Apply(s, ok)
  PROVE  s \in Halfway /\ engine' \in {"none", "passing", "armed"}
  BY DEF Apply, ServedType

\* A request of a connected process is served: the count stays, and is not zero.
LEMMA TaskStep == ASSUME ServedInv, NEW p \in Procs, Task(p) PROVE ServedInv'
  <1> USE DEF ServedInv
  <1>1. UNCHANGED <<clients, gone>> BY DEF Task
  <1>2. task' \in [Procs -> Tasks] /\ Connected' = Connected /\ task[p] # "none"
        /\ engine' \in {"none", "passing", "armed"}
    <2>1. CASE Store(task[p]) /\ task' = [task EXCEPT ![p] = Read(@)]
      <3>1. task[p] \in Requests /\ Read(task[p]) \in Halfway /\ engine' = engine
        BY <2>1, StoreKeeps
      <3>2. task[p] # "none" /\ Read(task[p]) \in Tasks \ {"none"}
        BY <3>1 DEF Requests, Halfway, Tasks, Counted
      <3> QED BY <2>1, <3>1, <3>2, SameConnected DEF ServedType
    <2>2. ASSUME NEW ok \in BOOLEAN, Apply(task[p], ok),
                 task' = [task EXCEPT ![p] = IF ok THEN "ok" ELSE "failed"]
          PROVE  task' \in [Procs -> Tasks] /\ Connected' = Connected /\ task[p] # "none"
                 /\ engine' \in {"none", "passing", "armed"}
      <3>1. task[p] \in Halfway /\ engine' \in {"none", "passing", "armed"}
        BY <2>2, ApplyKeeps
      <3>2. task[p] # "none" BY <3>1 DEF Halfway
      <3>3. (IF ok THEN "ok" ELSE "failed") \in Tasks \ {"none"} BY DEF Tasks
      <3> QED BY <2>2, <3>1, <3>2, <3>3, SameConnected
    <2> QED BY <2>1, <2>2 DEF Task
  <1>3. clients > 0 BY <1>2, SomebodyCounted
  <1>4. Late' = Late BY <1>1 DEF Late
  <1> QED BY <1>1, <1>2, <1>3, <1>4 DEF ServedType, Counts, Guarded

\* The same for a peer that is gone: its task only moves on among the counted.
LEMMA LateTaskStep == ASSUME ServedInv, NEW s \in Leaving, LateTask(s) PROVE ServedInv'
  <1> USE DEF ServedInv
  <1>1. UNCHANGED <<clients, task>> /\ gone[s] > 0 BY DEF LateTask
  <1>2. /\ s \in Requests \cup Halfway
        /\ engine' \in {"none", "passing", "armed"}
        /\ \E t \in Counted : t # s /\ Move(s, t)
    <2>1. CASE Store(s) /\ Move(s, Read(s))
      <3>1. s \in Requests /\ Read(s) \in Halfway /\ engine' = engine BY <2>1, StoreKeeps
      <3>2. Read(s) # s BY <3>1 DEF Requests, Halfway
      <3> QED BY <2>1, <3>1, <3>2 DEF Counted, ServedType
    <2>2. ASSUME NEW ok \in BOOLEAN, Apply(s, ok), Move(s, "idle")
          PROVE  /\ s \in Requests \cup Halfway
                 /\ engine' \in {"none", "passing", "armed"}
                 /\ \E t \in Counted : t # s /\ Move(s, t)
      <3>1. s \in Halfway /\ engine' \in {"none", "passing", "armed"} BY <2>2, ApplyKeeps
      <3>2. "idle" \in Counted /\ "idle" # s BY <3>1 DEF Counted, Halfway
      <3> QED BY <2>2, <3>1, <3>2
    <2> QED BY <2>1, <2>2 DEF LateTask
  <1>3. PICK t \in Counted : t # s /\ Move(s, t) BY <1>2
  <1>4. s \in Counted BY <1>2 DEF Counted
  <1>5. gone' \in [Leaving -> Nat] /\ Late' = Late
    <2>1. gone \in [Leaving -> Nat] BY DEF ServedType
    <2>2. gone' = [gone EXCEPT ![s] = @ - 1, ![t] = @ + 1] BY <1>3 DEF Move
    <2> QED BY <1>1, <1>3, <1>4, <2>1, <2>2
         DEF Late, Leaving, Counted, Requests, Halfway
  <1>6. clients > 0 BY <1>1, <1>4, SomebodyCounted
  <1>7. Connected' = Connected BY <1>1 DEF Connected
  <1> QED BY <1>1, <1>2, <1>5, <1>6, <1>7 DEF ServedType, Counts, Guarded

\* A connection is let go: either others are left, or this task goes on to look.
LEMMA LeaveStep == ASSUME ServedInv, Leave PROVE ServedInv'
  <1> USE DEF ServedInv
  <1>1. "idle" \in Counted /\ gone["idle"] > 0 BY DEF Leave, Counted
  <1>2. clients > 0 BY <1>1, SomebodyCounted
  <1>3. gone \in [Leaving -> Nat] /\ clients \in Nat BY DEF ServedType
  <1>4. UNCHANGED <<engine, detached, task>> /\ clients' = clients - 1 BY DEF Leave
  <1>5. Connected' = Connected BY <1>4 DEF Connected
  <1>6. CASE clients = 1
    <2>1. gone' = [gone EXCEPT !["idle"] = @ - 1, !["last"] = @ + 1]
      BY <1>6 DEF Leave, WasLast, Move
    <2>2. gone' \in [Leaving -> Nat] /\ Late' = Late - 1 /\ gone'["last"] > 0
      BY <1>1, <1>3, <2>1 DEF Late, Leaving, Counted, Requests, Halfway
    <2>3. Late \in Int BY <1>3 DEF Late, Leaving, Counted, Requests, Halfway
    <2> QED BY <1>2, <1>3, <1>4, <1>5, <2>2, <2>3, ConnectedFinite DEF ServedType, Counts, Guarded
  <1>7. CASE clients # 1
    <2>1. gone' = [gone EXCEPT !["idle"] = @ - 1]
      BY <1>7 DEF Leave, WasLast, Remove
    <2>2. gone' \in [Leaving -> Nat] /\ Late' = Late - 1
      BY <1>1, <1>3, <2>1 DEF Late, Leaving, Counted, Requests, Halfway
    <2>3. Late \in Int BY <1>3 DEF Late, Leaving, Counted, Requests, Halfway
    <2> QED BY <1>2, <1>3, <1>4, <1>5, <1>7, <2>2, <2>3, ConnectedFinite DEF ServedType, Counts, Guarded
  <1> QED BY <1>6, <1>7

\* The last one out, then its disarm; meanwhile others may have come.
LEMMA LastStep == ASSUME ServedInv, LastOut \/ Disarm PROVE ServedInv'
  <1> USE DEF ServedInv
  <1>1. UNCHANGED <<clients, task>> BY DEF LastOut, Disarm
  <1>2. Connected' = Connected BY <1>1 DEF Connected
  <1>3. gone \in [Leaving -> Nat] BY DEF ServedType
  <1>4. CASE LastOut
    <2>1. UNCHANGED <<engine, detached>> /\ gone["last"] > 0 BY <1>4 DEF LastOut
    <2>2. CASE detached
      <3>1. gone' = [gone EXCEPT !["last"] = @ - 1] BY <1>4, <2>2 DEF LastOut, Remove
      <3>2. gone' \in [Leaving -> Nat] /\ Late' = Late
        BY <1>3, <2>1, <3>1 DEF Late, Leaving, Counted, Requests, Halfway
      <3> QED BY <1>1, <1>2, <2>1, <2>2, <3>2 DEF ServedType, Counts, Guarded
    <2>3. CASE ~detached
      <3>1. gone' = [gone EXCEPT !["last"] = @ - 1, !["disarm"] = @ + 1]
        BY <1>4, <2>3 DEF LastOut, Move
      <3>2. gone' \in [Leaving -> Nat] /\ Late' = Late /\ gone'["disarm"] > 0
        BY <1>3, <2>1, <3>1 DEF Late, Leaving, Counted, Requests, Halfway
      <3> QED BY <1>1, <1>2, <2>1, <3>2 DEF ServedType, Counts, Guarded
    <2> QED BY <2>2, <2>3
  <1>5. CASE Disarm
    <2>1. gone' = [gone EXCEPT !["disarm"] = @ - 1] /\ gone["disarm"] > 0
      BY <1>5 DEF Disarm, Remove
    <2>2. engine' \in {"none", "passing"} BY <1>5 DEF Disarm
    <2>3. gone' \in [Leaving -> Nat] /\ Late' = Late
      BY <1>3, <2>1 DEF Late, Leaving, Counted, Requests, Halfway
    <2> QED BY <1>1, <1>2, <2>2, <2>3 DEF ServedType, Counts, Guarded
  <1> QED BY <1>4, <1>5

-----------------------------------------------------------------------------
\* Nobody is counted when the daemon is over.
LEMMA EndedStep == ASSUME Ended PROVE ServedInv'
  <1>1. Connected' = {} BY DEF Ended, Connected
  <1>2. Cardinality(Connected') = 0 BY <1>1, FS_EmptySet
  <1>3. Late' = 0 BY DEF Ended, Nobody, Late, Leaving, Counted, Requests, Halfway
  <1>4. ServedType'
    BY DEF Ended, ServedType, Tasks, Nobody, Leaving
  <1>5. Cardinality(Connected)' = 0 BY <1>2
  <1> QED BY <1>3, <1>4, <1>5 DEF Ended, ServedInv, Counts, Guarded

\* A connection accepted is one more of a process.
LEMMA ConnectStep ==
  ASSUME ServedInv, NEW p \in Procs, task[p] = "none", Connect(p) PROVE ServedInv'
  <1> USE DEF ServedInv
  <1>1. UNCHANGED <<engine, detached, gone>> /\ clients' = clients + 1 BY DEF Connect
  <1>2. task' = [task EXCEPT ![p] = "idle"] BY DEF Connect
  <1>3. task \in [Procs -> Tasks] BY DEF ServedType
  <1>4. task' \in [Procs -> Tasks] BY <1>2, <1>3 DEF Tasks, Counted
  <1>5. Connected' = Connected \cup {p} /\ p \notin Connected
    BY <1>2, <1>3 DEF Connected
  <1>6. Cardinality(Connected \cup {p}) = Cardinality(Connected) + 1
    BY <1>5, ConnectedFinite, FS_AddElement
  <1>7. Cardinality(Connected)' = Cardinality(Connected) + 1 BY <1>5, <1>6
  <1>8. Late' = Late BY <1>1 DEF Late
  <1>9. Late \in Int BY DEF ServedType, Late, Leaving, Counted, Requests, Halfway
  <1>10. clients' \in Nat /\ clients' > 0 BY <1>1 DEF ServedType
  <1> QED BY <1>1, <1>4, <1>7, <1>8, <1>9, <1>10, ConnectedFinite DEF ServedType, Counts, Guarded

\* One given up at once is a connection without a peer, counted as it came.
LEMMA GiveUpStep == ASSUME ServedInv, GiveUp PROVE ServedInv'
  <1> USE DEF ServedInv
  <1>1. UNCHANGED <<engine, detached, task>> /\ clients' = clients + 1
        /\ gone' = [gone EXCEPT !["idle"] = @ + 1]
    BY DEF GiveUp
  <1>2. gone \in [Leaving -> Nat] /\ clients \in Nat BY DEF ServedType
  <1>3. gone' \in [Leaving -> Nat] /\ Late' = Late + 1 /\ Late \in Int
    <2>1. "idle" \in Leaving BY DEF Leaving, Counted
    <2>2. /\ gone' \in [Leaving -> Nat] /\ gone'["idle"] = gone["idle"] + 1
          /\ \A s \in Leaving \ {"idle"} : gone'[s] = gone[s]
      BY <1>1, <1>2, <2>1
    <2>3. \A s \in Leaving : gone[s] \in Nat BY <1>2
    <2> QED BY <2>1, <2>2, <2>3 DEF Late, Leaving, Counted, Requests, Halfway
  <1>4. Connected' = Connected BY <1>1 DEF Connected
  <1>5. clients' \in Nat /\ clients' > 0 BY <1>1, <1>2
  <1> QED BY <1>1, <1>2, <1>3, <1>4, <1>5, ConnectedFinite DEF ServedType, Counts, Guarded

\* A client dropped becomes a connection without a peer, still counted.
LEMMA DropStep == ASSUME ServedInv, NEW p \in Procs, Drop(p) PROVE ServedInv'
  <1> USE DEF ServedInv
  <1>1. UNCHANGED <<engine, detached, clients>> BY DEF Drop
  <1>2. task' = [task EXCEPT ![p] = "none"] BY DEF Drop
  <1>3. task \in [Procs -> Tasks] /\ gone \in [Leaving -> Nat] BY DEF ServedType
  <1>4. task' \in [Procs -> Tasks] BY <1>2, <1>3 DEF Tasks
  <1>5. CASE task[p] = "none"
    <2>1. gone' = gone BY <1>5 DEF Drop
    <2>2. Connected' = Connected BY <1>2, <1>3, <1>5 DEF Connected
    <2>3. Late' = Late BY <2>1 DEF Late
    <2> QED BY <1>1, <1>3, <1>4, <2>1, <2>2, <2>3 DEF ServedType, Counts, Guarded
  <1>6. CASE task[p] # "none"
    <2> DEFINE s == IF task[p] \in {"ok", "failed"} THEN "idle" ELSE task[p]
    <2>1. s \in Counted BY <1>3, <1>6 DEF Tasks, Counted
    <2>2. gone' = [gone EXCEPT ![s] = @ + 1] BY <1>6 DEF Drop
    <2> HIDE DEF s
    <2>3. gone' \in [Leaving -> Nat] /\ Late' = Late + 1
          /\ gone'["last"] = gone["last"] /\ gone'["disarm"] = gone["disarm"]
      BY <1>3, <2>1, <2>2 DEF Late, Leaving, Counted, Requests, Halfway
    <2>4. Connected' = Connected \ {p} /\ p \in Connected BY <1>2, <1>3, <1>6 DEF Connected
    <2>5. Cardinality(Connected \ {p}) = Cardinality(Connected) - 1
      BY <2>4, ConnectedFinite, FS_RemoveElement
    <2>6. Cardinality(Connected)' = Cardinality(Connected) - 1 BY <2>4, <2>5
    <2>7. Late \in Int BY <1>3 DEF Late, Leaving, Counted, Requests, Halfway
    <2>8. Counts' BY <1>1, <2>3, <2>6, <2>7, ConnectedFinite DEF Counts
    <2> QED BY <1>1, <1>4, <2>3, <2>8 DEF ServedType, Guarded
  <1> QED BY <1>5, <1>6

\* A request sent and a reply taken leave the connection where it was.
LEMMA TalkStep ==
  ASSUME ServedInv, NEW p \in Procs, task[p] # "none",
         NEW s \in Tasks \ {"none"}, task' = [task EXCEPT ![p] = s],
         UNCHANGED <<engine, detached, clients, gone>>
  PROVE  ServedInv'
  <1> USE DEF ServedInv
  <1>1. task' \in [Procs -> Tasks] /\ Connected' = Connected BY SameConnected
  <1>2. Late' = Late BY DEF Late
  <1> QED BY <1>1, <1>2 DEF ServedType, Counts, Guarded

LEMMA SendStep ==
  ASSUME ServedInv, NEW p \in Procs, task[p] = "idle", NEW r \in Requests, Send(p, r)
  PROVE  ServedInv'
  <1>1. r \in Tasks \ {"none"} BY DEF Tasks, Counted, Requests
  <1> QED BY <1>1, TalkStep DEF Send

LEMMA TakeReplyStep ==
  ASSUME ServedInv, NEW p \in Procs, task[p] \in {"ok", "failed"}, TakeReply(p)
  PROVE  ServedInv'
  <1>1. "idle" \in Tasks \ {"none"} BY DEF Tasks, Counted
  <1> QED BY <1>1, TalkStep DEF TakeReply

LEMMA QuietStep == ASSUME ServedInv, UNCHANGED served PROVE ServedInv'
  <1>1. Connected' = Connected /\ Late' = Late BY DEF served, Connected, Late
  <1> QED BY <1>1 DEF served, ServedInv, ServedType, Counts, Guarded

-----------------------------------------------------------------------------
\* What a process can do to the daemon in one step.
LEMMA ProcessStep == ASSUME ServedInv, NEW p \in Procs, Process(p) PROVE ServedInv'
  <1>1. CASE \/ \E o \in Calls[p] : Call(p, o)
             \/ Enable(p) \/ Spawn(p) \/ Point(p) \/ Unlock(p) \/ Revert(p) \/ ShutDone(p)
             \/ Launch(p) \/ Reconcile(p) \/ ForceOff(p) \/ Forget(p)
    <2>1. UNCHANGED served
      BY <1>1 DEF Call, Enable, Spawn, Point, Unlock, Revert, ShutDone, Launch, Reconcile,
                  ForceOff, Forget, served
    <2> QED BY <2>1, QuietStep
  <1>2. CASE Reach(p) \/ Await(p) \/ Status(p) \/ Disable(p) \/ Clean(p)
    <2>1. UNCHANGED served \/ GiveUp \/ (task[p] = "none" /\ Connect(p))
      BY <1>2 DEF Reach, Await, Status, Disable, Clean, AdoptToStop, Reaches, Refused
    <2> QED BY <2>1, QuietStep, ConnectStep, GiveUpStep
  <1>3. CASE OustStale(p) \/ Shut(p)
    <2>1. UNCHANGED served \/ GiveUp \/ Ended BY <1>3 DEF OustStale, Shut, Oust, Refused
    <2> QED BY <2>1, QuietStep, EndedStep, GiveUpStep
  <1>4. CASE Arm(p) \/ Unpoint(p) \/ Stop(p) \/ Sweep(p)
    <2>1. UNCHANGED served \/ \E r \in Requests : task[p] = "idle" /\ Send(p, r)
      BY <1>4 DEF Arm, Unpoint, Stop, Sweep, Wants, Requests
    <2> QED BY <2>1, QuietStep, SendStep
  <1>5. CASE Unpointing(p) \/ Stopping(p) \/ Exit(p) \/ Kill(p) \/ Sweeping(p)
    <2>1. Drop(p) BY <1>5 DEF Unpointing, Stopping, Exit, Kill, Sweeping
    <2> QED BY <2>1, DropStep
  <1>6. CASE Arming(p)
    <2>1. (task[p] = "ok" /\ TakeReply(p)) \/ Drop(p) BY <1>6 DEF Arming, Answered
    <2> QED BY <2>1, DropStep, TakeReplyStep
  <1>7. CASE Push(p)
    <2>1. \/ UNCHANGED served \/ GiveUp \/ (task[p] = "none" /\ Connect(p))
          \/ \E r \in Requests : task[p] = "idle" /\ Send(p, r)
      BY <1>7 DEF Push, Reaches, Wants, Requests, Refused
    <2> QED BY <2>1, QuietStep, ConnectStep, SendStep, GiveUpStep
  <1>8. CASE Pushing(p)
    <2>1. UNCHANGED served \/ (task[p] \in {"ok", "failed"} /\ TakeReply(p))
      BY <1>8 DEF Pushing, Answered
    <2> QED BY <2>1, QuietStep, TakeReplyStep
  <1> QED BY <1>1, <1>2, <1>3, <1>4, <1>5, <1>6, <1>7, <1>8 DEF Process

LEMMA DaemonStep == ASSUME ServedInv, Daemon PROVE ServedInv'
  <1>1. CASE \E p \in Procs : Task(p) BY <1>1, TaskStep
  <1>2. CASE \E s \in Leaving : LateTask(s) BY <1>2, LateTaskStep
  <1>3. CASE Leave BY <1>3, LeaveStep
  <1>4. CASE LastOut \/ Disarm BY <1>4, LastStep
  <1>5. CASE DaemonUp
    <2>1. UNCHANGED served BY <1>5 DEF DaemonUp, served
    <2> QED BY <2>1, QuietStep
  <1>6. CASE DaemonDies BY <1>6, EndedStep DEF DaemonDies
  <1>7. CASE EngineDies
    <2>1. UNCHANGED <<clients, task, gone, detached>> /\ engine' = "none"
      BY <1>7 DEF EngineDies
    <2>2. Connected' = Connected /\ Late' = Late BY <2>1 DEF Connected, Late
    <2> QED BY <2>1, <2>2 DEF ServedInv, ServedType, Counts, Guarded
  <1> QED BY <1>1, <1>2, <1>3, <1>4, <1>5, <1>6, <1>7 DEF Daemon

LEMMA ServedInit == Init => ServedInv
  <1> SUFFICES ASSUME Init PROVE ServedInv OBVIOUS
  <1>1. Connected = {} BY DEF Init, Connected
  <1>2. Cardinality(Connected) = 0 BY <1>1, FS_EmptySet
  <1>3. Late = 0 BY DEF Init, Nobody, Late, Leaving, Counted, Requests, Halfway
  <1>4. ServedType BY DEF Init, ServedType, Tasks, Nobody, Leaving
  <1> QED BY <1>2, <1>3, <1>4 DEF Init, ServedInv, Counts, Guarded

\* The count and what it guards stand in every reachable state.
THEOREM Counted_Served == Spec => []ServedInv
  <1>1. ServedInv /\ [Next]_vars => ServedInv'
    <2>1. ASSUME ServedInv, UNCHANGED vars PROVE ServedInv'
      <3>1. UNCHANGED served BY <2>1 DEF vars, served
      <3> QED BY <2>1, <3>1, QuietStep
    <2> QED BY <2>1, ProcessStep, DaemonStep DEF Next
  <1> QED BY <1>1, ServedInit, PTL DEF Spec

\* The daemon never goes on intercepting for nobody (helper.rs:178).
THEOREM NotOrphaned == Spec => []NoOrphanedInterception
  <1>1. ServedInv => NoOrphanedInterception
    <2> SUFFICES ASSUME ServedInv, engine = "armed", ~detached, Connected = {}
                 PROVE  \E s \in Leaving : gone[s] > 0
      BY DEF NoOrphanedInterception
    <2>1. Cardinality(Connected) = 0 BY FS_EmptySet
    <2>2. gone \in [Leaving -> Nat] BY DEF ServedInv, ServedType
    <2>3. CASE gone["last"] > 0 \/ gone["disarm"] > 0 BY <2>3 DEF Leaving
    <2>4. CASE clients > 0
      <3>1. Late \in Int BY <2>2 DEF Late, Leaving, Counted, Requests, Halfway
      <3>2. Late > 0 BY <2>1, <2>4, <3>1 DEF ServedInv, Counts
      <3> QED BY <3>2, <2>2 DEF Late, Leaving, Counted, Requests, Halfway
    <2> QED BY <2>3, <2>4 DEF ServedInv, Guarded
  <1> QED BY <1>1, Counted_Served, PTL

-----------------------------------------------------------------------------
\* The rest of the type invariant: what the processes and the disk hold.
OwnType ==
    /\ dropin \in BOOLEAN /\ snap \in BOOLEAN
    /\ lock \in Procs \cup {"free"}
    /\ held \in [Procs -> BOOLEAN]
    /\ pc \in [Procs -> Labels]
    /\ op \in [Procs -> Operations \cup {"none", "launch"}]

HostType ==
    /\ daemon \in {"down", "starting", "up"}
    /\ build \in {"own", "other", "deaf"}
    /\ detached \in BOOLEAN
    /\ quiet \in Procs \cup {"none"}
    /\ before \in [Procs -> BOOLEAN]

LEMMA GotoType ==
  ASSUME OwnType, NEW p \in Procs, NEW label \in Labels, Goto(p, label)
  PROVE  pc' \in [Procs -> Labels]
  BY DEF OwnType, Goto

LEMMA FinishType ==
  ASSUME OwnType, NEW p \in Procs, Finish(p)
  PROVE  /\ pc' \in [Procs -> Labels] /\ lock' \in Procs \cup {"free"}
         /\ op' \in [Procs -> Operations \cup {"none", "launch"}]
  <1>1. "exit" \in Labels /\ "idle" \in Labels BY DEF Labels
  <1>2. pc' \in [Procs -> Labels] BY <1>1, GotoType DEF Finish
  <1> QED BY <1>2 DEF OwnType, Finish

LEMMA FailedType ==
  ASSUME OwnType, NEW p \in Procs, Failed(p)
  PROVE  /\ pc' \in [Procs -> Labels] /\ lock' \in Procs \cup {"free"}
         /\ op' \in [Procs -> Operations \cup {"none", "launch"}]
  <1>1. CASE op[p] = "launch"
    <2>1. "clean" \in Labels BY DEF Labels
    <2> QED BY <1>1, <2>1, GotoType DEF Failed, OwnType
  <1>2. CASE op[p] # "launch" BY <1>2, FinishType DEF Failed
  <1> QED BY <1>1, <1>2

\* One step of a process leaves its own part well typed, action by action.
LEMMA OwnStep == ASSUME OwnType, NEW p \in Procs, Process(p) PROVE OwnType'
  <1> DEFINE Kept == UNCHANGED <<dropin, snap, lock, held, op>>
  <1> USE DEF Labels
  <1>1. CASE \E o \in Calls[p] : Call(p, o)
    <2>1. PICK o \in Calls[p] : Call(p, o) BY <1>1
    <2>2. o \in Operations BY CallsAssumption
    <2>3. (IF o = "switch" THEN "disable" ELSE o) \in Labels BY <2>2 DEF Operations
    <2>4. pc' \in [Procs -> Labels] BY <2>1, <2>3, GotoType DEF Call
    <2> QED BY <2>1, <2>2, <2>4 DEF OwnType, Call, disk
  <1>2. CASE Reach(p) \/ OustStale(p) \/ Spawn(p) \/ Arm(p) \/ Unpoint(p) \/ Stop(p) \/ Shut(p)
             \/ Sweep(p) \/ Sweeping(p)
    <2>1. Kept BY <1>2 DEF Reach, OustStale, Spawn, Arm, Unpoint, Stop, Shut, Sweep, Sweeping, disk
    <2>2. \E label \in Labels : Goto(p, label)
      BY <1>2 DEF Reach, OustStale, Spawn, Arm, Unpoint, Stop, Shut, Sweep, Sweeping, Oust
    <2> QED BY <2>1, <2>2, GotoType DEF OwnType
  <1>3. CASE Enable(p)
    <2>1. pc' \in [Procs -> Labels] BY <1>3, GotoType DEF Enable
    <2> QED BY <1>3, <2>1 DEF OwnType, Enable
  <1>4. CASE Await(p)
    <2>1. UNCHANGED <<dropin, snap, held>> BY <1>4 DEF Await, disk
    <2>2. CASE Goto(p, "arm") /\ UNCHANGED <<lock, op>>
      BY <2>1, <2>2, GotoType DEF OwnType
    <2>3. CASE Failed(p) BY <2>1, <2>3, FailedType DEF OwnType
    <2>4. CASE UNCHANGED <<pc, lock, op>> BY <2>1, <2>4 DEF OwnType
    <2> QED BY <1>4, <2>2, <2>3, <2>4 DEF Await
  <1>5. CASE Arming(p)
    <2>1. UNCHANGED <<dropin, held>> /\ snap' \in BOOLEAN BY <1>5 DEF Arming, OwnType
    <2>2. CASE Goto(p, "point") /\ UNCHANGED <<lock, op>>
      BY <2>1, <2>2, GotoType DEF OwnType
    <2>3. CASE Failed(p) BY <2>1, <2>3, FailedType DEF OwnType
    <2> QED BY <1>5, <2>2, <2>3 DEF Arming
  <1>6. CASE Point(p)
    <2>1. pc' \in [Procs -> Labels] BY <1>6, GotoType DEF Point
    <2>2. dropin' \in BOOLEAN BY <1>6 DEF Point, OwnType
    <2>3. held' \in [Procs -> BOOLEAN] BY <1>6 DEF Point, OwnType
    <2> QED BY <1>6, <2>1, <2>2, <2>3 DEF OwnType, Point
  <1>7. CASE Unpointing(p)
    <2>1. UNCHANGED <<dropin, held>> /\ snap' \in BOOLEAN /\ Failed(p) BY <1>7 DEF Unpointing
    <2> QED BY <2>1, FailedType DEF OwnType
  <1>8. CASE Unlock(p)
    <2>1. pc' \in [Procs -> Labels] BY <1>8, GotoType DEF Unlock
    <2> QED BY <1>8, <2>1 DEF OwnType, Unlock, disk
  <1>9. CASE Status(p)
    <2>1. held' \in [Procs -> BOOLEAN] BY <1>9, Zenon DEF Status, OwnType
    <2>2. Finish(p) /\ UNCHANGED disk BY <1>9 DEF Status
    <2> QED BY <2>1, <2>2, FinishType DEF OwnType, disk
  <1>10. CASE Push(p)
    <2>1. UNCHANGED disk BY <1>10 DEF Push
    <2>2. CASE Goto(p, "pushing") /\ UNCHANGED <<lock, op, held>>
      BY <2>1, <2>2, GotoType DEF OwnType, disk
    <2>3. CASE held' = [held EXCEPT ![p] = TRUE] /\ UNCHANGED <<pc, lock, op>>
      BY <2>1, <2>3 DEF OwnType, disk
    <2>4. CASE Finish(p) /\ UNCHANGED held
      BY <2>1, <2>4, FinishType DEF OwnType, disk
    <2> QED BY <1>10, <2>2, <2>3, <2>4 DEF Push
  <1>11. CASE Pushing(p) \/ ShutDone(p)
    <2>1. Finish(p) /\ UNCHANGED <<disk, held>> BY <1>11 DEF Pushing, ShutDone
    <2> QED BY <2>1, FinishType DEF OwnType, disk
  <1>12. CASE Disable(p) \/ Clean(p)
    <2>1. held' = [held EXCEPT ![p] = FALSE] /\ UNCHANGED <<disk, lock, op>>
      BY <1>12 DEF Disable, Clean, AdoptToStop
    <2>2. pc' \in [Procs -> Labels] BY <1>12, GotoType DEF Disable, Clean
    <2> QED BY <2>1, <2>2 DEF OwnType, disk
  <1>13. CASE Revert(p)
    <2>1. pc' \in [Procs -> Labels] BY <1>13, GotoType DEF Revert
    <2>2. dropin' \in BOOLEAN BY <1>13 DEF Revert, OwnType
    <2>3. op' \in [Procs -> Operations \cup {"none", "launch"}]
      BY <1>13 DEF Revert, OwnType, Operations
    <2> QED BY <1>13, <2>1, <2>2, <2>3 DEF OwnType, Revert
  <1>14. CASE Stopping(p)
    <2>1. UNCHANGED <<dropin, held>> /\ snap' \in BOOLEAN BY <1>14 DEF Stopping
    <2>2. CASE Goto(p, "shut") /\ UNCHANGED <<lock, op>>
      BY <2>1, <2>2, GotoType DEF OwnType
    <2>3. CASE Finish(p) BY <2>1, <2>3, FinishType DEF OwnType
    <2> QED BY <1>14, <2>2, <2>3 DEF Stopping
  <1>15. CASE Exit(p)
    <2>1. pc' \in [Procs -> Labels] BY <1>15, GotoType DEF Exit
    <2> QED BY <1>15, <2>1 DEF OwnType, Exit, disk
  <1>16. CASE Kill(p)
    <2>1. (IF p \in Cli THEN "idle" ELSE "down") \in Labels OBVIOUS
    <2>2. pc' \in [Procs -> Labels] BY <1>16, <2>1, GotoType DEF Kill
    <2> QED BY <1>16, <2>2 DEF OwnType, Kill, disk
  <1>17. CASE Launch(p)
    <2>1. pc' \in [Procs -> Labels] BY <1>17, GotoType DEF Launch
    <2> QED BY <1>17, <2>1 DEF OwnType, Launch, disk
  <1>18. CASE Reconcile(p)
    <2>1. UNCHANGED <<disk, held>> BY <1>18 DEF Reconcile
    <2>2. CASE Finish(p) BY <2>1, <2>2, FinishType DEF OwnType, disk
    <2>3. CASE \E label \in Labels : Goto(p, label) /\ UNCHANGED op /\ lock' \in {p, lock}
      BY <2>1, <2>3, GotoType DEF OwnType, disk
    <2> QED BY <1>18, <2>2, <2>3 DEF Reconcile
  <1>19. CASE ForceOff(p)
    <2>1. UNCHANGED <<snap, held>> /\ dropin' \in BOOLEAN BY <1>19 DEF ForceOff, OwnType
    <2>2. CASE Goto(p, "forget") /\ UNCHANGED <<lock, op>>
      BY <2>1, <2>2, GotoType DEF OwnType
    <2>3. CASE Finish(p) BY <2>1, <2>3, FinishType DEF OwnType
    <2> QED BY <1>19, <2>2, <2>3 DEF ForceOff
  <1>20. CASE Forget(p)
    <2>1. UNCHANGED <<dropin, held>> /\ snap' \in BOOLEAN /\ Finish(p) BY <1>20 DEF Forget
    <2> QED BY <2>1, FinishType DEF OwnType
  <1> QED BY <1>1, <1>2, <1>3, <1>4, <1>5, <1>6, <1>7, <1>8, <1>9, <1>10, <1>11, <1>12, <1>13,
             <1>14, <1>15, <1>16, <1>17, <1>18, <1>19, <1>20 DEF Process

\* The daemon's own steps leave the processes and the disk alone.
LEMMA OwnDaemonStep == ASSUME OwnType, Daemon PROVE OwnType'
  <1>1. UNCHANGED <<dropin, snap, lock, held, pc, op>>
    BY DEF Daemon, Task, LateTask, Leave, LastOut, Disarm, DaemonUp, DaemonDies, EngineDies
  <1> QED BY <1>1 DEF OwnType

LEMMA EndedHost ==
  ASSUME Ended
  PROVE  /\ daemon' = "down" /\ build' = "own" /\ detached' \in BOOLEAN
         /\ before' \in [Procs -> BOOLEAN]
  BY DEF Ended

\* The daemon's steps on its own state.
LEMMA HostDaemonStep == ASSUME HostType, Daemon PROVE HostType'
  <1>1. CASE \E p \in Procs : Task(p)
    <2>1. detached' \in BOOLEAN BY <1>1 DEF Task, Store, Apply, HostType
    <2> QED BY <1>1, <2>1 DEF Task, HostType
  <1>2. CASE \E s \in Leaving : LateTask(s)
    <2>1. detached' \in BOOLEAN BY <1>2 DEF LateTask, Store, Apply, HostType
    <2> QED BY <1>2, <2>1 DEF LateTask, HostType
  <1>3. CASE Leave \/ LastOut \/ Disarm \/ DaemonUp
    BY <1>3 DEF Leave, LastOut, Disarm, DaemonUp, HostType
  <1>4. CASE DaemonDies BY <1>4, EndedHost DEF DaemonDies, HostType
  <1>5. CASE EngineDies
    <2>1. before' \in [Procs -> BOOLEAN] BY <1>5 DEF EngineDies
    <2> QED BY <1>5, <2>1 DEF EngineDies, HostType
  <1> QED BY <1>1, <1>2, <1>3, <1>4, <1>5 DEF Daemon

\* A process's steps on the daemon's state and on the history.
LEMMA HostProcessStep == ASSUME HostType, NEW p \in Procs, Process(p) PROVE HostType'
  <1>1. CASE \/ Enable(p) \/ Reach(p) \/ Await(p) \/ Arm(p) \/ Arming(p) \/ Point(p)
             \/ Unpoint(p) \/ Unpointing(p) \/ Unlock(p) \/ Status(p) \/ Push(p) \/ Pushing(p)
             \/ Disable(p) \/ Revert(p) \/ Stop(p) \/ Stopping(p) \/ ShutDone(p) \/ Exit(p)
             \/ Reconcile(p) \/ Clean(p) \/ Sweep(p) \/ Sweeping(p) \/ Forget(p)
    <2>1. UNCHANGED <<host, history>>
      BY <1>1 DEF Enable, Reach, Await, Arm, Arming, Point, Unpoint, Unpointing, Unlock, Status,
                  Push, Pushing, Disable, Revert, Stop, Stopping, ShutDone, Exit, Reconcile, Clean,
                  Sweep, Sweeping, Forget, history
    <2>2. UNCHANGED detached
      BY <1>1 DEF Enable, Reach, Await, Arm, Arming, Point, Unpoint, Unpointing, Unlock, Status,
                  Push, Pushing, Disable, Revert, Stop, Stopping, ShutDone, Exit, Reconcile, Clean,
                  Sweep, Sweeping, Forget, served, Connect, Drop, Send, TakeReply, AdoptToStop,
                  Refused, GiveUp
    <2> QED BY <2>1, <2>2 DEF HostType, host, history
  <1>2. CASE OustStale(p) \/ Shut(p)
    <2>1. UNCHANGED quiet BY <1>2 DEF OustStale, Shut
    <2>2. CASE Ended BY <2>1, <2>2, EndedHost DEF HostType
    <2>3. CASE UNCHANGED <<host, detached>> /\ (UNCHANGED before \/ Excused(p))
      BY <2>1, <2>3 DEF HostType, host, Excused
    <2> QED BY <1>2, <2>2, <2>3 DEF OustStale, Shut, Oust, Refused, GiveUp, served
  <1>3. CASE Spawn(p)
    <2>1. daemon' \in {"down", "starting", "up"} BY <1>3 DEF Spawn, HostType
    <2> QED BY <1>3, <2>1 DEF Spawn, HostType, served, history
  <1>4. CASE \E o \in Calls[p] : Call(p, o)
    <2>1. PICK o \in Calls[p] : Call(p, o) BY <1>4
    <2>2. (o = "switch" /\ engine # "none") \in BOOLEAN OBVIOUS
    <2>3. before' \in [Procs -> BOOLEAN] BY <2>1, <2>2, Zenon DEF Call, HostType
    <2> QED BY <2>1, <2>3 DEF Call, HostType, host, served
  <1>5. CASE Kill(p)
    <2>1. before' \in [Procs -> BOOLEAN] BY <1>5 DEF Kill, HostType
    <2>2. UNCHANGED detached BY <1>5 DEF Kill, Drop
    <2> QED BY <1>5, <2>1, <2>2 DEF Kill, HostType, host
  <1>6. CASE Launch(p) BY <1>6 DEF Launch, HostType, host, served
  <1>7. CASE ForceOff(p)
    <2>1. quiet' \in Procs \cup {"none"} BY <1>7 DEF ForceOff, HostType
    <2> QED BY <1>7, <2>1 DEF ForceOff, HostType, host, served
  <1> QED BY <1>1, <1>2, <1>3, <1>4, <1>5, <1>6, <1>7 DEF Process

\* The type invariant of the helper daemon and of the processes around it.
THEOREM TypeCorrect == Spec => []TypeOK
  <1> DEFINE Inv == OwnType /\ HostType
  <1>1. Init => Inv
    <2> SUFFICES ASSUME Init PROVE Inv OBVIOUS
    <2>1. OwnType BY DEF Init, OwnType, Labels, Operations
    <2>2. HostType BY DEF Init, HostType
    <2> QED BY <2>1, <2>2
  <1>2. Inv /\ [Next]_vars => Inv'
    <2>1. CASE UNCHANGED vars BY <2>1 DEF vars, OwnType, HostType
    <2>2. CASE Daemon BY <2>2, OwnDaemonStep, HostDaemonStep
    <2>3. CASE \E p \in Procs : Process(p) BY <2>3, OwnStep, HostProcessStep
    <2> QED BY <2>1, <2>2, <2>3 DEF Next
  <1>3. Inv /\ ServedInv => TypeOK
    BY DEF OwnType, HostType, ServedInv, ServedType, TypeOK, Tasks
  <1> QED BY <1>1, <1>2, <1>3, Counted_Served, PTL DEF Spec

-----------------------------------------------------------------------------
(* What a shutdown has ended.  An engine is one of a daemon that is up, and *)
(* the end of the daemon is the end of every engine a shutdown met.         *)

Living == engine # "none" => daemon = "up"
Met    == \A p \in Procs : (before[p] => daemon = "up") /\ (At(p, "shutDone") => ~before[p])

EndInv == OwnType /\ HostType /\ Living /\ Met

LEMMA EndedEnds == ASSUME Ended PROVE Living' /\ \A p \in Procs : ~before'[p]
  BY DEF Ended, Living

LEMMA EndDaemonStep == ASSUME EndInv, Daemon PROVE Living' /\ Met'
  <1>1. UNCHANGED pc BY DEF Daemon, Task, LateTask, Leave, LastOut, Disarm, DaemonUp, DaemonDies, EngineDies
  <1>2. CASE (\E p \in Procs : Task(p)) \/ (\E s \in Leaving : LateTask(s)) \/ Disarm
    <2>1. daemon = "up" /\ UNCHANGED <<daemon, before>> BY <1>2 DEF Task, LateTask, Disarm
    <2> QED BY <1>1, <2>1 DEF EndInv, Living, Met, At
  <1>3. CASE Leave \/ LastOut \/ DaemonUp
    <2>1. daemon' \in {daemon, "up"} /\ UNCHANGED <<engine, before>>
      BY <1>3 DEF Leave, LastOut, DaemonUp
    <2> QED BY <1>1, <2>1 DEF EndInv, Living, Met, At
  <1>4. CASE DaemonDies
    BY <1>1, <1>4, EndedEnds DEF DaemonDies, Met, At
  <1>5. CASE EngineDies
    BY <1>1, <1>5 DEF EngineDies, Living, Met, At
  <1> QED BY <1>2, <1>3, <1>4, <1>5 DEF Daemon

LEMMA EndProcessStep == ASSUME EndInv, NEW p \in Procs, Process(p) PROVE Living' /\ Met'
  <1> DEFINE Aside == UNCHANGED <<engine, daemon>> /\ before' = before
  <1>1. ASSUME Aside, NEW label \in Labels \ {"shutDone"}, Goto(p, label) \/ pc' = pc
        PROVE  Living' /\ Met'
    <2>1. \A q \in Procs : At(q, "shutDone")' => At(q, "shutDone")
      BY <1>1 DEF EndInv, OwnType, Goto, At
    <2> QED BY <1>1, <2>1 DEF EndInv, Living, Met
  <1>2. ASSUME Finish(p)
        PROVE  \E label \in Labels \ {"shutDone"} : Goto(p, label)
    BY <1>2 DEF Finish, Labels
  <1>3. ASSUME Failed(p)
        PROVE  \E label \in Labels \ {"shutDone"} : Goto(p, label)
    BY <1>2, <1>3 DEF Failed, Labels
  <1>4. CASE \/ Enable(p) \/ Reach(p) \/ Arm(p) \/ Point(p) \/ Unpoint(p) \/ Unlock(p) \/ Disable(p)
             \/ Revert(p) \/ Stop(p) \/ Exit(p) \/ Clean(p) \/ Sweep(p) \/ Sweeping(p)
    <2>1. Aside
      BY <1>4 DEF Enable, Reach, Arm, Point, Unpoint, Unlock, Disable, Revert, Stop, Exit, Clean,
                  Sweep, Sweeping, host, served, history, Connect, Send, Drop, AdoptToStop, Refused,
                  GiveUp
    <2>2. \E label \in Labels \ {"shutDone"} : Goto(p, label)
      BY <1>4 DEF Enable, Reach, Arm, Point, Unpoint, Unlock, Disable, Revert, Stop, Exit, Clean,
                  Sweep, Sweeping, Labels
    <2> QED BY <1>1, <2>1, <2>2
  <1>5. CASE \/ Await(p) \/ Arming(p) \/ Unpointing(p) \/ Status(p) \/ Push(p) \/ Pushing(p)
             \/ Stopping(p) \/ ShutDone(p) \/ Reconcile(p) \/ ForceOff(p) \/ Forget(p)
    <2>1. Aside
      BY <1>5 DEF Await, Arming, Unpointing, Status, Push, Pushing, Stopping, ShutDone, Reconcile,
                  ForceOff, Forget, host, served, history, Connect, Send, TakeReply, Drop, Refused,
                  GiveUp
    <2>2. \/ Finish(p) \/ Failed(p) \/ UNCHANGED pc
          \/ \E label \in Labels \ {"shutDone"} : Goto(p, label)
      BY <1>5 DEF Await, Arming, Unpointing, Status, Push, Pushing, Stopping, ShutDone, Reconcile,
                  ForceOff, Forget, Labels
    <2>3. "idle" \in Labels \ {"shutDone"} BY DEF Labels
    <2> QED BY <1>1, <1>2, <1>3, <2>1, <2>2, <2>3
  <1>6. CASE OustStale(p) \/ Shut(p)
    <2>1. \/ Ended
          \/ daemon # "up" /\ UNCHANGED <<host, served, before>>
          \/ /\ GiveUp /\ Excused(p) /\ UNCHANGED host
             /\ \E label \in {"spawn", "shutDone"} : Goto(p, label)
      BY <1>6 DEF OustStale, Shut, Oust, Refused
    <2>2. CASE Ended
      BY <2>2, EndedEnds DEF Met
    <2>3. CASE daemon # "up" /\ UNCHANGED <<host, served, before>>
      <3>1. \A q \in Procs : ~before'[q] BY <2>3 DEF EndInv, Met
      <3>2. Living' BY <2>3 DEF EndInv, Living, host, served
      <3> QED BY <3>1, <3>2 DEF Met
    <2>4. CASE GiveUp /\ Excused(p) /\ UNCHANGED host /\ \E label \in {"spawn", "shutDone"} : Goto(p, label)
      <3>1. UNCHANGED <<engine, daemon>> BY <2>4 DEF GiveUp, host
      <3>2. ~before'[p] /\ \A q \in Procs \ {p} : before'[q] = before[q]
        BY <2>4 DEF Excused, EndInv, HostType
      <3>3. \A q \in Procs \ {p} : At(q, "shutDone")' => At(q, "shutDone")
        BY <2>4 DEF EndInv, OwnType, Goto, At
      <3> QED BY <3>1, <3>2, <3>3 DEF EndInv, Living, Met
    <2> QED BY <2>1, <2>2, <2>3, <2>4
  <1>7. CASE Spawn(p)
    <2>1. /\ UNCHANGED <<engine, before>> /\ daemon' = IF daemon = "down" THEN "starting" ELSE daemon
          /\ Goto(p, "await")
      BY <1>7 DEF Spawn, served, history
    <2>2. \A q \in Procs : At(q, "shutDone")' => At(q, "shutDone")
      BY <2>1 DEF EndInv, OwnType, Goto, At
    <2> QED BY <2>1, <2>2 DEF EndInv, Living, Met
  <1>8. CASE \E o \in Calls[p] : Call(p, o)
    <2>1. PICK o \in Calls[p] : Call(p, o) BY <1>8
    <2>2. o \in Operations BY CallsAssumption
    <2>3. \A q \in Procs : At(q, "shutDone")' => At(q, "shutDone") /\ q # p
      BY <2>1, <2>2 DEF EndInv, OwnType, Call, Goto, At, Operations
    <2>4. UNCHANGED <<engine, daemon>> BY <2>1 DEF Call, host, served
    <2>5. /\ before'[p] => engine # "none"
          /\ \A q \in Procs \ {p} : before'[q] = before[q]
      BY <2>1, Zenon DEF Call, EndInv, HostType
    <2> QED BY <2>3, <2>4, <2>5 DEF EndInv, Living, Met
  <1>9. CASE Kill(p)
    <2>1. UNCHANGED <<engine, daemon>> BY <1>9 DEF Kill, host, Drop
    <2>2. \A q \in Procs : At(q, "shutDone")' => At(q, "shutDone")
      BY <1>9 DEF EndInv, OwnType, Kill, Goto, At
    <2>3. \A q \in Procs : before'[q] => before[q] BY <1>9 DEF Kill, EndInv, HostType
    <2> QED BY <2>1, <2>2, <2>3 DEF EndInv, Living, Met
  <1>10. CASE Launch(p)
    <2>1. Aside /\ Goto(p, "reconcile") /\ "reconcile" \in Labels \ {"shutDone"}
      BY <1>10 DEF Launch, host, served, Labels
    <2> QED BY <1>1, <2>1
  <1> QED BY <1>4, <1>5, <1>6, <1>7, <1>8, <1>9, <1>10 DEF Process

LEMMA EndInit == Init => EndInv
  <1> SUFFICES ASSUME Init PROVE EndInv OBVIOUS
  <1>1. OwnType BY DEF Init, OwnType, Labels, Operations
  <1>2. HostType BY DEF Init, HostType
  <1> QED BY <1>1, <1>2 DEF Init, EndInv, Living, Met

LEMMA EndNext == ASSUME EndInv, [Next]_vars PROVE EndInv'
  <1>1. CASE UNCHANGED vars BY <1>1 DEF vars, EndInv, OwnType, HostType, Living, Met, At
  <1>2. CASE Daemon BY <1>2, OwnDaemonStep, HostDaemonStep, EndDaemonStep DEF EndInv
  <1>3. CASE \E p \in Procs : Process(p) BY <1>3, OwnStep, HostProcessStep, EndProcessStep DEF EndInv
  <1> QED BY <1>1, <1>2, <1>3 DEF Next

\* A shutdown for which shutdown_engine answers Ok has ended the engine it met,
\* whoever's build its daemon is of: ensure_daemon_gone waits for the process, not for
\* an answer (manager_linux.rs:288).  Not so where this shutdown itself could not ask
\* the daemon or could not kill it.
THEOREM EngineEnded == Spec => []ShutdownEnds
  <1>1. EndInv => ShutdownEnds BY DEF EndInv, Met, ShutdownEnds
  <1>2. EndInv /\ [Next]_vars => EndInv' BY EndNext
  <1> QED BY EndInit, <1>1, <1>2, PTL DEF Spec

-----------------------------------------------------------------------------
(* What a launch has healed.  While nothing disturbs it, it goes ahead with *)
(* the snapshot there, until the drop-in names an engine that runs; or it   *)
(* goes back, and the drop-in is gone before the snapshot is.               *)

Ahead == {"reconcile", "enable", "reach", "oust", "spawn", "await", "arm", "arming", "point"}
Back  == {"unpoint", "unpointing", "clean", "sweep", "sweeping", "forceOff", "forget"}
Done  == {"unlock", "status", "idle"}

Heals(p) == quiet = p =>
    /\ p \notin Cli
    /\ \A q \in Procs \ {p} : pc[q] \in {"down", "idle"}
    /\ pc[p] \in Ahead \cup Back \cup Done
    /\ pc[p] = "idle" \/ op[p] = "launch"
    /\ pc[p] \in {"reconcile", "enable"} => ~held[p]
    /\ pc[p] \in Ahead => snap
    /\ pc[p] = "arm" => task[p] \in {"idle", "none"}
    /\ pc[p] = "arming" => /\ task[p] \in {"arm", "arm2", "ok", "failed", "none"}
                           /\ task[p] = "ok" => engine # "none"
    /\ pc[p] = "point" => engine # "none"
    /\ pc[p] \in Done /\ dropin => snap /\ engine # "none"
    /\ pc[p] = "forget" => ~dropin

Resting == \A p \in Procs : At(p, "down") => ~held[p]

HealInv == OwnType /\ HostType /\ ServedType /\ Resting /\ \A p \in Procs : Heals(p)

LEMMA HealDaemonStep ==
  ASSUME HealInv, Daemon, NEW p \in Procs
  PROVE  Heals(p)'
  <1> SUFFICES ASSUME quiet' = p PROVE Heals(p)'
    BY DEF Heals
  <1>1. p # "none" BY QuietAssumption
  <1>2. ~DaemonDies /\ ~EngineDies BY <1>1 DEF DaemonDies, EngineDies
  <1>3. UNCHANGED <<dropin, snap, held, pc, op, quiet>>
    BY <1>2 DEF Daemon, Task, LateTask, Leave, LastOut, Disarm, DaemonUp
  <1>4. engine # "none" => engine' # "none"
    BY <1>2 DEF Daemon, Task, LateTask, Leave, LastOut, Disarm, DaemonUp, Store, Apply
  <1>5. Heals(p) /\ quiet = p /\ task \in [Procs -> Tasks] BY <1>3 DEF HealInv, ServedType
  <1>6. task'[p] = task[p] \/ Task(p)
    BY <1>2, <1>5 DEF Daemon, Task, LateTask, Leave, LastOut, Disarm, DaemonUp
  <1>7. pc[p] = "arm" => task'[p] \in {"idle", "none"}
    <2> SUFFICES ASSUME pc[p] = "arm", Task(p) PROVE FALSE
      BY <1>5, <1>6 DEF Heals
    <2>1. task[p] \in Requests \cup Halfway BY DEF Task, Store, Apply
    <2> QED BY <1>5, <2>1 DEF Heals, Requests, Halfway
  <1>8. pc[p] = "arming" => /\ task'[p] \in {"arm", "arm2", "ok", "failed", "none"}
                            /\ task'[p] = "ok" => engine' # "none"
    <2> SUFFICES ASSUME pc[p] = "arming"
                 PROVE  /\ task'[p] \in {"arm", "arm2", "ok", "failed", "none"}
                        /\ task'[p] = "ok" => engine' # "none"
      OBVIOUS
    <2>1. task[p] \in {"arm", "arm2", "ok", "failed", "none"} /\ (task[p] = "ok" => engine # "none")
      BY <1>5 DEF Heals
    <2>2. CASE task'[p] = task[p] BY <1>4, <2>1, <2>2
    <2>3. CASE Task(p)
      <3>1. CASE Store(task[p]) /\ task' = [task EXCEPT ![p] = Read(@)]
        BY <1>5, <2>1, <3>1 DEF Store, Read, Requests
      <3>2. ASSUME NEW ok \in BOOLEAN, Apply(task[p], ok), task' = [task EXCEPT ![p] = IF ok THEN "ok" ELSE "failed"]
            PROVE  task'[p] \in {"ok", "failed"} /\ (task'[p] = "ok" => engine' # "none")
        <4>1. task[p] = "arm2" BY <2>1, <3>2 DEF Apply, Halfway
        <4>2. ok => engine' = "armed" BY <3>2, <4>1 DEF Apply
        <4> QED BY <1>5, <3>2, <4>2
      <3> QED BY <2>3, <3>1, <3>2 DEF Task
    <2> QED BY <1>6, <2>2, <2>3
  <1> QED BY <1>3, <1>4, <1>5, <1>7, <1>8 DEF Heals

\* Nobody else takes a step that leaves the launch undisturbed.
LEMMA OthersDisturb ==
  ASSUME HealInv, NEW p \in Procs, NEW q \in Procs \ {p}, Process(q), quiet' = p
  PROVE  FALSE
  <1>1. p # "none" BY QuietAssumption
  <1>2. CASE quiet = p
    <2>1. pc[q] \in {"down", "idle"} BY <1>2 DEF HealInv, Heals
    <2>2. (\E o \in Calls[q] : Call(q, o)) \/ Kill(q) \/ Launch(q)
      BY <2>1 DEF Process, At, Enable, Reach, OustStale, Spawn, Await, Arm, Arming, Point, Unpoint,
                  Unpointing, Unlock, Status, Push, Pushing, Disable, Revert, Stop, Stopping, Shut,
                  ShutDone, Exit, Reconcile, Clean, Sweep, Sweeping, ForceOff, Forget
    <2> QED BY <1>1, <2>2 DEF Call, Kill, Launch
  <1>3. CASE quiet # p
    <2>1. quiet' \in {quiet, "none", q}
      BY DEF Process, Call, Enable, Reach, OustStale, Spawn, Await, Arm, Arming, Point, Unpoint,
             Unpointing, Unlock, Status, Push, Pushing, Disable, Revert, Stop, Stopping, Shut, ShutDone,
             Exit, Kill, Launch, Reconcile, Clean, Sweep, Sweeping, ForceOff, Forget, history
    <2> QED BY <1>1, <1>3, <2>1
  <1> QED BY <1>2, <1>3

\* Its own steps, label by label.
LEMMA HealOwnStep ==
  ASSUME HealInv, NEW p \in Procs, Process(p), quiet' = p
  PROVE  Heals(p)'
  <1>1. p # "none" BY QuietAssumption
  <1>2. /\ pc \in [Procs -> Labels] /\ op \in [Procs -> Operations \cup {"none", "launch"}]
        /\ held \in [Procs -> BOOLEAN] /\ task \in [Procs -> Tasks]
    BY DEF HealInv, OwnType, ServedType
  <1>3. \A label \in Labels : Goto(p, label) => pc'[p] = label /\ \A q \in Procs \ {p} : pc'[q] = pc[q]
    BY <1>2 DEF Goto
  <1> USE DEF Labels
  <1>4. CASE Launch(p)
    <2>1. pc'[p] = "reconcile" /\ op'[p] = "launch" /\ \A q \in Procs \ {p} : pc'[q] = pc[q]
      BY <1>2, <1>3, <1>4 DEF Launch
    <2>2. snap' /\ p \notin Cli /\ \A q \in Procs \ {p} : pc[q] \in {"down", "idle"}
      BY <1>1, <1>4 DEF Launch, disk
    <2>3. ~held'[p] BY <1>4 DEF Launch, HealInv, Resting
    <2> QED BY <2>1, <2>2, <2>3 DEF Heals, Ahead, Done
  <1>5. CASE quiet = p
    <2>1. /\ p \notin Cli /\ \A q \in Procs \ {p} : pc[q] \in {"down", "idle"}
          /\ pc[p] \in Ahead \cup Back \cup Done
          /\ pc[p] = "idle" \/ op[p] = "launch"
          /\ pc[p] \in {"reconcile", "enable"} => ~held[p]
          /\ pc[p] \in Ahead => snap
          /\ pc[p] = "arm" => task[p] \in {"idle", "none"}
          /\ pc[p] = "arming" => /\ task[p] \in {"arm", "arm2", "ok", "failed", "none"}
                                 /\ task[p] = "ok" => engine # "none"
          /\ pc[p] = "point" => engine # "none"
          /\ pc[p] \in Done /\ dropin => snap /\ engine # "none"
          /\ pc[p] = "forget" => ~dropin
      BY <1>5 DEF HealInv, Heals
    <2>2. Finish(p) => pc'[p] = "idle" /\ \A q \in Procs \ {p} : pc'[q] = pc[q]
      BY <1>3, <2>1 DEF Finish
    <2>3. pc[p] # "idle" /\ Failed(p) =>
            pc'[p] = "clean" /\ op' = op /\ \A q \in Procs \ {p} : pc'[q] = pc[q]
      BY <1>3, <2>1 DEF Failed
    <2>4. CASE Enable(p)
      BY <1>3, <2>1, <2>4 DEF Enable, At, Heals, Ahead, Done
    <2>5. CASE Reach(p) \/ Await(p)
      <3>2. pc[p] \in {"reach", "await"} /\ UNCHANGED <<dropin, snap, held>>
        BY <2>5 DEF Reach, Await, At, disk
      <3>3. CASE Connect(p) /\ Goto(p, "arm") /\ op' = op
        BY <1>2, <1>3, <2>1, <3>2, <3>3 DEF Connect, Heals, Ahead, Done
      <3>4. CASE \E label \in {"oust", "spawn"} : Goto(p, label) /\ op' = op
        BY <1>3, <2>1, <3>2, <3>4 DEF Heals, Ahead, Done
      <3>5. CASE Failed(p)
        BY <2>1, <2>3, <3>2, <3>5 DEF Heals, Ahead, Back, Done
      <3>6. CASE UNCHANGED <<pc, op>>
        BY <1>2, <2>1, <3>2, <3>6 DEF Heals, Ahead, Done
      <3> QED BY <2>5, <3>3, <3>4, <3>5, <3>6 DEF Reach, Await
    <2>6. CASE OustStale(p) \/ Spawn(p)
      <3>1. /\ pc[p] \in {"oust", "spawn"} /\ UNCHANGED <<dropin, snap, held, op>>
            /\ \E label \in {"spawn", "await"} : Goto(p, label)
        BY <2>6 DEF OustStale, Oust, Spawn, At, disk
      <3> QED BY <1>3, <2>1, <3>1 DEF Heals, Ahead, Done
    <2>7. CASE Arm(p)
      <3>1. /\ pc[p] = "arm" /\ UNCHANGED <<dropin, snap, held, op>> /\ Goto(p, "arming")
            /\ task' = [task EXCEPT ![p] = "arm"] \/ (task' = task /\ task[p] # "idle")
        BY <2>1, <2>7 DEF Arm, At, disk, Send, Wants, served
      <3>2. task'[p] \in {"arm", "none"} BY <1>2, <2>1, <3>1
      <3> QED BY <1>3, <2>1, <3>1, <3>2 DEF Heals, Ahead, Done
    <2>8. CASE Arming(p)
      <3>1. pc[p] = "arming" /\ UNCHANGED <<dropin, held>>
        BY <2>8 DEF Arming, At
      <3>2. CASE Answered(p, "ok") /\ TakeReply(p) /\ Goto(p, "point") /\ UNCHANGED <<snap, lock, op>>
        BY <1>3, <2>1, <3>1, <3>2 DEF Answered, TakeReply, Heals, Ahead, Done
      <3>3. CASE Failed(p)
        BY <2>1, <2>3, <3>1, <3>3 DEF Heals, Ahead, Back, Done
      <3> QED BY <2>8, <3>2, <3>3 DEF Arming
    <2>9. CASE Point(p)
      <3>1. pc[p] = "point" /\ UNCHANGED <<snap, op, engine>> /\ \E label \in {"unlock", "unpoint"} : Goto(p, label)
        BY <2>9 DEF Point, At, served
      <3> QED BY <1>3, <2>1, <3>1 DEF Heals, Ahead, Back, Done
    <2>10. CASE Unpoint(p) \/ Sweep(p) \/ Sweeping(p) \/ Clean(p)
      <3>1. /\ pc[p] \in {"unpoint", "clean", "sweep", "sweeping"} /\ op' = op
            /\ \E label \in {"unpointing", "sweep", "sweeping", "forceOff"} : Goto(p, label)
        BY <2>10 DEF Unpoint, Sweep, Sweeping, Clean, At
      <3> QED BY <1>3, <2>1, <3>1 DEF Heals, Ahead, Back, Done
    <2>11. CASE Unpointing(p)
      <3>1. pc[p] = "unpointing" /\ Failed(p) BY <2>11 DEF Unpointing, At
      <3> QED BY <2>1, <2>3, <3>1 DEF Heals, Ahead, Back, Done
    <2>12. CASE Unlock(p) \/ Status(p)
      <3>1. pc[p] \in {"unlock", "status"} /\ UNCHANGED <<dropin, snap, engine>>
        BY <2>12 DEF Unlock, Status, At, disk, served, Connect, Refused, GiveUp
      <3>2. (Goto(p, "status") /\ op' = op) \/ Finish(p)
        BY <2>12 DEF Unlock, Status
      <3> QED BY <1>3, <2>1, <2>2, <3>1, <3>2 DEF Heals, Ahead, Done
    <2>13. CASE Reconcile(p)
      <3>1. pc[p] = "reconcile" /\ UNCHANGED <<dropin, snap, held>> /\ snap
        BY <2>1, <2>13 DEF Reconcile, At, disk, Ahead
      <3>2. op' = op /\ \E label \in {"enable", "clean"} : Goto(p, label)
        BY <2>13, <3>1 DEF Reconcile
      <3> QED BY <1>3, <2>1, <3>1, <3>2 DEF Heals, Ahead, Back, Done
    <2>14. CASE ForceOff(p)
      <3>1. dropin' = FALSE /\ Goto(p, "forget") /\ op' = op /\ pc[p] = "forceOff"
        BY <1>1, <2>14 DEF ForceOff, At
      <3> QED BY <1>3, <2>1, <3>1 DEF Heals, Ahead, Back, Done
    <2>15. CASE Forget(p)
      <3>1. dropin' = dropin /\ pc[p] = "forget" /\ Finish(p)
        BY <2>15 DEF Forget, At
      <3> QED BY <2>1, <2>2, <3>1 DEF Heals, Ahead, Done
    <2>16. CASE (\E o \in Calls[p] : Call(p, o)) \/ Kill(p)
      BY <1>1, <2>16 DEF Call, Kill
    <2>17. CASE \/ Push(p) \/ Pushing(p) \/ Disable(p) \/ Revert(p) \/ Stop(p) \/ Stopping(p) \/ Shut(p)
                \/ ShutDone(p) \/ Exit(p)
      BY <2>1, <2>17 DEF Push, Pushing, Disable, Revert, Stop, Stopping, Shut, ShutDone, Exit, At,
                         Ahead, Back, Done
    <2> QED BY <1>4, <2>4, <2>5, <2>6, <2>7, <2>8, <2>9, <2>10, <2>11, <2>12, <2>13, <2>14, <2>15,
               <2>16, <2>17 DEF Process
  <1>6. CASE quiet # p /\ ~Launch(p)
    <2>1. quiet' \in {quiet, "none"}
      BY <1>6 DEF Process, Call, Enable, Reach, OustStale, Spawn, Await, Arm, Arming, Point, Unpoint,
             Unpointing, Unlock, Status, Push, Pushing, Disable, Revert, Stop, Stopping, Shut, ShutDone,
             Exit, Kill, Reconcile, Clean, Sweep, Sweeping, ForceOff, Forget, history
    <2> QED BY <1>1, <1>6, <2>1
  <1> QED BY <1>4, <1>5, <1>6

\* A process that is down holds no client.
LEMMA RestStep == ASSUME HealInv, NEW p \in Procs, Process(p) PROVE Resting'
  <1>1. pc \in [Procs -> Labels] /\ held \in [Procs -> BOOLEAN] BY DEF HealInv, OwnType
  <1>2. \A q \in Procs \ {p} : pc'[q] = pc[q] /\ held'[q] = held[q]
    BY <1>1 DEF Process, Call, Enable, Reach, OustStale, Oust, Spawn, Await, Arm, Arming, Point, Unpoint,
             Unpointing, Unlock, Status, Push, Pushing, Disable, Revert, Stop, Stopping, Shut, ShutDone,
             Exit, Kill, Launch, Reconcile, Clean, Sweep, Sweeping, ForceOff, Forget, Goto, Finish, Failed,
             AdoptToStop
  <1>3. CASE Kill(p)
    BY <1>1, <1>2, <1>3 DEF Kill, Resting, HealInv, At
  <1>4. CASE ~Kill(p)
    <2>1. pc'[p] # "down"
      <3>1. ASSUME NEW o \in Calls[p], Call(p, o) PROVE pc'[p] # "down"
        <4>1. o \in Operations BY CallsAssumption
        <4> QED BY <1>1, <3>1, <4>1 DEF Call, Goto, Operations
      <3>2. Finish(p) \/ Failed(p) => pc'[p] # "down"
        BY <1>1 DEF Finish, Failed, Goto
      <3>3. CASE Push(p) \/ Await(p)
        BY <1>1, <3>2, <3>3 DEF Push, Await, At, Goto
      <3>4. CASE ~Push(p) /\ ~Await(p) /\ ~\E o \in Calls[p] : Call(p, o)
        <4>1. \/ Finish(p) \/ Failed(p)
              \/ \E label \in Labels \ {"down"} : Goto(p, label)
          BY <1>4, <3>4 DEF Process, Enable, Reach, OustStale, Oust, Spawn, Arm, Arming, Point,
             Unpoint, Unpointing, Unlock, Status, Pushing, Disable, Revert, Stop, Stopping, Shut,
             ShutDone, Exit, Launch, Reconcile, Clean, Sweep, Sweeping, ForceOff, Forget, Labels
        <4> QED BY <1>1, <3>2, <4>1 DEF Goto
      <3> QED BY <3>1, <3>3, <3>4
    <2> QED BY <1>2, <2>1 DEF HealInv, Resting, At
  <1> QED BY <1>3, <1>4

LEMMA HealInit == Init => HealInv
  <1> SUFFICES ASSUME Init PROVE HealInv OBVIOUS
  <1>1. OwnType BY DEF Init, OwnType, Labels, Operations
  <1>2. HostType BY DEF Init, HostType
  <1>3. ServedType BY DEF Init, ServedType, Tasks, Nobody, Leaving
  <1>4. Resting BY DEF Init, Resting
  <1>5. \A p \in Procs : Heals(p) BY QuietAssumption DEF Init, Heals
  <1> QED BY <1>1, <1>2, <1>3, <1>4, <1>5 DEF HealInv

\* A launch over what a kill left behind ends at an engine that runs, and that
\* recorded, or with the drop-in gone (reconcile_on_startup, force_clean_slate).
THEOREM LaunchHealed == Spec => []LaunchHeals
  <1> DEFINE Inv == HealInv /\ ServedInv
  <1>1. Inv => LaunchHeals BY DEF HealInv, Heals, Done, At, LaunchHeals
  <1>2. Init => Inv BY HealInit, ServedInit
  <1>3. Inv /\ [Next]_vars => Inv'
    <2> SUFFICES ASSUME Inv, [Next]_vars PROVE Inv' OBVIOUS
    <2>1. CASE UNCHANGED vars
      <3>1. UNCHANGED served BY <2>1 DEF vars, served
      <3>2. ServedInv' BY <3>1, QuietStep
      <3> QED BY <2>1, <3>2 DEF vars, HealInv, OwnType, HostType, ServedInv, Resting, Heals, At
    <2>2. CASE Daemon
      <3>1. Resting'
        <4>1. UNCHANGED <<pc, held>>
          BY <2>2 DEF Daemon, Task, LateTask, Leave, LastOut, Disarm, DaemonUp, DaemonDies, EngineDies
        <4> QED BY <4>1 DEF HealInv, Resting, At
      <3> QED
        BY <2>2, <3>1, OwnDaemonStep, HostDaemonStep, DaemonStep, HealDaemonStep DEF HealInv, ServedInv
    <2>3. CASE \E p \in Procs : Process(p)
      <3>1. PICK q \in Procs : Process(q) BY <2>3
      <3>2. ASSUME NEW p \in Procs PROVE Heals(p)'
        <4>1. CASE quiet' # p BY <4>1 DEF Heals
        <4>2. CASE quiet' = p BY <3>1, <4>2, OthersDisturb, HealOwnStep
        <4> QED BY <4>1, <4>2
      <3> QED
        BY <3>1, <3>2, OwnStep, HostProcessStep, ProcessStep, RestStep DEF HealInv, ServedInv
    <2> QED BY <2>1, <2>2, <2>3 DEF Next
  <1> QED BY <1>1, <1>2, <1>3, PTL DEF Spec
=============================================================================
