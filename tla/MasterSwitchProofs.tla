-------------------------- MODULE MasterSwitchProofs --------------------------
(***************************************************************************)
(* Proofs about MasterSwitch, for every catalogue in which no member       *)
(* belongs to two families and a family has at most one tool: that the     *)
(* three files forget nothing, that a restore switches on nothing that was *)
(* off, and that nothing comes back once the exit sweep is over.           *)
(***************************************************************************)
EXTENDS MasterSwitch, TLAPS

\* The user works no switch while something waits to be restored.
Patient == ~Fails("pending")

OffFlow == job.op \in {"sweep", "park"}
Cur == {job.cur} \ {NoFamily}

\* The families the files speak for: between the two records of an off-flow, those
\* that were on disk before it.
Pending == IF job.step = "skip" THEN job.queue ELSE provSnap

\* How far a restore is, and what it has done to the families and tools it has
\* taken: one that is no longer to be done, in hand or kept has all its members on.
JobRestore ==
    job.op = "restore" =>
      /\ job.step \in {"families", "clear", "tools"}
      /\ job.tools \subseteq swept
      /\ job.step = "families" =>
           /\ job.fams \cup job.keep \cup Cur \subseteq job.queue
           /\ job.queue \subseteq provSnap
           /\ job.owed = {}
           /\ job.left \cap skip = {}
           /\ job.cur = NoFamily => job.left = {}
           /\ job.cur # NoFamily => /\ job.left \subseteq MembersOf(job.cur)
                                    /\ MembersOf(job.cur) \ (skip \cup job.left) \subseteq on
           /\ \A f \in job.queue \ (job.fams \cup job.keep \cup Cur) : MembersOf(f) \ skip \subseteq on
      /\ job.step # "families" =>
           /\ job.cur = NoFamily /\ job.left = {} /\ job.fams = {}
           /\ job.owed \subseteq job.queue /\ job.queue \subseteq swept
           /\ job.queue \ job.owed \subseteq on
      /\ job.step = "clear" => provSnap = {}

\* How far an off-flow is: it takes nothing out that the files do not speak for.
JobOff ==
    OffFlow =>
      /\ job.step \in {"skip", "families"}
      /\ job.fams \subseteq provSnap
      /\ job.step = "skip" =>
           /\ job.cur = NoFamily /\ job.left = {}
           /\ provSnap = job.queue \cup job.fams
           /\ \A f \in job.fams : MembersOf(f) \cap on # {}
      /\ job.step = "families" =>
           /\ job.cur = NoFamily => job.left \subseteq swept /\ \A s, t \in job.left : s = t
           /\ job.cur # NoFamily => job.cur \in provSnap /\ job.left \subseteq MembersOf(job.cur)

JobFree == job.op = "free" => job = Free

\* A domain that is on is not one to leave off.
DomainsClean == Patient => on \cap Domains \cap skip = {}

\* A connect that waits for the lock has nothing to meet but empty files.
AskedClean ==
    /\ job.op = "park" => asked = {}
    /\ Patient /\ asked # {} /\ ~exiting => provSnap = {} /\ skip = {} /\ swept = {}

\* NothingForgotten, over the families that are pending; and a held member on the
\* skip list is a tool its family's domain brings back.
RecordedBy(m, S) == m \in swept \/ (m \notin skip /\ \E f \in S : m \in MembersOf(f))

LicensedBy(t, S) ==
    \E f \in Families : t \in ToolsOf[f] /\ \E d \in DomainsOf[f] : d \in on \/ RecordedBy(d, S)

Kept == Patient => \A m \in held :
    /\ m \in skip => LicensedBy(m, Pending)
    /\ m \in on \/ RecordedBy(m, Pending) \/ LicensedBy(m, Pending)

\* What is on or would be brought back was last switched on, if every death finds
\* the records of an off-flow both written or neither.
Wanted == Patient /\ ~blurred =>
    /\ on \subseteq want /\ swept \subseteq want
    /\ \A f \in Pending : MembersOf(f) \ skip \subseteq want

\* What the exit sweep still has to look at covers every tool that is on.
Leaving ==
    /\ job.op = "sweep" => exiting
    /\ exiting => job.op # "restore"
    /\ exiting /\ job.op # "sweep" => on \cap Tools \subseteq failed
    /\ job.op = "sweep" =>
         /\ on \cap Tools \subseteq failed \cup job.tools \cup (IF job.cur = NoFamily THEN job.left ELSE {})
         /\ job.cur # NoFamily \/ job.fams # {} => job.tools = Tools

Inv ==
    /\ TypeOK /\ JobRestore /\ JobOff /\ JobFree
    /\ DomainsClean /\ AskedClean /\ Kept /\ Wanted /\ Leaving
------------------------------------------------------------------------------
\* What each action leaves in the record of the operation that holds the lock.
LEMMA FamilyEndJob ==
  ASSUME TypeOK, RestoreFamilyEnd
  PROVE  /\ job' \in JobRecords
         /\ job'.op = job.op /\ job'.step = job.step /\ job'.queue = job.queue
         /\ job'.fams = job.fams /\ job'.cur = NoFamily /\ job'.left = job.left
         /\ job'.keep = (IF Enabled(job.cur) THEN job.keep ELSE job.keep \cup {job.cur})
         /\ job'.tools = job.tools /\ job'.owed = job.owed /\ job'.turn = job.turn
<1>1. job \in JobRecords /\ job' = [job EXCEPT !.cur = NoFamily,
                     !.keep = IF Enabled(job.cur) THEN @ ELSE @ \cup {job.cur}]
      /\ job.cur \in Families
  BY DEF TypeOK, RestoreFamilyEnd, JobRecords
<1>2. job' \in JobRecords
  BY <1>1 DEF JobRecords
<1>3. /\ job'.op = job.op /\ job'.step = job.step /\ job'.queue = job.queue
      /\ job'.fams = job.fams /\ job'.cur = NoFamily /\ job'.left = job.left
      /\ job'.keep = (IF Enabled(job.cur) THEN job.keep ELSE job.keep \cup {job.cur})
      /\ job'.tools = job.tools /\ job'.owed = job.owed /\ job'.turn = job.turn
  BY <1>1 DEF JobRecords
<1> QED
  BY <1>2, <1>3
LEMMA SaveJob ==
  ASSUME TypeOK, RestoreSave
  PROVE  /\ job' \in JobRecords
         /\ job'.op = job.op /\ job'.step = (IF provSnap' = {} THEN "clear" ELSE "tools")
         /\ job'.queue = {} /\ job'.fams = job.fams /\ job'.cur = job.cur
         /\ job'.left = job.left /\ job'.keep = {} /\ job'.tools = job.tools
         /\ job'.owed = job.owed /\ job'.turn = job.turn
<1>1. job \in JobRecords /\ job' = [job EXCEPT !.step = IF provSnap' = {} THEN "clear" ELSE "tools",
                                            !.queue = {}, !.keep = {}]
  BY DEF TypeOK, RestoreSave
<1>2. job' \in JobRecords
  BY <1>1 DEF JobRecords, Steps
<1>3. /\ job'.op = job.op /\ job'.step = (IF provSnap' = {} THEN "clear" ELSE "tools")
      /\ job'.queue = {} /\ job'.fams = job.fams /\ job'.cur = job.cur /\ job'.left = job.left
      /\ job'.keep = {} /\ job'.tools = job.tools /\ job'.owed = job.owed
      /\ job'.turn = job.turn
  BY <1>1 DEF JobRecords, Steps
<1> QED
  BY <1>2, <1>3
LEMMA ClearJob ==
  ASSUME TypeOK, RestoreClearSkip
  PROVE  /\ job' \in JobRecords
         /\ job'.op = job.op /\ job'.step = "tools" /\ job'.queue = job.queue
         /\ job'.fams = job.fams /\ job'.cur = job.cur /\ job'.left = job.left
         /\ job'.keep = job.keep /\ job'.tools = job.tools /\ job'.owed = job.owed
         /\ job'.turn = job.turn
<1>1. job \in JobRecords /\ job' = [job EXCEPT !.step = "tools"]
  BY DEF TypeOK, RestoreClearSkip
<1>2. job' \in JobRecords
  BY <1>1 DEF JobRecords, Steps
<1>3. /\ job'.op = job.op /\ job'.step = "tools" /\ job'.queue = job.queue
      /\ job'.fams = job.fams /\ job'.cur = job.cur /\ job'.left = job.left
      /\ job'.keep = job.keep /\ job'.tools = job.tools /\ job'.owed = job.owed
      /\ job'.turn = job.turn
  BY <1>1 DEF JobRecords, Steps
<1> QED
  BY <1>2, <1>3
LEMMA SkipJob ==
  ASSUME TypeOK, RecordSkip
  PROVE  /\ job' \in JobRecords
         /\ job'.op = job.op /\ job'.step = "families" /\ job'.queue = {}
         /\ job'.fams = job.fams /\ job'.cur = job.cur /\ job'.left = job.left
         /\ job'.keep = job.keep /\ job'.tools = job.tools /\ job'.owed = job.owed
         /\ job'.turn = job.turn
<1>1. job \in JobRecords /\ job' = [job EXCEPT !.step = "families", !.queue = {}]
  BY DEF TypeOK, RecordSkip
<1>2. job' \in JobRecords
  BY <1>1 DEF JobRecords, Steps
<1>3. /\ job'.op = job.op /\ job'.step = "families" /\ job'.queue = {} /\ job'.fams = job.fams
      /\ job'.cur = job.cur /\ job'.left = job.left /\ job'.keep = job.keep
      /\ job'.tools = job.tools /\ job'.owed = job.owed /\ job'.turn = job.turn
  BY <1>1 DEF JobRecords, Steps
<1> QED
  BY <1>2, <1>3
LEMMA SweepToolJob ==
  ASSUME TypeOK, SweepTool
  PROVE  /\ job' \in JobRecords
         /\ job'.op = job.op /\ job'.step = job.step /\ job'.queue = job.queue
         /\ job'.fams = job.fams /\ job'.cur = job.cur /\ job'.left = {} /\ job'.keep = job.keep
         /\ job'.tools = job.tools /\ job'.owed = job.owed /\ job'.turn = job.turn
<1>1. job \in JobRecords /\ job' = [job EXCEPT !.left = {}]
  BY DEF TypeOK, SweepTool
<1>2. job' \in JobRecords
  BY <1>1 DEF JobRecords
<1>3. /\ job'.op = job.op /\ job'.step = job.step /\ job'.queue = job.queue
      /\ job'.fams = job.fams /\ job'.cur = job.cur /\ job'.left = {} /\ job'.keep = job.keep
      /\ job'.tools = job.tools /\ job'.owed = job.owed /\ job'.turn = job.turn
  BY <1>1 DEF JobRecords
<1> QED
  BY <1>2, <1>3

LEMMA FreeFields ==
  /\ Free \in JobRecords
  /\ Free.op = "free" /\ Free.step = "done" /\ Free.queue = {} /\ Free.fams = {}
  /\ Free.cur = NoFamily /\ Free.left = {} /\ Free.keep = {} /\ Free.tools = {}
  /\ Free.owed = {} /\ Free.turn = "none"
  BY DEF Free, JobRecords, Jobs, Steps

LEMMA FreeJob ==
  ASSUME job' = Free
  PROVE  /\ job' \in JobRecords
         /\ job'.op = "free" /\ job'.step = "done" /\ job'.queue = {} /\ job'.fams = {}
         /\ job'.cur = NoFamily /\ job'.left = {} /\ job'.keep = {} /\ job'.tools = {}
         /\ job'.owed = {} /\ job'.turn = "none"
  BY FreeFields

LEMMA RestoreAllJob ==
  ASSUME TypeOK, ~exiting, NEW turn \in {"first", "second"}, RestoreAll(turn)
  PROVE  /\ job' \in JobRecords
         /\ job'.op = "restore" /\ job'.step = "families" /\ job'.queue = provSnap
         /\ job'.fams = provSnap /\ job'.cur = NoFamily /\ job'.left = {} /\ job'.keep = {}
         /\ job'.tools = swept /\ job'.owed = {} /\ job'.turn = turn
<1>t. provSnap \in SUBSET Families /\ swept \in SUBSET Tools
  BY DEF TypeOK
<1>1. job' = [Free EXCEPT !.op = "restore", !.step = "families", !.turn = turn,
                          !.queue = provSnap, !.fams = provSnap, !.tools = swept]
  BY DEF RestoreAll
<1>2. job' \in JobRecords
  BY <1>1, <1>t, FreeFields DEF JobRecords, Jobs, Steps
<1>3. /\ job'.op = "restore" /\ job'.step = "families" /\ job'.queue = provSnap
      /\ job'.fams = provSnap /\ job'.cur = Free.cur /\ job'.left = Free.left
      /\ job'.keep = Free.keep /\ job'.tools = swept /\ job'.owed = Free.owed
      /\ job'.turn = turn
  BY <1>1, <1>t, FreeFields DEF JobRecords
<1> QED
  BY <1>2, <1>3, FreeFields

LEMMA RestoreOneFamilyJob ==
  ASSUME TypeOK, NEW f \in provSnap,
         job' = [Free EXCEPT !.op = "restore", !.step = "families", !.queue = {f}, !.fams = {f}]
  PROVE  /\ job' \in JobRecords
         /\ job'.op = "restore" /\ job'.step = "families" /\ job'.queue = {f} /\ job'.fams = {f}
         /\ job'.cur = NoFamily /\ job'.left = {} /\ job'.keep = {} /\ job'.tools = {}
         /\ job'.owed = {} /\ job'.turn = "none"
<1>t. {f} \in SUBSET Families /\ {f} \in SUBSET (Families \cup Tools)
  BY DEF TypeOK
<1>1. job' = [Free EXCEPT !.op = "restore", !.step = "families", !.queue = {f}, !.fams = {f}]
  OBVIOUS
<1>2. job' \in JobRecords
  BY <1>1, <1>t, FreeFields DEF JobRecords, Jobs, Steps
<1>3. /\ job'.op = "restore" /\ job'.step = "families" /\ job'.queue = {f} /\ job'.fams = {f}
      /\ job'.cur = Free.cur /\ job'.left = Free.left /\ job'.keep = Free.keep
      /\ job'.tools = Free.tools /\ job'.owed = Free.owed /\ job'.turn = Free.turn
  BY <1>1, <1>t, FreeFields DEF JobRecords
<1> QED
  BY <1>2, <1>3, FreeFields

LEMMA RestoreOneToolJob ==
  ASSUME TypeOK, NEW t \in swept,
         job' = [Free EXCEPT !.op = "restore", !.step = "tools", !.tools = {t}]
  PROVE  /\ job' \in JobRecords
         /\ job'.op = "restore" /\ job'.step = "tools" /\ job'.queue = {} /\ job'.fams = {}
         /\ job'.cur = NoFamily /\ job'.left = {} /\ job'.keep = {} /\ job'.tools = {t}
         /\ job'.owed = {} /\ job'.turn = "none"
<1>t. {t} \in SUBSET Tools
  BY DEF TypeOK
<1>1. job' = [Free EXCEPT !.op = "restore", !.step = "tools", !.tools = {t}]
  OBVIOUS
<1>2. job' \in JobRecords
  BY <1>1, <1>t, FreeFields DEF JobRecords, Jobs, Steps
<1>3. /\ job'.op = "restore" /\ job'.step = "tools" /\ job'.queue = Free.queue
      /\ job'.fams = Free.fams /\ job'.cur = Free.cur /\ job'.left = Free.left
      /\ job'.keep = Free.keep /\ job'.tools = {t} /\ job'.owed = Free.owed
      /\ job'.turn = Free.turn
  BY <1>1, <1>t, FreeFields DEF JobRecords
<1> QED
  BY <1>2, <1>3, FreeFields

LEMMA RecordJob ==
  ASSUME TypeOK, NEW o \in {"sweep", "park"}, Record(o)
  PROVE  /\ job' \in JobRecords
         /\ job'.op = o /\ job'.step = "skip" /\ job'.queue = provSnap
         /\ job'.fams = EnabledFamilies /\ job'.cur = NoFamily /\ job'.left = {}
         /\ job'.keep = {} /\ job'.tools = (IF o = "sweep" THEN Tools ELSE {}) /\ job'.owed = {}
         /\ job'.turn = "none"
<1>t. provSnap \in SUBSET Families /\ EnabledFamilies \in SUBSET Families
  BY DEF TypeOK, EnabledFamilies
<1>1. job' = [Free EXCEPT !.op = o, !.step = "skip", !.queue = provSnap, !.fams = EnabledFamilies,
                          !.tools = IF o = "sweep" THEN Tools ELSE {}]
  BY DEF Record
<1>2. job' \in JobRecords
  BY <1>1, <1>t, FreeFields DEF JobRecords, Jobs, Steps
<1>3. /\ job'.op = o /\ job'.step = "skip" /\ job'.queue = provSnap
      /\ job'.fams = EnabledFamilies /\ job'.cur = Free.cur /\ job'.left = Free.left
      /\ job'.keep = Free.keep /\ job'.tools = (IF o = "sweep" THEN Tools ELSE {})
      /\ job'.owed = Free.owed /\ job'.turn = Free.turn
  BY <1>1, <1>t, FreeFields DEF JobRecords
<1> QED
  BY <1>2, <1>3, FreeFields

------------------------------------------------------------------------------
\* Nothing is forgotten by a step that takes no member out: what a file no longer
\* speaks for is on.
LEMMA KeptGrows ==
  ASSUME Kept, held' \subseteq held, on \subseteq on', skip' \subseteq skip,
         swept \ swept' \subseteq on',
         \A f \in Pending \ Pending' : MembersOf(f) \ skip \subseteq on'
  PROVE  Kept'
<1>1. ASSUME NEW m, m \in on \/ RecordedBy(m, Pending)
      PROVE  m \in on' \/ RecordedBy(m, Pending)'
  BY <1>1 DEF RecordedBy
<1>2. ASSUME NEW t, LicensedBy(t, Pending)
      PROVE  LicensedBy(t, Pending)'
  BY <1>1, <1>2 DEF LicensedBy
<1> QED
  BY <1>1, <1>2 DEF Kept

\* Nor by switching members on, if those on the skip list are tools of a family
\* with a domain on.
LEMMA KeptAdds ==
  ASSUME Kept, NEW H, on' = on \cup H, held' = held \cup H, UNCHANGED <<disk, job>>,
         Patient => \A m \in H \cap skip : \E f \in Families : m \in ToolsOf[f] /\ DomainsOf[f] \cap on # {}
  PROVE  Kept'
<1>1. Pending' = Pending /\ skip' = skip /\ swept' = swept
  BY DEF Pending, disk
<1>2. ASSUME NEW m, NEW S, RecordedBy(m, S)
      PROVE  RecordedBy(m, S)'
  BY <1>1, <1>2 DEF RecordedBy
<1>3. ASSUME NEW t, LicensedBy(t, Pending)
      PROVE  LicensedBy(t, Pending)'
  BY <1>1, <1>2, <1>3 DEF LicensedBy
<1>4. ASSUME Patient, NEW m \in H, m \in skip
      PROVE  LicensedBy(m, Pending)'
  <2>1. PICK f \in Families : m \in ToolsOf[f] /\ DomainsOf[f] \cap on # {}
    BY <1>4
  <2>2. PICK d \in DomainsOf[f] : d \in on
    BY <2>1
  <2> QED
    BY <2>1, <2>2 DEF LicensedBy
<1>5. ASSUME Patient, NEW m \in held
      PROVE  /\ m \in skip' => LicensedBy(m, Pending)'
             /\ m \in on' \/ RecordedBy(m, Pending)' \/ LicensedBy(m, Pending)'
  BY <1>1, <1>2, <1>3, <1>5 DEF Kept
<1> QED
  BY <1>1, <1>4, <1>5 DEF Kept

\* Nor by taking out members the files speak for.
LEMMA KeptTakes ==
  ASSUME Kept, held' \subseteq held, on' \subseteq on, skip' = skip, swept' = swept, Pending' = Pending,
         Patient => \A m \in on \ on' : \/ RecordedBy(m, Pending)
                                        \/ m \in skip /\ m \notin Domains,
         \A f \in Families : DomainsOf[f] \subseteq Domains
  PROVE  Kept'
<1>1. ASSUME NEW m, NEW S, RecordedBy(m, S)
      PROVE  RecordedBy(m, S)'
  BY <1>1 DEF RecordedBy
<1>2. ASSUME Patient, NEW t, LicensedBy(t, Pending)
      PROVE  LicensedBy(t, Pending)'
  <2>1. PICK f \in Families : t \in ToolsOf[f] /\ \E d \in DomainsOf[f] : d \in on \/ RecordedBy(d, Pending)
    BY <1>2 DEF LicensedBy
  <2>2. PICK d \in DomainsOf[f] : d \in on \/ RecordedBy(d, Pending)
    BY <2>1
  <2>3. d \in on' \/ RecordedBy(d, Pending)
    BY <1>2, <2>2
  <2> QED
    BY <1>1, <2>1, <2>3 DEF LicensedBy
<1>3. ASSUME Patient, NEW m \in held
      PROVE  /\ m \in skip' => LicensedBy(m, Pending)'
             /\ m \in on' \/ RecordedBy(m, Pending)' \/ LicensedBy(m, Pending)'
  BY <1>1, <1>2, <1>3 DEF Kept
<1> QED
  BY <1>3 DEF Kept

------------------------------------------------------------------------------
\* A step of the process alone: the engine, the boot sequence, a connect that
\* begins to wait.
LEMMA IdleStep ==
  ASSUME Inv, TypeOK', UNCHANGED <<on, disk, job, history, exiting, failed>>,
         asked' \subseteq asked \/ (job.op = "free" /\ (Patient => provSnap = {} /\ skip = {} /\ swept = {}))
  PROVE  Inv'
<1> USE DEF disk, history
<1>1. JobRestore' /\ JobOff' /\ JobFree'
  BY DEF Inv, JobRestore, JobOff, JobFree, OffFlow, Cur
<1>2. DomainsClean' /\ AskedClean'
  BY DEF Inv, DomainsClean, AskedClean
<1>3. Kept'
  BY KeptGrows DEF Inv, Pending
<1>4. Wanted' /\ Leaving'
  BY DEF Inv, Wanted, Leaving, Pending
<1> QED
  BY <1>1, <1>2, <1>3, <1>4 DEF Inv

\* With nothing holding the lock, the files speak for the families on disk.
LEMMA FreePending ==
  ASSUME Inv, job.op = "free"
  PROVE  Pending = provSnap
  BY FreeFields DEF Inv, JobFree, Pending

\* A restore takes the lock.
LEMMA RestoreStarts ==
  ASSUME Inv, TypeOK', ~exiting, job.op = "free",
         UNCHANGED <<on, disk, history, exiting, failed, asked>>,
         job'.op = "restore", job'.cur = NoFamily, job'.left = {}, job'.keep = {}, job'.owed = {},
         job'.tools \subseteq swept,
         \/ job'.step = "families" /\ job'.queue = job'.fams /\ job'.fams \subseteq provSnap
         \/ job'.step = "tools" /\ job'.queue = {} /\ job'.fams = {}
  PROVE  Inv'
<1> USE DEF disk, history
<1>0. Pending = provSnap /\ Pending' = provSnap
  BY FreePending DEF Pending
<1>1. JobRestore'
  BY DEF JobRestore, Cur
<1>2. JobOff' /\ JobFree'
  BY DEF JobOff, JobFree, OffFlow
<1>3. DomainsClean' /\ AskedClean'
  BY DEF Inv, DomainsClean, AskedClean
<1>4. Kept'
  BY <1>0, KeptGrows DEF Inv
<1>5. Wanted'
  BY <1>0 DEF Inv, Wanted
<1>6. Leaving'
  BY DEF Inv, Leaving
<1> QED
  BY <1>1, <1>2, <1>3, <1>4, <1>5, <1>6 DEF Inv

\* The process is gone, at whatever point of whatever operation.
LEMMA ProcessEnds ==
  ASSUME Inv, TypeOK', Ended, blurred => blurred', job.step = "skip" => blurred'
  PROVE  Inv'
<1> USE DEF Ended, disk, history
<1>0. Pending' = provSnap
  BY FreeJob DEF Pending
<1>1. Pending \subseteq Pending'
  <2>1. CASE job.step = "skip"
    <3>1. OffFlow
      BY <2>1, FreeFields DEF Inv, JobRestore, JobFree, OffFlow, TypeOK, JobRecords, Jobs
    <3> QED
      BY <1>0, <2>1, <3>1 DEF Inv, JobOff, Pending
  <2>2. CASE job.step # "skip"
    BY <1>0, <2>2 DEF Pending
  <2> QED
    BY <2>1, <2>2
<1>2. JobRestore' /\ JobOff' /\ JobFree'
  BY FreeJob DEF JobRestore, JobOff, JobFree, OffFlow
<1>3. DomainsClean' /\ AskedClean'
  BY FreeJob DEF Inv, DomainsClean, AskedClean
<1>4. Kept'
  BY <1>1, KeptGrows DEF Inv
<1>5. Wanted'
  <2>1. ~blurred' => ~blurred /\ Pending' = Pending
    BY <1>0 DEF Pending
  <2> QED
    BY <2>1 DEF Inv, Wanted
<1>6. Leaving'
  BY FreeJob DEF Leaving
<1> QED
  BY <1>2, <1>3, <1>4, <1>5, <1>6 DEF Inv
------------------------------------------------------------------------------
(* Restore, step by step *)

\* What every step of a restore that leaves the files alone keeps.
LEMMA RestoreGoesOn ==
  ASSUME Inv, TypeOK', job.op = "restore", job'.op = "restore", job'.step = job.step,
         UNCHANGED <<disk, process, history>>, on \subseteq on', Patient /\ ~blurred => on' \subseteq on \cup want,
         Patient => on' \cap Domains \cap skip = {}, job'.tools \subseteq job.tools
  PROVE  /\ JobOff' /\ JobFree' /\ DomainsClean' /\ AskedClean' /\ Kept' /\ Wanted' /\ Leaving'
         /\ job'.tools \subseteq swept
<1> USE DEF disk, process, history
<1>0. Pending = provSnap /\ Pending' = provSnap
  BY DEF Inv, JobRestore, Pending
<1>1. JobOff' /\ JobFree'
  BY DEF JobOff, JobFree, OffFlow
<1>2. DomainsClean' /\ AskedClean'
  BY DEF Inv, DomainsClean, AskedClean
<1>3. Kept'
  BY <1>0, KeptGrows DEF Inv
<1>4. Wanted'
  BY <1>0 DEF Inv, Wanted
<1>5. Leaving'
  BY DEF Inv, Leaving
<1>6. job'.tools \subseteq swept
  BY DEF Inv, JobRestore
<1> QED
  BY <1>1, <1>2, <1>3, <1>4, <1>5, <1>6

LEMMA RestoreFamilyStep ==
  ASSUME Inv, RestoreFamily
  PROVE  Inv'
<1> USE DEF disk, process, history
<1>1. PICK f \in job.fams :
         IF NotYet(f)
         THEN job' = [job EXCEPT !.fams = @ \ {f}, !.keep = @ \cup {f}]
         ELSE job' = [job EXCEPT !.fams = @ \ {f}, !.cur = f, !.left = MembersOf(f) \ skip]
  BY DEF RestoreFamily
<1>2. /\ job \in JobRecords /\ f \in Families /\ f # NoFamily /\ MembersOf(f) \ skip \in SUBSET Members
      /\ job.op = "restore" /\ job.step = "families" /\ job.cur = NoFamily
      /\ UNCHANGED <<on, disk, process, history>>
  BY CatalogAssumption DEF Inv, TypeOK, JobRecords, MembersOf, Members, RestoreFamily
<1>3. /\ job' \in JobRecords
      /\ job'.op = job.op /\ job'.step = job.step /\ job'.queue = job.queue
      /\ job'.fams = job.fams \ {f} /\ job'.tools = job.tools /\ job'.owed = job.owed
      /\ \/ job'.keep = job.keep \cup {f} /\ job'.cur = job.cur /\ job'.left = job.left
         \/ job'.keep = job.keep /\ job'.cur = f /\ job'.left = MembersOf(f) \ skip
  <2>1. CASE NotYet(f)
    <3>1. job' = [job EXCEPT !.fams = @ \ {f}, !.keep = @ \cup {f}]
      BY <1>1, <2>1
    <3>2. job' \in JobRecords
      BY <1>2, <3>1 DEF JobRecords
    <3>3. /\ job'.op = job.op /\ job'.step = job.step /\ job'.queue = job.queue
          /\ job'.fams = job.fams \ {f} /\ job'.tools = job.tools /\ job'.owed = job.owed
          /\ job'.keep = job.keep \cup {f} /\ job'.cur = job.cur /\ job'.left = job.left
      BY <1>2, <3>1 DEF JobRecords
    <3> QED
      BY <3>2, <3>3
  <2>2. CASE ~NotYet(f)
    <3>1. job' = [job EXCEPT !.fams = @ \ {f}, !.cur = f, !.left = MembersOf(f) \ skip]
      BY <1>1, <2>2
    <3>2. job' \in JobRecords
      BY <1>2, <3>1 DEF JobRecords
    <3>3. /\ job'.op = job.op /\ job'.step = job.step /\ job'.queue = job.queue
          /\ job'.fams = job.fams \ {f} /\ job'.tools = job.tools /\ job'.owed = job.owed
          /\ job'.keep = job.keep /\ job'.cur = f /\ job'.left = MembersOf(f) \ skip
      BY <1>2, <3>1 DEF JobRecords
    <3> QED
      BY <3>2, <3>3
  <2> QED
    BY <2>1, <2>2
<1>4. TypeOK'
  BY <1>2, <1>3 DEF Inv, TypeOK
<1>5. on' \subseteq on \cup want /\ (Patient => on' \cap Domains \cap skip = {})
  BY <1>2 DEF Inv, DomainsClean
<1>6. /\ JobOff' /\ JobFree' /\ DomainsClean' /\ AskedClean' /\ Kept' /\ Wanted' /\ Leaving'
      /\ job'.tools \subseteq swept
  BY <1>2, <1>3, <1>4, <1>5, RestoreGoesOn
<1>7. JobRestore'
  BY <1>2, <1>3, <1>6 DEF Inv, JobRestore, Cur
<1> QED
  BY <1>4, <1>6, <1>7 DEF Inv

\* A member is switched on as its family was swept, or the family is kept.
LEMMA RestoreMemberStep ==
  ASSUME Inv, RestoreMember
  PROVE  Inv'
<1> USE DEF disk, process, history
<1>1. /\ job \in JobRecords /\ job.op = "restore" /\ job.step = "families"
      /\ job.cur # NoFamily /\ job.cur \in Families /\ job.cur \in provSnap
      /\ UNCHANGED <<disk, process, history>>
  BY DEF Inv, TypeOK, JobRecords, RestoreMember, JobRestore, Cur
<1>2. PICK m \in NextMembers :
         \/ on' = on \cup {m} /\ job' = [job EXCEPT !.left = @ \ {m}]
         \/ on' = on /\ job' = [job EXCEPT !.left = {}, !.cur = NoFamily, !.keep = @ \cup {job.cur}]
  BY DEF RestoreMember
<1>3. m \in job.left /\ m \in Members /\ m \notin skip /\ m \in MembersOf(job.cur)
  BY <1>1, <1>2 DEF NextMembers, Inv, JobRestore, JobRecords
<1>4. /\ job' \in JobRecords
      /\ job'.op = job.op /\ job'.step = job.step /\ job'.queue = job.queue
      /\ job'.fams = job.fams /\ job'.tools = job.tools /\ job'.owed = job.owed
      /\ \/ /\ on' = on \cup {m}
            /\ job'.keep = job.keep /\ job'.cur = job.cur /\ job'.left = job.left \ {m}
         \/ /\ on' = on
            /\ job'.keep = job.keep \cup {job.cur} /\ job'.cur = NoFamily /\ job'.left = {}
  <2>1. CASE on' = on \cup {m} /\ job' = [job EXCEPT !.left = @ \ {m}]
    <3>1. job' \in JobRecords
      BY <1>1, <1>3, <2>1 DEF JobRecords
    <3>2. /\ job'.op = job.op /\ job'.step = job.step /\ job'.queue = job.queue
          /\ job'.fams = job.fams /\ job'.tools = job.tools /\ job'.owed = job.owed
          /\ job'.keep = job.keep /\ job'.cur = job.cur /\ job'.left = job.left \ {m}
      BY <1>1, <1>3, <2>1 DEF JobRecords
    <3> QED
      BY <2>1, <3>1, <3>2
  <2>2. CASE on' = on /\ job' = [job EXCEPT !.left = {}, !.cur = NoFamily, !.keep = @ \cup {job.cur}]
    <3>1. job' \in JobRecords
      BY <1>1, <2>2 DEF JobRecords
    <3>2. /\ job'.op = job.op /\ job'.step = job.step /\ job'.queue = job.queue
          /\ job'.fams = job.fams /\ job'.tools = job.tools /\ job'.owed = job.owed
          /\ job'.keep = job.keep \cup {job.cur} /\ job'.cur = NoFamily /\ job'.left = {}
      BY <1>1, <2>2 DEF JobRecords
    <3> QED
      BY <2>2, <3>1, <3>2
  <2> QED
    BY <1>2, <2>1, <2>2
<1>5. TypeOK'
  BY <1>1, <1>3, <1>4 DEF Inv, TypeOK
<1>6. Patient /\ ~blurred => m \in want
  <2>1. Pending = provSnap
    BY <1>1 DEF Pending
  <2> QED
    BY <1>1, <1>3, <2>1 DEF Inv, Wanted
<1>7. /\ on \subseteq on' /\ (Patient /\ ~blurred => on' \subseteq on \cup want)
      /\ (Patient => on' \cap Domains \cap skip = {})
  BY <1>3, <1>4, <1>6 DEF Inv, DomainsClean
<1>8. /\ JobOff' /\ JobFree' /\ DomainsClean' /\ AskedClean' /\ Kept' /\ Wanted' /\ Leaving'
      /\ job'.tools \subseteq swept
  BY <1>1, <1>4, <1>5, <1>7, RestoreGoesOn
<1>9. JobRestore'
  BY <1>1, <1>3, <1>4, <1>8 DEF Inv, JobRestore, Cur
<1> QED
  BY <1>5, <1>8, <1>9 DEF Inv

LEMMA RestoreFamilyEndStep ==
  ASSUME Inv, RestoreFamilyEnd
  PROVE  Inv'
<1> USE DEF disk, process, history
<1>1. /\ job.op = "restore" /\ job.step = "families" /\ job.cur # NoFamily /\ job.left = {}
      /\ UNCHANGED <<on, disk, process, history>>
  BY DEF Inv, RestoreFamilyEnd, JobRestore
<1>2. /\ job' \in JobRecords
      /\ job'.op = job.op /\ job'.step = job.step /\ job'.queue = job.queue
      /\ job'.fams = job.fams /\ job'.cur = NoFamily /\ job'.left = job.left
      /\ job'.keep = job.keep \/ job'.keep = job.keep \cup {job.cur}
      /\ job'.tools = job.tools /\ job'.owed = job.owed
  BY FamilyEndJob DEF Inv
<1>3. TypeOK'
  BY <1>1, <1>2 DEF Inv, TypeOK
<1>4. on' \subseteq on \cup want /\ (Patient => on' \cap Domains \cap skip = {})
  BY <1>1 DEF Inv, DomainsClean
<1>5. /\ JobOff' /\ JobFree' /\ DomainsClean' /\ AskedClean' /\ Kept' /\ Wanted' /\ Leaving'
      /\ job'.tools \subseteq swept
  BY <1>1, <1>2, <1>3, <1>4, RestoreGoesOn
<1>6. JobRestore'
  BY <1>1, <1>2, <1>5 DEF Inv, JobRestore, Cur
<1> QED
  BY <1>3, <1>5, <1>6 DEF Inv

\* The families that leave the file have all their members on.
LEMMA RestoreSaveStep ==
  ASSUME Inv, RestoreSave
  PROVE  Inv'
<1> USE DEF disk, process, history
<1>1. /\ job.op = "restore" /\ job.step = "families" /\ job.cur = NoFamily /\ job.fams = {}
      /\ provSnap' = (provSnap \ job.queue) \cup job.keep
      /\ UNCHANGED <<on, skip, swept, process, history>>
  BY DEF RestoreSave
<1>2. /\ job' \in JobRecords
      /\ job'.op = job.op /\ job'.step \in {"clear", "tools"}
      /\ job'.step = "clear" => provSnap' = {}
      /\ job'.queue = {} /\ job'.fams = job.fams /\ job'.cur = job.cur
      /\ job'.left = job.left /\ job'.tools = job.tools /\ job'.owed = job.owed
  BY SaveJob DEF Inv
<1>3. /\ provSnap' \subseteq provSnap
      /\ \A f \in provSnap \ provSnap' : MembersOf(f) \ skip \subseteq on
  BY <1>1 DEF Inv, JobRestore, Cur
<1>4. TypeOK'
  BY <1>1, <1>2, <1>3 DEF Inv, TypeOK
<1>5. Pending = provSnap /\ Pending' = provSnap'
  BY <1>1, <1>2 DEF Pending
<1>6. JobRestore'
  BY <1>1, <1>2 DEF Inv, JobRestore, Cur
<1>7. JobOff' /\ JobFree'
  BY <1>1, <1>2 DEF JobOff, JobFree, OffFlow
<1>8. DomainsClean' /\ AskedClean'
  BY <1>1, <1>2, <1>3 DEF Inv, DomainsClean, AskedClean
<1>9. Kept'
  BY <1>1, <1>3, <1>5, KeptGrows DEF Inv
<1>10. Wanted'
  BY <1>1, <1>3, <1>5 DEF Inv, Wanted
<1>11. Leaving'
  BY <1>1, <1>2 DEF Inv, Leaving
<1> QED
  BY <1>4, <1>6, <1>7, <1>8, <1>9, <1>10, <1>11 DEF Inv

LEMMA RestoreClearSkipStep ==
  ASSUME Inv, RestoreClearSkip
  PROVE  Inv'
<1> USE DEF disk, process, history
<1>1. /\ job.op = "restore" /\ job.step = "clear" /\ skip' = {} /\ provSnap = {}
      /\ UNCHANGED <<on, provSnap, swept, process, history>>
  BY DEF RestoreClearSkip, Inv, JobRestore
<1>2. /\ job' \in JobRecords
      /\ job'.op = job.op /\ job'.step = "tools" /\ job'.queue = job.queue /\ job'.fams = job.fams
      /\ job'.cur = job.cur /\ job'.left = job.left /\ job'.tools = job.tools /\ job'.owed = job.owed
  BY ClearJob DEF Inv
<1>3. TypeOK'
  BY <1>1, <1>2 DEF Inv, TypeOK
<1>4. Pending = provSnap /\ Pending' = provSnap'
  BY <1>1, <1>2 DEF Pending
<1>5. JobRestore'
  BY <1>1, <1>2 DEF Inv, JobRestore
<1>6. JobOff' /\ JobFree'
  BY <1>1, <1>2 DEF JobOff, JobFree, OffFlow
<1>7. DomainsClean' /\ AskedClean'
  BY <1>1, <1>2 DEF Inv, DomainsClean, AskedClean
<1>8. Kept'
  BY <1>1, <1>4, KeptGrows DEF Inv
<1>9. Wanted'
  BY <1>1, <1>4 DEF Inv, Wanted
<1>10. Leaving'
  BY <1>1, <1>2 DEF Inv, Leaving
<1> QED
  BY <1>3, <1>5, <1>6, <1>7, <1>8, <1>9, <1>10 DEF Inv

LEMMA RestoreToolStep ==
  ASSUME Inv, RestoreTool
  PROVE  Inv'
<1> USE DEF disk, process, history
<1>1. /\ job \in JobRecords /\ job.op = "restore" /\ job.step = "tools"
      /\ UNCHANGED <<disk, process, history>>
  BY DEF Inv, TypeOK, RestoreTool
<1>2. PICK t \in job.tools :
         \/ /\ on' = on
            /\ job' = [job EXCEPT !.tools = @ \ {t}, !.owed = @ \cup {t}, !.queue = @ \cup {t}]
         \/ /\ on' = on \cup {t}
            /\ job' = [job EXCEPT !.tools = @ \ {t}, !.queue = @ \cup {t}]
  BY DEF RestoreTool
<1>3. t \in swept /\ t \in Tools /\ t \notin Domains /\ t \in Members
  BY <1>1, <1>2, FamiliesAssumption DEF Inv, JobRestore, JobRecords, Members
<1>4. /\ job' \in JobRecords
      /\ job'.op = job.op /\ job'.step = job.step /\ job'.fams = job.fams /\ job'.cur = job.cur
      /\ job'.left = job.left /\ job'.queue = job.queue \cup {t} /\ job'.tools = job.tools \ {t}
      /\ \/ on' = on /\ job'.owed = job.owed \cup {t}
         \/ on' = on \cup {t} /\ job'.owed = job.owed
  <2>1. CASE /\ on' = on
             /\ job' = [job EXCEPT !.tools = @ \ {t}, !.owed = @ \cup {t}, !.queue = @ \cup {t}]
    <3>1. job' \in JobRecords
      BY <1>1, <1>3, <2>1 DEF JobRecords
    <3>2. /\ job'.op = job.op /\ job'.step = job.step /\ job'.fams = job.fams /\ job'.cur = job.cur
          /\ job'.left = job.left /\ job'.queue = job.queue \cup {t} /\ job'.tools = job.tools \ {t}
          /\ job'.owed = job.owed \cup {t}
      BY <1>1, <2>1 DEF JobRecords
    <3> QED
      BY <2>1, <3>1, <3>2
  <2>2. CASE on' = on \cup {t} /\ job' = [job EXCEPT !.tools = @ \ {t}, !.queue = @ \cup {t}]
    <3>1. job' \in JobRecords
      BY <1>1, <1>3, <2>2 DEF JobRecords
    <3>2. /\ job'.op = job.op /\ job'.step = job.step /\ job'.fams = job.fams /\ job'.cur = job.cur
          /\ job'.left = job.left /\ job'.queue = job.queue \cup {t} /\ job'.tools = job.tools \ {t}
          /\ job'.owed = job.owed
      BY <1>1, <2>2 DEF JobRecords
    <3> QED
      BY <2>2, <3>1, <3>2
  <2> QED
    BY <1>2, <2>1, <2>2
<1>5. TypeOK'
  BY <1>1, <1>3, <1>4 DEF Inv, TypeOK
<1>6. Patient /\ ~blurred => t \in want
  BY <1>3 DEF Inv, Wanted
<1>7. /\ on \subseteq on' /\ (Patient /\ ~blurred => on' \subseteq on \cup want)
      /\ (Patient => on' \cap Domains \cap skip = {})
  BY <1>3, <1>4, <1>6 DEF Inv, DomainsClean
<1>8. /\ JobOff' /\ JobFree' /\ DomainsClean' /\ AskedClean' /\ Kept' /\ Wanted' /\ Leaving'
      /\ job'.tools \subseteq swept
  BY <1>1, <1>4, <1>5, <1>7, RestoreGoesOn
<1>9. JobRestore'
  BY <1>1, <1>3, <1>4, <1>8 DEF Inv, JobRestore, Cur
<1> QED
  BY <1>5, <1>8, <1>9 DEF Inv

\* The tools that leave the file are on, unless they are still owed.
LEMMA RestoreEndStep ==
  ASSUME Inv, RestoreEnd
  PROVE  Inv'
<1> USE DEF disk, process, history
<1>1. /\ job.op = "restore" /\ job.step = "tools"
      /\ swept' = (swept \ job.queue) \cup job.owed /\ job' = Free
      /\ UNCHANGED <<on, provSnap, skip, up, engine, exiting, parking, failed, asked, want, held, blurred>>
      /\ boot' \in {"engine", "done", boot}
  BY DEF RestoreEnd
<1>2. job.queue \ job.owed \subseteq on /\ job.owed \subseteq Tools
  BY <1>1 DEF Inv, JobRestore, TypeOK, JobRecords
<1>3. TypeOK'
  BY <1>1, <1>2, FreeJob DEF Inv, TypeOK
<1>4. Pending = provSnap /\ Pending' = provSnap'
  BY <1>1, FreeJob DEF Pending
<1>5. JobRestore' /\ JobOff' /\ JobFree'
  BY <1>1, FreeJob DEF JobRestore, JobOff, JobFree, OffFlow
<1>6. DomainsClean' /\ Leaving'
  BY <1>1, FreeJob DEF Inv, DomainsClean, Leaving
<1>7. job.owed \subseteq swept
  BY <1>1 DEF Inv, JobRestore
<1>8. AskedClean' /\ Wanted'
  BY <1>1, <1>4, <1>7, FreeJob DEF Inv, AskedClean, Wanted
<1>9. Kept'
  BY <1>1, <1>2, <1>4, KeptGrows DEF Inv
<1> QED
  BY <1>3, <1>5, <1>6, <1>8, <1>9 DEF Inv
------------------------------------------------------------------------------
(* The sweep and the park, step by step *)

\* An off-flow takes the lock and records the families that are on.
LEMMA OffFlowStarts ==
  ASSUME Inv, NEW o \in {"sweep", "park"}, job.op = "free", Record(o),
         UNCHANGED <<on, skip, swept, up, engine, boot, parking, failed, asked, want, held, blurred>>,
         exiting' = (exiting \/ o = "sweep"), exiting' \in BOOLEAN, o = "park" => asked = {}
  PROVE  Inv'
<1>1. /\ job' \in JobRecords
      /\ job'.op = o /\ job'.step = "skip" /\ job'.queue = provSnap /\ job'.fams = EnabledFamilies
      /\ job'.cur = NoFamily /\ job'.left = {} /\ job'.tools = (IF o = "sweep" THEN Tools ELSE {})
  BY RecordJob DEF Inv
<1>2. provSnap' = provSnap \cup EnabledFamilies /\ EnabledFamilies \subseteq Families
  BY DEF Record, EnabledFamilies
<1>3. \A f \in EnabledFamilies : MembersOf(f) \cap on # {}
  BY DEF EnabledFamilies, Enabled, Connected, MembersOf
<1>4. TypeOK'
  BY <1>1, <1>2 DEF Inv, TypeOK
<1>5. Pending = provSnap /\ Pending' = provSnap
  BY <1>1, FreePending DEF Pending
<1>6. JobRestore' /\ JobFree'
  BY <1>1 DEF JobRestore, JobFree
<1>7. JobOff'
  BY <1>1, <1>2, <1>3 DEF JobOff
<1>8. DomainsClean' /\ AskedClean'
  BY <1>1 DEF Inv, DomainsClean, AskedClean
<1>9. Kept'
  BY <1>5, KeptGrows DEF Inv
<1>10. Wanted'
  BY <1>5 DEF Inv, Wanted
<1>11. Leaving'
  BY <1>1 DEF Inv, Leaving, TypeOK
<1> QED
  BY <1>4, <1>6, <1>7, <1>8, <1>9, <1>10, <1>11 DEF Inv

LEMMA SkipIsOff ==
  ASSUME Inv, job.step = "skip"
  PROVE  OffFlow
  BY FreeFields DEF Inv, JobRestore, JobFree, OffFlow, TypeOK, JobRecords, Jobs

\* A member is of one family.
LEMMA OneFamily ==
  ASSUME NEW f \in Families, NEW g \in Families, NEW m, m \in MembersOf(f), m \in MembersOf(g)
  PROVE  f = g
  BY FamiliesAssumption

\* A member of a family is read as off when it is not on, and a domain only then.
LEMMA ReadAsOff ==
  ASSUME NEW f \in Families
  PROVE  /\ OffMembers(f) \subseteq MembersOf(f) /\ MembersOf(f) \ on \subseteq OffMembers(f)
         /\ OffMembers(f) \cap Domains \cap on = {}
  BY CatalogAssumption, FamiliesAssumption DEF OffMembers, MembersOf, Connected

\* Between the two records, what the files spoke for before the flow they speak
\* for after it, or it leaves the history with its family.
LEMMA RecordSkipStep ==
  ASSUME Inv, RecordSkip
  PROVE  Inv'
<1> USE DEF disk, process
<1> DEFINE off == UNION {OffMembers(f) : f \in job.fams}
           again == UNION {MembersOf(f) : f \in job.fams \cap job.queue}
<1>1. /\ job.step = "skip" /\ skip' = skip \cup off
      /\ held' = held \ ((off \cap on) \cup (skip' \cap again))
      /\ UNCHANGED <<on, provSnap, swept, process, want, blurred>>
  BY DEF RecordSkip
<1>2. /\ job' \in JobRecords
      /\ job'.op = job.op /\ job'.step = "families" /\ job'.queue = {} /\ job'.fams = job.fams
      /\ job'.cur = job.cur /\ job'.left = job.left /\ job'.tools = job.tools
  BY SkipJob DEF Inv
<1>3. /\ OffFlow /\ job.cur = NoFamily /\ job.left = {} /\ provSnap = job.queue \cup job.fams
      /\ \A f \in job.fams : MembersOf(f) \cap on # {}
      /\ job.fams \subseteq Families /\ provSnap \subseteq Families
  BY <1>1, SkipIsOff DEF Inv, JobOff, TypeOK
<1>4. \A m : m \in off <=> \E f \in job.fams : m \in OffMembers(f)
  OBVIOUS
<1>5. \A m : m \in again <=> \E f \in job.fams \cap job.queue : m \in MembersOf(f)
  OBVIOUS
<1> HIDE DEF off, again
<1>6. Pending = job.queue /\ Pending' = provSnap
  BY <1>1, <1>2 DEF Pending
<1>7. off \subseteq Members /\ held' \subseteq held
  BY <1>1, <1>3, <1>4, ReadAsOff, CatalogAssumption DEF MembersOf, Members
<1>8. TypeOK'
  BY <1>1, <1>2, <1>7 DEF Inv, TypeOK
<1>9. JobRestore' /\ JobFree' /\ JobOff'
  BY <1>1, <1>2, <1>3 DEF Inv, JobRestore, JobFree, JobOff, OffFlow
<1>10. DomainsClean'
  BY <1>1, <1>3, <1>4, ReadAsOff DEF Inv, DomainsClean
<1>11. AskedClean'
  BY <1>1, <1>2, <1>3 DEF Inv, AskedClean, OffFlow, Leaving
<1>12. ASSUME NEW m, RecordedBy(m, Pending)
       PROVE  RecordedBy(m, Pending)' \/ (m \in again /\ m \in off)
  <2>1. CASE m \in swept
    BY <1>1, <2>1 DEF RecordedBy
  <2>2. CASE m \notin swept
    <3>1. PICK g \in job.queue : m \in MembersOf(g) /\ m \notin skip
      BY <1>6, <1>12, <2>2 DEF RecordedBy
    <3>2. CASE m \notin off
      BY <1>1, <1>3, <1>6, <3>1, <3>2 DEF RecordedBy
    <3>3. CASE m \in off
      <4>1. PICK f \in job.fams : m \in OffMembers(f)
        BY <1>4, <3>3
      <4>2. f = g
        BY <1>3, <3>1, <4>1, ReadAsOff, OneFamily
      <4> QED
        BY <1>5, <3>1, <3>3, <4>1, <4>2
    <3> QED
      BY <3>2, <3>3
  <2> QED
    BY <2>1, <2>2
<1>13. ASSUME NEW t \in held', t \in skip' \/ t \notin on, LicensedBy(t, Pending)
       PROVE  LicensedBy(t, Pending)'
  <2>1. PICK f \in Families : t \in ToolsOf[f] /\ \E d \in DomainsOf[f] : d \in on \/ RecordedBy(d, Pending)
    BY <1>13 DEF LicensedBy
  <2>2. PICK d \in DomainsOf[f] : d \in on \/ RecordedBy(d, Pending)
    BY <2>1
  <2>3. ASSUME d \in again, d \in off
        PROVE  FALSE
    <3>1. PICK g \in job.fams \cap job.queue : d \in MembersOf(g)
      BY <1>5, <2>3
    <3>2. d \in MembersOf(f) /\ t \in MembersOf(f)
      BY <2>1, <2>2 DEF MembersOf
    <3>3. f = g
      BY <1>3, <3>1, <3>2, OneFamily
    <3>4. t \in again
      BY <1>5, <3>1, <3>2, <3>3
    <3>5. t \in skip'
      BY <1>1, <1>3, <1>4, <1>13, <3>1, <3>2, <3>3, ReadAsOff
    <3> QED
      BY <1>1, <1>13, <3>4, <3>5
  <2>4. d \in on' \/ RecordedBy(d, Pending)'
    BY <1>1, <1>12, <2>2, <2>3
  <2> QED
    BY <2>1, <2>4 DEF LicensedBy
<1>14. ASSUME Patient, NEW m \in held', m \in skip'
       PROVE  LicensedBy(m, Pending)'
  <2>1. CASE m \in skip
    BY <1>6, <1>7, <1>13, <1>14, <2>1 DEF Inv, Kept
  <2>2. CASE m \notin skip
    <3>1. PICK f \in job.fams : m \in OffMembers(f)
      BY <1>1, <1>4, <1>14, <2>2
    <3>2. m \notin on /\ f \notin job.queue /\ f \in Families /\ m \in MembersOf(f)
      BY <1>1, <1>3, <1>4, <1>5, <1>14, <3>1, ReadAsOff
    <3>3. \A g \in job.queue : m \notin MembersOf(g)
      BY <1>3, <3>2, OneFamily
    <3>4. m \in swept \/ LicensedBy(m, Pending)
      BY <1>6, <1>7, <1>14, <3>2, <3>3 DEF Inv, Kept, RecordedBy
    <3>5. CASE m \in swept
      <4>1. m \in ToolsOf[f]
        BY <3>2, <3>5, CatalogAssumption, FamiliesAssumption DEF Inv, TypeOK, MembersOf
      <4>2. PICK x \in MembersOf(f) : x \in on
        BY <1>3, <3>1
      <4>3. x \in DomainsOf[f]
        BY <3>2, <4>1, <4>2, FamiliesAssumption DEF MembersOf
      <4> QED
        BY <1>1, <3>2, <4>1, <4>2, <4>3 DEF LicensedBy
    <3> QED
      BY <1>6, <1>13, <1>14, <3>4, <3>5
  <2> QED
    BY <2>1, <2>2
<1>15. ASSUME Patient, NEW m \in held'
       PROVE  m \in on' \/ RecordedBy(m, Pending)' \/ LicensedBy(m, Pending)'
  <2>1. m \in on \/ RecordedBy(m, Pending) \/ LicensedBy(m, Pending)
    BY <1>6, <1>7, <1>15 DEF Inv, Kept
  <2>2. CASE m \in on
    BY <1>1, <2>2
  <2>3. CASE RecordedBy(m, Pending)
    <3>1. ~(m \in again /\ m \in off)
      BY <1>1, <1>15
    <3> QED
      BY <1>6, <1>12, <2>3, <3>1
  <2>4. CASE m \notin on /\ LicensedBy(m, Pending)
    BY <1>6, <1>13, <2>4
  <2> QED
    BY <2>1, <2>2, <2>3, <2>4
<1>16. Kept'
  BY <1>14, <1>15 DEF Kept
<1>17. Wanted'
  <2>1. ASSUME Patient, ~blurred, NEW f \in job.fams, NEW m \in MembersOf(f), m \notin skip'
        PROVE  m \in want'
    <3>1. m \in on
      BY <1>1, <1>3, <1>4, <2>1, ReadAsOff
    <3> QED
      BY <1>1, <2>1, <3>1 DEF Inv, Wanted
  <2>2. ASSUME Patient, ~blurred, NEW f \in job.queue, NEW m \in MembersOf(f), m \notin skip'
        PROVE  m \in want'
    BY <1>1, <1>6, <2>2 DEF Inv, Wanted
  <2>3. Patient /\ ~blurred => on' \subseteq want' /\ swept' \subseteq want'
    BY <1>1 DEF Inv, Wanted
  <2> QED
    BY <1>1, <1>3, <1>6, <2>1, <2>2, <2>3 DEF Wanted
<1>18. Leaving'
  BY <1>1, <1>2 DEF Inv, Leaving
<1> QED
  BY <1>8, <1>9, <1>10, <1>11, <1>16, <1>17, <1>18 DEF Inv

LEMMA LeaveJob ==
  ASSUME TypeOK, NEW f \in Families, NEW left \in SUBSET Members, Leave(f, left)
  PROVE  /\ job' \in JobRecords
         /\ job'.op = job.op /\ job'.step = job.step /\ job'.queue = job.queue
         /\ job'.fams = job.fams \ {f} /\ job'.left = left /\ job'.tools = job.tools
         /\ job'.cur = (IF left = {} THEN NoFamily ELSE f)
<1>1. job \in JobRecords
  BY DEF TypeOK
<1>2. job' = [job EXCEPT !.fams = @ \ {f}, !.left = left, !.cur = IF left = {} THEN NoFamily ELSE f]
  BY DEF Leave
<1>3. job' \in JobRecords
  BY <1>1, <1>2 DEF JobRecords
<1>4. /\ job'.op = job.op /\ job'.step = job.step /\ job'.queue = job.queue
      /\ job'.fams = job.fams \ {f} /\ job'.left = left /\ job'.tools = job.tools
      /\ job'.cur = (IF left = {} THEN NoFamily ELSE f)
  BY <1>1, <1>2 DEF JobRecords
<1> QED
  BY <1>3, <1>4

\* What every step of an off-flow's pass keeps.
LEMMA OffGoesOn ==
  ASSUME Inv, OffFlow, job.step = "families", job'.op = job.op, job'.step = job.step,
         on' \subseteq on, UNCHANGED <<provSnap, skip, exiting, asked, want, held, blurred>>,
         swept' = swept \/ (job.op = "sweep" /\ swept' \subseteq swept \cup on)
  PROVE  /\ JobRestore' /\ JobFree' /\ DomainsClean' /\ AskedClean' /\ Wanted'
         /\ Pending = provSnap /\ Pending' = provSnap
<1>1. Pending = provSnap /\ Pending' = provSnap
  BY DEF Pending
<1>2. JobRestore' /\ JobFree'
  BY DEF JobRestore, JobFree, OffFlow
<1>3. DomainsClean' /\ AskedClean'
  BY DEF Inv, DomainsClean, AskedClean, OffFlow, Leaving
<1>4. Wanted'
  BY <1>1 DEF Inv, Wanted
<1> QED
  BY <1>1, <1>2, <1>3, <1>4

LEMMA DisableFamilyStep ==
  ASSUME Inv, DisableFamily
  PROVE  Inv'
<1> USE DEF disk, process, history
<1>1. /\ OffFlow /\ job.step = "families" /\ job.cur = NoFamily /\ job.fams # {}
      /\ UNCHANGED <<on, disk, process, history>>
  BY DEF DisableFamily, Disabling, OffFlow
<1>2. PICK f \in job.fams :
         Leave(f, DomainsOf[f] \cup IF job.op = "park" THEN {} ELSE ToolsOf[f] \cap on)
  BY <1>1 DEF DisableFamily
<1> DEFINE left == DomainsOf[f] \cup IF job.op = "park" THEN {} ELSE ToolsOf[f] \cap on
<1>3. f \in Families /\ f \in provSnap /\ left \subseteq MembersOf(f) /\ left \in SUBSET Members
  BY <1>1, CatalogAssumption DEF Inv, TypeOK, JobOff, MembersOf, Members
<1> HIDE DEF left
<1>4. /\ job' \in JobRecords
      /\ job'.op = job.op /\ job'.step = job.step /\ job'.queue = job.queue
      /\ job'.fams = job.fams \ {f} /\ job'.left = left /\ job'.tools = job.tools
      /\ job'.cur = (IF left = {} THEN NoFamily ELSE f)
  BY <1>2, <1>3, LeaveJob DEF Inv, left
<1>5. TypeOK'
  BY <1>1, <1>4 DEF Inv, TypeOK
<1>6. /\ JobRestore' /\ JobFree' /\ DomainsClean' /\ AskedClean' /\ Wanted'
      /\ Pending = provSnap /\ Pending' = provSnap
  BY <1>1, <1>4, OffGoesOn
<1>7. JobOff'
  BY <1>1, <1>3, <1>4, CatalogAssumption DEF Inv, JobOff, OffFlow
<1>8. Kept'
  BY <1>1, <1>6, KeptGrows DEF Inv
<1>9. Leaving'
  BY <1>1, <1>4 DEF Inv, Leaving, TypeOK
<1> QED
  BY <1>5, <1>6, <1>7, <1>8, <1>9 DEF Inv

\* A member that is taken out is on the files, as its family is, or it is a tool
\* on the skip list.
LEMMA DisableMemberStep ==
  ASSUME Inv, DisableMember
  PROVE  Inv'
<1> USE DEF disk, process, history
<1>1. /\ OffFlow /\ job.step = "families" /\ job.cur # NoFamily /\ job.cur \in Families
      /\ job.cur \in provSnap /\ job.left \subseteq MembersOf(job.cur) /\ job.left \in SUBSET Members
      /\ UNCHANGED <<disk, process, history>>
  BY DEF Inv, TypeOK, JobRecords, JobOff, DisableMember, Disabling, OffFlow
<1>2. PICK m \in NextMembers :
         \/ on' = on \ {m} /\ Leave(job.cur, job.left \ {m})
         \/ on' = on /\ Leave(job.cur, IF m \in Tools THEN {} ELSE job.left \ {m})
  BY DEF DisableMember
<1>3. m \in job.left
  BY <1>2 DEF NextMembers
<1>4. PICK left \in SUBSET job.left : Leave(job.cur, left)
  BY <1>2
<1>5. left \in SUBSET Members
  BY <1>1
<1>6. /\ job' \in JobRecords
      /\ job'.op = job.op /\ job'.step = job.step /\ job'.queue = job.queue
      /\ job'.fams = job.fams \ {job.cur} /\ job'.left = left /\ job'.tools = job.tools
      /\ job'.cur = (IF left = {} THEN NoFamily ELSE job.cur)
  BY <1>1, <1>4, <1>5, LeaveJob DEF Inv
<1>7. on' \subseteq on /\ on \ on' \subseteq {m}
  BY <1>2
<1>8. TypeOK'
  BY <1>1, <1>6, <1>7 DEF Inv, TypeOK
<1>9. /\ JobRestore' /\ JobFree' /\ DomainsClean' /\ AskedClean' /\ Wanted'
      /\ Pending = provSnap /\ Pending' = provSnap
  BY <1>1, <1>6, <1>7, OffGoesOn
<1>10. JobOff'
  BY <1>1, <1>6 DEF Inv, JobOff, OffFlow
<1>11. Kept'
  <2>1. ASSUME NEW x \in on \ on'
        PROVE  Patient => RecordedBy(x, Pending) \/ (x \in skip /\ x \notin Domains)
    BY <1>1, <1>3, <1>7, <1>9 DEF RecordedBy, Inv, DomainsClean
  <2>2. \A f \in Families : DomainsOf[f] \subseteq Domains
    BY CatalogAssumption
  <2> QED
    BY <1>1, <1>7, <1>9, <2>1, <2>2, KeptTakes DEF Inv
<1>12. Leaving'
  BY <1>1, <1>6, <1>7 DEF Inv, Leaving, TypeOK
<1> QED
  BY <1>8, <1>9, <1>10, <1>11, <1>12 DEF Inv

\* A tool is recorded before it is disconnected.
LEMMA SweepRecordStep ==
  ASSUME Inv, SweepRecord
  PROVE  Inv'
<1> USE DEF disk, process, history
<1>1. /\ job.op = "sweep" /\ OffFlow /\ job.step = "families" /\ job.cur = NoFamily /\ job.fams = {}
      /\ job.left = {} /\ job.tools # {} /\ job \in JobRecords /\ job.tools \subseteq Tools
      /\ UNCHANGED <<on, provSnap, skip, process, history>>
  BY DEF Inv, TypeOK, JobRecords, SweepRecord, Disabling, OffFlow
<1>2. PICK t \in job.tools :
         /\ swept' = swept \cup ({t} \cap on)
         /\ job' = [job EXCEPT !.tools = @ \ {t}, !.left = {t} \cap on]
  BY <1>1 DEF SweepRecord
<1>3. {t} \cap on \in SUBSET Members /\ {t} \cap on \subseteq Tools
  BY <1>1 DEF Members
<1>4. job' \in JobRecords
  BY <1>1, <1>2, <1>3 DEF JobRecords
<1>5. /\ job'.op = job.op /\ job'.step = job.step /\ job'.cur = job.cur /\ job'.fams = job.fams
      /\ job'.left = {t} \cap on /\ job'.tools = job.tools \ {t}
  BY <1>1, <1>2 DEF JobRecords
<1>6. TypeOK'
  BY <1>1, <1>2, <1>3, <1>4 DEF Inv, TypeOK
<1>7. /\ JobRestore' /\ JobFree' /\ DomainsClean' /\ AskedClean' /\ Wanted'
      /\ Pending = provSnap /\ Pending' = provSnap
  BY <1>1, <1>2, <1>5, OffGoesOn
<1>8. JobOff'
  BY <1>1, <1>2, <1>5 DEF Inv, JobOff, OffFlow
<1>9. Kept'
  BY <1>1, <1>2, <1>7, KeptGrows DEF Inv
<1>10. Leaving'
  BY <1>1, <1>5 DEF Inv, Leaving
<1> QED
  BY <1>6, <1>7, <1>8, <1>9, <1>10 DEF Inv

LEMMA SweepToolStep ==
  ASSUME Inv, SweepTool
  PROVE  Inv'
<1> USE DEF disk, process, history
<1>1. PICK t \in job.left : \/ on' = on \ {t} /\ failed' = failed
                            \/ on' = on /\ failed' = failed \cup {t}
  BY DEF SweepTool
<1>2. /\ job.op = "sweep" /\ OffFlow /\ job.step = "families" /\ job.cur = NoFamily
      /\ UNCHANGED <<disk, up, engine, exiting, boot, parking, asked, history>>
      /\ t \in swept /\ t \in Tools /\ job.left = {t}
  BY <1>1 DEF Inv, TypeOK, SweepTool, JobOff, OffFlow
<1>3. /\ job' \in JobRecords
      /\ job'.op = job.op /\ job'.step = job.step /\ job'.cur = job.cur /\ job'.fams = job.fams
      /\ job'.left = {} /\ job'.tools = job.tools
  BY SweepToolJob DEF Inv
<1>4. on' \subseteq on /\ on \ on' \subseteq {t}
  BY <1>1
<1>5. TypeOK'
  BY <1>1, <1>2, <1>3, <1>4 DEF Inv, TypeOK
<1>6. /\ JobRestore' /\ JobFree' /\ DomainsClean' /\ AskedClean' /\ Wanted'
      /\ Pending = provSnap /\ Pending' = provSnap
  BY <1>2, <1>3, <1>4, OffGoesOn
<1>7. JobOff'
  BY <1>2, <1>3 DEF Inv, JobOff, OffFlow
<1>8. Kept'
  <2>1. \A x \in on \ on' : RecordedBy(x, Pending)
    BY <1>2, <1>4 DEF RecordedBy
  <2>2. \A f \in Families : DomainsOf[f] \subseteq Domains
    BY CatalogAssumption
  <2> QED
    BY <1>2, <1>4, <1>6, <2>1, <2>2, KeptTakes DEF Inv
<1>9. Leaving'
  BY <1>1, <1>2, <1>3 DEF Inv, Leaving
<1> QED
  BY <1>5, <1>6, <1>7, <1>8, <1>9 DEF Inv

\* The lock is free again: what is still on is what the sweep reported.
LEMMA OffFlowEnds ==
  ASSUME Inv, TypeOK', OffFlow, job.step = "families", job' = Free,
         UNCHANGED <<on, disk, history, exiting, failed, asked>>,
         exiting => on \cap Tools \subseteq failed
  PROVE  Inv'
<1> USE DEF disk, history
<1>1. JobRestore' /\ JobOff' /\ JobFree'
  BY FreeJob DEF JobRestore, JobOff, JobFree, OffFlow
<1>2. DomainsClean' /\ AskedClean' /\ Leaving'
  BY FreeJob DEF Inv, DomainsClean, AskedClean, Leaving
<1>3. Pending = provSnap /\ Pending' = provSnap
  BY FreeJob DEF Pending
<1>4. Kept'
  BY <1>3, KeptGrows DEF Inv
<1>5. Wanted'
  BY <1>3 DEF Inv, Wanted
<1> QED
  BY <1>1, <1>2, <1>4, <1>5 DEF Inv

LEMMA SweepEndStep ==
  ASSUME Inv, SweepEnd
  PROVE  Inv'
<1> USE DEF disk, process, history
<1>1. /\ job.op = "sweep" /\ OffFlow /\ job.step = "families" /\ job' = Free
      /\ job.cur = NoFamily /\ job.left = {} /\ job.tools = {}
      /\ UNCHANGED <<on, disk, process, history>>
  BY DEF SweepEnd, Disabling, OffFlow
<1>2. TypeOK'
  BY <1>1, FreeJob DEF Inv, TypeOK
<1>3. on \cap Tools \subseteq failed
  BY <1>1 DEF Inv, Leaving
<1> QED
  BY <1>1, <1>2, <1>3, OffFlowEnds

LEMMA ParkEndStep ==
  ASSUME Inv, ParkEnd
  PROVE  Inv'
<1> USE DEF disk, history
<1>1. /\ job.op = "park" /\ OffFlow /\ job.step = "families" /\ job' = Free /\ parking' = "engine"
      /\ UNCHANGED <<on, disk, up, engine, exiting, boot, failed, asked, history>>
  BY DEF ParkEnd, Disabling, OffFlow
<1>2. TypeOK'
  BY <1>1, FreeJob DEF Inv, TypeOK
<1>3. exiting => on \cap Tools \subseteq failed
  BY <1>1 DEF Inv, Leaving
<1> QED
  BY <1>1, <1>2, <1>3, OffFlowEnds
------------------------------------------------------------------------------
(* The user and the process *)

\* Members are switched on with the lock free: by hand when nothing waits to be
\* restored, by the reconcile next to a domain of their family.
LEMMA SwitchedOn ==
  ASSUME Inv, TypeOK', job.op = "free", NEW H, Patient => H \cap Domains \cap skip = {},
         on' = on \cup H, want' = want \cup H, held' = held \cup H,
         UNCHANGED <<disk, job, exiting, failed, blurred>>, asked' \subseteq asked,
         exiting => H \cap Tools = {},
         Patient => \A m \in H \cap skip : \E f \in Families : m \in ToolsOf[f] /\ DomainsOf[f] \cap on # {}
  PROVE  Inv'
<1>1. Pending = provSnap /\ Pending' = provSnap
  BY FreePending DEF Pending, disk
<1>2. JobRestore' /\ JobOff' /\ JobFree'
  BY DEF Inv, JobRestore, JobOff, JobFree, OffFlow
<1>3. DomainsClean' /\ AskedClean'
  BY DEF Inv, DomainsClean, AskedClean, disk
<1>4. Kept'
  BY KeptAdds DEF Inv
<1>5. Wanted'
  BY <1>1 DEF Inv, Wanted, disk
<1>6. Leaving'
  BY DEF Inv, Leaving
<1> QED
  BY <1>2, <1>3, <1>4, <1>5, <1>6 DEF Inv

LEMMA ConnectStep ==
  ASSUME Inv, Connect
  PROVE  Inv'
<1>1. PICK t \in asked :
         /\ asked' = asked \ {t}
         /\ \/ /\ ~exiting
               /\ on' = on \cup {t} /\ want' = want \cup {t} /\ held' = held \cup {t}
            \/ UNCHANGED <<on, want, held>>
  BY DEF Connect
<1>2. t \in Tools /\ job.op = "free" /\ UNCHANGED <<disk, up, engine, exiting, boot, parking, failed, job, blurred>>
  BY DEF Inv, TypeOK, Connect, Unlocked
<1>3. TypeOK'
  BY <1>1, <1>2 DEF Inv, TypeOK, disk, Members
<1>4. CASE UNCHANGED <<on, want, held>>
  BY <1>1, <1>2, <1>3, <1>4, IdleStep DEF history
<1>5. CASE /\ ~exiting
           /\ on' = on \cup {t} /\ want' = want \cup {t} /\ held' = held \cup {t}
  <2>1. Patient => skip = {}
    BY <1>5 DEF Inv, AskedClean
  <2> QED
    BY <1>1, <1>2, <1>3, <1>5, <2>1, SwitchedOn
<1> QED
  BY <1>1, <1>4, <1>5

LEMMA DomainOnStep ==
  ASSUME Inv, DomainOn
  PROVE  Inv'
<1>1. PICK d \in Domains : on' = on \cup {d} /\ want' = want \cup {d} /\ held' = held \cup {d}
  BY DEF DomainOn
<1>2. job.op = "free" /\ (Patient => skip = {}) /\ UNCHANGED <<disk, process, job, blurred>>
  BY DEF DomainOn, MayTouch, Patient
<1>3. TypeOK'
  BY <1>1, <1>2 DEF Inv, TypeOK, disk, process, Members
<1>4. {d} \cap Tools = {}
  BY FamiliesAssumption
<1> QED
  BY <1>1, <1>2, <1>3, <1>4, SwitchedOn DEF process

LEMMA ReconcileStep ==
  ASSUME Inv, Reconcile
  PROVE  Inv'
<1>1. PICK ts \in SUBSET {t \in Tools \ on : ~NeedsEngine(t) /\
                            \E f \in Families : t \in ToolsOf[f] /\ DomainsOf[f] \cap on # {}} :
         on' = on \cup ts /\ want' = want \cup ts /\ held' = held \cup ts
  BY DEF Reconcile
<1>2. job.op = "free" /\ ~exiting /\ UNCHANGED <<disk, process, job, blurred>>
  BY DEF Reconcile, Unlocked
<1>3. /\ ts \subseteq Tools
      /\ \A m \in ts : \E f \in Families : m \in ToolsOf[f] /\ DomainsOf[f] \cap on # {}
  OBVIOUS
<1>4. TypeOK'
  BY <1>1, <1>2, <1>3 DEF Inv, TypeOK, disk, process, Members
<1>5. ts \cap Domains \cap skip = {}
  BY <1>3, FamiliesAssumption
<1> QED
  BY <1>1, <1>2, <1>3, <1>4, <1>5, SwitchedOn DEF process

\* A switch is turned off by hand only when nothing waits to be restored, so every
\* member the history holds is on.
LEMMA SwitchOffStep ==
  ASSUME Inv, SwitchOff
  PROVE  Inv'
<1> USE DEF disk, process
<1>1. PICK m \in on : on' = on \ {m} /\ want' = want \ {m} /\ held' = (held \cap on) \ {m}
  BY DEF SwitchOff
<1>2. /\ job.op = "free" /\ (Patient => provSnap = {} /\ skip = {} /\ swept = {})
      /\ UNCHANGED <<disk, process, job, blurred>>
  BY DEF SwitchOff, MayTouch, Patient
<1>3. TypeOK'
  BY <1>1, <1>2 DEF Inv, TypeOK
<1>4. Patient => Pending' = {}
  BY <1>2, FreePending DEF Pending
<1>5. JobRestore' /\ JobOff' /\ JobFree'
  BY <1>2 DEF Inv, JobRestore, JobOff, JobFree, OffFlow
<1>6. DomainsClean' /\ AskedClean' /\ Leaving'
  BY <1>1, <1>2 DEF Inv, DomainsClean, AskedClean, Leaving
<1>7. Kept'
  BY <1>1, <1>2 DEF Kept
<1>8. Wanted'
  BY <1>1, <1>2, <1>4 DEF Inv, Wanted
<1> QED
  BY <1>3, <1>5, <1>6, <1>7, <1>8 DEF Inv

LEMMA EndStep ==
  ASSUME Inv, Quit \/ Die
  PROVE  Inv'
<1>1. Ended
  BY DEF Quit, Die
<1>2. TypeOK'
  BY <1>1, FreeJob DEF Quit, Die, Ended, disk, history, Inv, TypeOK
<1>3. (blurred => blurred') /\ (job.step = "skip" => blurred')
  BY FreeFields DEF Quit, Die, Unlocked, Inv, JobFree, TypeOK
<1> QED
  BY <1>1, <1>2, <1>3, ProcessEnds

\* The steps that touch neither files nor members: the boot sequence, the engine,
\* a connect that begins to wait, a launch.
LEMMA ProcessStep ==
  ASSUME Inv, RoutingOn \/ StartEngine \/ ParkEngine \/ AskConnect \/ Launch
  PROVE  Inv'
<1> USE DEF disk, history, process
<1>1. TypeOK'
  BY DEF Inv, TypeOK, RoutingOn, StartEngine, ParkEngine, AskConnect, Launch
<1>2. UNCHANGED <<on, disk, job, history, exiting, failed>>
  BY DEF RoutingOn, StartEngine, ParkEngine, AskConnect, Launch
<1>3. asked' \subseteq asked \/ (job.op = "free" /\ (Patient => provSnap = {} /\ skip = {} /\ swept = {}))
  BY DEF RoutingOn, StartEngine, ParkEngine, AskConnect, Launch, MayTouch, Patient
<1> QED
  BY <1>1, <1>2, <1>3, IdleStep

LEMMA RestoreOneStep ==
  ASSUME Inv, RestoreOne
  PROVE  Inv'
<1> USE DEF disk, history, process
<1>1. job.op = "free" /\ ~exiting /\ UNCHANGED <<on, disk, process, history>>
  BY DEF RestoreOne, Unlocked
<1>2. ASSUME NEW f \in provSnap,
             job' = [Free EXCEPT !.op = "restore", !.step = "families", !.queue = {f}, !.fams = {f}]
      PROVE  Inv'
  <2>1. TypeOK'
    BY <1>1, <1>2, RestoreOneFamilyJob DEF Inv, TypeOK
  <2> QED
    BY <1>1, <1>2, <2>1, RestoreOneFamilyJob, RestoreStarts DEF Inv
<1>3. ASSUME NEW t \in swept,
             job' = [Free EXCEPT !.op = "restore", !.step = "tools", !.tools = {t}]
      PROVE  Inv'
  <2>1. TypeOK'
    BY <1>1, <1>3, RestoreOneToolJob DEF Inv, TypeOK
  <2> QED
    BY <1>1, <1>3, <2>1, RestoreOneToolJob, RestoreStarts DEF Inv
<1> QED
  BY <1>2, <1>3 DEF RestoreOne

LEMMA PassStep ==
  ASSUME Inv, FirstPass \/ SecondPass
  PROVE  Inv'
<1> USE DEF disk, history, process
<1>1. PICK turn \in {"first", "second"} : RestoreAll(turn)
  BY DEF FirstPass, SecondPass
<1>2. /\ job.op = "free" /\ UNCHANGED <<on, disk, up, engine, exiting, parking, failed, asked, history>>
      /\ boot' \in {"engine", "done", boot}
  BY DEF FirstPass, SecondPass, Unlocked
<1>3. CASE exiting
  <2>1. job' = job
    BY <1>1, <1>3 DEF RestoreAll
  <2>2. TypeOK'
    BY <1>2, <2>1 DEF Inv, TypeOK
  <2> QED
    BY <1>2, <2>1, <2>2, IdleStep
<1>4. CASE ~exiting
  <2>1. TypeOK'
    BY <1>1, <1>2, <1>4, RestoreAllJob DEF Inv, TypeOK
  <2> QED
    BY <1>1, <1>2, <1>4, <2>1, RestoreAllJob, RestoreStarts DEF Inv
<1> QED
  BY <1>3, <1>4

LEMMA RecordStep ==
  ASSUME Inv, SweepBegin \/ ParkBegin
  PROVE  Inv'
<1>1. CASE SweepBegin
  <2>1. /\ job.op = "free" /\ Record("sweep") /\ exiting' = TRUE
        /\ UNCHANGED <<on, skip, swept, up, engine, boot, parking, failed, asked, history>>
    BY <1>1 DEF SweepBegin, Unlocked
  <2> QED
    BY <2>1, OffFlowStarts DEF history
<1>2. CASE ParkBegin
  <2>1. /\ job.op = "free" /\ Record("park") /\ asked = {}
        /\ UNCHANGED <<on, skip, swept, process, history>>
    BY <1>2 DEF ParkBegin, Unlocked
  <2>2. exiting' = exiting /\ exiting \in BOOLEAN
    BY <2>1 DEF process, Inv, TypeOK
  <2>3. exiting' = (exiting \/ "park" = "sweep") /\ exiting' \in BOOLEAN
    BY <2>2
  <2> QED
    BY <2>1, <2>3, OffFlowStarts DEF history, process
<1> QED
  BY <1>1, <1>2

------------------------------------------------------------------------------
(* The theorems *)

LEMMA InitInv == Init => Inv
<1> SUFFICES ASSUME Init
             PROVE  Inv
  OBVIOUS
<1>1. TypeOK
  BY FreeFields DEF Init, TypeOK
<1>2. JobRestore /\ JobOff /\ JobFree
  BY FreeFields DEF Init, JobRestore, JobOff, JobFree, OffFlow
<1>3. DomainsClean /\ AskedClean /\ Kept /\ Leaving
  BY FreeFields DEF Init, DomainsClean, AskedClean, Kept, Leaving
<1>4. Wanted
  BY FreeFields DEF Init, Wanted, Pending
<1> QED
  BY <1>1, <1>2, <1>3, <1>4 DEF Inv

LEMMA NextInv ==
  ASSUME Inv, [Next]_vars
  PROVE  Inv'
<1>1. CASE RestoreOne \/ RestoreFamily \/ RestoreMember \/ RestoreFamilyEnd
             \/ RestoreSave \/ RestoreClearSkip \/ RestoreTool \/ RestoreEnd
  BY <1>1, RestoreOneStep, RestoreFamilyStep, RestoreMemberStep, RestoreFamilyEndStep,
     RestoreSaveStep, RestoreClearSkipStep, RestoreToolStep, RestoreEndStep
<1>2. CASE RoutingOn \/ FirstPass \/ StartEngine \/ SecondPass
  BY <1>2, ProcessStep, PassStep
<1>3. CASE SweepBegin \/ ParkBegin \/ RecordSkip \/ DisableFamily \/ DisableMember
             \/ SweepRecord \/ SweepTool \/ SweepEnd \/ ParkEnd \/ ParkEngine
  BY <1>3, RecordStep, RecordSkipStep, DisableFamilyStep, DisableMemberStep, SweepRecordStep,
     SweepToolStep, SweepEndStep, ParkEndStep, ProcessStep
<1>4. CASE AskConnect \/ Connect \/ SwitchOff \/ DomainOn \/ Reconcile
  BY <1>4, ProcessStep, ConnectStep, SwitchOffStep, DomainOnStep, ReconcileStep
<1>5. CASE Quit \/ Die \/ Launch
  BY <1>5, EndStep, ProcessStep
<1>6. CASE UNCHANGED vars
  <2>1. TypeOK' /\ UNCHANGED <<on, disk, job, history, exiting, failed>> /\ asked' \subseteq asked
    BY <1>6 DEF vars, disk, process, history, Inv, TypeOK
  <2> QED
    BY <2>1, IdleStep
<1> QED
  BY <1>1, <1>2, <1>3, <1>4, <1>5, <1>6 DEF Next

LEMMA Invariance == Spec => []Inv
<1>1. Inv /\ [Next]_vars => Inv'
  BY NextInv
<1> QED
  BY <1>1, InitInv, PTL DEF Spec

\* Every variable keeps to its range, and what the history holds was asked for.
THEOREM TypeCorrect == Spec => []TypeOK
<1>1. Inv => TypeOK
  BY DEF Inv
<1> QED
  BY Invariance, <1>1, PTL

\* Whatever point of a sweep, a park or a restore the process dies at, a member
\* last switched on is on or the files bring it back.
THEOREM ForgetsNothing ==
  ASSUME Patient
  PROVE  Spec => []NothingForgotten
<1>1. Inv => NothingForgotten
  <2> SUFFICES ASSUME Inv
               PROVE  NothingForgotten
    OBVIOUS
  <2>1. Pending \subseteq provSnap
    BY SkipIsOff DEF Inv, JobOff, Pending
  <2>2. ASSUME NEW m, RecordedBy(m, Pending)
        PROVE  Recorded(m)
    BY <2>1, <2>2 DEF RecordedBy, Recorded
  <2>3. ASSUME NEW t, LicensedBy(t, Pending)
        PROVE  Licensed(t)
    BY <2>2, <2>3 DEF LicensedBy, Licensed
  <2> QED
    BY <2>2, <2>3 DEF Inv, Kept, NothingForgotten
<1> QED
  BY Invariance, <1>1, PTL

\* Once the exit sweep is over, nothing puts a tool back before the process is gone.
THEOREM ExitHolds == Spec => []ExitStands
<1>1. Inv => ExitStands
  BY DEF Inv, Leaving, ExitStands
<1> QED
  BY Invariance, <1>1, PTL

\* No step, of a restore above all, switches on what was not last switched on, until
\* a death falls between the two records of an off-flow.
THEOREM AskedFor ==
  ASSUME Patient
  PROVE  Spec => NothingUnasked
<1>1. Inv' /\ ~blurred' => \A m \in on' \ on : m \in want'
  BY DEF Inv, Wanted
<1>2. Next /\ blurred' => blurred \/ on' = on
  BY DEF Next, RestoreOne, RestoreFamily, RestoreMember, RestoreFamilyEnd, RestoreSave,
         RestoreClearSkip, RestoreTool, RestoreEnd, RoutingOn, FirstPass, StartEngine, SecondPass,
         SweepBegin, ParkBegin, RecordSkip, DisableFamily, DisableMember, SweepRecord, SweepTool,
         SweepEnd, ParkEnd, ParkEngine, AskConnect, Connect, SwitchOff, DomainOn, Reconcile, Quit,
         Die, Ended, Launch, history
<1>3. Inv /\ [Next]_vars => [~blurred => \A m \in on' \ on : m \in want']_vars
  <2> SUFFICES ASSUME Inv, Next, ~blurred, NEW m \in on' \ on
               PROVE  m \in want'
    OBVIOUS
  <2> QED
    BY NextInv, <1>1, <1>2
<1> QED
  BY Invariance, <1>3, PTL DEF Spec, NothingUnasked
==============================================================================
