---------------------------- MODULE SchedulerProofs ----------------------------
(***************************************************************************)
(* Proofs about Scheduler, for every set of tasks, runs, loops, requests   *)
(* and editors and every limit.                                            *)
(***************************************************************************)
EXTENDS SchedulerProps, FiniteSetTheorems, SequenceTheorems, TLAPS

-----------------------------------------------------------------------------
(***************************************************************************)
(* The next fire time.                                                     *)
(***************************************************************************)
\* It lies strictly after the moment it is computed at.
LEMMA UpcomingIsLater ==
  ASSUME NEW c \in Nat \ {0}, NEW n \in Nat
  PROVE  Upcoming(c, n) \in Nat /\ Upcoming(c, n) > n
<1> DEFINE q == n \div c
           r == n % c
<1>1. q \in Nat /\ r \in Nat /\ n = c * q + r /\ r < c
  OBVIOUS
<1>2. Upcoming(c, n) = q * c + c
  BY <1>1 DEF Upcoming
<1>3. q * c \in Nat /\ q * c = c * q
  BY <1>1
<1>. QED
  BY <1>1, <1>2, <1>3

LEMMA MergeType ==
  ASSUME SchedulerAssumption, NEW stored \in TaskRow, NEW seen \in TaskRow, NEW c \in Crons, NEW on \in BOOLEAN,
         now \in Nat
  PROVE  Edited(seen, c, on) \in TaskRow /\ Merge(stored, seen, Edited(seen, c, on)) \in TaskRow
<1>1. Upcoming(c, now) \in Nat
  BY UpcomingIsLater DEF SchedulerAssumption
<1>2. Edited(seen, c, on) \in TaskRow
  BY <1>1 DEF Edited, TaskRow
<1>. QED
  BY <1>2 DEF Merge, TaskRow

-----------------------------------------------------------------------------
(***************************************************************************)
(* Type correctness.  A process that is not up can be started again.       *)
(***************************************************************************)
TypeInv == TypeOK /\ (process # "up" => starts < MaxStarts)

\* The records that the actions make.
LEMMA RecordTypes ==
  /\ NoRun \in RunRow /\ NoEdit \in EditStates
  /\ \A l \in Launchers : Leave(l) \in LaunchStates /\ NoLaunch \in LaunchStates
  /\ \A t \in Tasks : /\ [NoLaunch EXCEPT !.at = "skip", !.task = t] \in LaunchStates
                      /\ [NoLaunch EXCEPT !.at = "insert", !.task = t] \in LaunchStates
<1>1. NoRun \in [task : Tasks \cup {None}, trigger : {"schedule", "manual"}, status : {"none"}]
  BY DEF NoRun
<1>2. NoRun \in RunRow
  BY <1>1 DEF RunRow
<1>. QED
  BY <1>2 DEF EditStates, NoEdit, LaunchStates, Leave, NoLaunch

LEMMA NewRunType ==
  ASSUME NEW l \in Launchers, launch[l] \in LaunchStates
  PROVE  \A st \in {"pending", "skipped"} : NewRun(l, st) \in RunRow
  BY DEF NewRun, RunRow, LaunchStates, Active, Settled

LEMMA StatusType ==
  ASSUME NEW r \in RunRow, NEW st \in {"deleted"} \cup Active \cup Settled
  PROVE  [r EXCEPT !.status = st] \in RunRow
  BY DEF RunRow

LEMMA SetStatusType ==
  ASSUME run \in [Runs -> RunRow], NEW r \in Runs, NEW st \in {"deleted"} \cup Active \cup Settled,
         SetStatus(r, st)
  PROVE  run' \in [Runs -> RunRow]
  BY StatusType DEF SetStatus, RunRow

LEMMA SpawnType ==
  ASSUME launch \in [Launchers -> LaunchStates], NEW l \in Launchers, NEW r \in Runs,
         launch' = [launch EXCEPT ![l].at = "spawn", ![l].run = r]
  PROVE  launch' \in [Launchers -> LaunchStates]
  BY DEF LaunchStates

LEMMA AppendType ==
  ASSUME NEW s \in Seq(Nat), NEW n \in Nat
  PROVE  Append(s, n) \in Seq(Nat)
  OBVIOUS

\* What a schedule is created with.
Created(c, on) == [cron |-> c, enabled |-> on, next |-> IF on THEN Upcoming(c, now) ELSE 0]

LEMMA TaskRowTypes ==
  ASSUME TypeInv
  PROVE  /\ now \in Nat /\ \A l \in Loops : tickTime[l] \in Nat
         /\ \A c \in Crons : c \in Nat \ {0} /\ \A n \in Nat : Upcoming(c, n) \in Nat /\ Upcoming(c, n) > n
         /\ \A c \in Crons, on \in BOOLEAN : Created(c, on) \in TaskRow
         /\ \A r \in TaskRow : r.cron \in Crons /\ r.enabled \in BOOLEAN /\ r.next \in Nat
         /\ \A r \in TaskRow, n \in Nat : [r EXCEPT !.next = n] \in TaskRow
<1>1. now \in Nat /\ \A l \in Loops : tickTime[l] \in Nat
  BY SchedulerAssumption DEF SchedulerAssumption, TypeInv, TypeOK, Times
<1>2. \A c \in Crons : c \in Nat \ {0}
  BY SchedulerAssumption DEF SchedulerAssumption
<1>3. \A c \in Crons : \A n \in Nat : Upcoming(c, n) \in Nat /\ Upcoming(c, n) > n
  BY <1>2, UpcomingIsLater
<1>4. \A c \in Crons : Upcoming(c, now) \in Nat
  BY <1>1, <1>3
<1>5. \A c \in Crons, on \in BOOLEAN : Created(c, on) \in TaskRow
  BY <1>4 DEF Created, TaskRow
<1>. QED
  BY <1>1, <1>2, <1>3, <1>5 DEF TaskRow

LEMMA TypeInit == Init => TypeInv
<1> SUFFICES ASSUME Init PROVE TypeInv
  OBVIOUS
<1>1. row \in [Tasks -> TaskRow]
  <2>1. \A c \in Crons : [cron |-> c, enabled |-> FALSE, next |-> 0] \in TaskRow
    BY DEF TaskRow
  <2>2. {[cron |-> c, enabled |-> FALSE, next |-> 0] : c \in Crons} \subseteq TaskRow
    BY <2>1
  <2>. QED
    BY <2>2 DEF Init
<1>2. /\ process = "up" /\ now \in Times /\ startTime \in Times /\ starts \in 1..MaxStarts
  BY SchedulerAssumption DEF SchedulerAssumption, Init, Times
<1>3. tickTime \in [Loops -> Times]
  BY <1>2 DEF Init
<1>4. fired \in [Tasks -> Seq(Nat)]
  BY DEF Init
<1>5. /\ run \in [Runs -> RunRow] /\ edit \in [Editors -> EditStates]
      /\ launch \in [Launchers -> LaunchStates]
  BY RecordTypes DEF Init
<1>6. /\ due \in [Loops -> SUBSET (Tasks \X TaskRow)] /\ claimed \in [Loops -> SUBSET Tasks]
      /\ stage \in [Loops -> {"sleep", "scan", "launch"}]
  BY DEF Init
<1>7. /\ life \in [Tasks -> {"absent", "live", "deleted"}]
      /\ exec \in [Runs -> {"none", "queued", "waiting", "working", "finalizing", "delivering", "failing"}]
  BY DEF Init
<1>. QED
  BY <1>1, <1>2, <1>3, <1>4, <1>5, <1>6, <1>7 DEF TypeOK, TypeInv

LEMMA TypeCreate ==
  ASSUME TypeInv, NEW t \in Tasks, CreateSchedule(t)
  PROVE  TypeInv'
<1>1. row' \in [Tasks -> TaskRow]
  BY TaskRowTypes DEF CreateSchedule, Created, TypeInv, TypeOK
<1>. QED
  BY <1>1 DEF CreateSchedule, TypeInv, TypeOK, clockVars, loopVars, runVars

LEMMA TypeEdits ==
  ASSUME TypeInv, NEW t \in Tasks, NEW e \in Editors, LoadForUpdate(e, t) \/ LoadForDelete(e, t)
  PROVE  TypeInv'
<1> USE DEF TypeInv, TypeOK, clockVars, loopVars, runVars, dbVars
<1>2. CASE LoadForUpdate(e, t)
  <2>1. [at |-> "patch", task |-> t, seen |-> {row[t]}, runs |-> {}] \in EditStates
    BY DEF EditStates
  <2>. QED
    BY <1>2, <2>1 DEF LoadForUpdate
<1>3. CASE LoadForDelete(e, t)
  <2>1. [at |-> "delete", task |-> t, seen |-> {}, runs |-> RunsOf(t)] \in EditStates
    BY DEF EditStates, RunsOf
  <2>. QED
    BY <1>3, <2>1 DEF LoadForDelete
<1>. QED
  BY <1>2, <1>3

LEMMA CommitUpdateRow ==
  ASSUME TypeInv, NEW e \in Editors, CommitUpdate(e)
  PROVE  \/ row' = row
         \/ /\ edit[e].task \in Tasks /\ life[edit[e].task] = "live"
            /\ \E seen \in edit[e].seen, c \in Crons, on \in BOOLEAN :
                 /\ seen \in TaskRow /\ Merge(row[edit[e].task], seen, Edited(seen, c, on)) \in TaskRow
                 /\ row' = [row EXCEPT ![edit[e].task] = Merge(@, seen, Edited(seen, c, on))]
<1> USE DEF TypeInv, TypeOK
<1>1. SUFFICES ASSUME NEW seen \in edit[e].seen, NEW c \in Crons, NEW on \in BOOLEAN, life[edit[e].task] = "live",
                      row' = [row EXCEPT ![edit[e].task] = Merge(@, seen, Edited(seen, c, on))], row' # row
               PROVE  /\ edit[e].task \in Tasks /\ seen \in TaskRow
                      /\ Merge(row[edit[e].task], seen, Edited(seen, c, on)) \in TaskRow
  BY DEF CommitUpdate
<1>2. edit[e].task \in Tasks
  <2>1. CASE edit[e].task \notin Tasks
    BY <2>1, <1>1
  <2>. QED
    BY <2>1
<1>3. seen \in TaskRow
  BY DEF EditStates
<1>. QED
  BY <1>2, <1>3, MergeType, TaskRowTypes, SchedulerAssumption

LEMMA TypeCommits ==
  ASSUME TypeInv, NEW e \in Editors, CommitUpdate(e) \/ CommitDelete(e)
  PROVE  TypeInv'
<1> USE DEF TypeInv, TypeOK, clockVars, loopVars, runVars, dbVars
<1>1. CASE CommitUpdate(e)
  <2>1. row' \in [Tasks -> TaskRow]
    BY <1>1, CommitUpdateRow
  <2>. QED
    BY <1>1, <2>1, RecordTypes DEF CommitUpdate
<1>2. CASE CommitDelete(e)
  <2>1. run' \in [Runs -> RunRow]
    <3>1. \A r \in Runs : [run[r] EXCEPT !.status = "deleted"] \in RunRow
      BY StatusType
    <3>2. CASE UNCHANGED run
      BY <3>2
    <3>3. CASE run' = [r \in Runs |-> IF run[r].task = edit[e].task
                                      THEN [run[r] EXCEPT !.status = "deleted"] ELSE run[r]]
      BY <3>1, <3>3
    <3>. QED
      BY <1>2, <3>2, <3>3 DEF CommitDelete
  <2>2. life' \in [Tasks -> {"absent", "live", "deleted"}]
    <3>1. life' = life \/ life' = [life EXCEPT ![edit[e].task] = "deleted"]
      BY <1>2 DEF CommitDelete
    <3>2. life \in [Tasks -> {"absent", "live", "deleted"}]
      OBVIOUS
    <3>. QED
      BY ONLY <3>1, <3>2
  <2>. QED
    BY <1>2, <2>1, <2>2, RecordTypes DEF CommitDelete
<1>. QED
  BY <1>1, <1>2

LEMMA BeginType ==
  ASSUME TypeInv, NEW l \in Launchers, NEW t \in Tasks, Begin(l, t)
  PROVE  launch' \in [Launchers -> LaunchStates]
  BY RecordTypes DEF TypeInv, TypeOK, Begin

LEMMA TypeLaunch ==
  ASSUME TypeInv, NEW l \in Launchers, LaunchStep(l)
  PROVE  TypeInv'
<1> USE DEF TypeInv, TypeOK, clockVars, loopVars, runVars, dbVars
<1>1. CASE InsertRun(l)
  <2>1. run' \in [Runs -> RunRow]
    BY <1>1, NewRunType, RecordTypes DEF InsertRun
  <2>2. launch' \in [Launchers -> LaunchStates]
    <3>1. CASE launch' = [launch EXCEPT ![l] = Leave(l)]
      BY <3>1, RecordTypes
    <3>2. ASSUME NEW r \in Runs, launch' = [launch EXCEPT ![l].at = "spawn", ![l].run = r]
          PROVE  launch' \in [Launchers -> LaunchStates]
      BY <3>2, SpawnType
    <3>. QED
      BY <1>1, <3>1, <3>2 DEF InsertRun
  <2>. QED
    BY <1>1, <2>1, <2>2 DEF InsertRun
<1>2. CASE InsertSkipped(l)
  <2>1. run' \in [Runs -> RunRow]
    BY <1>2, NewRunType, RecordTypes DEF InsertSkipped
  <2>. QED
    BY <1>2, <2>1, RecordTypes DEF InsertSkipped
<1>3. CASE SpawnRun(l)
  BY <1>3, RecordTypes DEF SpawnRun
<1>. QED
  BY <1>1, <1>2, <1>3 DEF LaunchStep

\* The row and the claims after a claim.
LEMMA TypeLoop ==
  ASSUME TypeInv, NEW l \in Loops, LoopStep(l)
  PROVE  TypeInv'
<1> USE DEF TypeInv, TypeOK, clockVars, loopVars, runVars, dbVars
<1>1. CASE Scan(l)
  <2>1. {<<t, row[t]>> : t \in {u \in Tasks : IsDue(u)}} \subseteq Tasks \X TaskRow
    OBVIOUS
  <2>. QED
    BY <1>1, <2>1 DEF Scan
<1>2. CASE ClaimDue(l)
  <2> DEFINE won == {d \in due[l] : Claimable(d)}
             tasks == {d[1] : d \in won}
             seen(t) == CHOOSE d \in won : d[1] = t
  <2>1. \A t \in tasks : t \in Tasks /\ seen(t) \in won /\ seen(t)[2] \in TaskRow
    OBVIOUS
  <2>2. \A t \in tasks : seen(t)[2].next \in Nat /\ Upcoming(seen(t)[2].cron, tickTime[l]) \in Nat
    BY <2>1, TaskRowTypes
  <2>3. \A t \in tasks : [row[t] EXCEPT !.next = Upcoming(seen(t)[2].cron, tickTime[l])] \in TaskRow
    BY <2>1, <2>2, TaskRowTypes
  <2>4. \A t \in tasks : Append(fired[t], seen(t)[2].next) \in Seq(Nat)
    BY <2>1, <2>2, AppendType
  <2> HIDE DEF seen, won, tasks
  <2>5. CASE UNCHANGED <<claimed, row, fired>> /\ stage' = [stage EXCEPT ![l] = "sleep"]
    BY <1>2, <2>5 DEF ClaimDue
  <2>6. CASE /\ stage' = [stage EXCEPT ![l] = "launch"] /\ claimed' = [claimed EXCEPT ![l] = tasks]
             /\ row' = [t \in Tasks |-> IF t \in tasks
                          THEN [row[t] EXCEPT !.next = Upcoming(seen(t)[2].cron, tickTime[l])] ELSE row[t]]
             /\ fired' = [t \in Tasks |-> IF t \in tasks THEN Append(fired[t], seen(t)[2].next) ELSE fired[t]]
    <3>1. row' \in [Tasks -> TaskRow] /\ fired' \in [Tasks -> Seq(Nat)] /\ claimed' \in [Loops -> SUBSET Tasks]
      BY <2>6, <2>1, <2>3, <2>4
    <3>. QED
      BY <1>2, <2>6, <3>1 DEF ClaimDue
  <2>. QED
    BY <1>2, <2>5, <2>6 DEF ClaimDue, seen, won, tasks
<1>3. CASE LaunchClaimed(l)
  <2>1. PICK t \in claimed[l] : Begin(l, t) /\ claimed' = [claimed EXCEPT ![l] = @ \ {t}]
    BY <1>3 DEF LaunchClaimed
  <2>2. launch' \in [Launchers -> LaunchStates]
    BY <2>1, BeginType DEF Launchers
  <2>. QED
    BY <1>3, <2>1, <2>2 DEF LaunchClaimed
<1>4. CASE EndTick(l)
  BY <1>4 DEF EndTick
<1>. QED
  BY <1>1, <1>2, <1>3, <1>4 DEF LoopStep

\* execute_run.
LEMMA TypeRun ==
  ASSUME TypeInv, NEW r \in Runs, RunStep(r) \/ RefuseTarget(r) \/ RunBreaks(r)
  PROVE  TypeInv'
<1> USE DEF TypeInv, TypeOK, clockVars, loopVars, runVars, dbVars, ExecGoto
<1>1. CASE StartRun(r)
  <2>1. run' \in [Runs -> RunRow]
    BY <1>1, SetStatusType DEF StartRun, Active
  <2>. QED
    BY <1>1, <2>1 DEF StartRun
<1>2. CASE AcquireSlot(r)
  BY <1>2 DEF AcquireSlot
<1>3. CASE EndWork(r)
  BY <1>3 DEF EndWork
<1>4. CASE RefuseTarget(r)
  BY <1>4 DEF RefuseTarget
<1>5. CASE Finalize(r)
  <2>1. run' \in [Runs -> RunRow]
    BY <1>5, SetStatusType DEF Finalize
  <2>. QED
    BY <1>5, <2>1 DEF Finalize
<1>6. CASE EndDelivery(r)
  BY <1>6 DEF EndDelivery
<1>7. CASE RunBreaks(r)
  BY <1>7 DEF RunBreaks
<1>8. CASE FinalizeFailure(r)
  <2>1. run' \in [Runs -> RunRow]
    BY <1>8, SetStatusType DEF FinalizeFailure, Settled
  <2>. QED
    BY <1>8, <2>1 DEF FinalizeFailure
<1>. QED
  BY <1>1, <1>2, <1>3, <1>4, <1>5, <1>6, <1>7, <1>8 DEF RunStep

LEMMA TypeProcess ==
  ASSUME TypeInv, ClockAdvances \/ Shutdown \/ Die \/ Start
  PROVE  TypeInv'
<1> USE DEF TypeInv, TypeOK, clockVars, loopVars, runVars, dbVars
<1>1. CASE ClockAdvances
  BY <1>1, SchedulerAssumption DEF ClockAdvances, Times, SchedulerAssumption
<1>2. CASE Shutdown
  BY <1>2, RecordTypes DEF Shutdown
<1>3. CASE Die
  BY <1>3, RecordTypes DEF Die
<1>4. CASE Start
  <2>1. \A t \in Tasks : SweptRow(t) \in TaskRow
    BY TaskRowTypes DEF SweptRow
  <2>2. \A r \in Runs : SweptRun(r) \in RunRow
    BY StatusType DEF SweptRun, Settled
  <2>3. row' \in [Tasks -> TaskRow] /\ run' \in [Runs -> RunRow]
    BY <1>4, <2>1, <2>2 DEF Start
  <2>4. starts' \in 1..MaxStarts
    BY <1>4, SchedulerAssumption DEF Start, SchedulerAssumption
  <2>. QED
    BY <1>4, <2>3, <2>4 DEF Start
<1>. QED
  BY <1>1, <1>2, <1>3, <1>4

LEMMA TypeRequest ==
  ASSUME TypeInv, NEW q \in Requests, NEW t \in Tasks, RunNow(q, t)
  PROVE  TypeInv'
<1>1. launch' \in [Launchers -> LaunchStates]
  BY BeginType DEF RunNow, Launchers
<1>. QED
  BY <1>1 DEF RunNow, TypeInv, TypeOK, clockVars, loopVars, dbVars

\* Every step is one of these; each lemma about the steps of Next cites it.
LEMMA StepKinds ==
  ASSUME Next
  PROVE  \/ ClockAdvances \/ Shutdown \/ Die \/ Start
         \/ \E t \in Tasks : CreateSchedule(t)
         \/ \E t \in Tasks, e \in Editors : LoadForUpdate(e, t) \/ LoadForDelete(e, t)
         \/ \E e \in Editors : CommitUpdate(e) \/ CommitDelete(e)
         \/ \E q \in Requests, t \in Tasks : RunNow(q, t)
         \/ \E l \in Loops : LoopStep(l)
         \/ \E l \in Launchers : LaunchStep(l)
         \/ \E r \in Runs : RunStep(r) \/ RefuseTarget(r) \/ RunBreaks(r)
  BY DEF Next

LEMMA TypeNext == TypeInv /\ [Next]_vars => TypeInv'
<1> SUFFICES ASSUME TypeInv, [Next]_vars PROVE TypeInv'
  OBVIOUS
<1>1. CASE Next
  BY <1>1, StepKinds, TypeCreate, TypeEdits, TypeCommits, TypeLaunch, TypeLoop, TypeRun, TypeProcess, TypeRequest
<1>2. CASE UNCHANGED vars
  BY <1>2 DEF vars, TypeInv, TypeOK, clockVars, loopVars, runVars, dbVars
<1>. QED
  BY <1>1, <1>2

\* Every variable keeps its type, and no more starts happen than are allowed for.
THEOREM SchedulerTypeCorrect == Spec => []TypeOK
<1>1. Spec => []TypeInv
  BY TypeInit, TypeNext, PTL DEF Spec
<1>. QED
  BY <1>1, PTL DEF TypeInv

-----------------------------------------------------------------------------
(***************************************************************************)
(* What single actions do to a field of a record.                          *)
(***************************************************************************)
LEMMA SetStatusEffect ==
  ASSUME run \in [Runs -> RunRow], NEW r \in Runs, NEW st, SetStatus(r, st)
  PROVE  \A s \in Runs : /\ run'[s].task = run[s].task /\ run'[s].trigger = run[s].trigger
                         /\ run'[s].status = IF s = r THEN st ELSE run[s].status
  BY DEF SetStatus, RunRow

LEMMA ExecGotoEffect ==
  ASSUME TypeInv, NEW r \in Runs, NEW to, ExecGoto(r, to)
  PROVE  \A s \in Runs : exec'[s] = IF s = r THEN to ELSE exec[s]
  BY DEF ExecGoto, TypeInv, TypeOK

\* A step of the sweep or of a deletion: what was not active does not become so.
LEMMA SweptRunEffect ==
  ASSUME TypeInv, NEW r \in Runs
  PROVE  /\ SweptRun(r).task = run[r].task /\ SweptRun(r).trigger = run[r].trigger
         /\ SweptRun(r).status = IF run[r].status \in Active THEN "failed" ELSE run[r].status
<1>1. run[r] \in RunRow
  BY DEF TypeInv, TypeOK
<1>. QED
  BY <1>1 DEF SweptRun, RunRow

LEMMA DeleteEffect ==
  ASSUME TypeInv, NEW e \in Editors, CommitDelete(e)
  PROVE  \A r \in Runs : /\ run'[r].task = run[r].task /\ run'[r].trigger = run[r].trigger
                         /\ run'[r].status \in {run[r].status, "deleted"}
<1>1. \A r \in Runs : run[r] \in RunRow
  BY DEF TypeInv, TypeOK
<1>2. \A r \in Runs : [run[r] EXCEPT !.status = "deleted"].task = run[r].task
                      /\ [run[r] EXCEPT !.status = "deleted"].trigger = run[r].trigger
                      /\ [run[r] EXCEPT !.status = "deleted"].status = "deleted"
  BY <1>1 DEF RunRow
<1>3. CASE UNCHANGED run
  BY <1>3
<1>4. CASE run' = [r \in Runs |-> IF run[r].task = edit[e].task
                                  THEN [run[r] EXCEPT !.status = "deleted"] ELSE run[r]]
  BY <1>2, <1>4
<1>. QED
  BY <1>3, <1>4 DEF CommitDelete

LEMMA NewRunEffect ==
  ASSUME NEW l, NEW st
  PROVE  /\ NewRun(l, st).task = launch[l].task /\ NewRun(l, st).status = st
         /\ NewRun(l, st).trigger = IF l \in Requests THEN "manual" ELSE "schedule"
  BY DEF NewRun

LEMMA LeaveEffect ==
  ASSUME NEW l
  PROVE  Leave(l).at \in {"idle", "done"} /\ Leave(l).task = None /\ Leave(l).run = None
  BY DEF Leave, NoLaunch

\* The launch of one launcher changes.
LEMMA LaunchEffect ==
  ASSUME TypeInv, NEW l \in Launchers, NEW v, launch' = [launch EXCEPT ![l] = v]
  PROVE  launch'[l] = v /\ \A m \in Launchers : m # l => launch'[m] = launch[m]
  BY DEF TypeInv, TypeOK

LEMMA SpawnEffect ==
  ASSUME launch \in [Launchers -> LaunchStates], NEW l \in Launchers, NEW r \in Runs,
         launch' = [launch EXCEPT ![l].at = "spawn", ![l].run = r]
  PROVE  /\ launch'[l].at = "spawn" /\ launch'[l].run = r /\ launch'[l].task = launch[l].task
         /\ \A m \in Launchers : m # l => launch'[m] = launch[m]
  BY DEF LaunchStates

\* A launch that may go on found the lock free, no active run and room in the queue.
LEMMA BeginEffect ==
  ASSUME TypeInv, NEW l \in Launchers, NEW t \in Tasks, Begin(l, t)
  PROVE  /\ launch[l].at = "idle" /\ Unlocked(t)
         /\ \A m \in Launchers : m # l => launch'[m] = launch[m]
         /\ \/ launch'[l] = Leave(l) /\ (l \notin Requests => life[t] # "live")
            \/ /\ launch'[l].at = "skip" /\ launch'[l].task = t /\ launch'[l].run = None /\ life[t] = "live"
            \/ /\ launch'[l].at = "insert" /\ launch'[l].task = t /\ launch'[l].run = None
               /\ life[t] = "live" /\ ~HasActiveRun(t) /\ ~QueueIsFull
<1>1. /\ [NoLaunch EXCEPT !.at = "skip", !.task = t].at = "skip"
      /\ [NoLaunch EXCEPT !.at = "skip", !.task = t].task = t
      /\ [NoLaunch EXCEPT !.at = "skip", !.task = t].run = None
      /\ [NoLaunch EXCEPT !.at = "insert", !.task = t].at = "insert"
      /\ [NoLaunch EXCEPT !.at = "insert", !.task = t].task = t
      /\ [NoLaunch EXCEPT !.at = "insert", !.task = t].run = None
  BY DEF NoLaunch
<1>2. launch'[l] = IF life[t] # "live" THEN Leave(l)
       ELSE IF HasActiveRun(t) \/ QueueIsFull
              THEN IF l \in Requests THEN Leave(l) ELSE [NoLaunch EXCEPT !.at = "skip", !.task = t]
              ELSE [NoLaunch EXCEPT !.at = "insert", !.task = t]
  BY DEF Begin, TypeInv, TypeOK
<1>3. /\ launch[l].at = "idle" /\ Unlocked(t)
      /\ \A m \in Launchers : m # l => launch'[m] = launch[m]
  BY DEF Begin, TypeInv, TypeOK
<1> HIDE DEF NoLaunch
<1>. QED
  BY <1>1, <1>2, <1>3

-----------------------------------------------------------------------------
(***************************************************************************)
(* Launches and executions: who may touch a task and what a run's row says *)
(* while somebody works on it.                                             *)
(***************************************************************************)
Busy == {"insert", "skip", "spawn"}

\* The per-task lock has one holder.
LockHasOneHolder ==
  /\ \A l \in Launchers : launch[l].at \in Busy => launch[l].task \in Tasks
  /\ \A l, m \in Launchers :
       launch[l].at \in Busy /\ launch[m].at \in Busy /\ launch[l].task = launch[m].task => l = m

\* What the check found is still so when the row is inserted.
InsertIsFirst == \A l \in Launchers : launch[l].at = "insert" => ~HasActiveRun(launch[l].task)

\* Nobody but the launcher has touched the run it is about to spawn, unless it was deleted.
SpawnIsFresh ==
  \A l \in Launchers : launch[l].at = "spawn" =>
    /\ launch[l].run \in Runs /\ run[launch[l].run].task = launch[l].task
    /\ run[launch[l].run].status \in {"pending", "deleted"} /\ exec[launch[l].run] = "none"

\* Where the execution is, the row says.
RowFollowsExec ==
  \A r \in Runs :
    /\ exec[r] # "none" => run[r].status # "none"
    /\ exec[r] = "queued" => run[r].status \in {"pending", "deleted"}
    /\ exec[r] \in {"waiting", "working", "finalizing"} => run[r].status \in {"running", "deleted"}
    /\ exec[r] = "delivering" => run[r].status \in Settled \cup {"deleted"}

\* A dead process holds nothing.
DeathClears ==
  process = "down" =>
    /\ \A r \in Runs : exec[r] = "none"
    /\ \A l \in Launchers : launch[l].at \in {"idle", "done"}
    /\ \A e \in Editors : edit[e].at = "idle"

LaunchInv == LockHasOneHolder /\ InsertIsFirst /\ SpawnIsFresh /\ RowFollowsExec /\ DeathClears /\ OneActiveRun

\* The queue counts what runs and what is about to.
QueueInv ==
  /\ IsFiniteSet(Background) /\ IsFiniteSet(Reserved)
  /\ Cardinality(Background) + Cardinality(Reserved) <= MaxBackground

-----------------------------------------------------------------------------
(* Fire times: what was claimed lies before what is next.                  *)
FireInv ==
  /\ FiresOnce
  /\ \A t \in Tasks : \A i \in DOMAIN fired[t] :
       fired[t][i] <= now /\ (row[t].next # 0 => fired[t][i] < row[t].next)
  /\ \A l \in Loops : /\ tickTime[l] <= now
                      /\ \A d \in due[l] : d[2].next # 0 /\ d[2].next <= tickTime[l]

-----------------------------------------------------------------------------
(* Edits that do not overlap.                                              *)
OneEditor == \A e, f \in Editors : e = f

\* What the editor has seen still stands, but for claims.
AnchorInv ==
  /\ DeathClears
  /\ \A t \in Tasks : row[t].enabled <=> row[t].next # 0
  /\ \A e \in Editors : edit[e].at = "patch" =>
       /\ edit[e].task \in Tasks /\ life[edit[e].task] # "absent"
       /\ \A s \in edit[e].seen : /\ s.cron = row[edit[e].task].cron
                                  /\ s.enabled = row[edit[e].task].enabled
                                  /\ s.enabled <=> s.next # 0

\* Nothing that is next lies before the last start.
SweptInv == startTime <= now /\ (Up => \A t \in Tasks : row[t].next # 0 => row[t].next >= startTime)

-----------------------------------------------------------------------------
(* Claims in the process that starts first.                                *)
ScheduledRuns(t) == {r \in RunsOf(t) : run[r].trigger = "schedule"}
Claimers(t) == {l \in Loops : t \in claimed[l]}
LaunchersOf(t) == {l \in Loops : launch[l].task = t /\ launch[l].at \in {"insert", "skip"}}

\* The process that started first, as long as it serves.
First == starts = 1 /\ Up

ClaimsKnown ==
  /\ \A l \in Loops : stage[l] # "launch" => claimed[l] = {}
  /\ \A l \in Loops : \A d \in due[l] : life[d[1]] # "absent"

AbsentIsUnknown ==
  \A t \in Tasks : life[t] = "absent" =>
    /\ fired[t] = <<>> /\ RunsOf(t) = {} /\ Claimers(t) = {}
    /\ \A l \in Launchers : launch[l].task # t

Counted(t) ==
  /\ IsFiniteSet(ScheduledRuns(t)) /\ IsFiniteSet(Claimers(t)) /\ IsFiniteSet(LaunchersOf(t))
  /\ Len(fired[t]) = Cardinality(ScheduledRuns(t)) + Cardinality(Claimers(t)) + Cardinality(LaunchersOf(t))

RecordInv ==
  First => ClaimsKnown /\ AbsentIsUnknown /\ \A t \in Tasks : life[t] # "deleted" => Counted(t)

-----------------------------------------------------------------------------
(***************************************************************************)
(* A dead process holds nothing.                                           *)
(***************************************************************************)
LEMMA DeathNext == TypeInv /\ DeathClears /\ [Next]_vars => DeathClears'
<1> SUFFICES ASSUME TypeInv, DeathClears, [Next]_vars PROVE DeathClears'
  OBVIOUS
<1>1. CASE Die
  <2>1. \A l \in Launchers : launch'[l].at \in {"idle", "done"}
    BY <1>1, LeaveEffect DEF Die, NoLaunch
  <2>2. \A e \in Editors : edit'[e].at = "idle"
    BY <1>1 DEF Die, NoEdit
  <2>. QED
    BY <1>1, <2>1, <2>2 DEF Die, DeathClears
<1>2. CASE ClockAdvances \/ UNCHANGED vars
  BY <1>2 DEF ClockAdvances, DeathClears, vars, dbVars, clockVars, loopVars, runVars
<1>3. CASE Next /\ ~Die /\ ~ClockAdvances
  <2>1. process' # "down"
    <3>1. CASE Shutdown \/ Start
      BY <3>1 DEF Shutdown, Start
    <3>2. CASE \E t \in Tasks : CreateSchedule(t)
      BY <3>2 DEF CreateSchedule, Up, clockVars
    <3>3. CASE \E t \in Tasks, e \in Editors : LoadForUpdate(e, t) \/ LoadForDelete(e, t)
      BY <3>3 DEF LoadForUpdate, LoadForDelete, Up, clockVars
    <3>4. CASE \E e \in Editors : CommitUpdate(e) \/ CommitDelete(e)
      BY <3>4 DEF CommitUpdate, CommitDelete, Up, clockVars
    <3>5. CASE \E q \in Requests, t \in Tasks : RunNow(q, t)
      BY <3>5 DEF RunNow, Up, clockVars
    <3>6. CASE \E l \in Loops : LoopStep(l)
      BY <3>6 DEF LoopStep, Scan, ClaimDue, LaunchClaimed, EndTick, Up, clockVars
    <3>7. CASE \E l \in Launchers : LaunchStep(l)
      BY <3>7 DEF LaunchStep, InsertRun, InsertSkipped, SpawnRun, clockVars
    <3>8. CASE \E r \in Runs : RunStep(r) \/ RefuseTarget(r) \/ RunBreaks(r)
      BY <3>8 DEF RunStep, StartRun, AcquireSlot, EndWork, Finalize, EndDelivery, FinalizeFailure,
                  RefuseTarget, RunBreaks, clockVars
    <3>. QED
      BY <1>3, StepKinds, <3>1, <3>2, <3>3, <3>4, <3>5, <3>6, <3>7, <3>8
  <2>. QED
    BY <2>1 DEF DeathClears
<1>. QED
  BY <1>1, <1>2, <1>3

-----------------------------------------------------------------------------
(***************************************************************************)
(* One active run of a task at most, whoever launches.                     *)
(***************************************************************************)
\* Steps that touch neither a run's row, nor its execution, nor a launch.
LEMMA LaunchFrame ==
  ASSUME LaunchInv, UNCHANGED <<run, launch, exec>>
  PROVE  /\ LockHasOneHolder' /\ InsertIsFirst' /\ SpawnIsFresh' /\ RowFollowsExec' /\ OneActiveRun'
  BY DEF LaunchInv, LockHasOneHolder, InsertIsFirst, SpawnIsFresh, RowFollowsExec, OneActiveRun,
         HasActiveRun, RunsOf

\* A step after which no run is active that was not, and every launch is at the same place or over.
LEMMA NothingBegins ==
  ASSUME TypeInv, TypeInv', LaunchInv,
         \A r \in Runs : /\ run'[r].task = run[r].task
                         /\ run'[r].status \in Active => run[r].status \in Active,
         \A l \in Launchers : launch'[l] = launch[l] \/ launch'[l].at \in {"idle", "done"}
  PROVE  LockHasOneHolder' /\ InsertIsFirst' /\ OneActiveRun'
<1>1. LockHasOneHolder'
  BY DEF LaunchInv, LockHasOneHolder, Busy
<1>2. InsertIsFirst'
  BY DEF LaunchInv, InsertIsFirst, HasActiveRun, RunsOf
<1>3. OneActiveRun'
  BY DEF LaunchInv, OneActiveRun
<1>. QED
  BY <1>1, <1>2, <1>3

LEMMA BeginKeeps ==
  ASSUME TypeInv, TypeInv', LaunchInv, NEW l \in Launchers, NEW t \in Tasks, Begin(l, t), UNCHANGED <<run, exec>>
  PROVE  LockHasOneHolder' /\ InsertIsFirst' /\ SpawnIsFresh' /\ RowFollowsExec' /\ OneActiveRun'
<1> USE BeginEffect, LeaveEffect DEF LaunchInv
<1>1. LockHasOneHolder'
  BY DEF LockHasOneHolder, Busy, Unlocked
<1>2. InsertIsFirst'
  BY DEF InsertIsFirst, HasActiveRun, RunsOf
<1>3. SpawnIsFresh'
  BY DEF SpawnIsFresh
<1>4. RowFollowsExec' /\ OneActiveRun'
  BY DEF RowFollowsExec, OneActiveRun
<1>. QED
  BY <1>1, <1>2, <1>3, <1>4

LEMMA InsertKeeps ==
  ASSUME TypeInv, TypeInv', LaunchInv, NEW l \in Launchers, InsertRun(l)
  PROVE  LockHasOneHolder' /\ InsertIsFirst' /\ SpawnIsFresh' /\ RowFollowsExec' /\ OneActiveRun'
<1> USE DEF LaunchInv
<1>1. CASE UNCHANGED run /\ launch' = [launch EXCEPT ![l] = Leave(l)]
  <2>1. \A m \in Launchers : launch'[m] = launch[m] \/ launch'[m].at \in {"idle", "done"}
    BY <1>1, LaunchEffect, LeaveEffect
  <2>2. exec' = exec
    BY DEF InsertRun
  <2>3. SpawnIsFresh' /\ RowFollowsExec'
    BY <1>1, <2>1, <2>2 DEF SpawnIsFresh, RowFollowsExec
  <2>. QED
    BY <1>1, <2>1, <2>3, NothingBegins
<1>2. ASSUME NEW r \in Runs, run[r] = NoRun, run' = [run EXCEPT ![r] = NewRun(l, "pending")],
             launch' = [launch EXCEPT ![l].at = "spawn", ![l].run = r]
      PROVE  LockHasOneHolder' /\ InsertIsFirst' /\ SpawnIsFresh' /\ RowFollowsExec' /\ OneActiveRun'
  <2>1. /\ launch[l].at = "insert" /\ launch'[l].at = "spawn" /\ launch'[l].run = r /\ launch'[l].task = launch[l].task
        /\ \A m \in Launchers : m # l => launch'[m] = launch[m]
    BY <1>2, SpawnEffect DEF InsertRun, TypeInv, TypeOK
  <2>2. /\ run'[r].task = launch[l].task /\ run'[r].status = "pending"
        /\ \A s \in Runs : s # r => run'[s] = run[s]
    BY <1>2, NewRunEffect DEF TypeInv, TypeOK
  <2>3. run[r].status = "none"
    BY <1>2 DEF NoRun
  <2>4. exec' = exec /\ exec[r] = "none"
    BY <2>3 DEF InsertRun, RowFollowsExec
  <2>5. LockHasOneHolder'
    BY <2>1 DEF LockHasOneHolder, Busy
  <2>6. InsertIsFirst'
    <3>1. \A m \in Launchers : launch'[m].at = "insert" => launch'[m] = launch[m] /\ launch[m].task # launch[l].task
      BY <2>1 DEF LockHasOneHolder, Busy
    <3>. QED
      BY <2>2, <3>1 DEF InsertIsFirst, HasActiveRun, RunsOf
  <2>7. SpawnIsFresh'
    <3>1. \A m \in Launchers : m # l /\ launch'[m].at = "spawn" => launch[m].run # r
      BY <2>1, <2>3 DEF SpawnIsFresh
    <3>. QED
      BY <2>1, <2>2, <2>4, <3>1 DEF SpawnIsFresh
  <2>8. RowFollowsExec'
    BY <2>2, <2>4 DEF RowFollowsExec
  <2>9. OneActiveRun'
    <3>1. \A s \in Runs : run[s].status \in Active => run[s].task # launch[l].task
      BY <2>1 DEF InsertIsFirst, HasActiveRun, RunsOf
    <3>. QED
      BY <2>2, <3>1 DEF OneActiveRun
  <2>. QED
    BY <2>5, <2>6, <2>7, <2>8, <2>9
<1>. QED
  BY <1>1, <1>2 DEF InsertRun

LEMMA SkippedKeeps ==
  ASSUME TypeInv, TypeInv', LaunchInv, NEW l \in Launchers, InsertSkipped(l)
  PROVE  LockHasOneHolder' /\ InsertIsFirst' /\ SpawnIsFresh' /\ RowFollowsExec' /\ OneActiveRun'
<1> USE DEF LaunchInv
<1>1. \A m \in Launchers : launch'[m] = launch[m] \/ launch'[m].at \in {"idle", "done"}
  BY LaunchEffect, LeaveEffect DEF InsertSkipped
<1>2. exec' = exec
  BY DEF InsertSkipped
<1>3. CASE UNCHANGED run
  <2>1. SpawnIsFresh' /\ RowFollowsExec'
    BY <1>1, <1>2, <1>3 DEF SpawnIsFresh, RowFollowsExec
  <2>. QED
    BY <1>1, <1>3, <2>1, NothingBegins
<1>4. ASSUME NEW r \in Runs, run[r] = NoRun, run' = [run EXCEPT ![r] = NewRun(l, "skipped")]
      PROVE  LockHasOneHolder' /\ InsertIsFirst' /\ SpawnIsFresh' /\ RowFollowsExec' /\ OneActiveRun'
  <2>1. run'[r].status = "skipped" /\ run[r].status = "none" /\ \A s \in Runs : s # r => run'[s] = run[s]
    BY <1>4, NewRunEffect DEF NoRun, TypeInv, TypeOK
  <2>2. LockHasOneHolder'
    BY <1>1 DEF LockHasOneHolder, Busy
  <2>3. InsertIsFirst'
    BY <1>1, <2>1 DEF InsertIsFirst, HasActiveRun, RunsOf, Active
  <2>4. SpawnIsFresh'
    BY <1>1, <1>2, <2>1 DEF SpawnIsFresh
  <2>5. RowFollowsExec'
    BY <1>2, <2>1 DEF RowFollowsExec
  <2>6. OneActiveRun'
    BY <2>1 DEF OneActiveRun, Active
  <2>. QED
    BY <2>2, <2>3, <2>4, <2>5, <2>6
<1>. QED
  BY <1>3, <1>4 DEF InsertSkipped

LEMMA SpawnKeeps ==
  ASSUME TypeInv, TypeInv', LaunchInv, NEW l \in Launchers, SpawnRun(l)
  PROVE  LockHasOneHolder' /\ InsertIsFirst' /\ SpawnIsFresh' /\ RowFollowsExec' /\ OneActiveRun'
<1> USE DEF LaunchInv
<1>1. /\ launch'[l].at \in {"idle", "done"} /\ \A m \in Launchers : m # l => launch'[m] = launch[m]
  BY LaunchEffect, LeaveEffect DEF SpawnRun
<1>2. run' = run /\ launch[l].at = "spawn" /\ launch[l].run \in Runs
  BY DEF SpawnRun, dbVars, SpawnIsFresh
<1>3. exec'[launch[l].run] = "queued" /\ \A s \in Runs : s # launch[l].run => exec'[s] = exec[s]
  BY <1>2 DEF SpawnRun, TypeInv, TypeOK
<1>4. LockHasOneHolder' /\ InsertIsFirst' /\ OneActiveRun'
  BY <1>1, <1>2, NothingBegins
<1>5. SpawnIsFresh'
  <2>1. \A m \in Launchers : m # l /\ launch[m].at = "spawn" => launch[m].run # launch[l].run
    BY <1>2 DEF SpawnIsFresh, LockHasOneHolder, Busy
  <2>. QED
    BY <1>1, <1>2, <1>3, <2>1 DEF SpawnIsFresh
<1>6. RowFollowsExec'
  BY <1>2, <1>3 DEF RowFollowsExec, SpawnIsFresh
<1>. QED
  BY <1>4, <1>5, <1>6

\* execute_run works on one run that nobody is about to spawn.
LEMMA RunEffect ==
  ASSUME TypeInv, LaunchInv, NEW r \in Runs, RunStep(r) \/ RefuseTarget(r) \/ RunBreaks(r)
  PROVE  /\ launch' = launch /\ exec[r] # "none"
         /\ \A s \in Runs : s # r => exec'[s] = exec[s] /\ run'[s].status = run[s].status
         /\ \A s \in Runs : run'[s].task = run[s].task /\ run'[s].trigger = run[s].trigger
         /\ exec'[r] = "queued" => exec[r] = "queued" /\ run'[r].status = run[r].status
         /\ exec'[r] \in {"waiting", "working", "finalizing"} => run'[r].status \in {"running", "deleted"}
         /\ exec'[r] = "delivering" => run'[r].status \in Settled \cup {"deleted"}
         /\ run'[r].status # "none"
         /\ run'[r].status \in Active => run[r].status \in Active
         /\ run[r].status \in Settled \cup {"deleted"} => run'[r].status = run[r].status
<1> USE ExecGotoEffect, SetStatusEffect DEF TypeInv, TypeOK, LaunchInv, RowFollowsExec, Active, Settled, dbVars
<1>1. CASE StartRun(r)
  BY <1>1 DEF StartRun
<1>2. CASE AcquireSlot(r)
  BY <1>2 DEF AcquireSlot
<1>3. CASE EndWork(r)
  BY <1>3 DEF EndWork
<1>4. CASE RefuseTarget(r)
  BY <1>4 DEF RefuseTarget
<1>5. CASE Finalize(r)
  BY <1>5 DEF Finalize
<1>6. CASE EndDelivery(r)
  BY <1>6 DEF EndDelivery
<1>7. CASE RunBreaks(r)
  BY <1>7 DEF RunBreaks
<1>8. CASE FinalizeFailure(r)
  BY <1>8 DEF FinalizeFailure
<1>. QED
  BY <1>1, <1>2, <1>3, <1>4, <1>5, <1>6, <1>7, <1>8 DEF RunStep

LEMMA RunKeeps ==
  ASSUME TypeInv, TypeInv', LaunchInv, NEW r \in Runs, RunStep(r) \/ RefuseTarget(r) \/ RunBreaks(r)
  PROVE  LockHasOneHolder' /\ InsertIsFirst' /\ SpawnIsFresh' /\ RowFollowsExec' /\ OneActiveRun'
<1>1. LockHasOneHolder' /\ InsertIsFirst' /\ OneActiveRun'
  BY RunEffect, NothingBegins
<1>2. SpawnIsFresh'
  BY RunEffect DEF LaunchInv, SpawnIsFresh
<1>3. RowFollowsExec'
  BY RunEffect DEF LaunchInv, RowFollowsExec
<1>. QED
  BY <1>1, <1>2, <1>3

LEMMA DeleteKeeps ==
  ASSUME TypeInv, TypeInv', LaunchInv, NEW e \in Editors, CommitDelete(e)
  PROVE  LockHasOneHolder' /\ InsertIsFirst' /\ SpawnIsFresh' /\ RowFollowsExec' /\ OneActiveRun'
<1>1. UNCHANGED <<launch, exec>>
  BY DEF CommitDelete, runVars
<1>2. LockHasOneHolder' /\ InsertIsFirst' /\ OneActiveRun'
  BY <1>1, DeleteEffect, NothingBegins DEF Active
<1>3. SpawnIsFresh' /\ RowFollowsExec'
  BY <1>1, DeleteEffect DEF LaunchInv, SpawnIsFresh, RowFollowsExec
<1>. QED
  BY <1>2, <1>3

LEMMA ProcessKeeps ==
  ASSUME TypeInv, TypeInv', LaunchInv, Shutdown \/ Die \/ Start
  PROVE  LockHasOneHolder' /\ InsertIsFirst' /\ SpawnIsFresh' /\ RowFollowsExec' /\ OneActiveRun'
<1>1. CASE Shutdown
  <2>1. \A l \in Launchers : launch'[l] = launch[l] \/ launch'[l].at \in {"idle", "done"}
    BY <1>1 DEF Shutdown, NoLaunch
  <2>2. UNCHANGED <<run, exec>>
    BY <1>1 DEF Shutdown, dbVars
  <2>3. SpawnIsFresh' /\ RowFollowsExec'
    BY <2>1, <2>2 DEF LaunchInv, SpawnIsFresh, RowFollowsExec
  <2>. QED
    BY <2>1, <2>2, <2>3, NothingBegins
<1>2. CASE Die
  <2>1. \A l \in Launchers : launch'[l].at \in {"idle", "done"}
    BY <1>2, LeaveEffect DEF Die, NoLaunch
  <2>2. run' = run /\ \A r \in Runs : exec'[r] = "none"
    BY <1>2 DEF Die, dbVars
  <2>3. SpawnIsFresh' /\ RowFollowsExec'
    BY <2>1, <2>2 DEF LaunchInv, SpawnIsFresh, RowFollowsExec
  <2>. QED
    BY <2>1, <2>2, <2>3, NothingBegins
<1>3. CASE Start
  <2>1. /\ \A r \in Runs : exec[r] = "none" /\ exec'[r] = "none"
        /\ \A l \in Launchers : launch[l].at \in {"idle", "done"} /\ launch'[l] = launch[l]
    BY <1>3 DEF Start, LaunchInv, DeathClears, runVars
  <2>2. \A r \in Runs : /\ run'[r].task = run[r].task
                        /\ run'[r].status \in Active => run[r].status \in Active
    BY <1>3, SweptRunEffect DEF Start, Active
  <2>3. SpawnIsFresh' /\ RowFollowsExec'
    BY <2>1 DEF SpawnIsFresh, RowFollowsExec
  <2>. QED
    BY <2>1, <2>2, <2>3, NothingBegins
<1>. QED
  BY <1>1, <1>2, <1>3

LEMMA LaunchInit == Init => LaunchInv
<1> SUFFICES ASSUME Init PROVE LaunchInv
  OBVIOUS
<1>1. /\ \A l \in Launchers : launch[l].at = "idle"
      /\ \A r \in Runs : exec[r] = "none" /\ run[r].status = "none"
      /\ process = "up"
  BY DEF Init, NoLaunch, NoRun
<1>. QED
  BY <1>1 DEF LaunchInv, LockHasOneHolder, InsertIsFirst, SpawnIsFresh, RowFollowsExec, DeathClears,
              OneActiveRun, Busy, Active

LEMMA LaunchNext == TypeInv /\ LaunchInv /\ [Next]_vars => LaunchInv'
<1> SUFFICES ASSUME TypeInv, LaunchInv, [Next]_vars
             PROVE  LockHasOneHolder' /\ InsertIsFirst' /\ SpawnIsFresh' /\ RowFollowsExec' /\ OneActiveRun'
  BY DeathNext DEF LaunchInv
<1>0. TypeInv'
  BY TypeNext
<1>1. CASE ClockAdvances \/ UNCHANGED vars
  BY <1>1, LaunchFrame DEF ClockAdvances, vars, dbVars, runVars
<1>2. ASSUME NEW t \in Tasks, CreateSchedule(t)
      PROVE  UNCHANGED <<run, launch, exec>>
  BY <1>2 DEF CreateSchedule, runVars
<1>3. ASSUME NEW t \in Tasks, NEW e \in Editors, LoadForUpdate(e, t) \/ LoadForDelete(e, t)
      PROVE  UNCHANGED <<run, launch, exec>>
  BY <1>3 DEF LoadForUpdate, LoadForDelete, dbVars, runVars
<1>4. ASSUME NEW e \in Editors, CommitUpdate(e)
      PROVE  UNCHANGED <<run, launch, exec>>
  BY <1>4 DEF CommitUpdate, runVars
<1>5. ASSUME NEW l \in Loops, Scan(l) \/ ClaimDue(l) \/ EndTick(l)
      PROVE  UNCHANGED <<run, launch, exec>>
  BY <1>5 DEF Scan, ClaimDue, EndTick, dbVars, runVars
<1>6. CASE \E l \in Loops : LaunchClaimed(l)
  BY <1>0, <1>6, BeginKeeps DEF LaunchClaimed, TypeInv, TypeOK, Launchers, dbVars
<1>7. CASE \E q \in Requests, t \in Tasks : RunNow(q, t)
  BY <1>0, <1>7, BeginKeeps DEF RunNow, Launchers, dbVars
<1>8. CASE \E l \in Launchers : LaunchStep(l)
  BY <1>0, <1>8, InsertKeeps, SkippedKeeps, SpawnKeeps DEF LaunchStep
<1>9. CASE \E r \in Runs : RunStep(r) \/ RefuseTarget(r) \/ RunBreaks(r)
  BY <1>0, <1>9, RunKeeps
<1>10. CASE \E e \in Editors : CommitDelete(e)
  BY <1>0, <1>10, DeleteKeeps
<1>11. CASE Shutdown \/ Die \/ Start
  BY <1>0, <1>11, ProcessKeeps
<1>. QED
  BY <1>1, <1>2, <1>3, <1>4, <1>5, <1>6, <1>7, <1>8, <1>9, <1>10, <1>11, LaunchFrame, StepKinds DEF LoopStep

\* A settled run keeps its status: whoever writes later finds it settled.
THEOREM SettledStaysFinal == Spec => SettledIsFinal
<1>1. TypeInv /\ LaunchInv /\ [Next]_vars =>
        \A r \in Runs : run[r].status \in Settled => run'[r].status \in {run[r].status, "deleted"}
  <2> SUFFICES ASSUME TypeInv, LaunchInv, [Next]_vars, run' # run, NEW r \in Runs, run[r].status \in Settled
               PROVE  run'[r].status \in {run[r].status, "deleted"}
    OBVIOUS
  <2>1. ASSUME NEW l \in Launchers, InsertRun(l) \/ InsertSkipped(l)
        PROVE  run'[r] = run[r]
    BY <2>1 DEF InsertRun, InsertSkipped, NoRun, Settled, TypeInv, TypeOK
  <2>2. ASSUME NEW s \in Runs, RunStep(s) \/ RefuseTarget(s) \/ RunBreaks(s)
        PROVE  run'[r].status = run[r].status
    BY <2>2, RunEffect
  <2>3. ASSUME NEW e \in Editors, CommitDelete(e)
        PROVE  run'[r].status \in {run[r].status, "deleted"}
    BY <2>3, DeleteEffect
  <2>4. CASE Start
    BY <2>4, SweptRunEffect DEF Start, Settled, Active
  <2>5. ~ClockAdvances /\ ~Shutdown /\ ~Die /\ ~UNCHANGED vars
    BY DEF ClockAdvances, Shutdown, Die, vars, dbVars
  <2>6. \A t \in Tasks : ~CreateSchedule(t)
    BY DEF CreateSchedule
  <2>7. \A t \in Tasks, e \in Editors : ~LoadForUpdate(e, t) /\ ~LoadForDelete(e, t)
    BY DEF LoadForUpdate, LoadForDelete, dbVars
  <2>8. \A e \in Editors : ~CommitUpdate(e)
    BY DEF CommitUpdate
  <2>9. \A q \in Requests, t \in Tasks : ~RunNow(q, t)
    BY DEF RunNow, dbVars
  <2>10. \A l \in Loops : ~LoopStep(l)
    BY DEF LoopStep, Scan, ClaimDue, LaunchClaimed, EndTick, dbVars
  <2>11. \A l \in Launchers : ~SpawnRun(l)
    BY DEF SpawnRun, dbVars
  <2>. QED
    BY <2>1, <2>2, <2>3, <2>4, <2>5, <2>6, <2>7, <2>8, <2>9, <2>10, <2>11, StepKinds DEF LaunchStep
<1>2. Spec => [](TypeInv /\ LaunchInv)
  BY TypeInit, TypeNext, LaunchInit, LaunchNext, PTL DEF Spec
<1>3. TypeInv /\ LaunchInv /\ [Next]_vars =>
        [\A r \in Runs : run[r].status \in Settled => run'[r].status \in {run[r].status, "deleted"}]_vars
  BY <1>1
<1>. QED
  BY <1>2, <1>3, PTL DEF Spec, SettledIsFinal

-----------------------------------------------------------------------------
(***************************************************************************)
(* The limit of the queue.  Only a launch that found room reserves a       *)
(* place, and spawning turns the reservation into a run.                   *)
(***************************************************************************)
LEMMA QueueShrinks ==
  ASSUME QueueInv, Background' \subseteq Background, Reserved' \subseteq Reserved
  PROVE  QueueInv'
<1>1. /\ IsFiniteSet(Background') /\ Cardinality(Background') <= Cardinality(Background)
      /\ IsFiniteSet(Reserved') /\ Cardinality(Reserved') <= Cardinality(Reserved)
  BY FS_Subset DEF QueueInv
<1>2. /\ Cardinality(Background') \in Nat /\ Cardinality(Background) \in Nat
      /\ Cardinality(Reserved') \in Nat /\ Cardinality(Reserved) \in Nat
  BY <1>1, FS_CardinalityType DEF QueueInv
<1>. QED
  BY <1>1, <1>2, SchedulerAssumption DEF QueueInv, SchedulerAssumption

LEMMA QueueAtBegin ==
  ASSUME TypeInv, QueueInv, NEW l \in Launchers, NEW t \in Tasks, Begin(l, t), exec' = exec
  PROVE  QueueInv'
<1>1. Background' = Background
  BY DEF Background
<1>2. CASE launch'[l].at = "insert"
  <2>1. Reserved' = Reserved \cup {l} /\ l \notin Reserved /\ ~QueueIsFull
    BY <1>2, BeginEffect, LeaveEffect DEF Reserved
  <2>2. IsFiniteSet(Reserved') /\ Cardinality(Reserved') = Cardinality(Reserved) + 1
    BY <2>1, FS_AddElement DEF QueueInv
  <2>3. Cardinality(Background) \in Nat /\ Cardinality(Reserved) \in Nat
    BY FS_CardinalityType DEF QueueInv
  <2>. QED
    BY <1>1, <2>1, <2>2, <2>3, SchedulerAssumption DEF QueueInv, QueueIsFull, SchedulerAssumption
<1>3. CASE launch'[l].at # "insert"
  <2>1. Reserved' \subseteq Reserved
    BY <1>3, BeginEffect, LeaveEffect DEF Reserved
  <2>. QED
    BY <1>1, <2>1, QueueShrinks
<1>. QED
  BY <1>2, <1>3

LEMMA QueueAtInsert ==
  ASSUME TypeInv, QueueInv, NEW l \in Launchers, InsertRun(l) \/ InsertSkipped(l)
  PROVE  QueueInv'
<1>1. Background' = Background
  BY DEF Background, InsertRun, InsertSkipped
<1>2. ASSUME launch' = [launch EXCEPT ![l] = Leave(l)]
      PROVE  Reserved' \subseteq Reserved
  BY <1>2, LaunchEffect, LeaveEffect DEF Reserved
<1>3. ASSUME NEW r \in Runs, launch' = [launch EXCEPT ![l].at = "spawn", ![l].run = r], launch[l].at = "insert"
      PROVE  Reserved' \subseteq Reserved
  <2>1. launch \in [Launchers -> LaunchStates]
    BY DEF TypeInv, TypeOK
  <2>2. launch'[l].at = "spawn" /\ \A m \in Launchers : m # l => launch'[m] = launch[m]
    BY <1>3, <2>1, SpawnEffect
  <2>. QED
    BY <1>3, <2>2 DEF Reserved
<1>4. Reserved' \subseteq Reserved
  BY <1>2, <1>3 DEF InsertRun, InsertSkipped
<1>. QED
  BY <1>1, <1>4, QueueShrinks

LEMMA QueueAtSpawn ==
  ASSUME TypeInv, LaunchInv, QueueInv, NEW l \in Launchers, SpawnRun(l)
  PROVE  QueueInv'
<1> DEFINE r == launch[l].run
<1>1. /\ launch[l].at = "spawn" /\ launch'[l].at \in {"idle", "done"}
      /\ \A m \in Launchers : m # l => launch'[m] = launch[m]
  BY LaunchEffect, LeaveEffect DEF SpawnRun
<1>2. r \in Runs /\ exec[r] = "none"
  BY <1>1 DEF LaunchInv, SpawnIsFresh
<1>3. exec'[r] = "queued" /\ \A s \in Runs : s # r => exec'[s] = exec[s]
  BY <1>2 DEF SpawnRun, TypeInv, TypeOK
<1>4. Reserved' = Reserved \ {l} /\ l \in Reserved
  BY <1>1 DEF Reserved
<1>5. Background' = Background \cup {r} /\ r \notin Background
  BY <1>2, <1>3 DEF Background
<1> HIDE DEF r
<1>6. /\ IsFiniteSet(Reserved') /\ Cardinality(Reserved') = Cardinality(Reserved) - 1
      /\ IsFiniteSet(Background') /\ Cardinality(Background') = Cardinality(Background) + 1
  BY <1>4, <1>5, FS_AddElement, FS_RemoveElement DEF QueueInv
<1>7. Cardinality(Background) \in Nat /\ Cardinality(Reserved) \in Nat
  BY FS_CardinalityType DEF QueueInv
<1>. QED
  BY <1>6, <1>7, SchedulerAssumption DEF QueueInv, SchedulerAssumption

LEMMA QueueInit == Init => QueueInv
<1> SUFFICES ASSUME Init PROVE QueueInv
  OBVIOUS
<1>1. Background = {} /\ Reserved = {}
  BY DEF Init, Background, Reserved, NoLaunch
<1>. QED
  BY <1>1, FS_EmptySet, SchedulerAssumption DEF QueueInv, SchedulerAssumption

LEMMA QueueNext == TypeInv /\ LaunchInv /\ QueueInv /\ [Next]_vars => QueueInv'
<1> SUFFICES ASSUME TypeInv, LaunchInv, QueueInv, [Next]_vars PROVE QueueInv'
  OBVIOUS
<1>1. CASE UNCHANGED <<launch, exec>>
  <2>1. Background' = Background /\ Reserved' = Reserved
    BY <1>1 DEF Background, Reserved
  <2>. QED
    BY <2>1, QueueShrinks
<1>2. CASE ClockAdvances \/ UNCHANGED vars \/ Start
  BY <1>1, <1>2 DEF ClockAdvances, Start, vars, runVars
<1>3. ASSUME NEW t \in Tasks, CreateSchedule(t) \/ \E e \in Editors : LoadForUpdate(e, t) \/ LoadForDelete(e, t)
      PROVE  UNCHANGED <<launch, exec>>
  BY <1>3 DEF CreateSchedule, LoadForUpdate, LoadForDelete, runVars
<1>4. ASSUME NEW e \in Editors, CommitUpdate(e) \/ CommitDelete(e)
      PROVE  UNCHANGED <<launch, exec>>
  BY <1>4 DEF CommitUpdate, CommitDelete, runVars
<1>5. ASSUME NEW l \in Loops, Scan(l) \/ ClaimDue(l) \/ EndTick(l)
      PROVE  UNCHANGED <<launch, exec>>
  BY <1>5 DEF Scan, ClaimDue, EndTick, runVars
<1>6. CASE \E l \in Loops : LaunchClaimed(l)
  BY <1>6, QueueAtBegin DEF LaunchClaimed, TypeInv, TypeOK, Launchers
<1>7. CASE \E q \in Requests, t \in Tasks : RunNow(q, t)
  BY <1>7, QueueAtBegin DEF RunNow, Launchers
<1>8. CASE \E l \in Launchers : LaunchStep(l)
  BY <1>8, QueueAtInsert, QueueAtSpawn DEF LaunchStep
<1>9. CASE \E r \in Runs : RunStep(r) \/ RefuseTarget(r) \/ RunBreaks(r)
  <2>1. Background' \subseteq Background /\ Reserved' = Reserved
    BY <1>9, RunEffect DEF Background, Reserved
  <2>. QED
    BY <2>1, QueueShrinks
<1>10. CASE Shutdown
  <2>1. Background' = Background /\ Reserved' \subseteq Reserved
    BY <1>10 DEF Shutdown, Background, Reserved, NoLaunch
  <2>. QED
    BY <2>1, QueueShrinks
<1>11. CASE Die
  <2>1. Background' = {} /\ Reserved' = {}
    BY <1>11, LeaveEffect DEF Die, Background, Reserved, NoLaunch
  <2>. QED
    BY <2>1, QueueShrinks
<1>. QED
  BY <1>1, <1>2, <1>3, <1>4, <1>5, <1>6, <1>7, <1>8, <1>9, <1>10, <1>11, StepKinds DEF LoopStep

-----------------------------------------------------------------------------
(***************************************************************************)
(* An occurrence fires once: a claim takes what is next, and moves what is *)
(* next beyond the tick.                                                   *)
(***************************************************************************)
\* Task t is claimed by the tick of l, that found d due.
ClaimedBy(l, t, d) ==
  /\ d \in due[l] /\ d[1] = t /\ life[t] = "live" /\ row[t].next = d[2].next
  /\ fired'[t] = Append(fired[t], d[2].next)
  /\ row'[t].cron = row[t].cron /\ row'[t].enabled = row[t].enabled
  /\ row'[t].next \in Nat /\ row'[t].next > tickTime[l]

Passed(t) == fired'[t] = fired[t] /\ row'[t] = row[t]

LEMMA ClaimEffect ==
  ASSUME TypeInv, NEW l \in Loops, ClaimDue(l)
  PROVE  /\ \A t \in Tasks : Passed(t) \/ \E d \in due[l] : ClaimedBy(l, t, d)
         /\ \/ claimed' = claimed /\ stage'[l] = "sleep" /\ \A t \in Tasks : Passed(t)
            \/ /\ stage'[l] = "launch" /\ claimed'[l] \subseteq Tasks
               /\ \A t \in Tasks : IF t \in claimed'[l] THEN \E d \in due[l] : ClaimedBy(l, t, d) ELSE Passed(t)
         /\ \A k \in Loops : k # l => claimed'[k] = claimed[k] /\ stage'[k] = stage[k]
<1> DEFINE won == {d \in due[l] : Claimable(d)}
           tasks == {d[1] : d \in won}
           seen(t) == CHOOSE d \in won : d[1] = t
           taken == /\ stage' = [stage EXCEPT ![l] = "launch"] /\ claimed' = [claimed EXCEPT ![l] = tasks]
                    /\ row' = [t \in Tasks |-> IF t \in tasks
                          THEN [row[t] EXCEPT !.next = Upcoming(seen(t)[2].cron, tickTime[l])] ELSE row[t]]
                    /\ fired' = [t \in Tasks |-> IF t \in tasks THEN Append(fired[t], seen(t)[2].next) ELSE fired[t]]
<1>1. CASE UNCHANGED <<claimed, row, fired>> /\ stage' = [stage EXCEPT ![l] = "sleep"]
  BY <1>1 DEF Passed, TypeInv, TypeOK
<1>2. CASE taken
  <2>1. \A t \in tasks : /\ t \in Tasks /\ seen(t) \in due[l] /\ seen(t)[1] = t /\ Claimable(seen(t))
                         /\ seen(t)[2] \in TaskRow
    BY DEF TypeInv, TypeOK
  <2>2. \A t \in tasks : /\ seen(t)[2].next \in Nat /\ Upcoming(seen(t)[2].cron, tickTime[l]) \in Nat
                         /\ Upcoming(seen(t)[2].cron, tickTime[l]) > tickTime[l]
    BY <2>1, TaskRowTypes
  <2>3. \A t \in Tasks : row[t] \in TaskRow
    BY DEF TypeInv, TypeOK
  <2>4. \A t \in Tasks, n \in Nat : /\ [row[t] EXCEPT !.next = n].next = n
                                    /\ [row[t] EXCEPT !.next = n].cron = row[t].cron
                                    /\ [row[t] EXCEPT !.next = n].enabled = row[t].enabled
    BY <2>3 DEF TaskRow
  <2> HIDE DEF won, tasks, seen
  <2>5. \A t \in Tasks : IF t \in tasks THEN ClaimedBy(l, t, seen(t)) ELSE Passed(t)
    <3>1. /\ row \in [Tasks -> TaskRow] /\ fired \in [Tasks -> Seq(Nat)]
      BY DEF TypeInv, TypeOK
    <3>2. ASSUME NEW t \in Tasks, t \notin tasks PROVE Passed(t)
      BY <1>2, <3>2 DEF Passed
    <3>3. ASSUME NEW t \in Tasks, t \in tasks PROVE ClaimedBy(l, t, seen(t))
      <4>1. /\ row'[t] = [row[t] EXCEPT !.next = Upcoming(seen(t)[2].cron, tickTime[l])]
            /\ fired'[t] = Append(fired[t], seen(t)[2].next)
        BY <1>2, <3>3
      <4>2. /\ row'[t].next = Upcoming(seen(t)[2].cron, tickTime[l])
            /\ row'[t].cron = row[t].cron /\ row'[t].enabled = row[t].enabled
        BY <2>2, <2>4, <3>3, <4>1
      <4>. QED
        BY <2>1, <2>2, <3>3, <4>1, <4>2 DEF ClaimedBy, Claimable
    <3>. QED
      BY <3>2, <3>3
  <2>6. /\ stage'[l] = "launch" /\ claimed'[l] = tasks
        /\ \A k \in Loops : k # l => claimed'[k] = claimed[k] /\ stage'[k] = stage[k]
    BY <1>2 DEF TypeInv, TypeOK
  <2>. QED
    BY <2>1, <2>5, <2>6
<1>. QED
  BY <1>1, <1>2 DEF ClaimDue

\* A row that is edited gets a fire time after now, none, or keeps it.
LEMMA EditEffect ==
  ASSUME TypeInv, NEW e \in Editors, CommitUpdate(e), NEW t \in Tasks
  PROVE  row'[t] \in TaskRow /\ (row'[t].next \in {0, row[t].next} \/ row'[t].next > now)
<1>1. CASE row' = row
  BY <1>1 DEF TypeInv, TypeOK
<1>2. ASSUME edit[e].task \in Tasks,
             NEW seen \in edit[e].seen, NEW c \in Crons, NEW on \in BOOLEAN, seen \in TaskRow,
             Merge(row[edit[e].task], seen, Edited(seen, c, on)) \in TaskRow,
             row' = [row EXCEPT ![edit[e].task] = Merge(@, seen, Edited(seen, c, on))]
      PROVE  row'[t] \in TaskRow /\ (row'[t].next \in {0, row[t].next} \/ row'[t].next > now)
  <2>1. CASE t # edit[e].task
    BY <1>2, <2>1 DEF TypeInv, TypeOK
  <2>2. CASE t = edit[e].task
    <3>1. row'[t] = Merge(row[t], seen, Edited(seen, c, on))
      BY <1>2, <2>2 DEF TypeInv, TypeOK
    <3>2. Edited(seen, c, on).next \in {seen.next, 0, Upcoming(c, now)}
      BY DEF Edited
    <3>3. row'[t].next = IF Edited(seen, c, on).next = seen.next THEN row[t].next ELSE Edited(seen, c, on).next
      BY <3>1 DEF Merge
    <3>4. Upcoming(c, now) > now
      BY TaskRowTypes
    <3>. QED
      BY <1>2, <2>2, <3>1, <3>2, <3>3, <3>4
  <2>. QED
    BY <2>1, <2>2
<1>. QED
  BY <1>1, <1>2, CommitUpdateRow

LEMMA CreateEffect ==
  ASSUME TypeInv, NEW t \in Tasks, CreateSchedule(t)
  PROVE  /\ life[t] = "absent" /\ row'[t] \in TaskRow
         /\ (row'[t].enabled <=> row'[t].next # 0) /\ (row'[t].next = 0 \/ row'[t].next > now)
         /\ \A u \in Tasks : u # t => row'[u] = row[u] /\ life'[u] = life[u]
<1>1. PICK c \in Crons, on \in BOOLEAN : row' = [row EXCEPT ![t] = Created(c, on)]
  BY DEF CreateSchedule, Created
<1>2. row'[t] = Created(c, on) /\ \A u \in Tasks : u # t => row'[u] = row[u]
  BY <1>1 DEF TypeInv, TypeOK
<1>3. Created(c, on).enabled = on /\ Created(c, on).next = IF on THEN Upcoming(c, now) ELSE 0
  BY DEF Created
<1>4. Upcoming(c, now) > now /\ Created(c, on) \in TaskRow /\ now \in Nat
  BY TaskRowTypes
<1>5. Upcoming(c, now) # 0 /\ Upcoming(c, now) \in Nat
  BY <1>4, TaskRowTypes
<1>. QED
  BY <1>2, <1>3, <1>4, <1>5 DEF CreateSchedule, TypeInv, TypeOK

LEMMA SweptRowEffect ==
  ASSUME TypeInv, NEW t \in Tasks
  PROVE  /\ SweptRow(t).cron = row[t].cron /\ SweptRow(t).enabled = row[t].enabled
         /\ SweptRow(t).next = row[t].next \/ (SweptRow(t).next > now /\ row[t].enabled)
         /\ row[t].enabled /\ row[t].next # 0 => SweptRow(t).next >= now
<1>1. row[t] \in TaskRow
  BY DEF TypeInv, TypeOK
<1>2. Upcoming(row[t].cron, now) > now /\ Upcoming(row[t].cron, now) \in Nat /\ now \in Nat /\ row[t].next \in Nat
  BY <1>1, TaskRowTypes
<1>3. /\ [row[t] EXCEPT !.next = Upcoming(row[t].cron, now)].next = Upcoming(row[t].cron, now)
      /\ [row[t] EXCEPT !.next = Upcoming(row[t].cron, now)].cron = row[t].cron
      /\ [row[t] EXCEPT !.next = Upcoming(row[t].cron, now)].enabled = row[t].enabled
  BY <1>1 DEF TaskRow
<1>. QED
  BY <1>2, <1>3 DEF SweptRow

\* What is claimed is kept below what is next when only the rows change, to a later time.
LEMMA FireFrame ==
  ASSUME TypeInv, TypeInv', FireInv, UNCHANGED <<fired, tickTime>>, now' >= now,
         \A l \in Loops : due'[l] \subseteq due[l],
         \A t \in Tasks : row'[t].next \in {0, row[t].next} \/ row'[t].next > now
  PROVE  FireInv'
<1>1. \A t \in Tasks : row[t].next \in Nat /\ row'[t].next \in Nat /\ fired[t] \in Seq(Nat)
  BY TaskRowTypes DEF TypeInv, TypeOK, TaskRow
<1>2. now \in Nat /\ now' \in Nat /\ \A l \in Loops : tickTime[l] \in Nat
  BY SchedulerAssumption DEF TypeInv, TypeOK, Times, SchedulerAssumption
<1>3. FiresOnce'
  BY DEF FireInv, FiresOnce
<1>4. \A t \in Tasks : \A i \in DOMAIN fired'[t] :
        fired'[t][i] <= now' /\ (row'[t].next # 0 => fired'[t][i] < row'[t].next)
  <2> SUFFICES ASSUME NEW t \in Tasks, NEW i \in DOMAIN fired[t]
               PROVE  fired[t][i] <= now' /\ (row'[t].next # 0 => fired[t][i] < row'[t].next)
    OBVIOUS
  <2>1. fired[t][i] \in Nat
    BY <1>1
  <2>2. fired[t][i] <= now /\ (row[t].next # 0 => fired[t][i] < row[t].next)
    BY DEF FireInv
  <2>3. /\ now \in Nat /\ now' \in Nat /\ now' >= now /\ row[t].next \in Nat /\ row'[t].next \in Nat
        /\ row'[t].next \in {0, row[t].next} \/ row'[t].next > now
    BY <1>1, <1>2
  <2>. QED
    BY ONLY <2>1, <2>2, <2>3
<1>5. \A l \in Loops : tickTime'[l] <= now' /\ \A d \in due'[l] : d[2].next # 0 /\ d[2].next <= tickTime'[l]
  BY <1>2 DEF FireInv
<1>. QED
  BY <1>3, <1>4, <1>5 DEF FireInv

LEMMA ClaimsInOrder ==
  ASSUME TypeInv, TypeInv', FireInv, NEW l \in Loops, ClaimDue(l)
  PROVE  FireInv'
<1>1. tickTime' = tickTime /\ now' = now /\ due'[l] = {} /\ \A k \in Loops : due'[k] \subseteq due[k]
  BY DEF ClaimDue, clockVars, TypeInv, TypeOK
<1>2. now \in Nat /\ \A k \in Loops : tickTime[k] \in Nat
  BY TaskRowTypes
<1>3. ASSUME NEW t \in Tasks
      PROVE  /\ \A i, j \in DOMAIN fired'[t] : i < j => fired'[t][i] < fired'[t][j]
             /\ \A i \in DOMAIN fired'[t] : fired'[t][i] <= now /\ (row'[t].next # 0 => fired'[t][i] < row'[t].next)
  <2>1. CASE Passed(t)
    BY <2>1 DEF Passed, FireInv, FiresOnce
  <2>2. ASSUME NEW d \in due[l], ClaimedBy(l, t, d)
        PROVE  /\ \A i, j \in DOMAIN fired'[t] : i < j => fired'[t][i] < fired'[t][j]
               /\ \A i \in DOMAIN fired'[t] : fired'[t][i] <= now /\ (row'[t].next # 0 => fired'[t][i] < row'[t].next)
    <3> DEFINE n == d[2].next
               s == fired[t]
    <3>1. n \in Nat /\ n # 0 /\ n <= tickTime[l] /\ tickTime[l] <= now /\ row[t].next = n
      BY <2>2, TaskRowTypes DEF ClaimedBy, FireInv, TypeInv, TypeOK
    <3>2. s \in Seq(Nat) /\ fired'[t] = Append(s, n) /\ row'[t].next \in Nat /\ row'[t].next > tickTime[l]
      BY <2>2 DEF ClaimedBy, TypeInv, TypeOK
    <3>3. \A i \in DOMAIN s : s[i] \in Nat /\ s[i] < n
      BY <3>1, <3>2 DEF FireInv
    <3>4. \A i, j \in DOMAIN s : i < j => s[i] < s[j]
      BY DEF FireInv, FiresOnce
    <3> HIDE DEF s, n
    <3>5. /\ DOMAIN s = 1..Len(s) /\ Len(s) \in Nat /\ DOMAIN Append(s, n) = 1..(Len(s) + 1)
          /\ \A i \in 1..Len(s) : Append(s, n)[i] = s[i]
          /\ Append(s, n)[Len(s) + 1] = n
      BY <3>1, <3>2
    <3>6. \A i, j \in DOMAIN Append(s, n) : i < j => Append(s, n)[i] < Append(s, n)[j]
      BY <3>3, <3>4, <3>5
    <3>7. \A i \in DOMAIN Append(s, n) : Append(s, n)[i] \in Nat /\ Append(s, n)[i] <= n
      BY <3>1, <3>3, <3>5
    <3> DEFINE g == fired'[t]
               m == row'[t].next
    <3>8. g = Append(s, n) /\ m \in Nat /\ n < m /\ n <= now
      BY <1>2, <3>1, <3>2
    <3> HIDE DEF g, m
    <3>9. \A i, j \in DOMAIN g : i < j => g[i] < g[j]
      BY ONLY <3>6, <3>8
    <3>10. \A i \in DOMAIN g : g[i] <= now /\ (m # 0 => g[i] < m)
      BY <1>2, <3>1, <3>7, <3>8
    <3>. QED
      BY <3>9, <3>10 DEF g, m
  <2>. QED
    BY <2>1, <2>2, ClaimEffect
<1>4. \A k \in Loops : tickTime'[k] <= now' /\ \A d \in due'[k] : d[2].next # 0 /\ d[2].next <= tickTime'[k]
  BY <1>1 DEF FireInv
<1>. QED
  BY <1>1, <1>3, <1>4 DEF FireInv, FiresOnce

LEMMA FireInit == Init => FireInv
<1> SUFFICES ASSUME Init PROVE FireInv
  OBVIOUS
<1>. QED
  BY DEF Init, FireInv, FiresOnce

LEMMA FireNext == TypeInv /\ FireInv /\ [Next]_vars => FireInv'
<1> SUFFICES ASSUME TypeInv, FireInv, [Next]_vars PROVE FireInv'
  OBVIOUS
<1>0. TypeInv' /\ now \in Nat
  BY TypeNext, TaskRowTypes
<1>1. CASE UNCHANGED <<row, now, fired, tickTime, due>>
  BY <1>0, <1>1, FireFrame
<1>2. CASE ClockAdvances
  BY <1>0, <1>2, FireFrame DEF ClockAdvances, dbVars, loopVars
<1>3. CASE Shutdown \/ Die
  <2>1. \A l \in Loops : due'[l] = {}
    BY <1>3 DEF Shutdown, Die
  <2>. QED
    BY <1>0, <1>3, <2>1, FireFrame DEF Shutdown, Die, dbVars
<1>4. CASE Start
  BY <1>0, <1>4, FireFrame, SweptRowEffect DEF Start, loopVars
<1>5. CASE \E t \in Tasks : CreateSchedule(t)
  <2>1. PICK t \in Tasks : CreateSchedule(t)
    BY <1>5
  <2>2. \A u \in Tasks : row'[u].next \in {0, row[u].next} \/ row'[u].next > now
    BY <2>1, CreateEffect
  <2>. QED
    BY <1>0, <2>1, <2>2, FireFrame DEF CreateSchedule, clockVars, loopVars
<1>6. CASE \E e \in Editors : CommitUpdate(e)
  <2>1. \A u \in Tasks : row'[u].next \in {0, row[u].next} \/ row'[u].next > now
    BY <1>6, EditEffect
  <2>. QED
    BY <1>0, <1>6, <2>1, FireFrame DEF CommitUpdate, clockVars, loopVars
<1>7. CASE \E l \in Loops : ClaimDue(l)
  BY <1>0, <1>7, ClaimsInOrder
<1>8. CASE \E l \in Loops : Scan(l)
  <2>1. PICK l \in Loops : Scan(l)
    BY <1>8
  <2>2. UNCHANGED <<row, fired, now>>
    BY <2>1 DEF Scan, dbVars, clockVars
  <2>3. /\ tickTime'[l] = now /\ \A k \in Loops : k # l => tickTime'[k] = tickTime[k] /\ due'[k] = due[k]
        /\ due'[l] = {<<t, row[t]>> : t \in {u \in Tasks : IsDue(u)}}
    BY <2>1 DEF Scan, TypeInv, TypeOK
  <2>4. \A d \in due'[l] : d[2].next # 0 /\ d[2].next <= now
    BY <2>3 DEF IsDue
  <2>. QED
    BY <1>0, <2>2, <2>3, <2>4 DEF FireInv, FiresOnce
<1>9. ASSUME NEW l \in Loops, LaunchClaimed(l) \/ EndTick(l)
      PROVE  UNCHANGED <<row, now, fired, tickTime, due>>
  BY <1>9 DEF LaunchClaimed, EndTick, dbVars, clockVars
<1>10. ASSUME NEW l \in Launchers, LaunchStep(l)
       PROVE  UNCHANGED <<row, now, fired, tickTime, due>>
  BY <1>10 DEF LaunchStep, InsertRun, InsertSkipped, SpawnRun, dbVars, clockVars, loopVars
<1>11. ASSUME NEW r \in Runs, RunStep(r) \/ RefuseTarget(r) \/ RunBreaks(r)
       PROVE  UNCHANGED <<row, now, fired, tickTime, due>>
  BY <1>11 DEF RunStep, StartRun, AcquireSlot, EndWork, Finalize, EndDelivery, FinalizeFailure,
               RefuseTarget, RunBreaks, dbVars, clockVars, loopVars
<1>12. ASSUME NEW t \in Tasks, \E e \in Editors : LoadForUpdate(e, t) \/ LoadForDelete(e, t)
       PROVE  UNCHANGED <<row, now, fired, tickTime, due>>
  BY <1>12 DEF LoadForUpdate, LoadForDelete, dbVars, clockVars, loopVars
<1>13. CASE \E q \in Requests, t \in Tasks : RunNow(q, t)
  BY <1>1, <1>13 DEF RunNow, dbVars, clockVars, loopVars
<1>14. CASE \E e \in Editors : CommitDelete(e)
  BY <1>1, <1>14 DEF CommitDelete, clockVars, loopVars
<1>15. CASE UNCHANGED vars
  BY <1>1, <1>15 DEF vars, dbVars, clockVars, loopVars
<1>. QED
  BY <1>1, <1>2, <1>3, <1>4, <1>5, <1>6, <1>7, <1>8, <1>9, <1>10, <1>11, <1>12, <1>13, <1>14, <1>15,
     StepKinds DEF LoopStep

\* However launches overlap, by loops, a second loop or requests, and across deaths and starts.
THEOREM LaunchesStayApart == Spec => LaunchesAreApart
<1>1. Spec => [](TypeInv /\ LaunchInv /\ QueueInv /\ FireInv)
  BY TypeInit, TypeNext, LaunchInit, LaunchNext, QueueInit, QueueNext, FireInit, FireNext, PTL DEF Spec
<1>2. TypeInv /\ LaunchInv /\ QueueInv /\ FireInv => OneActiveRun /\ QueueKeepsLimit /\ FiresOnce
  <2> SUFFICES ASSUME LaunchInv, QueueInv, FireInv PROVE OneActiveRun /\ QueueKeepsLimit /\ FiresOnce
    OBVIOUS
  <2>1. Cardinality(Background) \in Nat /\ Cardinality(Reserved) \in Nat
    BY FS_CardinalityType DEF QueueInv
  <2>. QED
    BY <2>1, SchedulerAssumption
       DEF LaunchInv, QueueInv, FireInv, QueueKeepsLimit, SchedulerAssumption
<1>. QED
  BY <1>1, <1>2, SettledStaysFinal, PTL DEF LaunchesAreApart

-----------------------------------------------------------------------------
(***************************************************************************)
(* Edits that do not overlap keep a schedule that is on anchored, and the  *)
(* anchor in its place.                                                    *)
(***************************************************************************)
\* The row after an edit by the only editor: cadence as asked, the fire time kept if the
\* cadence is the same.
LEMMA OnlyEdit ==
  ASSUME TypeInv, AnchorInv, NEW e \in Editors, CommitUpdate(e), NEW t \in Tasks
  PROVE  /\ row'[t].enabled <=> row'[t].next # 0
         /\ \/ row'[t] = row[t]
            \/ /\ t = edit[e].task
               /\ \/ row'[t].cron # row[t].cron \/ row'[t].enabled # row[t].enabled
                  \/ row'[t].next = row[t].next \/ ~row[t].enabled
<1>1. CASE row' = row
  BY <1>1 DEF AnchorInv
<1>2. ASSUME edit[e].task \in Tasks,
             NEW s \in edit[e].seen, NEW c \in Crons, NEW on \in BOOLEAN, s \in TaskRow,
             Merge(row[edit[e].task], s, Edited(s, c, on)) \in TaskRow,
             row' = [row EXCEPT ![edit[e].task] = Merge(@, s, Edited(s, c, on))],
             t = edit[e].task
      PROVE  /\ row'[t].enabled <=> row'[t].next # 0
             /\ \/ row'[t].cron # row[t].cron \/ row'[t].enabled # row[t].enabled
                \/ row'[t].next = row[t].next \/ ~row[t].enabled
  <2> DEFINE new == Edited(s, c, on)
  <2>1. row'[t] = Merge(row[t], s, new)
    BY <1>2 DEF TypeInv, TypeOK
  <2>2. /\ new.cron = c /\ new.enabled = on
        /\ new.next = IF c = s.cron /\ on = s.enabled /\ ~(on /\ s.next = 0) THEN s.next
                      ELSE IF on THEN Upcoming(c, now) ELSE 0
    BY DEF Edited
  <2> HIDE DEF new
  <2>3. /\ row'[t].cron = IF c = s.cron THEN row[t].cron ELSE c
        /\ row'[t].enabled = IF on = s.enabled THEN row[t].enabled ELSE on
        /\ row'[t].next = IF new.next = s.next THEN row[t].next ELSE new.next
    BY <2>1, <2>2 DEF Merge
  <2>4. s.cron = row[t].cron /\ s.enabled = row[t].enabled /\ (s.enabled <=> s.next # 0)
    BY <1>2 DEF AnchorInv, CommitUpdate
  <2>5. row[t].enabled <=> row[t].next # 0
    BY DEF AnchorInv
  <2>6. Upcoming(c, now) \in Nat /\ Upcoming(c, now) # 0
    BY TaskRowTypes
  <2>7. s.enabled \in BOOLEAN /\ row[t].enabled \in BOOLEAN
    BY <1>2, TaskRowTypes DEF TypeInv, TypeOK
  <2>8. CASE c = s.cron /\ on = s.enabled
    <3>1. new.next = s.next
      BY <2>2, <2>4, <2>8
    <3>. QED
      BY <2>3, <2>4, <2>5, <2>8, <3>1
  <2>9. CASE on /\ ~(c = s.cron /\ on = s.enabled)
    BY <2>2, <2>3, <2>4, <2>5, <2>6, <2>7, <2>9
  <2>10. CASE ~on /\ ~(c = s.cron /\ on = s.enabled)
    BY <2>2, <2>3, <2>4, <2>5, <2>7, <2>10
  <2>. QED
    BY <2>8, <2>9, <2>10
<1>3. ASSUME edit[e].task \in Tasks, t # edit[e].task,
             NEW v, row' = [row EXCEPT ![edit[e].task] = v]
      PROVE  row'[t] = row[t]
  BY <1>3 DEF TypeInv, TypeOK
<1>4. row[t].enabled <=> row[t].next # 0
  BY DEF AnchorInv
<1>. QED
  BY <1>1, <1>2, <1>3, <1>4, CommitUpdateRow

\* Rows that keep their cadence, and their lives, suit the editor still.
LEMMA AnchorFrame ==
  ASSUME TypeInv, AnchorInv, DeathClears', edit' = edit,
         \A t \in Tasks : /\ row'[t].cron = row[t].cron /\ row'[t].enabled = row[t].enabled
                          /\ row'[t].next # 0 <=> row[t].next # 0
                          /\ life'[t] = "absent" => life[t] = "absent"
  PROVE  AnchorInv'
  BY DEF AnchorInv

LEMMA AnchorInit == Init => AnchorInv
<1> SUFFICES ASSUME Init PROVE AnchorInv
  OBVIOUS
<1>1. DeathClears
  BY LaunchInit DEF LaunchInv
<1>2. \A t \in Tasks : row[t].enabled = FALSE /\ row[t].next = 0
  BY DEF Init
<1>3. \A e \in Editors : edit[e].at = "idle"
  BY DEF Init, NoEdit
<1>. QED
  BY <1>1, <1>2, <1>3 DEF AnchorInv

LEMMA AnchorNext == OneEditor /\ TypeInv /\ AnchorInv /\ FireInv /\ [Next]_vars => AnchorInv'
<1> SUFFICES ASSUME OneEditor, TypeInv, AnchorInv, FireInv, [Next]_vars PROVE AnchorInv'
  OBVIOUS
<1>0. DeathClears' /\ TypeInv'
  BY DeathNext, TypeNext DEF AnchorInv
<1>1. CASE UNCHANGED <<row, life, edit>>
  BY <1>0, <1>1, AnchorFrame
<1>2. CASE ClockAdvances \/ Shutdown \/ UNCHANGED vars
  BY <1>1, <1>2 DEF ClockAdvances, Shutdown, vars, dbVars
<1>3. CASE Die
  <2>1. \A e \in Editors : edit'[e].at = "idle"
    BY <1>3 DEF Die, NoEdit
  <2>. QED
    BY <1>0, <1>3, <2>1 DEF Die, dbVars, AnchorInv
<1>4. CASE Start
  <2>1. \A e \in Editors : edit'[e].at = "idle"
    BY <1>4 DEF Start, AnchorInv, DeathClears
  <2>2. \A t \in Tasks : row'[t].enabled <=> row'[t].next # 0
    <3>1. ASSUME NEW t \in Tasks
          PROVE  SweptRow(t).enabled <=> SweptRow(t).next # 0
      BY SweptRowEffect, TaskRowTypes DEF AnchorInv, TypeInv, TypeOK, SweptRow
    <3>. QED
      BY <1>4, <3>1 DEF Start, AnchorInv
  <2>. QED
    BY <1>0, <2>1, <2>2 DEF AnchorInv
<1>5. CASE \E t \in Tasks : CreateSchedule(t)
  <2>1. PICK t \in Tasks : CreateSchedule(t)
    BY <1>5
  <2>2. edit' = edit
    BY <2>1 DEF CreateSchedule
  <2>3. \A e \in Editors : edit[e].at = "patch" => edit[e].task # t
    BY <2>1, CreateEffect DEF AnchorInv
  <2>. QED
    BY <1>0, <2>1, <2>2, <2>3, CreateEffect DEF AnchorInv
<1>6. CASE \E t \in Tasks, e \in Editors : LoadForUpdate(e, t)
  <2>1. PICK t \in Tasks, e \in Editors : LoadForUpdate(e, t)
    BY <1>6
  <2>2. UNCHANGED <<row, life>> /\ life[t] = "live"
    BY <2>1 DEF LoadForUpdate, dbVars
  <2>3. /\ edit'[e] = [at |-> "patch", task |-> t, seen |-> {row[t]}, runs |-> {}]
        /\ \A f \in Editors : f # e => edit'[f] = edit[f]
    BY <2>1 DEF LoadForUpdate, TypeInv, TypeOK
  <2>4. edit'[e].task = t /\ edit'[e].seen = {row[t]}
    BY <2>3
  <2>. QED
    BY <1>0, <2>2, <2>3, <2>4 DEF AnchorInv
<1>7. CASE \E t \in Tasks, e \in Editors : LoadForDelete(e, t)
  <2>1. PICK t \in Tasks, e \in Editors : LoadForDelete(e, t)
    BY <1>7
  <2>2. UNCHANGED <<row, life>>
    BY <2>1 DEF LoadForDelete, dbVars
  <2>3. edit'[e].at = "delete" /\ \A f \in Editors : f # e => edit'[f] = edit[f]
    BY <2>1 DEF LoadForDelete, TypeInv, TypeOK
  <2>. QED
    BY <1>0, <2>2, <2>3 DEF AnchorInv
<1>8. CASE \E e \in Editors : CommitUpdate(e)
  <2>1. PICK e \in Editors : CommitUpdate(e)
    BY <1>8
  <2>2. \A f \in Editors : edit'[f].at = "idle"
    BY <2>1 DEF OneEditor, CommitUpdate, TypeInv, TypeOK, NoEdit
  <2>. QED
    BY <1>0, <2>1, <2>2, OnlyEdit DEF AnchorInv
<1>9. CASE \E e \in Editors : CommitDelete(e)
  <2>1. PICK e \in Editors : CommitDelete(e)
    BY <1>9
  <2>2. \A f \in Editors : edit'[f].at = "idle"
    BY <2>1 DEF OneEditor, CommitDelete, TypeInv, TypeOK, NoEdit
  <2>. QED
    BY <1>0, <2>1, <2>2 DEF AnchorInv, CommitDelete
<1>10. CASE \E l \in Loops : ClaimDue(l)
  <2>1. PICK l \in Loops : ClaimDue(l)
    BY <1>10
  <2>2. UNCHANGED <<life, edit>>
    BY <2>1 DEF ClaimDue
  <2>3. ASSUME NEW t \in Tasks, NEW d \in due[l], ClaimedBy(l, t, d)
        PROVE  /\ row'[t].cron = row[t].cron /\ row'[t].enabled = row[t].enabled
               /\ row'[t].next # 0 /\ row[t].next # 0
    BY <2>3, TaskRowTypes DEF ClaimedBy, FireInv
  <2>. QED
    BY <1>0, <2>1, <2>2, <2>3, ClaimEffect, AnchorFrame DEF Passed
<1>11. ASSUME NEW l \in Loops, Scan(l) \/ LaunchClaimed(l) \/ EndTick(l)
       PROVE  UNCHANGED <<row, life, edit>>
  BY <1>11 DEF Scan, LaunchClaimed, EndTick, dbVars
<1>12. ASSUME NEW l \in Launchers, LaunchStep(l)
       PROVE  UNCHANGED <<row, life, edit>>
  BY <1>12 DEF LaunchStep, InsertRun, InsertSkipped, SpawnRun, dbVars
<1>13. ASSUME NEW r \in Runs, RunStep(r) \/ RefuseTarget(r) \/ RunBreaks(r)
       PROVE  UNCHANGED <<row, life, edit>>
  BY <1>13 DEF RunStep, StartRun, AcquireSlot, EndWork, Finalize, EndDelivery, FinalizeFailure,
               RefuseTarget, RunBreaks, dbVars
<1>14. CASE \E q \in Requests, t \in Tasks : RunNow(q, t)
  BY <1>1, <1>14 DEF RunNow, dbVars
<1>. QED
  BY <1>1, <1>2, <1>3, <1>4, <1>5, <1>6, <1>7, <1>8, <1>9, <1>10, <1>11, <1>12, <1>13, <1>14,
     StepKinds DEF LoopStep

\* The start-up sweep moves what was missed beyond the start.
LEMMA SweptNext ==
  ASSUME "sweep" \notin Faults
  PROVE  TypeInv /\ AnchorInv /\ FireInv /\ SweptInv /\ [Next]_vars => SweptInv'
<1> SUFFICES ASSUME TypeInv, AnchorInv, FireInv, SweptInv, [Next]_vars PROVE SweptInv'
  OBVIOUS
<1>0. /\ now \in Nat /\ startTime \in Nat /\ \A t \in Tasks : row[t] \in TaskRow /\ row[t].next \in Nat
      /\ startTime <= now
  BY TaskRowTypes, SchedulerAssumption DEF TypeInv, TypeOK, Times, SweptInv, SchedulerAssumption
<1>1. CASE Start
  <2>1. startTime' = now /\ now' = now /\ row' = [t \in Tasks |-> SweptRow(t)]
    BY <1>1 DEF Start
  <2>2. \A t \in Tasks : SweptRow(t).next # 0 => SweptRow(t).next >= now
    BY <1>0, SweptRowEffect DEF AnchorInv
  <2>. QED
    BY <1>0, <2>1, <2>2 DEF SweptInv
<1>2. CASE /\ startTime' = startTime /\ now' >= now /\ now' \in Nat /\ (process' = "up" => Up)
           /\ \A t \in Tasks : row'[t].next \in {0, row[t].next} \/ row'[t].next >= startTime
  BY <1>0, <1>2 DEF SweptInv, Up
<1>3. CASE UNCHANGED <<row, process, startTime, now>>
  BY <1>0, <1>2, <1>3 DEF Up
<1>4. CASE ClockAdvances
  BY <1>0, <1>2, <1>4 DEF ClockAdvances, dbVars, Up
<1>5. CASE Shutdown \/ Die
  BY <1>0, <1>2, <1>5 DEF Shutdown, Die, dbVars
<1>6. CASE \E t \in Tasks : CreateSchedule(t)
  <2>1. PICK t \in Tasks : CreateSchedule(t)
    BY <1>6
  <2>2. \A u \in Tasks : row'[u].next \in {0, row[u].next} \/ row'[u].next > now
    BY <2>1, CreateEffect
  <2>3. TypeInv'
    BY TypeNext
  <2>4. \A u \in Tasks : row'[u].next \in Nat
    BY <2>3 DEF TypeInv, TypeOK, TaskRow
  <2>. QED
    BY <1>0, <1>2, <2>1, <2>2, <2>4 DEF CreateSchedule, clockVars, Up
<1>7. CASE \E e \in Editors : CommitUpdate(e)
  <2>1. \A u \in Tasks : row'[u].next \in Nat /\ (row'[u].next \in {0, row[u].next} \/ row'[u].next > now)
    BY <1>7, EditEffect DEF TaskRow
  <2>. QED
    BY <1>0, <1>2, <1>7, <2>1 DEF CommitUpdate, clockVars, Up
<1>8. CASE \E l \in Loops : ClaimDue(l)
  <2>1. PICK l \in Loops : ClaimDue(l)
    BY <1>8
  <2>2. ASSUME NEW t \in Tasks, NEW d \in due[l], ClaimedBy(l, t, d)
        PROVE  row'[t].next >= startTime
    <3>1. row[t].next = d[2].next /\ d[2].next # 0 /\ d[2].next <= tickTime[l]
      BY <2>2 DEF ClaimedBy, FireInv
    <3>2. row[t].next >= startTime
      BY <2>1, <3>1 DEF ClaimDue, SweptInv
    <3>3. row'[t].next > tickTime[l] /\ row'[t].next \in Nat /\ tickTime[l] \in Nat
      BY <2>2, TaskRowTypes DEF ClaimedBy
    <3>. QED
      BY <1>0, <3>1, <3>2, <3>3
  <2>3. \A t \in Tasks : row'[t].next = row[t].next \/ row'[t].next >= startTime
    BY <2>1, <2>2, ClaimEffect DEF Passed
  <2>4. UNCHANGED <<startTime, now, process>>
    BY <2>1 DEF ClaimDue, clockVars
  <2>. QED
    BY <1>0, <1>2, <2>3, <2>4 DEF Up
<1>9. ASSUME NEW l \in Loops, Scan(l) \/ LaunchClaimed(l) \/ EndTick(l)
      PROVE  UNCHANGED <<row, process, startTime, now>>
  BY <1>9 DEF Scan, LaunchClaimed, EndTick, dbVars, clockVars
<1>10. ASSUME NEW l \in Launchers, LaunchStep(l)
       PROVE  UNCHANGED <<row, process, startTime, now>>
  BY <1>10 DEF LaunchStep, InsertRun, InsertSkipped, SpawnRun, dbVars, clockVars
<1>11. ASSUME NEW r \in Runs, RunStep(r) \/ RefuseTarget(r) \/ RunBreaks(r)
       PROVE  UNCHANGED <<row, process, startTime, now>>
  BY <1>11 DEF RunStep, StartRun, AcquireSlot, EndWork, Finalize, EndDelivery, FinalizeFailure,
               RefuseTarget, RunBreaks, dbVars, clockVars
<1>12. ASSUME NEW t \in Tasks, \E e \in Editors : LoadForUpdate(e, t) \/ LoadForDelete(e, t)
       PROVE  UNCHANGED <<row, process, startTime, now>>
  BY <1>12 DEF LoadForUpdate, LoadForDelete, dbVars, clockVars
<1>13. CASE \E q \in Requests, t \in Tasks : RunNow(q, t)
  BY <1>3, <1>13 DEF RunNow, dbVars, clockVars
<1>14. CASE \E e \in Editors : CommitDelete(e)
  BY <1>3, <1>14 DEF CommitDelete, clockVars
<1>15. CASE UNCHANGED vars
  BY <1>3, <1>15 DEF vars, dbVars, clockVars
<1>. QED
  BY <1>1, <1>3, <1>4, <1>5, <1>6, <1>7, <1>8, <1>9, <1>10, <1>11, <1>12, <1>13, <1>14, <1>15,
     StepKinds DEF LoopStep

-----------------------------------------------------------------------------
(***************************************************************************)
(* While writes succeed an active run has somebody who executes it.        *)
(***************************************************************************)
LEMMA ActiveNext ==
  ASSUME "settle" \notin Faults, "sweep" \notin Faults
  PROVE  TypeInv /\ LaunchInv /\ ActiveIsExecuted /\ [Next]_vars => ActiveIsExecuted'
<1> SUFFICES ASSUME TypeInv, LaunchInv, ActiveIsExecuted, [Next]_vars, Up' PROVE ActiveIsExecuted'
  BY DEF ActiveIsExecuted
<1>1. CASE UNCHANGED <<run, launch, exec, process>>
  BY <1>1 DEF ActiveIsExecuted, Up
<1>2. CASE Start
  BY <1>2, SweptRunEffect DEF Start, ActiveIsExecuted, Active
<1>3. CASE \E e \in Editors : CommitDelete(e)
  <2>1. UNCHANGED <<launch, exec, process>>
    BY <1>3 DEF CommitDelete, runVars, clockVars
  <2>2. \A r \in Runs : run'[r].status \in Active => run[r].status \in Active
    BY <1>3, DeleteEffect DEF Active
  <2>. QED
    BY <2>1, <2>2 DEF ActiveIsExecuted, Up
<1>4. CASE \E l \in Launchers : InsertRun(l) \/ InsertSkipped(l)
  <2>1. PICK l \in Launchers : InsertRun(l) \/ InsertSkipped(l)
    BY <1>4
  <2>2. exec' = exec /\ Up
    BY <2>1 DEF InsertRun, InsertSkipped, clockVars, Up
  <2>3. launch[l].at # "spawn"
    BY <2>1 DEF InsertRun, InsertSkipped
  <2>4. CASE launch' = [launch EXCEPT ![l] = Leave(l)] /\ UNCHANGED run
    BY <2>2, <2>3, <2>4, LaunchEffect DEF ActiveIsExecuted
  <2>5. ASSUME NEW r \in Runs, run' = [run EXCEPT ![r] = NewRun(l, "skipped")],
               launch' = [launch EXCEPT ![l] = Leave(l)]
        PROVE  ActiveIsExecuted'
    <3>1. run'[r].status = "skipped" /\ \A s \in Runs : s # r => run'[s] = run[s]
      BY <2>5, NewRunEffect DEF TypeInv, TypeOK
    <3>. QED
      BY <2>2, <2>3, <2>5, <3>1, LaunchEffect DEF ActiveIsExecuted, Active
  <2>6. ASSUME NEW r \in Runs, run' = [run EXCEPT ![r] = NewRun(l, "pending")],
               launch' = [launch EXCEPT ![l].at = "spawn", ![l].run = r]
        PROVE  ActiveIsExecuted'
    <3>1. \A s \in Runs : s # r => run'[s] = run[s]
      BY <2>6 DEF TypeInv, TypeOK
    <3>2. launch'[l].at = "spawn" /\ launch'[l].run = r /\ \A m \in Launchers : m # l => launch'[m] = launch[m]
      BY <2>6, SpawnEffect DEF TypeInv, TypeOK
    <3>. QED
      BY <2>2, <2>3, <3>1, <3>2 DEF ActiveIsExecuted
  <2>. QED
    BY <2>1, <2>4, <2>5, <2>6 DEF InsertRun, InsertSkipped
<1>5. CASE \E l \in Launchers : SpawnRun(l)
  <2>1. PICK l \in Launchers : SpawnRun(l)
    BY <1>5
  <2>2. /\ launch[l].at = "spawn" /\ launch[l].run \in Runs /\ run' = run /\ Up
        /\ \A m \in Launchers : m # l => launch'[m] = launch[m]
    BY <2>1, LaunchEffect DEF SpawnRun, LaunchInv, SpawnIsFresh, dbVars, clockVars, Up
  <2>3. exec'[launch[l].run] = "queued" /\ \A s \in Runs : s # launch[l].run => exec'[s] = exec[s]
    BY <2>1, <2>2 DEF SpawnRun, TypeInv, TypeOK
  <2>. QED
    BY <2>2, <2>3 DEF ActiveIsExecuted
<1>6. CASE \E r \in Runs : RunStep(r) \/ RefuseTarget(r) \/ RunBreaks(r)
  <2>1. PICK r \in Runs : RunStep(r) \/ RefuseTarget(r) \/ RunBreaks(r)
    BY <1>6
  <2>2. Up
    BY <2>1 DEF RunStep, StartRun, AcquireSlot, EndWork, Finalize, EndDelivery, FinalizeFailure,
                RefuseTarget, RunBreaks, clockVars, Up
  <2>3. run'[r].status \in Active => exec'[r] # "none"
    <3> USE ExecGotoEffect, SetStatusEffect DEF LaunchInv, RowFollowsExec, Active, Settled, TypeInv, TypeOK, dbVars
    <3>1. CASE StartRun(r)
      BY <3>1 DEF StartRun
    <3>2. CASE AcquireSlot(r) \/ EndWork(r) \/ RefuseTarget(r) \/ RunBreaks(r)
      BY <3>2 DEF AcquireSlot, EndWork, RefuseTarget, RunBreaks
    <3>3. CASE Finalize(r)
      BY <3>3 DEF Finalize
    <3>4. CASE EndDelivery(r)
      BY <3>4 DEF EndDelivery
    <3>5. CASE FinalizeFailure(r)
      BY <3>5 DEF FinalizeFailure
    <3>. QED
      BY <2>1, <3>1, <3>2, <3>3, <3>4, <3>5 DEF RunStep
  <2>. QED
    BY <2>1, <2>2, <2>3, RunEffect DEF ActiveIsExecuted
<1>7. CASE (\E l \in Loops : LaunchClaimed(l)) \/ (\E q \in Requests, t \in Tasks : RunNow(q, t))
  <2>1. PICK l \in Launchers, t \in Tasks : Begin(l, t) /\ UNCHANGED <<dbVars, exec, process>>
    BY <1>7 DEF LaunchClaimed, RunNow, TypeInv, TypeOK, Launchers, clockVars
  <2>2. launch[l].at = "idle" /\ \A m \in Launchers : m # l => launch'[m] = launch[m]
    BY <2>1, BeginEffect
  <2>. QED
    BY <2>1, <2>2 DEF ActiveIsExecuted, dbVars, Up
<1>8. CASE ClockAdvances \/ UNCHANGED vars
  BY <1>1, <1>8 DEF ClockAdvances, vars, dbVars, runVars, clockVars
<1>9. ASSUME NEW t \in Tasks, CreateSchedule(t) \/ \E e \in Editors : LoadForUpdate(e, t) \/ LoadForDelete(e, t)
      PROVE  UNCHANGED <<run, launch, exec, process>>
  BY <1>9 DEF CreateSchedule, LoadForUpdate, LoadForDelete, dbVars, runVars, clockVars
<1>10. ASSUME NEW e \in Editors, CommitUpdate(e)
       PROVE  UNCHANGED <<run, launch, exec, process>>
  BY <1>10 DEF CommitUpdate, runVars, clockVars
<1>11. ASSUME NEW l \in Loops, Scan(l) \/ ClaimDue(l) \/ EndTick(l)
       PROVE  UNCHANGED <<run, launch, exec, process>>
  BY <1>11 DEF Scan, ClaimDue, EndTick, dbVars, runVars, clockVars
<1>12. ~Shutdown /\ ~Die
  BY DEF Shutdown, Die, Up
<1>. QED
  BY <1>1, <1>2, <1>3, <1>4, <1>5, <1>6, <1>7, <1>8, <1>9, <1>10, <1>11, <1>12, StepKinds DEF LoopStep, LaunchStep

-----------------------------------------------------------------------------
(***************************************************************************)
(* Every claim ends as a run: the count goes from the claims to the        *)
(* launches to the rows.                                                   *)
(***************************************************************************)
LEMMA SameCount ==
  ASSUME NEW t, Counted(t), fired'[t] = fired[t], ScheduledRuns(t)' = ScheduledRuns(t), Claimers(t)' = Claimers(t),
         LaunchersOf(t)' = LaunchersOf(t)
  PROVE  Counted(t)'
BY DEF Counted

LEMMA NothingToCount ==
  ASSUME NEW t, fired[t] = <<>>, ScheduledRuns(t) = {}, Claimers(t) = {}, LaunchersOf(t) = {}
  PROVE  Counted(t)
<1>1. IsFiniteSet({}) /\ Cardinality({}) = 0
  BY FS_EmptySet
<1>2. Len(fired[t]) = 0
  OBVIOUS
<1>3. Len(fired[t]) = Cardinality(ScheduledRuns(t)) + Cardinality(Claimers(t)) + Cardinality(LaunchersOf(t))
  BY <1>1, <1>2
<1>. QED
  BY <1>1, <1>3 DEF Counted

\* Steps that neither claim nor launch nor insert.
LEMMA RecordFrame ==
  ASSUME TypeInv, First, RecordInv, UNCHANGED <<fired, stage, claimed, launch>>,
         \A l \in Loops : \A d \in due'[l] : life'[d[1]] # "absent",
         \A t \in Tasks : life'[t] \in {life[t], "deleted"},
         \A r \in Runs : run'[r].task = run[r].task /\ run'[r].trigger = run[r].trigger
  PROVE  RecordInv'
<1>1. \A t \in Tasks : /\ RunsOf(t)' = RunsOf(t) /\ ScheduledRuns(t)' = ScheduledRuns(t)
                       /\ Claimers(t)' = Claimers(t) /\ LaunchersOf(t)' = LaunchersOf(t)
  BY DEF RunsOf, ScheduledRuns, Claimers, LaunchersOf
<1>2. ClaimsKnown'
  BY DEF RecordInv, ClaimsKnown
<1>3. AbsentIsUnknown'
  BY <1>1 DEF RecordInv, AbsentIsUnknown
<1>4. \A t \in Tasks : life'[t] # "deleted" => Counted(t)'
  BY <1>1, SameCount DEF RecordInv
<1>. QED
  BY <1>2, <1>3, <1>4 DEF RecordInv

LEMMA RecordInit == Init => RecordInv
<1> SUFFICES ASSUME Init PROVE RecordInv
  OBVIOUS
<1>0. /\ \A r \in Runs : run[r].task = None
      /\ \A l \in Launchers : launch[l].task = None
      /\ \A l \in Loops : claimed[l] = {}
  BY DEF Init, NoRun, NoLaunch
<1>1. \A t \in Tasks : /\ fired[t] = <<>> /\ RunsOf(t) = {} /\ ScheduledRuns(t) = {}
                       /\ Claimers(t) = {} /\ LaunchersOf(t) = {} /\ \A l \in Launchers : launch[l].task # t
  BY <1>0, SchedulerAssumption
     DEF Init, RunsOf, ScheduledRuns, Claimers, LaunchersOf, Launchers, SchedulerAssumption
<1>2. \A t \in Tasks : Counted(t)
  BY <1>1, NothingToCount
<1>3. ClaimsKnown
  BY DEF Init, ClaimsKnown
<1>. QED
  BY <1>1, <1>2, <1>3 DEF RecordInv, AbsentIsUnknown

\* A launch begins: of the counted ones, from a claim.
LEMMA RecordBegin ==
  ASSUME TypeInv, First, RecordInv, NEW l \in Launchers, NEW t \in Tasks, Begin(l, t),
         UNCHANGED <<run, life, fired, stage, due>>,
         IF l \in Loops THEN t \in claimed[l] /\ claimed' = [claimed EXCEPT ![l] = @ \ {t}] ELSE claimed' = claimed
  PROVE  RecordInv'
<1>1. \A u \in Tasks : RunsOf(u)' = RunsOf(u) /\ ScheduledRuns(u)' = ScheduledRuns(u)
  BY DEF RunsOf, ScheduledRuns
<1>2. launch[l].at = "idle" /\ \A m \in Launchers : m # l => launch'[m] = launch[m]
  BY BeginEffect
<1>3. \A k \in Loops : claimed'[k] = IF k = l THEN claimed[k] \ {t} ELSE claimed[k]
  BY DEF TypeInv, TypeOK
<1>4. launch'[l].task \in {t, None} /\ life[t] = "absent" => launch'[l].task = None
  BY BeginEffect, LeaveEffect
<1>5. ClaimsKnown'
  BY <1>3 DEF RecordInv, ClaimsKnown
<1>6. AbsentIsUnknown'
  <2> SUFFICES ASSUME NEW u \in Tasks, life[u] = "absent"
               PROVE  Claimers(u)' = {} /\ \A m \in Launchers : launch'[m].task # u
    BY <1>1 DEF RecordInv, AbsentIsUnknown
  <2>1. Claimers(u) = {} /\ \A m \in Launchers : launch[m].task # u
    BY DEF RecordInv, AbsentIsUnknown
  <2>2. launch'[l].task # u
    BY BeginEffect, LeaveEffect, SchedulerAssumption DEF SchedulerAssumption
  <2>. QED
    BY <1>2, <1>3, <2>1, <2>2 DEF Claimers
<1>7. ASSUME NEW u \in Tasks, life[u] # "deleted"
      PROVE  Counted(u)'
  <2>0. Counted(u)
    BY <1>7 DEF RecordInv
  <2>1. CASE l \notin Loops \/ u # t
    <3>1. Claimers(u)' = Claimers(u)
      BY <1>3, <2>1 DEF Claimers
    <3>2. l \in Loops => launch'[l].task # u
      BY <2>1, BeginEffect, LeaveEffect, SchedulerAssumption DEF SchedulerAssumption
    <3>3. LaunchersOf(u)' = LaunchersOf(u)
      BY <1>2, <3>2 DEF LaunchersOf, Launchers
    <3>. QED
      BY <1>1, <2>0, <3>1, <3>3, SameCount
  <2>2. CASE l \in Loops /\ u = t
    <3>1. Claimers(t)' = Claimers(t) \ {l} /\ l \in Claimers(t)
      BY <1>3, <2>2 DEF Claimers
    <3>2. life[t] = "live"
      BY <1>7, <2>2, <3>1 DEF TypeInv, TypeOK, RecordInv, AbsentIsUnknown
    <3>3. l \notin Requests
      BY <2>2, SchedulerAssumption DEF SchedulerAssumption
    <3>4. launch'[l].task = t /\ launch'[l].at \in {"insert", "skip"}
      BY <3>2, <3>3, BeginEffect
    <3>5. LaunchersOf(t)' = LaunchersOf(t) \cup {l} /\ l \notin LaunchersOf(t)
      BY <1>2, <2>2, <3>4 DEF LaunchersOf, Launchers
    <3>6. /\ IsFiniteSet(Claimers(t)') /\ Cardinality(Claimers(t)') = Cardinality(Claimers(t)) - 1
          /\ IsFiniteSet(LaunchersOf(t)') /\ Cardinality(LaunchersOf(t)') = Cardinality(LaunchersOf(t)) + 1
      <4>1. IsFiniteSet(Claimers(t)) /\ IsFiniteSet(LaunchersOf(t))
        BY <2>0, <2>2 DEF Counted
      <4>. QED
        BY <3>1, <3>5, <4>1, FS_AddElement, FS_RemoveElement
    <3>7. /\ Cardinality(Claimers(t)) \in Nat /\ Cardinality(LaunchersOf(t)) \in Nat
          /\ Cardinality(ScheduledRuns(t)) \in Nat
      BY <2>0, <2>2, FS_CardinalityType DEF Counted
    <3>. QED
      BY <1>1, <2>0, <2>2, <3>6, <3>7 DEF Counted
  <2>. QED
    BY <2>1, <2>2
<1>. QED
  BY <1>5, <1>6, <1>7 DEF RecordInv

\* The row of a run or of a skipped fire is written.
LEMMA RecordInsert ==
  ASSUME TypeInv, LaunchInv, First, RecordInv, "insert" \notin Faults,
         NEW l \in Launchers, InsertRun(l) \/ InsertSkipped(l)
  PROVE  RecordInv'
<1> DEFINE T == launch[l].task
<1>1. /\ launch[l].at \in {"insert", "skip"} /\ T \in Tasks
      /\ UNCHANGED <<life, fired, stage, due, claimed>>
  BY DEF InsertRun, InsertSkipped, LaunchInv, LockHasOneHolder, Busy, loopVars
<1>2. /\ launch'[l].at \notin {"insert", "skip"} /\ launch'[l].task \in {T, None}
      /\ \A m \in Launchers : m # l => launch'[m] = launch[m]
  <2>1. CASE launch' = [launch EXCEPT ![l] = Leave(l)]
    <3>1. launch'[l] = Leave(l) /\ \A m \in Launchers : m # l => launch'[m] = launch[m]
      BY <2>1, LaunchEffect
    <3>. QED
      BY <3>1, LeaveEffect
  <2>2. ASSUME NEW r \in Runs, launch' = [launch EXCEPT ![l].at = "spawn", ![l].run = r]
        PROVE  /\ launch'[l].at \notin {"insert", "skip"} /\ launch'[l].task \in {T, None}
               /\ \A m \in Launchers : m # l => launch'[m] = launch[m]
    BY <2>2, SpawnEffect DEF TypeInv, TypeOK
  <2>. QED
    BY <2>1, <2>2 DEF InsertRun, InsertSkipped
<1>3. \A u \in Tasks : Claimers(u)' = Claimers(u)
  BY <1>1 DEF Claimers
<1>4. \A u \in Tasks : u # T => LaunchersOf(u)' = LaunchersOf(u)
  BY <1>2, SchedulerAssumption DEF LaunchersOf, Launchers, SchedulerAssumption
<1>5. ClaimsKnown'
  BY <1>1 DEF RecordInv, ClaimsKnown
<1>6. life[T] # "absent" /\ None \notin Tasks
  BY <1>1, SchedulerAssumption DEF RecordInv, AbsentIsUnknown, SchedulerAssumption
<1>7. CASE UNCHANGED run
  <2>1. \A u \in Tasks : RunsOf(u)' = RunsOf(u) /\ ScheduledRuns(u)' = ScheduledRuns(u)
    BY <1>7 DEF RunsOf, ScheduledRuns
  <2>2. AbsentIsUnknown'
    BY <1>1, <1>2, <1>3, <1>6, <2>1 DEF RecordInv, AbsentIsUnknown
  <2>3. life[T] = "deleted"
    <3>1. ASSUME NEW r \in Runs, run[r] = NoRun, NEW st \in {"pending", "skipped"}, run' = [run EXCEPT ![r] = NewRun(l, st)]
          PROVE  FALSE
      <4>1. run'[r].status = st /\ run[r].status = "none"
        BY <3>1, NewRunEffect DEF NoRun, TypeInv, TypeOK
      <4>. QED
        BY <1>7, <4>1
    <3>. QED
      BY <3>1 DEF InsertRun, InsertSkipped
  <2>4. ASSUME NEW u \in Tasks, life[u] # "deleted"
        PROVE  Counted(u)'
    BY <1>1, <1>3, <1>4, <2>1, <2>3, <2>4, SameCount DEF RecordInv
  <2>. QED
    BY <1>1, <1>5, <2>2, <2>4 DEF RecordInv
<1>8. ASSUME NEW r \in Runs, run[r] = NoRun, NEW st, run' = [run EXCEPT ![r] = NewRun(l, st)]
      PROVE  RecordInv'
  <2>1. /\ run'[r].task = T /\ run'[r].trigger = IF l \in Requests THEN "manual" ELSE "schedule"
        /\ \A s \in Runs : s # r => run'[s] = run[s]
    BY <1>8, NewRunEffect DEF TypeInv, TypeOK
  <2>2. run[r].task = None
    BY <1>8 DEF NoRun
  <2>3. \A u \in Tasks : u # T => RunsOf(u)' = RunsOf(u) /\ ScheduledRuns(u)' = ScheduledRuns(u)
    BY <1>6, <2>1, <2>2 DEF RunsOf, ScheduledRuns
  <2>4. AbsentIsUnknown'
    BY <1>1, <1>2, <1>3, <1>6, <2>3 DEF RecordInv, AbsentIsUnknown
  <2>5. ASSUME NEW u \in Tasks, life[u] # "deleted"
        PROVE  Counted(u)'
    <3>0. Counted(u)
      BY <2>5 DEF RecordInv
    <3>1. CASE u # T
      BY <1>1, <1>3, <1>4, <2>3, <3>0, <3>1, SameCount
    <3>2. CASE u = T /\ l \in Requests
      <4>1. ScheduledRuns(u)' = ScheduledRuns(u)
        BY <1>1, <1>6, <2>1, <2>2, <3>2 DEF RunsOf, ScheduledRuns
      <4>2. LaunchersOf(u)' = LaunchersOf(u)
        BY <1>2, <3>2, SchedulerAssumption DEF LaunchersOf, Launchers, SchedulerAssumption
      <4>. QED
        BY <1>1, <1>3, <3>0, <4>1, <4>2, SameCount
    <3>3. CASE u = T /\ l \in Loops
      <4>1. ScheduledRuns(u)' = ScheduledRuns(u) \cup {r} /\ r \notin ScheduledRuns(u)
        BY <1>1, <1>6, <2>1, <2>2, <3>3, SchedulerAssumption DEF RunsOf, ScheduledRuns, SchedulerAssumption
      <4>2. LaunchersOf(u)' = LaunchersOf(u) \ {l} /\ l \in LaunchersOf(u)
        BY <1>1, <1>2, <3>3 DEF LaunchersOf, Launchers
      <4>3. /\ IsFiniteSet(ScheduledRuns(u)') /\ Cardinality(ScheduledRuns(u)') = Cardinality(ScheduledRuns(u)) + 1
            /\ IsFiniteSet(LaunchersOf(u)') /\ Cardinality(LaunchersOf(u)') = Cardinality(LaunchersOf(u)) - 1
        BY <3>0, <4>1, <4>2, FS_AddElement, FS_RemoveElement DEF Counted
      <4>4. /\ Cardinality(Claimers(u)) \in Nat /\ Cardinality(LaunchersOf(u)) \in Nat
            /\ Cardinality(ScheduledRuns(u)) \in Nat
        BY <3>0, FS_CardinalityType DEF Counted
      <4>. QED
        BY <1>1, <1>3, <3>0, <4>3, <4>4 DEF Counted
    <3>. QED
      BY <3>1, <3>2, <3>3 DEF Launchers
  <2>. QED
    BY <1>1, <1>5, <2>4, <2>5 DEF RecordInv
<1>. QED
  BY <1>7, <1>8 DEF InsertRun, InsertSkipped

\* A claim is counted with the occurrence it takes.
LEMMA RecordClaim ==
  ASSUME TypeInv, First, RecordInv, NEW l \in Loops, ClaimDue(l)
  PROVE  RecordInv'
<1>1. UNCHANGED <<run, life, launch>> /\ due'[l] = {} /\ \A k \in Loops : due'[k] \subseteq due[k]
  BY DEF ClaimDue, runVars, TypeInv, TypeOK
<1>2. claimed[l] = {}
  BY DEF ClaimDue, RecordInv, ClaimsKnown
<1>3. \A u \in Tasks : RunsOf(u)' = RunsOf(u) /\ ScheduledRuns(u)' = ScheduledRuns(u) /\ LaunchersOf(u)' = LaunchersOf(u)
  BY <1>1 DEF RunsOf, ScheduledRuns, LaunchersOf
<1>4. ClaimsKnown'
  BY <1>1, <1>2, ClaimEffect DEF RecordInv, ClaimsKnown
<1>5. ASSUME NEW u \in Tasks, u \in claimed'[l]
      PROVE  /\ life[u] = "live" /\ \E n \in Nat : fired'[u] = Append(fired[u], n)
             /\ Claimers(u)' = Claimers(u) \cup {l} /\ l \notin Claimers(u)
  <2>1. PICK d \in due[l] : ClaimedBy(l, u, d)
    BY <1>2, <1>5, ClaimEffect
  <2>2. d[2].next \in Nat
    BY TaskRowTypes DEF TypeInv, TypeOK
  <2>. QED
    BY <1>2, <1>5, <2>1, <2>2, ClaimEffect DEF ClaimedBy, Claimers
<1>6. ASSUME NEW u \in Tasks, u \notin claimed'[l]
      PROVE  fired'[u] = fired[u] /\ Claimers(u)' = Claimers(u)
  BY <1>2, <1>6, ClaimEffect DEF Passed, Claimers
<1>7. AbsentIsUnknown'
  BY <1>1, <1>3, <1>5, <1>6 DEF RecordInv, AbsentIsUnknown
<1>8. ASSUME NEW u \in Tasks, life[u] # "deleted"
      PROVE  Counted(u)'
  <2>0. Counted(u)
    BY <1>8 DEF RecordInv
  <2>1. CASE u \notin claimed'[l]
    BY <1>3, <1>6, <2>0, <2>1, SameCount
  <2>2. CASE u \in claimed'[l]
    <3>1. Len(fired'[u]) = Len(fired[u]) + 1 /\ Len(fired[u]) \in Nat
      BY <1>5, <2>2 DEF TypeInv, TypeOK
    <3>2. IsFiniteSet(Claimers(u)') /\ Cardinality(Claimers(u)') = Cardinality(Claimers(u)) + 1
      BY <1>5, <2>0, <2>2, FS_AddElement DEF Counted
    <3>3. /\ Cardinality(Claimers(u)) \in Nat /\ Cardinality(LaunchersOf(u)) \in Nat
          /\ Cardinality(ScheduledRuns(u)) \in Nat
      BY <2>0, FS_CardinalityType DEF Counted
    <3>. QED
      BY <1>3, <2>0, <3>1, <3>2, <3>3 DEF Counted
  <2>. QED
    BY <2>1, <2>2
<1>. QED
  BY <1>1, <1>4, <1>7, <1>8 DEF RecordInv

LEMMA RecordNext ==
  ASSUME "insert" \notin Faults
  PROVE  TypeInv /\ LaunchInv /\ RecordInv /\ [Next]_vars => RecordInv'
<1> SUFFICES ASSUME TypeInv, LaunchInv, RecordInv, [Next]_vars, First' PROVE RecordInv'
  BY DEF RecordInv
<1>0. First
  <2>1. ~Start
    BY DEF Start, TypeInv, TypeOK, First
  <2>2. starts' = starts /\ (process' = "up" => Up)
    <3>1. CASE ClockAdvances \/ Shutdown \/ Die \/ UNCHANGED vars
      BY <3>1 DEF ClockAdvances, Shutdown, Die, vars, clockVars, Up
    <3>2. ASSUME NEW t \in Tasks, CreateSchedule(t) \/ \E e \in Editors : LoadForUpdate(e, t) \/ LoadForDelete(e, t)
          PROVE  UNCHANGED clockVars
      BY <3>2 DEF CreateSchedule, LoadForUpdate, LoadForDelete
    <3>3. ASSUME NEW e \in Editors, CommitUpdate(e) \/ CommitDelete(e)
          PROVE  UNCHANGED clockVars
      BY <3>3 DEF CommitUpdate, CommitDelete
    <3>4. ASSUME NEW q \in Requests, NEW t \in Tasks, RunNow(q, t)
          PROVE  UNCHANGED clockVars
      BY <3>4 DEF RunNow
    <3>5. ASSUME NEW l \in Loops, LoopStep(l)
          PROVE  UNCHANGED clockVars
      BY <3>5 DEF LoopStep, Scan, ClaimDue, LaunchClaimed, EndTick
    <3>6. ASSUME NEW l \in Launchers, LaunchStep(l)
          PROVE  UNCHANGED clockVars
      BY <3>6 DEF LaunchStep, InsertRun, InsertSkipped, SpawnRun
    <3>7. ASSUME NEW r \in Runs, RunStep(r) \/ RefuseTarget(r) \/ RunBreaks(r)
          PROVE  UNCHANGED clockVars
      BY <3>7 DEF RunStep, StartRun, AcquireSlot, EndWork, Finalize, EndDelivery, FinalizeFailure,
                  RefuseTarget, RunBreaks
    <3>. QED
      BY <2>1, <3>1, <3>2, <3>3, <3>4, <3>5, <3>6, <3>7, StepKinds DEF clockVars, Up
  <2>. QED
    BY <2>2 DEF First, Up
<1>1. CASE UNCHANGED <<fired, stage, claimed, due, launch, life, run>>
  BY <1>0, <1>1, RecordFrame DEF RecordInv, ClaimsKnown, TypeInv, TypeOK
<1>2. CASE ClockAdvances \/ UNCHANGED vars
  BY <1>1, <1>2 DEF ClockAdvances, vars, dbVars, loopVars, runVars
<1>3. ~Shutdown /\ ~Die /\ ~Start
  BY <1>0 DEF Shutdown, Die, Start, First, Up
<1>4. CASE \E t \in Tasks : CreateSchedule(t)
  <2>1. PICK t \in Tasks : CreateSchedule(t)
    BY <1>4
  <2>2. /\ life[t] = "absent" /\ life'[t] = "live" /\ \A u \in Tasks : u # t => life'[u] = life[u]
        /\ UNCHANGED <<run, fired, stage, claimed, due, launch>>
    BY <2>1, CreateEffect DEF CreateSchedule, loopVars, runVars, TypeInv, TypeOK
  <2>3. \A u \in Tasks : /\ RunsOf(u)' = RunsOf(u) /\ ScheduledRuns(u)' = ScheduledRuns(u)
                         /\ Claimers(u)' = Claimers(u) /\ LaunchersOf(u)' = LaunchersOf(u)
    BY <2>2 DEF RunsOf, ScheduledRuns, Claimers, LaunchersOf
  <2>4. ClaimsKnown'
    BY <1>0, <2>2 DEF RecordInv, ClaimsKnown, TypeInv, TypeOK
  <2>5. AbsentIsUnknown'
    BY <1>0, <2>2, <2>3 DEF RecordInv, AbsentIsUnknown
  <2>6. \A u \in Tasks : life'[u] # "deleted" => Counted(u)'
    BY <1>0, <2>2, <2>3, SameCount DEF RecordInv
  <2>. QED
    BY <2>4, <2>5, <2>6 DEF RecordInv
<1>5. ASSUME NEW t \in Tasks, \E e \in Editors : LoadForUpdate(e, t) \/ LoadForDelete(e, t)
      PROVE  UNCHANGED <<fired, stage, claimed, due, launch, life, run>>
  BY <1>5 DEF LoadForUpdate, LoadForDelete, dbVars, loopVars, runVars
<1>6. ASSUME NEW e \in Editors, CommitUpdate(e)
      PROVE  UNCHANGED <<fired, stage, claimed, due, launch, life, run>>
  BY <1>6 DEF CommitUpdate, loopVars, runVars
<1>7. CASE \E e \in Editors : CommitDelete(e)
  <2>1. PICK e \in Editors : CommitDelete(e)
    BY <1>7
  <2>2. UNCHANGED <<fired, stage, claimed, due, launch>>
    BY <2>1 DEF CommitDelete, loopVars, runVars
  <2>3. \A t \in Tasks : life'[t] \in {life[t], "deleted"}
    BY <2>1 DEF CommitDelete, TypeInv, TypeOK
  <2>4. \A l \in Loops : \A d \in due[l] : d[1] \in Tasks /\ life[d[1]] # "absent"
    BY <1>0 DEF RecordInv, ClaimsKnown, TypeInv, TypeOK
  <2>5. \A l \in Loops : \A d \in due'[l] : life'[d[1]] # "absent"
    BY <2>2, <2>3, <2>4
  <2>. QED
    BY <1>0, <2>1, <2>2, <2>3, <2>5, DeleteEffect, RecordFrame
<1>8. CASE \E r \in Runs : RunStep(r) \/ RefuseTarget(r) \/ RunBreaks(r)
  <2>1. PICK r \in Runs : RunStep(r) \/ RefuseTarget(r) \/ RunBreaks(r)
    BY <1>8
  <2>2. UNCHANGED <<fired, stage, claimed, due, launch, life>>
    BY <2>1 DEF RunStep, StartRun, AcquireSlot, EndWork, Finalize, EndDelivery, FinalizeFailure,
                RefuseTarget, RunBreaks, dbVars, loopVars
  <2>3. \A s \in Runs : run'[s].task = run[s].task /\ run'[s].trigger = run[s].trigger
    BY <2>1, RunEffect
  <2>. QED
    BY <1>0, <2>2, <2>3, RecordFrame DEF RecordInv, ClaimsKnown
<1>9. CASE \E l \in Launchers : InsertRun(l) \/ InsertSkipped(l)
  BY <1>0, <1>9, RecordInsert
<1>10. CASE \E l \in Launchers : SpawnRun(l)
  <2>1. PICK l \in Launchers : SpawnRun(l)
    BY <1>10
  <2>2. UNCHANGED <<fired, stage, claimed, due, life, run>>
    BY <2>1 DEF SpawnRun, dbVars, loopVars
  <2>3. /\ launch[l].at = "spawn" /\ launch'[l].at \in {"idle", "done"} /\ launch'[l].task = None
        /\ \A m \in Launchers : m # l => launch'[m] = launch[m]
    BY <2>1, LaunchEffect, LeaveEffect DEF SpawnRun
  <2>4. \A u \in Tasks : /\ RunsOf(u)' = RunsOf(u) /\ ScheduledRuns(u)' = ScheduledRuns(u)
                         /\ Claimers(u)' = Claimers(u) /\ LaunchersOf(u)' = LaunchersOf(u)
    BY <2>2, <2>3 DEF RunsOf, ScheduledRuns, Claimers, LaunchersOf, Launchers
  <2>5. ClaimsKnown'
    BY <1>0, <2>2 DEF RecordInv, ClaimsKnown
  <2>6. AbsentIsUnknown'
    BY <1>0, <2>2, <2>3, <2>4, SchedulerAssumption DEF RecordInv, AbsentIsUnknown, SchedulerAssumption
  <2>7. \A u \in Tasks : life'[u] # "deleted" => Counted(u)'
    BY <1>0, <2>2, <2>4, SameCount DEF RecordInv
  <2>. QED
    BY <2>5, <2>6, <2>7 DEF RecordInv
<1>11. CASE \E q \in Requests, t \in Tasks : RunNow(q, t)
  <2>1. PICK q \in Requests, t \in Tasks : RunNow(q, t)
    BY <1>11
  <2>2. q \in Launchers /\ q \notin Loops
    BY SchedulerAssumption DEF SchedulerAssumption, Launchers
  <2>. QED
    BY <1>0, <2>1, <2>2, RecordBegin DEF RunNow, dbVars, loopVars
<1>12. CASE \E l \in Loops : LaunchClaimed(l)
  <2>1. PICK l \in Loops : LaunchClaimed(l)
    BY <1>12
  <2>2. PICK t \in claimed[l] : Begin(l, t) /\ claimed' = [claimed EXCEPT ![l] = @ \ {t}]
    BY <2>1 DEF LaunchClaimed
  <2>3. t \in Tasks /\ l \in Launchers
    BY DEF TypeInv, TypeOK, Launchers
  <2>. QED
    BY <1>0, <2>1, <2>2, <2>3, RecordBegin DEF LaunchClaimed, dbVars
<1>13. CASE \E l \in Loops : ClaimDue(l)
  BY <1>0, <1>13, RecordClaim
<1>14. CASE \E l \in Loops : Scan(l) \/ EndTick(l)
  <2>1. PICK l \in Loops : Scan(l) \/ EndTick(l)
    BY <1>14
  <2>2. UNCHANGED <<fired, claimed, launch, life, run>>
    BY <2>1 DEF Scan, EndTick, dbVars, runVars
  <2>3. /\ stage'[l] \in {"scan", "sleep"} /\ \A k \in Loops : k # l => stage'[k] = stage[k]
        /\ claimed[l] = {}
    BY <1>0, <2>1 DEF Scan, EndTick, RecordInv, ClaimsKnown, TypeInv, TypeOK
  <2>4. \A k \in Loops : \A d \in due'[k] : d \in due[k] \/ life[d[1]] = "live"
    BY <2>1 DEF Scan, EndTick, IsDue, TypeInv, TypeOK
  <2>5. \A u \in Tasks : /\ RunsOf(u)' = RunsOf(u) /\ ScheduledRuns(u)' = ScheduledRuns(u)
                         /\ Claimers(u)' = Claimers(u) /\ LaunchersOf(u)' = LaunchersOf(u)
    BY <2>2 DEF RunsOf, ScheduledRuns, Claimers, LaunchersOf
  <2>6. ClaimsKnown'
    BY <1>0, <2>2, <2>3, <2>4 DEF RecordInv, ClaimsKnown
  <2>7. AbsentIsUnknown'
    BY <1>0, <2>2, <2>5 DEF RecordInv, AbsentIsUnknown
  <2>8. \A u \in Tasks : life'[u] # "deleted" => Counted(u)'
    BY <1>0, <2>2, <2>5, SameCount DEF RecordInv
  <2>. QED
    BY <2>6, <2>7, <2>8 DEF RecordInv
<1>. QED
  BY <1>1, <1>2, <1>3, <1>4, <1>5, <1>6, <1>7, <1>8, <1>9, <1>10, <1>11, <1>12, <1>13, <1>14,
     StepKinds DEF LoopStep, LaunchStep

-----------------------------------------------------------------------------
(***************************************************************************)
(* What a claim takes, and what moves a fire time.                         *)
(***************************************************************************)
\* Only a claim adds to what was fired.
LEMMA FiredBy ==
  ASSUME TypeInv, [Next]_vars, NEW t \in Tasks, fired'[t] # fired[t]
  PROVE  Up /\ \E l \in Loops : \E d \in due[l] : ClaimedBy(l, t, d)
<1>1. CASE UNCHANGED fired
  BY <1>1
<1>2. CASE \E l \in Loops : ClaimDue(l)
  BY <1>2, ClaimEffect DEF Passed, ClaimDue
<1>3. CASE ClockAdvances \/ Shutdown \/ Die \/ Start \/ UNCHANGED vars
  BY <1>1, <1>3 DEF ClockAdvances, Shutdown, Die, Start, vars, loopVars
<1>4. ASSUME NEW u \in Tasks, CreateSchedule(u) \/ \E e \in Editors : LoadForUpdate(e, u) \/ LoadForDelete(e, u)
      PROVE  UNCHANGED fired
  BY <1>4 DEF CreateSchedule, LoadForUpdate, LoadForDelete, loopVars
<1>5. ASSUME NEW e \in Editors, CommitUpdate(e) \/ CommitDelete(e)
      PROVE  UNCHANGED fired
  BY <1>5 DEF CommitUpdate, CommitDelete, loopVars
<1>6. ASSUME NEW q \in Requests, NEW u \in Tasks, RunNow(q, u)
      PROVE  UNCHANGED fired
  BY <1>6 DEF RunNow, loopVars
<1>7. ASSUME NEW l \in Loops, Scan(l) \/ LaunchClaimed(l) \/ EndTick(l)
      PROVE  UNCHANGED fired
  BY <1>7 DEF Scan, LaunchClaimed, EndTick
<1>8. ASSUME NEW l \in Launchers, LaunchStep(l)
      PROVE  UNCHANGED fired
  BY <1>8 DEF LaunchStep, InsertRun, InsertSkipped, SpawnRun, loopVars
<1>9. ASSUME NEW r \in Runs, RunStep(r) \/ RefuseTarget(r) \/ RunBreaks(r)
      PROVE  UNCHANGED fired
  BY <1>9 DEF RunStep, StartRun, AcquireSlot, EndWork, Finalize, EndDelivery, FinalizeFailure,
              RefuseTarget, RunBreaks, loopVars
<1>. QED
  BY <1>1, <1>2, <1>3, <1>4, <1>5, <1>6, <1>7, <1>8, <1>9, StepKinds DEF LoopStep

\* Only a creation, an edit, a claim and a start change a row.
LEMMA RowChangedBy ==
  ASSUME TypeInv, [Next]_vars, row' # row
  PROVE  \/ \E t \in Tasks : CreateSchedule(t)
         \/ \E e \in Editors : CommitUpdate(e)
         \/ \E l \in Loops : ClaimDue(l)
         \/ Start
<1>1. ~ClockAdvances /\ ~Shutdown /\ ~Die /\ ~UNCHANGED vars
  BY DEF ClockAdvances, Shutdown, Die, vars, dbVars
<1>2. \A t \in Tasks, e \in Editors : ~LoadForUpdate(e, t) /\ ~LoadForDelete(e, t)
  BY DEF LoadForUpdate, LoadForDelete, dbVars
<1>3. \A e \in Editors : ~CommitDelete(e)
  BY DEF CommitDelete
<1>4. \A q \in Requests, t \in Tasks : ~RunNow(q, t)
  BY DEF RunNow, dbVars
<1>5. \A l \in Loops : ~Scan(l) /\ ~LaunchClaimed(l) /\ ~EndTick(l)
  BY DEF Scan, LaunchClaimed, EndTick, dbVars
<1>6. \A l \in Launchers : ~LaunchStep(l)
  BY DEF LaunchStep, InsertRun, InsertSkipped, SpawnRun, dbVars
<1>7. \A r \in Runs : ~RunStep(r) /\ ~RefuseTarget(r) /\ ~RunBreaks(r)
  BY DEF RunStep, StartRun, AcquireSlot, EndWork, Finalize, EndDelivery, FinalizeFailure,
         RefuseTarget, RunBreaks, dbVars
<1>. QED
  BY <1>1, <1>2, <1>3, <1>4, <1>5, <1>6, <1>7, StepKinds DEF LoopStep

\* The three things that an edit could do to an occurrence.
EatenNot ==
  \A t \in Tasks :
    IsDue(t) /\ row'[t].next # row[t].next =>
      \/ fired'[t] # fired[t]
      \/ row'[t].cron # row[t].cron \/ row'[t].enabled # row[t].enabled
      \/ process = "down"
FiredIsOn == \A t \in Tasks : fired'[t] # fired[t] => life[t] = "live" /\ row[t].enabled
FiredIsNew == \A t \in Tasks : fired'[t] # fired[t] => fired'[t][Len(fired'[t])] >= startTime

LEMMA OccurrencesKept ==
  ASSUME OneEditor, TypeInv, AnchorInv, FireInv, [Next]_vars
  PROVE  EatenNot /\ FiredIsOn
<1>1. FiredIsOn
  <2> SUFFICES ASSUME NEW t \in Tasks, fired'[t] # fired[t]
               PROVE  life[t] = "live" /\ row[t].enabled
    BY DEF FiredIsOn
  <2>0. PICK l \in Loops : \E d \in due[l] : ClaimedBy(l, t, d)
    BY FiredBy
  <2>1. PICK d \in due[l] : ClaimedBy(l, t, d)
    BY <2>0
  <2>2. row[t].next = d[2].next /\ d[2].next # 0 /\ life[t] = "live"
    BY <2>1 DEF ClaimedBy, FireInv
  <2>. QED
    BY <2>2 DEF AnchorInv
<1>2. EatenNot
  <2> SUFFICES ASSUME NEW t \in Tasks, IsDue(t), row'[t].next # row[t].next, process # "down",
                      row'[t].cron = row[t].cron, row'[t].enabled = row[t].enabled
               PROVE  fired'[t] # fired[t]
    BY DEF EatenNot
  <2>1. ~Start
    BY DEF Start
  <2>2. \A u \in Tasks : ~CreateSchedule(u)
    <3> SUFFICES ASSUME NEW u \in Tasks, CreateSchedule(u)
                 PROVE  FALSE
      OBVIOUS
    <3>1. u # t /\ row'[t] = row[t]
      BY CreateEffect DEF IsDue
    <3>. QED
      BY <3>1
  <2>3. \A e \in Editors : ~CommitUpdate(e)
    BY OnlyEdit DEF IsDue
  <2>4. PICK l \in Loops : ClaimDue(l)
    BY <2>1, <2>2, <2>3, RowChangedBy
  <2>5. PICK d \in due[l] : ClaimedBy(l, t, d)
    BY <2>4, ClaimEffect DEF Passed
  <2>6. fired'[t] = Append(fired[t], d[2].next) /\ fired[t] \in Seq(Nat) /\ d[2].next \in Nat
    BY <2>5, TaskRowTypes DEF ClaimedBy, TypeInv, TypeOK
  <2>7. Len(fired'[t]) = Len(fired[t]) + 1 /\ Len(fired[t]) \in Nat
    BY <2>6
  <2>. QED
    BY <2>7
<1>. QED
  BY <1>1, <1>2

LEMMA MissedSkipped ==
  ASSUME TypeInv, FireInv, SweptInv, [Next]_vars
  PROVE  FiredIsNew
<1> SUFFICES ASSUME NEW t \in Tasks, fired'[t] # fired[t]
             PROVE  fired'[t][Len(fired'[t])] >= startTime
  BY DEF FiredIsNew
<1>0. PICK l \in Loops : \E d \in due[l] : ClaimedBy(l, t, d)
  BY FiredBy
<1>1. PICK d \in due[l] : ClaimedBy(l, t, d)
  BY <1>0
<1>2. Up /\ row[t].next = d[2].next /\ d[2].next # 0
  BY <1>1, FiredBy DEF ClaimedBy, FireInv
<1>3. d[2].next >= startTime
  BY <1>2 DEF SweptInv
<1>4. fired'[t] = Append(fired[t], d[2].next) /\ fired[t] \in Seq(Nat) /\ d[2].next \in Nat
  BY <1>1, TaskRowTypes DEF ClaimedBy, TypeInv, TypeOK
<1>5. fired'[t][Len(fired'[t])] = d[2].next
  BY <1>4
<1>. QED
  BY <1>3, <1>5

-----------------------------------------------------------------------------
\* Whatever else happens, an active run is executed while the writes that settle it succeed.
THEOREM ActiveRunsAreExecuted ==
  "settle" \notin Faults /\ "sweep" \notin Faults => (Spec => []ActiveIsExecuted)
<1> SUFFICES ASSUME "settle" \notin Faults, "sweep" \notin Faults
             PROVE  Spec => []ActiveIsExecuted
  OBVIOUS
<1>1. Init => ActiveIsExecuted
  BY DEF Init, ActiveIsExecuted, Active, NoRun
<1>. QED
  BY <1>1, TypeInit, TypeNext, LaunchInit, LaunchNext, ActiveNext, PTL DEF Spec

\* No claim is lost between the claim and the row of its run, while inserts succeed.
THEOREM ClaimsAreRecorded == "insert" \notin Faults => (Spec => []ClaimIsRecorded)
<1> SUFFICES ASSUME "insert" \notin Faults
             PROVE  Spec => []ClaimIsRecorded
  OBVIOUS
<1>1. Spec => []RecordInv
  BY TypeInit, TypeNext, LaunchInit, LaunchNext, RecordInit, RecordNext, PTL DEF Spec
<1>2. RecordInv => ClaimIsRecorded
  BY DEF RecordInv, ClaimIsRecorded, First, Counted, ScheduledRuns, Claimers, LaunchersOf
<1>. QED
  BY <1>1, <1>2, PTL

\* Edits that do not overlap keep what is on anchored, eat no occurrence and let nothing fire
\* that is off, whatever writes fail.
THEOREM EditsKeepOccurrences ==
  OneEditor => (Spec => []EnabledIsAnchored /\ DueIsNotEaten /\ OnlyEnabledFires)
<1> SUFFICES ASSUME OneEditor
             PROVE  Spec => []EnabledIsAnchored /\ DueIsNotEaten /\ OnlyEnabledFires
  OBVIOUS
<1>1. Spec => [](TypeInv /\ AnchorInv /\ FireInv)
  BY TypeInit, TypeNext, AnchorInit, AnchorNext, FireInit, FireNext, PTL DEF Spec
<1>2. AnchorInv => EnabledIsAnchored
  BY DEF AnchorInv, EnabledIsAnchored
<1>3. TypeInv /\ AnchorInv /\ FireInv /\ [Next]_vars => [EatenNot]_vars /\ [FiredIsOn]_vars
  BY OccurrencesKept
<1>. QED
  BY <1>1, <1>2, <1>3, PTL DEF Spec, DueIsNotEaten, OnlyEnabledFires, EatenNot, FiredIsOn

\* Nothing that was missed while the process was down is caught up, if the sweep succeeds.
THEOREM MissedStaysSkipped == OneEditor /\ "sweep" \notin Faults => (Spec => MissedIsSkipped)
<1> SUFFICES ASSUME OneEditor, "sweep" \notin Faults
             PROVE  Spec => MissedIsSkipped
  OBVIOUS
<1>1. Init => SweptInv
  BY SchedulerAssumption DEF Init, SweptInv, SchedulerAssumption
<1>2. Spec => [](TypeInv /\ AnchorInv /\ FireInv /\ SweptInv)
  BY <1>1, TypeInit, TypeNext, AnchorInit, AnchorNext, FireInit, FireNext, SweptNext, PTL DEF Spec
<1>3. TypeInv /\ FireInv /\ SweptInv /\ [Next]_vars => [FiredIsNew]_vars
  BY MissedSkipped
<1>. QED
  BY <1>2, <1>3, PTL DEF Spec, MissedIsSkipped, FiredIsNew

\* All of it together, where no write fails and edits take turns.
THEOREM SchedulesStayKept ==
  OneEditor /\ Faults \cap {"insert", "settle", "sweep"} = {} => (Spec => SchedulesAreKept)
<1> SUFFICES ASSUME OneEditor, Faults \cap {"insert", "settle", "sweep"} = {}
             PROVE  Spec => SchedulesAreKept
  OBVIOUS
<1>1. "insert" \notin Faults /\ "settle" \notin Faults /\ "sweep" \notin Faults
  OBVIOUS
<1>2. Spec => []ActiveIsExecuted
  BY <1>1, ActiveRunsAreExecuted
<1>3. Spec => []ClaimIsRecorded
  BY <1>1, ClaimsAreRecorded
<1>4. Spec => []EnabledIsAnchored /\ DueIsNotEaten /\ OnlyEnabledFires
  BY EditsKeepOccurrences
<1>5. Spec => MissedIsSkipped
  BY <1>1, MissedStaysSkipped
<1>. QED
  BY <1>2, <1>3, <1>4, <1>5, PTL DEF SchedulesAreKept
=============================================================================
