------------------------------- MODULE Scheduler -------------------------------
(***************************************************************************)
(* Scheduled tasks: the loop that claims due tasks (services/scheduler.py),*)
(* the launch and the execution of their runs (services/scheduled_runs.py),*)
(* the requests that create, edit, delete and run them                     *)
(* (routers/schedules.py, and the agents' scheduler tool, which edits the  *)
(* same rows the same way), shutdown, crash and the start-up sweep.        *)
(*                                                                         *)
(* Time is a number of minutes.  A cron expression is its period in        *)
(* minutes.  What a run does while it works is left out: it ends with an   *)
(* outcome.                                                                *)
(***************************************************************************)
EXTENDS Naturals, Sequences, FiniteSets

CONSTANTS
  Tasks,          \* ids of scheduled tasks
  Runs,           \* ids of scheduled task runs (bound: runs ever launched)
  Loops,          \* scheduler loops; the program starts one
  Requests,       \* "run now" requests
  Editors,        \* requests that edit or delete a task, one after the other
  Crons,          \* periods
  Slots,          \* runs that may work at the same time
  MaxBackground,  \* MAX_BACKGROUND_RUNS
  MaxTime,        \* bound: minutes
  MaxStarts,      \* bound: starts of the process
  Faults,         \* database writes that may fail
  None

Launchers == Loops \cup Requests
Times == 0..MaxTime
Active == {"pending", "running"}
Settled == {"completed", "failed", "skipped"}

ASSUME SchedulerAssumption ==
  /\ Loops \cap Requests = {} /\ None \notin Tasks \cup Runs
  /\ Crons \subseteq Nat \ {0} /\ Crons # {}
  /\ Slots \in Nat \ {0} /\ MaxBackground \in Nat \ {0}
  /\ MaxTime \in Nat /\ MaxStarts \in Nat \ {0}
  /\ Faults \subseteq {"claim", "insert", "settle", "sweep"}

VARIABLES
  \* the database
  life,      \* of each task: absent, live or deleted
  row,       \* cron_expr, enabled and next_run_at of each task; 0 is NULL
  run,       \* task, trigger and status of each run
  \* the process
  process, now, starts,
  stage,     \* of each loop: sleep, scan (rows read) or launch (claims committed)
  tickTime,  \* `now` of the tick
  due,       \* rows the tick read, with their task
  claimed,   \* tasks the tick claimed and did not launch yet
  launch,    \* where each launcher is in spawn_run, and for which task and run
  exec,      \* where each run's background task is
  edit,      \* the row each editor has loaded
  \* history
  fired,     \* occurrences of each task that were claimed, in order
  startTime  \* when the process started last

dbVars == <<life, row, run>>
clockVars == <<process, now, starts, startTime>>
loopVars == <<stage, tickTime, due, claimed, fired>>
runVars == <<launch, exec>>
vars == <<dbVars, clockVars, loopVars, runVars, edit>>

\* next_run_at: the first match strictly after time n.
Upcoming(cron, n) == ((n \div cron) + 1) * cron

TaskRow == [cron : Crons, enabled : BOOLEAN, next : Nat]
RunRow == [task : Tasks \cup {None}, trigger : {"schedule", "manual"},
           status : {"none", "deleted"} \cup Active \cup Settled]
LaunchStates == [at : {"idle", "insert", "skip", "spawn", "done"},
                 task : Tasks \cup {None}, run : Runs \cup {None}]
EditStates == [at : {"idle", "patch", "delete"}, task : Tasks \cup {None},
               seen : SUBSET TaskRow, runs : SUBSET Runs]
NoLaunch == [at |-> "idle", task |-> None, run |-> None]
NoEdit == [at |-> "idle", task |-> None, seen |-> {}, runs |-> {}]
NoRun == [task |-> None, trigger |-> "schedule", status |-> "none"]

\* Types.
TypeOK ==
  /\ life \in [Tasks -> {"absent", "live", "deleted"}]
  /\ row \in [Tasks -> TaskRow]
  /\ run \in [Runs -> RunRow]
  /\ process \in {"up", "stopping", "down"} /\ now \in Times /\ startTime \in Times
  /\ starts \in 1..MaxStarts
  /\ stage \in [Loops -> {"sleep", "scan", "launch"}]
  /\ tickTime \in [Loops -> Times]
  /\ due \in [Loops -> SUBSET (Tasks \X TaskRow)]
  /\ claimed \in [Loops -> SUBSET Tasks]
  /\ launch \in [Launchers -> LaunchStates]
  /\ exec \in [Runs -> {"none", "queued", "waiting", "working", "finalizing",
                        "delivering", "failing"}]
  /\ edit \in [Editors -> EditStates]
  /\ fired \in [Tasks -> Seq(Nat)]

Init ==
  /\ life = [t \in Tasks |-> "absent"]
  /\ row \in [Tasks -> {[cron |-> c, enabled |-> FALSE, next |-> 0] : c \in Crons}]
  /\ run = [r \in Runs |-> NoRun]
  /\ process = "up" /\ now = 0 /\ startTime = 0 /\ starts = 1
  /\ stage = [l \in Loops |-> "sleep"] /\ tickTime = [l \in Loops |-> 0]
  /\ due = [l \in Loops |-> {}] /\ claimed = [l \in Loops |-> {}]
  /\ launch = [l \in Launchers |-> NoLaunch] /\ exec = [r \in Runs |-> "none"]
  /\ edit = [e \in Editors |-> NoEdit]
  /\ fired = [t \in Tasks |-> <<>>]

Up == process = "up"
RunsOf(t) == {r \in Runs : run[r].task = t}

ClockAdvances ==
  /\ now < MaxTime /\ now' = now + 1
  /\ UNCHANGED <<dbVars, process, starts, startTime, loopVars, runVars, edit>>

-----------------------------------------------------------------------------
(* Requests on a task's row.                                               *)

CreateSchedule(t) ==
  /\ Up /\ life[t] = "absent" /\ life' = [life EXCEPT ![t] = "live"]
  /\ \E c \in Crons, on \in BOOLEAN :
       row' = [row EXCEPT ![t] = [cron |-> c, enabled |-> on,
                                  next |-> IF on THEN Upcoming(c, now) ELSE 0]]
  /\ UNCHANGED <<run, clockVars, loopVars, runVars, edit>>

LoadForUpdate(e, t) ==
  /\ Up /\ edit[e].at = "idle" /\ life[t] = "live"
  /\ edit' = [edit EXCEPT ![e] = [at |-> "patch", task |-> t, seen |-> {row[t]}, runs |-> {}]]
  /\ UNCHANGED <<dbVars, clockVars, loopVars, runVars>>

\* The session writes the columns whose value differs from the loaded one.
Merge(stored, seen, new) ==
  [cron    |-> IF new.cron = seen.cron THEN stored.cron ELSE new.cron,
   enabled |-> IF new.enabled = seen.enabled THEN stored.enabled ELSE new.enabled,
   next    |-> IF new.next = seen.next THEN stored.next ELSE new.next]

\* The next fire time is computed anew only if the cadence changed.
Edited(seen, c, on) ==
  [cron |-> c, enabled |-> on,
   next |-> IF c = seen.cron /\ on = seen.enabled /\ ~(on /\ seen.next = 0) THEN seen.next
            ELSE IF on THEN Upcoming(c, now) ELSE 0]

\* A row deleted meanwhile makes the flush fail; so may the validation.
CommitUpdate(e) ==
  /\ Up /\ edit[e].at = "patch" /\ edit' = [edit EXCEPT ![e] = NoEdit]
  /\ \/ UNCHANGED row
     \/ LET t == edit[e].task IN
        /\ life[t] = "live"
        /\ \E seen \in edit[e].seen, c \in Crons, on \in BOOLEAN :
             row' = [row EXCEPT ![t] = Merge(@, seen, Edited(seen, c, on))]
  /\ UNCHANGED <<life, run, clockVars, loopVars, runVars>>

\* The cascade loads the runs first.
LoadForDelete(e, t) ==
  /\ Up /\ edit[e].at = "idle" /\ life[t] = "live"
  /\ edit' = [edit EXCEPT ![e] = [at |-> "delete", task |-> t, seen |-> {}, runs |-> RunsOf(t)]]
  /\ UNCHANGED <<dbVars, clockVars, loopVars, runVars>>

\* A run inserted meanwhile refers to the task: the delete fails.
CommitDelete(e) ==
  /\ Up /\ edit[e].at = "delete" /\ edit' = [edit EXCEPT ![e] = NoEdit]
  /\ LET t == edit[e].task IN
     IF life[t] = "live" /\ RunsOf(t) \subseteq edit[e].runs
       THEN /\ life' = [life EXCEPT ![t] = "deleted"]
            /\ run' = [r \in Runs |-> IF run[r].task = t
                                        THEN [run[r] EXCEPT !.status = "deleted"] ELSE run[r]]
       ELSE UNCHANGED <<life, run>>
  /\ UNCHANGED <<row, clockVars, loopVars, runVars>>

-----------------------------------------------------------------------------
(* spawn_run, by a loop or by a request.                                   *)

\* The per-task lock is held from the check to the creation of the task.
Unlocked(t) ==
  \A l \in Launchers : launch[l].at \in {"insert", "skip", "spawn"} => launch[l].task # t

HasActiveRun(t) == \E r \in RunsOf(t) : run[r].status \in Active
Background == {r \in Runs : exec[r] # "none"}
Reserved == {l \in Launchers : launch[l].at \in {"insert", "spawn"}}

QueueIsFull == Cardinality(Background) + Cardinality(Reserved) >= MaxBackground

Leave(l) == IF l \in Requests THEN [NoLaunch EXCEPT !.at = "done"] ELSE NoLaunch

\* Variant: the check is not under the lock.
BeginUnlocked(l, t) ==
  /\ launch[l].at = "idle"
  /\ launch' = [launch EXCEPT ![l] =
       IF life[t] # "live" THEN Leave(l)
       ELSE IF HasActiveRun(t) \/ QueueIsFull
              THEN IF l \in Requests THEN Leave(l) ELSE [NoLaunch EXCEPT !.at = "skip", !.task = t]
              ELSE [NoLaunch EXCEPT !.at = "insert", !.task = t]]

\* The checks: ScheduleNotFound, ScheduleBusy or a skipped run, or go on.
Begin(l, t) ==
  /\ launch[l].at = "idle" /\ Unlocked(t)
  /\ launch' = [launch EXCEPT ![l] =
       IF life[t] # "live" THEN Leave(l)
       ELSE IF HasActiveRun(t) \/ QueueIsFull
              THEN IF l \in Requests THEN Leave(l) ELSE [NoLaunch EXCEPT !.at = "skip", !.task = t]
              ELSE [NoLaunch EXCEPT !.at = "insert", !.task = t]]

RunNow(q, t) ==
  /\ Up /\ life[t] # "absent" /\ Begin(q, t)
  /\ UNCHANGED <<dbVars, clockVars, loopVars, exec, edit>>

NewRun(l, status) ==
  [task |-> launch[l].task, trigger |-> IF l \in Requests THEN "manual" ELSE "schedule",
   status |-> status]

\* The insert fails if the task was deleted meanwhile.
InsertRun(l) ==
  /\ process # "down" /\ launch[l].at = "insert"
  /\ \/ /\ life[launch[l].task] = "live"
        /\ \E r \in Runs :
             /\ run[r] = NoRun
             /\ run' = [run EXCEPT ![r] = NewRun(l, "pending")]
             /\ launch' = [launch EXCEPT ![l].at = "spawn", ![l].run = r]
     \/ /\ life[launch[l].task] = "deleted" \/ "insert" \in Faults
        /\ launch' = [launch EXCEPT ![l] = Leave(l)] /\ UNCHANGED run
  /\ UNCHANGED <<life, row, clockVars, loopVars, exec, edit>>

\* Variant: a fire that cannot run leaves no row.
InsertSkippedNot(l) ==
  /\ process # "down" /\ launch[l].at = "skip"
  /\ launch' = [launch EXCEPT ![l] = Leave(l)]
  /\ UNCHANGED <<dbVars, clockVars, loopVars, exec, edit>>

InsertSkipped(l) ==
  /\ process # "down" /\ launch[l].at = "skip"
  /\ launch' = [launch EXCEPT ![l] = Leave(l)]
  /\ \/ /\ life[launch[l].task] = "live"
        /\ \E r \in Runs : run[r] = NoRun /\ run' = [run EXCEPT ![r] = NewRun(l, "skipped")]
     \/ /\ life[launch[l].task] = "deleted" \/ "insert" \in Faults
        /\ UNCHANGED run
  /\ UNCHANGED <<life, row, clockVars, loopVars, exec, edit>>

SpawnRun(l) ==
  /\ process # "down" /\ launch[l].at = "spawn"
  /\ exec' = [exec EXCEPT ![launch[l].run] = "queued"]
  /\ launch' = [launch EXCEPT ![l] = Leave(l)]
  /\ UNCHANGED <<dbVars, clockVars, loopVars, edit>>

-----------------------------------------------------------------------------
(* One tick of a loop.                                                     *)

IsDue(t) == life[t] = "live" /\ row[t].enabled /\ row[t].next # 0 /\ row[t].next <= now

Scan(l) ==
  /\ Up /\ stage[l] = "sleep" /\ \E t \in Tasks : IsDue(t)
  /\ stage' = [stage EXCEPT ![l] = "scan"] /\ tickTime' = [tickTime EXCEPT ![l] = now]
  /\ due' = [due EXCEPT ![l] = {<<t, row[t]>> : t \in {u \in Tasks : IsDue(u)}}]
  /\ UNCHANGED <<dbVars, clockVars, claimed, fired, runVars, edit>>

\* The WHERE clause of the UPDATE.
Claimable(d) == life[d[1]] = "live" /\ row[d[1]].next = d[2].next

\* The UPDATEs of a tick commit together.
ClaimDue(l) ==
  /\ Up /\ stage[l] = "scan" /\ due' = [due EXCEPT ![l] = {}]
  /\ \/ LET won == {d \in due[l] : Claimable(d)}
            tasks == {d[1] : d \in won}
            seen(t) == CHOOSE d \in won : d[1] = t
        IN /\ stage' = [stage EXCEPT ![l] = "launch"]
           /\ claimed' = [claimed EXCEPT ![l] = tasks]
           /\ row' = [t \in Tasks |->
                        IF t \in tasks
                          THEN [row[t] EXCEPT !.next = Upcoming(seen(t)[2].cron, tickTime[l])]
                          ELSE row[t]]
           /\ fired' = [t \in Tasks |->
                          IF t \in tasks THEN Append(fired[t], seen(t)[2].next) ELSE fired[t]]
     \/ /\ "claim" \in Faults
        /\ stage' = [stage EXCEPT ![l] = "sleep"] /\ UNCHANGED <<claimed, row, fired>>
  /\ UNCHANGED <<life, run, tickTime, clockVars, runVars, edit>>

LaunchClaimed(l) ==
  /\ Up /\ stage[l] = "launch"
  /\ \E t \in claimed[l] : Begin(l, t) /\ claimed' = [claimed EXCEPT ![l] = @ \ {t}]
  /\ UNCHANGED <<dbVars, clockVars, stage, tickTime, due, fired, exec, edit>>

EndTick(l) ==
  /\ Up /\ stage[l] = "launch" /\ claimed[l] = {} /\ launch[l] = NoLaunch
  /\ stage' = [stage EXCEPT ![l] = "sleep"]
  /\ UNCHANGED <<dbVars, clockVars, tickTime, due, claimed, fired, runVars, edit>>

-----------------------------------------------------------------------------
(* execute_run *)
ExecGoto(r, to) == exec' = [exec EXCEPT ![r] = to]
SetStatus(r, st) == run' = [run EXCEPT ![r].status = st]

\* The row of a deleted task is gone: nothing to do.
StartRun(r) ==
  /\ process # "down" /\ exec[r] = "queued"
  /\ IF run[r].status = "pending"
       THEN SetStatus(r, "running") /\ ExecGoto(r, "waiting")
       ELSE ExecGoto(r, "none") /\ UNCHANGED run
  /\ UNCHANGED <<life, row, clockVars, loopVars, launch, edit>>

AcquireSlot(r) ==
  /\ process # "down" /\ exec[r] = "waiting"
  /\ Cardinality({s \in Runs : exec[s] = "working"}) < Slots
  /\ ExecGoto(r, "working")
  /\ UNCHANGED <<dbVars, clockVars, loopVars, launch, edit>>

\* The target has an outcome; some are refused before they need a slot.
EndWork(r) ==
  /\ process # "down" /\ exec[r] = "working" /\ ExecGoto(r, "finalizing")
  /\ UNCHANGED <<dbVars, clockVars, loopVars, launch, edit>>
RefuseTarget(r) ==
  /\ process # "down" /\ exec[r] = "waiting" /\ ExecGoto(r, "finalizing")
  /\ UNCHANGED <<dbVars, clockVars, loopVars, launch, edit>>

Finalize(r) ==
  /\ process # "down" /\ exec[r] = "finalizing"
  /\ IF run[r].status = "deleted"
       THEN ExecGoto(r, "none") /\ UNCHANGED run
       ELSE /\ \E st \in Settled : SetStatus(r, st)
            /\ ExecGoto(r, "delivering")
  /\ UNCHANGED <<life, row, clockVars, loopVars, launch, edit>>

\* deliver_result (module TurnLifecycle models it).
EndDelivery(r) ==
  /\ process # "down" /\ exec[r] = "delivering" /\ ExecGoto(r, "none")
  /\ UNCHANGED <<dbVars, clockVars, loopVars, launch, edit>>

\* An exception anywhere, or the cancellation of a shutdown.
RunBreaks(r) ==
  /\ process # "down" /\ exec[r] \notin {"none", "failing"} /\ ExecGoto(r, "failing")
  /\ UNCHANGED <<dbVars, clockVars, loopVars, launch, edit>>

\* _finalize_failure: only an active run fails; a failing write is logged.
FinalizeFailure(r) ==
  /\ process # "down" /\ exec[r] = "failing" /\ ExecGoto(r, "none")
  /\ \/ IF run[r].status \in Active THEN SetStatus(r, "failed") ELSE UNCHANGED run
     \/ "settle" \in Faults /\ UNCHANGED run
  /\ UNCHANGED <<life, row, clockVars, loopVars, launch, edit>>

-----------------------------------------------------------------------------
(* Shutdown, death and start.                                              *)

\* stop_scheduler: the loops are cancelled wherever they are, the runs go on.
Shutdown ==
  /\ Up /\ starts < MaxStarts /\ process' = "stopping"
  /\ stage' = [l \in Loops |-> "sleep"]
  /\ due' = [l \in Loops |-> {}] /\ claimed' = [l \in Loops |-> {}]
  /\ launch' = [l \in Launchers |-> IF l \in Loops THEN NoLaunch ELSE launch[l]]
  /\ UNCHANGED <<dbVars, now, starts, startTime, tickTime, fired, exec, edit>>

Die ==
  /\ process # "down" /\ starts < MaxStarts /\ process' = "down"
  /\ stage' = [l \in Loops |-> "sleep"]
  /\ due' = [l \in Loops |-> {}] /\ claimed' = [l \in Loops |-> {}]
  /\ launch' = [l \in Launchers |-> IF launch[l].at = "idle" THEN NoLaunch ELSE Leave(l)]
  /\ exec' = [r \in Runs |-> "none"]
  /\ edit' = [e \in Editors |-> NoEdit]
  /\ UNCHANGED <<dbVars, now, starts, startTime, tickTime, fired>>

\* A fire time that was missed while the process was down is re-anchored.
SweptRow(t) ==
  IF row[t].enabled /\ row[t].next # 0 /\ row[t].next < now
    THEN [row[t] EXCEPT !.next = Upcoming(row[t].cron, now)] ELSE row[t]

SweptRun(r) == IF run[r].status \in Active THEN [run[r] EXCEPT !.status = "failed"] ELSE run[r]

\* startup_sweep, before the loop starts; a failure is logged.
Start ==
  /\ process = "down"
  /\ process' = "up" /\ starts' = starts + 1 /\ startTime' = now
  /\ \/ /\ run' = [r \in Runs |-> SweptRun(r)]
        /\ row' = [t \in Tasks |-> SweptRow(t)]
     \/ "sweep" \in Faults /\ UNCHANGED <<run, row>>
  /\ UNCHANGED <<life, now, loopVars, runVars, edit>>

-----------------------------------------------------------------------------
LoopStep(l) == Scan(l) \/ ClaimDue(l) \/ LaunchClaimed(l) \/ EndTick(l)
LaunchStep(l) == InsertRun(l) \/ InsertSkipped(l) \/ SpawnRun(l)
RunStep(r) ==
  \/ StartRun(r) \/ AcquireSlot(r) \/ EndWork(r) \/ Finalize(r) \/ EndDelivery(r)
  \/ FinalizeFailure(r)

Next ==
  \/ ClockAdvances
  \/ \E t \in Tasks :
       \/ CreateSchedule(t)
       \/ \E e \in Editors : LoadForUpdate(e, t) \/ LoadForDelete(e, t)
       \/ \E q \in Requests : RunNow(q, t)
  \/ \E e \in Editors : CommitUpdate(e) \/ CommitDelete(e)
  \/ \E l \in Loops : LoopStep(l)
  \/ \E l \in Launchers : LaunchStep(l)
  \/ \E r \in Runs : RunStep(r) \/ RefuseTarget(r) \/ RunBreaks(r)
  \/ Shutdown \/ Die \/ Start

Spec == Init /\ [][Next]_vars

\* The event loop runs what is ready, a target ends (scripts and turns have
\* time-outs), a dead process is started again.
Fairness ==
  /\ \A l \in Loops : WF_vars(LoopStep(l))
  /\ \A l \in Launchers : WF_vars(LaunchStep(l))
  /\ \A r \in Runs : WF_vars(RunStep(r))
  /\ WF_vars(Start) /\ WF_vars(process = "stopping" /\ Die)
FairSpec == Spec /\ Fairness
=============================================================================
