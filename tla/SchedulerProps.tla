---------------------------- MODULE SchedulerProps ----------------------------
(***************************************************************************)
(* What scheduled tasks and their runs must and must not do.               *)
(***************************************************************************)
EXTENDS Scheduler, TLC

Symmetry == Permutations(Runs) \cup Permutations(Tasks) \cup Permutations(Loops)

\* spawn_run: a task does not stack; it has one active run at most, whoever
\* launches.
OneActiveRun ==
  \A r, s \in Runs :
    run[r].status \in Active /\ run[s].status \in Active /\ run[r].task = run[s].task => r = s

\* The background queue keeps its limit although launches overlap.
QueueKeepsLimit == Cardinality(Background) <= MaxBackground

\* No occurrence of a task is claimed twice, nor one before an earlier claim.
FiresOnce ==
  \A t \in Tasks : \A i, j \in DOMAIN fired[t] : i < j => fired[t][i] < fired[t][j]

\* A claim takes a task that is switched on at that moment, although the
\* UPDATE compares next_run_at only.
OnlyEnabledFires ==
  [][\A t \in Tasks : fired'[t] # fired[t] => life[t] = "live" /\ row[t].enabled]_vars

\* What was missed before the process started is not caught up.
MissedIsSkipped ==
  [][\A t \in Tasks : fired'[t] # fired[t] => fired'[t][Len(fired'[t])] >= startTime]_vars

\* A due occurrence leaves the row by being claimed, by a change of cadence or
\* by the sweep: another edit of the task does not eat it.
DueIsNotEaten ==
  [][\A t \in Tasks :
       IsDue(t) /\ row'[t].next # row[t].next =>
         \/ fired'[t] # fired[t]
         \/ row'[t].cron # row[t].cron \/ row'[t].enabled # row[t].enabled
         \/ process = "down"]_vars

\* An active run of a serving process is somebody's business: otherwise the
\* task would be busy until the next start.
ActiveIsExecuted ==
  Up => \A r \in Runs : run[r].status \in Active =>
          exec[r] # "none" \/ \E l \in Launchers : launch[l].at = "spawn" /\ launch[l].run = r

\* A settled run keeps its status.
SettledIsFinal ==
  [][\A r \in Runs : run[r].status \in Settled => run'[r].status \in {run[r].status, "deleted"}]_vars

\* However launches overlap, a task has one active run at most, the background queue
\* keeps its limit, no occurrence fires twice, and a run that is over is not written again.
LaunchesAreApart == [](OneActiveRun /\ QueueKeepsLimit /\ FiresOnce) /\ SettledIsFinal

\* While the process lives and the task exists, every claimed occurrence is
\* launched, about to be, or recorded as a run.
ClaimIsRecorded ==
  starts = 1 /\ Up => \A t \in Tasks : life[t] = "live" =>
    Len(fired[t]) = Cardinality({r \in RunsOf(t) : run[r].trigger = "schedule"})
                  + Cardinality({l \in Loops : t \in claimed[l]})
                  + Cardinality({l \in Loops : launch[l].task = t /\ launch[l].at \in {"insert", "skip"}})

\* A task that is switched on has a next fire time, or it would never fire.
EnabledIsAnchored == \A t \in Tasks : life[t] = "live" /\ row[t].enabled => row[t].next # 0

\* While writes succeed and edits of a task do not overlap: active runs are executed, claims
\* are recorded, schedules that are on have a next time, and no occurrence is lost to an
\* edit, caught up after a start or fired by a task that is off.
SchedulesAreKept ==
  /\ [](ActiveIsExecuted /\ ClaimIsRecorded /\ EnabledIsAnchored)
  /\ DueIsNotEaten /\ MissedIsSkipped /\ OnlyEnabledFires

-----------------------------------------------------------------------------
\* A due task is served: it does not stay due.
DueIsServed == \A t \in Tasks : []<>(~IsDue(t))

\* Every run ends.
RunEnds == \A r \in Runs : []<>(run[r].status \notin Active)
=============================================================================
