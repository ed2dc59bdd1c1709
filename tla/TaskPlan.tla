-------------------------------- MODULE TaskPlan --------------------------------
(***************************************************************************)
(* Task mode of the agent (agent.py: _run_task_mode, _execute_single_task  *)
(* and _build_dependency_graph): the tasks of a plan run in parallel as    *)
(* their dependencies complete, failures skip what depends on them, a user *)
(* message defers what has not started, a Stop aborts the session and      *)
(* cancels the agent.  One action is the code between two points where the *)
(* event loop may run something else; the work of a task is one step.      *)
(***************************************************************************)
EXTENDS Naturals, FiniteSets

CONSTANTS
  PlanTasks,  \* 1..n: the tasks in the order of the plan
  Plans,      \* depends_on of each task, as the model wrote it: any relation
  Parallel    \* size of the semaphore

ASSUME PlanAssumption ==
  /\ PlanTasks = 1..Cardinality(PlanTasks) /\ IsFiniteSet(PlanTasks)
  /\ Plans \subseteq [PlanTasks -> SUBSET PlanTasks] /\ Parallel \in Nat \ {0}

VARIABLES
  deps,        \* the dependencies task mode goes by
  planner,     \* where _run_task_mode is
  task,        \* where the asyncio task of each plan task is
  completed, failed, dispatched,  \* the sets of the same names
  notices,        \* terminal events emitted for each task
  gathered,    \* the tasks the current gather() waits for
  interrupted, \* tasks with a cancellation not yet delivered
  planAborted,     \* session.is_aborted()
  cancelled,   \* the agent's task was cancelled
  inputWaits        \* session.has_pending_user_input()

planVars == <<deps, planner, task, completed, failed, dispatched, notices, gathered,
              interrupted, planAborted, cancelled, inputWaits>>

PlanTypeOK ==
  /\ deps \in [PlanTasks -> SUBSET PlanTasks] /\ planner \in {"idle", "gathering", "returned", "deferred", "raised"}
  /\ task \in [PlanTasks -> {"none", "queued", "running", "succeeded", "broke", "over"}]
  /\ completed \subseteq PlanTasks /\ failed \subseteq PlanTasks /\ dispatched \subseteq PlanTasks
  /\ notices \in [PlanTasks -> 0..2] /\ gathered \subseteq PlanTasks /\ interrupted \subseteq PlanTasks
  /\ {planAborted, cancelled, inputWaits} \subseteq BOOLEAN

-----------------------------------------------------------------------------
(***************************************************************************)
(* The dependency graph.                                                   *)
(***************************************************************************)
\* Kahn's algorithm: what it visits is whatever has all it depends on visited before, and
\* that is every task unless there is a cycle.
Acyclic(d) ==
  \A visited \in SUBSET PlanTasks :
    (\A t \in PlanTasks : d[t] \subseteq visited => t \in visited) => visited = PlanTasks

\* A cycle makes the plan a chain in its own order.
Dependencies(d) ==
  IF Acyclic(d) THEN d ELSE [t \in PlanTasks |-> IF t = 1 THEN {} ELSE {t - 1}]

\* Variant: dependents of dependents are forgotten.
CascadeOnce(t, settled) == {u \in PlanTasks \ settled : t \in deps[u]}

\* What can be reached from S in any number of steps: the least set with S that no step leaves.
Reachable(S, next) ==
  {t \in PlanTasks : \A R \in SUBSET PlanTasks :
     S \subseteq R /\ (\A u \in R : next[u] \subseteq R) => t \in R}

\* _cascade_skip: the dependents of t, their dependents..., except what is in one of the sets.
Cascade(t, settled) ==
  Reachable({t}, [u \in PlanTasks |-> {v \in PlanTasks \ settled : u \in deps[v]}]) \ {t}

-----------------------------------------------------------------------------
LiveTasks == {t \in PlanTasks : task[t] \notin {"none", "over"}}                         \* pending_futures
Holding == {t \in PlanTasks : task[t] \in {"running", "succeeded", "broke"}}  \* hold the semaphore

\* _dispatch_ready creates an asyncio task for each task that is ready.
Ready(done, started) ==
  IF planAborted \/ inputWaits THEN {} ELSE {t \in PlanTasks \ started : deps[t] \subseteq done}
Queue(tasks, new) == [t \in PlanTasks |-> IF t \in new THEN "queued" ELSE tasks[t]]

PlanInit ==
  /\ deps \in {Dependencies(plan) : plan \in Plans} /\ planner = "idle"
  /\ inputWaits \in BOOLEAN /\ planAborted = FALSE /\ cancelled = FALSE
  /\ completed = {} /\ failed = {} /\ notices = [t \in PlanTasks |-> 0] /\ interrupted = {}
  /\ dispatched = {} /\ task = [t \in PlanTasks |-> "none"] /\ gathered = {}

\* Up to the first gather().
StartPlan ==
  /\ planner = "idle" /\ planner' = "gathering"
  /\ dispatched' = Ready({}, {}) /\ task' = Queue(task, dispatched') /\ gathered' = dispatched'
  /\ UNCHANGED <<deps, completed, failed, notices, interrupted, planAborted, cancelled, inputWaits>>

SetTask(t, at) == task' = [task EXCEPT ![t] = at]
TellOnce(S) == notices' = [t \in PlanTasks |-> IF t \in S THEN notices[t] + 1 ELSE notices[t]]

\* The semaphore is free: the task starts, or is skipped if the session was aborted meanwhile.
StartTask(t) ==
  /\ task[t] = "queued" /\ t \notin interrupted /\ Cardinality(Holding) < Parallel
  /\ IF planAborted THEN SetTask(t, "over") /\ failed' = failed \cup {t} /\ TellOnce({t})
                ELSE SetTask(t, "running") /\ UNCHANGED <<failed, notices>>
  /\ UNCHANGED <<deps, planner, completed, dispatched, gathered, interrupted, planAborted, cancelled,
                 inputWaits>>

\* The work is over: a failure or time-out, an abort seen at a step, or success.  A cancellation
\* may have been swallowed by a delegated turn that was stopped by the same Stop.
EndTask(t) ==
  /\ task[t] = "running" /\ TellOnce({t}) /\ interrupted' = interrupted \ {t}
  /\ SetTask(t, "broke") \/ (~planAborted /\ SetTask(t, "succeeded"))
  /\ UNCHANGED <<deps, planner, completed, failed, dispatched, gathered, planAborted, cancelled, inputWaits>>

Ended(t) == task[t] \in {"succeeded", "broke"} /\ t \notin interrupted
settleAlone == <<deps, planner, gathered, interrupted, planAborted, cancelled, inputWaits>>

\* After its events: the task joins its set, what depended on a failure is
\* skipped, and what became ready is started.
SettleTask(t) ==
  LET done == IF task[t] = "succeeded" THEN completed \cup {t} ELSE completed
      skipped == IF task[t] = "broke" THEN Cascade(t, completed \cup failed \cup dispatched) ELSE {}
      new == Ready(done, dispatched \cup skipped)
  IN
  /\ Ended(t) /\ completed' = done
  /\ failed' = IF task[t] = "broke" THEN failed \cup skipped \cup {t} ELSE failed
  /\ TellOnce(skipped) /\ dispatched' = dispatched \cup skipped \cup new
  /\ task' = Queue([task EXCEPT ![t] = "over"], new)
  /\ UNCHANGED settleAlone

\* A cancelled task unwinds: it emits nothing and joins no set.
UnwindTask(t) ==
  /\ t \in interrupted /\ t \in LiveTasks /\ SetTask(t, "over")
  /\ interrupted' = interrupted \ {t}
  /\ UNCHANGED <<deps, planner, completed, failed, dispatched, notices, gathered, planAborted, cancelled,
                 inputWaits>>

-----------------------------------------------------------------------------
(***************************************************************************)
(* The loop around gather(), and what interrupts it.                       *)
(***************************************************************************)
\* The watcher aborts the session and cancels the agent, which cancels the gathered tasks.
StopPlan ==
  /\ planner = "gathering" /\ ~cancelled /\ planAborted' = TRUE /\ cancelled' = TRUE
  /\ interrupted' = gathered \cap LiveTasks
  /\ UNCHANGED <<deps, planner, task, completed, failed, dispatched, notices, gathered, inputWaits>>

\* The session aborts itself: its event queue stayed full.
AbortPlan ==
  /\ planner = "gathering" /\ ~planAborted /\ planAborted' = TRUE
  /\ UNCHANGED <<deps, planner, task, completed, failed, dispatched, notices, gathered, interrupted,
                 cancelled, inputWaits>>

UserTypes ==
  /\ planner = "gathering" /\ ~inputWaits /\ inputWaits' = TRUE
  /\ UNCHANGED <<deps, planner, task, completed, failed, dispatched, notices, gathered, interrupted,
                 planAborted, cancelled>>

\* gather() is over: cancelled, again for tasks dispatched meanwhile, deferred, or done.
GatherEnds ==
  /\ planner = "gathering" /\ gathered \cap LiveTasks = {}
  /\ UNCHANGED <<deps, task, completed, dispatched, interrupted, planAborted, cancelled, inputWaits>>
  /\ \/ cancelled /\ planner' = "raised" /\ UNCHANGED <<failed, notices, gathered>>
     \/ ~cancelled /\ LiveTasks # {} /\ gathered' = LiveTasks /\ UNCHANGED <<planner, failed, notices>>
     \/ ~cancelled /\ LiveTasks = {} /\ inputWaits /\ planner' = "deferred" /\ UNCHANGED <<failed, notices,
                                                                                           gathered>>
     \/ /\ ~cancelled /\ LiveTasks = {} /\ ~inputWaits /\ planner' = "returned"
        /\ LET rest == IF planAborted THEN PlanTasks \ (completed \cup failed) ELSE {}
           IN failed' = failed \cup rest /\ TellOnce(rest)
        /\ UNCHANGED gathered

TaskStep(t) == StartTask(t) \/ EndTask(t) \/ SettleTask(t) \/ UnwindTask(t)
PlanNext == (\E t \in PlanTasks : TaskStep(t)) \/ StartPlan \/ StopPlan \/ AbortPlan \/ UserTypes \/ GatherEnds

\* A task's work ends by its own limit (asyncio.timeout); the loop runs what is ready.
PlanFairness == WF_planVars(GatherEnds) /\ \A t \in PlanTasks : WF_planVars(TaskStep(t))
PlanSpec == PlanInit /\ [][PlanNext]_planVars
PlanFairSpec == PlanSpec /\ PlanFairness

-----------------------------------------------------------------------------
(***************************************************************************)
(* Properties.                                                             *)
(***************************************************************************)
\* No task is started before everything it depends on has completed, also when a
\* cycle has turned the plan into a chain.
DependenciesFirst == \A t \in PlanTasks : task[t] # "none" => deps[t] \subseteq completed

Before(t) == Reachable(deps[t], deps)

\* A task that never ran is given up only because the session was aborted or
\* something it depends on, near or far, has failed.
SkippedForAReason ==
  \A t \in failed : task[t] = "none" => planAborted \/ Before(t) \cap failed # {}

\* When task mode returns, nothing of it still runs and every task has had exactly one
\* terminal event; a deferred plan has told at most one, and a task it keeps
\* pending was not started.
PlanIsAccounted ==
  /\ \A t \in PlanTasks : notices[t] <= 1
  /\ planner = "returned" => LiveTasks = {} /\ \A t \in PlanTasks : notices[t] = 1
  /\ planner = "deferred" =>
       LiveTasks = {} /\ \A t \in PlanTasks : notices[t] = 0 => task[t] = "none" /\ t \notin completed \cup failed

\* Task mode keeps the order of the plan, gives reasons and leaves nothing untold.
PlanIsSound == DependenciesFirst /\ SkippedForAReason /\ PlanIsAccounted

\* No task is at work once task mode has returned or raised.
NoTaskOutlivesPlan == planner \in {"returned", "deferred", "raised"} => LiveTasks = {}

\* However tasks fail, are deferred or stopped, task mode ends.
PlanEnds == []<>(planner # "gathering")
=============================================================================
