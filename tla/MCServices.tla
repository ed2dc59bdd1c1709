------------------------------ MODULE MCServices ------------------------------
(***************************************************************************)
(* One run for the parts that share no state in the code: every behaviour  *)
(* is one of a single part, the others stay in an initial state, in which  *)
(* nothing of them has to happen.                                          *)
(***************************************************************************)
EXTENDS ProjectDeletion, SessionPrompts, TaskPlan, Delegation, ScriptRuns,
        AgentLoop, Compression, CronTimes, SchedulerProps

CONSTANTS q1, q2, q3, pg, ag, c1, c2

\* Two parallel agents of a plan ask; a tab goes and comes, and rows fail; one of two callers
\* forces its question.
MCCasts == {[nested |-> {c1, c2}, forced |-> {}, turmoil |-> {"full", "abort"}],
            [nested |-> {}, forced |-> {}, turmoil |-> {"drop", "disk"}],
            [nested |-> {c1}, forced |-> {}, turmoil |-> {"abort"}],
            [nested |-> {}, forced |-> {c2}, turmoil |-> {"abort"}],
            [nested |-> {}, forced |-> {}, turmoil |-> {"drop"}]}

\* Failures that the undo repairs; failures of the undo, of the sweep; late work.
MCTroubles == {{}, {"check", "commit", "rename", "record", "rows", "purge", "init"},
               {"record", "rows", "restore"}, {"rename", "sweep"}, {"late"}, {"slow", "init"}}

MCMishaps == {{"flush"}, {"lost", "begin", "settle"}}

MCPlans == {<<{}, {}, {1}, {3, 2}>>,   \* two roots, a join
            <<{}, {1}, {2}, {}>>,      \* a chain beside a root
            <<{2}, {1}, {}, {3}>>}     \* a cycle

MCUser(q) == IF q = q3 THEN "guest" ELSE "owner"

At(n) == [form |-> "one", from |-> n, step |-> 0]
MCExpressions ==
  [minute : {{Star}, {At(1)}},
   hour : {{Star}, {At(1), At(3)}, {[form |-> "any", step |-> 2]}},
   day : {{Star}, {At(2), At(3)}, {[form |-> "one", from |-> 2, step |-> 1]}},
   month : {{Star}, {At(2)}},
   weekday : {{Star}, {At(3)}, {[form |-> "range", from |-> 1, to |-> 2, step |-> 0]}}]

\* Forward and back by an hour or half of one, at midnight, in the night and at its end.
MCTransitions == {z \in [at : {8, 10, 14, 16}, shift : {-2, -1, 1, 2}] : z.at = 14 => z.shift < 0}

-----------------------------------------------------------------------------
VARIABLE part

Parts == {"deletion", "prompts", "plan", "delegation", "scripts", "loop", "compression", "cron", "schedule"}

\* A part that is not looked at begins in one state only.
ServicesInit ==
  /\ part \in Parts
  /\ DeletionInit /\ (part # "deletion" => trouble = {})
  /\ PromptInit /\ (part # "prompts" => "full" \in cast.turmoil)
  /\ PlanInit /\ (part # "plan" => deps = <<{}, {1}, {2}, {}>> /\ ~inputWaits)
  /\ DelegateInit
  /\ ScriptInit /\ (part # "scripts" => mishap = {"flush"})
  /\ AgentLoopInit /\ (part # "loop" => loop = "chat")
  /\ CompressionInit
  /\ IF part = "cron" THEN CronInit
     ELSE /\ firesAt = 0 /\ zone = [at |-> 8, shift |-> 1]
          /\ expression = [f \in {"minute", "hour", "day", "month", "weekday"} |-> {Star}]
  /\ Init /\ (part # "schedule" => \A t \in Tasks : row[t].cron = 1)

\* What the steps of part p leave alone.
Apart(p) ==
  /\ part = p /\ UNCHANGED part
  /\ IF p = "deletion" THEN TRUE ELSE UNCHANGED deletionVars
  /\ IF p = "prompts" THEN TRUE ELSE UNCHANGED promptVars
  /\ IF p = "plan" THEN TRUE ELSE UNCHANGED planVars
  /\ IF p = "delegation" THEN TRUE ELSE UNCHANGED delegationVars
  /\ IF p = "scripts" THEN TRUE ELSE UNCHANGED scriptVars
  /\ IF p = "loop" THEN TRUE ELSE UNCHANGED loopState
  /\ IF p = "compression" THEN TRUE ELSE UNCHANGED compressionVars
  /\ IF p = "cron" THEN TRUE ELSE UNCHANGED cronVars
  /\ IF p = "schedule" THEN TRUE ELSE UNCHANGED vars

ServicesNext ==
  \/ Apart("deletion") /\ DeletionNext
  \/ Apart("prompts") /\ PromptNext
  \/ Apart("plan") /\ PlanNext
  \/ Apart("delegation") /\ DelegateNext
  \/ Apart("scripts") /\ ScriptNext
  \/ Apart("loop") /\ AgentLoopNext
  \/ Apart("compression") /\ CompressionNext
  \/ Apart("cron") /\ CronNext
  \/ Apart("schedule") /\ Next

servicesVars == <<part, deletionVars, promptVars, planVars, delegationVars, scriptVars,
                  loopState, compressionVars, cronVars, vars>>

ServicesSpec ==
  /\ ServicesInit /\ [][ServicesNext]_servicesVars
  /\ DeletionFairness /\ PromptFairness /\ PlanFairness /\ DelegateFairness /\ ScriptFairness
  /\ AgentLoopFairness /\ CompressionFairness /\ Fairness

-----------------------------------------------------------------------------
(***************************************************************************)
(* The other properties of the parts are checked as their modules state    *)
(* them.                                                                   *)
(***************************************************************************)
\* Every variable has its type.
ServicesTypeOK ==
  /\ part \in Parts
  /\ DeletionTypeOK /\ PromptTypeOK /\ PlanTypeOK /\ DelegateTypeOK /\ ScriptTypeOK
  /\ AgentLoopTypeOK /\ CompressionTypeOK /\ TypeOK
  /\ part = "cron" => CronTypeOK

\* The next fire time is right across changes of the clock.
FireTimesAreRight == part = "cron" => CronIsRight

\* Whatever waits goes on, whatever runs ends, and a deletion that fails or dies leaves
\* neither a closed project nor a full trash.
EverythingEnds ==
  /\ ClosedIsTemporary /\ TrashIsEmptied
  /\ AskEnds /\ PlanEnds /\ DelegationEnds /\ ScriptCallEnds /\ LoopEnds
  /\ CompressionEnds /\ RunEnds /\ DueIsServed
=============================================================================
