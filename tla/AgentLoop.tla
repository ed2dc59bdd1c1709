------------------------------- MODULE AgentLoop -------------------------------
(***************************************************************************)
(* The tool-call loop of the agent (agent.py): _run_loop of a turn and     *)
(* _run_task_loop of a plan task.  A step asks the model, then answers the *)
(* tool calls of its reply; a turn takes in what the user typed between    *)
(* two steps, a task does not; a budget of steps, a Stop, a failure or the *)
(* model itself ends the loop.                                             *)
(*                                                                         *)
(* A history is the number of tool calls of the last assistant message     *)
(* that have no result yet.  Text, thinking and usage are left out.        *)
(***************************************************************************)
EXTENDS Naturals

CONSTANTS
  MaxSteps,   \* _MAX_CHAT_ITERATIONS, _MAX_TASK_ITERATIONS
  Factor,     \* total_budget is this many times the budget
  MaxPauses,  \* max_pause_continuations
  MaxTools, MaxPlans,  \* bounds: ordinary calls and plan_task calls of one reply
  MaxTyped    \* bound: messages waiting in the input queue

ASSUME AgentLoopAssumption ==
  /\ MaxSteps \in Nat \ {0} /\ Factor \in Nat \ {0} /\ MaxPauses \in Nat
  /\ {MaxTools, MaxPlans, MaxTyped} \subseteq Nat

VARIABLES
  loop,      \* the loop of a turn ("chat") or of a task
  step,      \* where it is
  budget, reserve,  \* budget and total_budget
  pauses,    \* pause_count
  reply,     \* the last assistant message: its stop reason and its tool calls
  open,      \* those without a result
  doing,     \* the call it is executing
  typed,     \* messages in the session's input queue
  unsaved,   \* output since the last stream_end
  saved,     \* rows inserted under the current message id
  ended,     \* terminal stream_end events
  emitted,   \* emitted_end
  halted,    \* session.is_aborted()
  torn       \* the task was cancelled

loopState == <<loop, step, budget, reserve, pauses, reply, open, doing, typed,
               unsaved, saved, ended, emitted, halted, torn>>

ToolCalls == [tools : 0..MaxTools, plans : 0..MaxPlans]
NoCalls == [tools |-> 0, plans |-> 0]
Stops == {"end_turn", "max_tokens", "pause_turn", "refusal"}  \* and what is handled like refusal
Replies == [stop : Stops, calls : ToolCalls]

AgentLoopTypeOK ==
  /\ loop \in {"chat", "task"}
  /\ step \in {"idle", "head", "asking", "acting", "boundary", "closing", "unwinding", "over"}
  /\ budget \in 0..MaxSteps /\ reserve \in 0..(Factor * MaxSteps) /\ pauses \in 0..(MaxPauses + 1)
  /\ reply \in Replies /\ open \in ToolCalls /\ doing \in {"none", "tool", "plan"} /\ typed \in 0..MaxTyped
  /\ {unsaved, emitted, halted, torn} \subseteq BOOLEAN /\ saved \in 0..2 /\ ended \in 0..2

AgentLoopInit ==
  /\ loop \in {"chat", "task"} /\ step = "idle" /\ typed = 0
  /\ budget = MaxSteps /\ reserve = Factor * MaxSteps /\ pauses = 0
  /\ reply = [stop |-> "end_turn", calls |-> NoCalls] /\ open = NoCalls
  /\ doing = "none" /\ unsaved = FALSE /\ saved = 0 /\ ended = 0 /\ emitted = FALSE
  /\ halted = FALSE /\ torn = FALSE

BeginLoop ==
  /\ step = "idle" /\ step' = "head"
  /\ UNCHANGED <<loop, budget, reserve, pauses, reply, open, doing, typed, unsaved, saved, ended,
                 emitted, halted, torn>>

-----------------------------------------------------------------------------
(***************************************************************************)
(* The events that end a message.                                          *)
(***************************************************************************)
\* The API inserts a row for what came since the last stream_end, if anything did.
SaveOutput == saved' = (IF unsaved THEN saved + 1 ELSE saved) /\ unsaved' = FALSE

StreamEnds == SaveOutput /\ ended' = ended + 1

\* stream_end, emitted_end, break.
EndLoop == StreamEnds /\ emitted' = TRUE /\ step' = "closing" /\ UNCHANGED typed

\* In a task the failures are exceptions: its caller emits the stream_end.
FailLoop ==
  IF loop = "chat" THEN EndLoop
  ELSE step' = "closing" /\ UNCHANGED <<typed, unsaved, saved, ended, emitted>>

\* _consume_injected_input: the output so far is frozen, the messages are handed to the API.
Inject ==
  /\ typed' = 0 /\ SaveOutput /\ step' = "boundary" /\ UNCHANGED <<ended, emitted>>

MayInject == loop = "chat" /\ typed > 0 /\ ~halted
ContinueAt(at) == step' = at /\ UNCHANGED <<typed, unsaved, saved, ended, emitted>>

\* Variant: new instructions refresh the safety valve too.
EndBoundaryRefreshed ==
  /\ step = "boundary" /\ ~torn /\ step' = "head"
  /\ saved' = 0 /\ budget' = MaxSteps /\ reserve' = Factor * MaxSteps
  /\ UNCHANGED <<loop, pauses, reply, open, doing, typed, unsaved, ended, emitted, halted, torn>>

\* Variant: what follows a boundary is streamed under the id of what came before it.
EndBoundaryUnderOldId ==
  /\ step = "boundary" /\ ~torn /\ step' = "head"
  /\ budget' = MaxSteps
  /\ UNCHANGED <<loop, reserve, pauses, reply, open, doing, typed, unsaved, saved, ended, emitted,
                 halted, torn>>

\* The messages were persisted, rejected or waited for long enough: whichever it
\* was, the loop goes on under a new id and with a new budget.
EndBoundary ==
  /\ step = "boundary" /\ ~torn /\ step' = "head"
  /\ saved' = 0 /\ budget' = MaxSteps
  /\ UNCHANGED <<loop, reserve, pauses, reply, open, doing, typed, unsaved, ended, emitted, halted, torn>>

-----------------------------------------------------------------------------
(***************************************************************************)
(* A step.                                                                 *)
(***************************************************************************)
headAlone == <<loop, pauses, reply, open, doing, halted, torn>>

SeeAborted == step = "head" /\ halted /\ EndLoop /\ UNCHANGED <<headAlone, budget, reserve>>

\* What was typed meanwhile refreshes the budget; the reserve is never refreshed.
RunOut ==
  /\ step = "head" /\ ~halted /\ (budget = 0 \/ reserve = 0)
  /\ IF budget = 0 /\ MayInject THEN Inject ELSE EndLoop
  /\ UNCHANGED <<headAlone, budget, reserve>>

AskModel ==
  /\ step = "head" /\ ~halted /\ budget > 0 /\ reserve > 0
  /\ budget' = budget - 1 /\ reserve' = reserve - 1
  /\ IF MayInject THEN Inject ELSE ContinueAt("asking")
  /\ UNCHANGED headAlone

StreamText ==
  /\ step = "asking" /\ ~unsaved /\ unsaved' = TRUE
  /\ UNCHANGED <<loop, step, budget, reserve, pauses, reply, open, doing, typed, saved, ended,
                 emitted, halted, torn>>

Act == ContinueAt("acting") /\ pauses' = 0 /\ open' = reply'.calls

\* A reply that has too many pauses before it ends the loop or waits for the user's
\* message; with calls in it, these stay without a result.
PauseTooOften ==
  IF MayInject THEN Inject /\ pauses' = 0 /\ open' = reply'.calls
               ELSE EndLoop /\ pauses' = pauses + 1 /\ UNCHANGED open

Pause ==
  IF pauses + 1 > MaxPauses THEN PauseTooOften
  ELSE IF reply'.calls # NoCalls THEN Act
  ELSE IF MayInject THEN Inject /\ pauses' = 0 /\ UNCHANGED open
  ELSE ContinueAt("head") /\ pauses' = pauses + 1 /\ UNCHANGED open

\* A model that finds a call without a result in its request rejects it.
ModelReplies ==
  /\ step = "asking" /\ ~torn /\ open = NoCalls /\ reply' \in Replies
  /\ CASE reply'.stop = "refusal" -> FailLoop /\ UNCHANGED <<pauses, open>>
       [] reply'.stop = "pause_turn" -> Pause
       [] reply'.stop \in {"end_turn", "max_tokens"} /\ reply'.calls # NoCalls -> Act
       [] OTHER -> (IF MayInject THEN Inject ELSE EndLoop) /\ UNCHANGED <<pauses, open>>
  /\ UNCHANGED <<loop, budget, reserve, doing, halted, torn>>

\* The request is too large or the provider fails.
ModelFails ==
  /\ step = "asking" /\ ~torn /\ FailLoop
  /\ UNCHANGED <<loop, budget, reserve, pauses, reply, open, doing, halted, torn>>

callAlone == <<loop, budget, reserve, pauses, reply, typed, saved, ended, emitted, halted, torn>>

\* The ordinary calls first.
NextCall == IF open.tools > 0 THEN {"tool"} ELSE {"plan"}

StartCall ==
  /\ step = "acting" /\ ~torn /\ doing = "none" /\ doing' \in NextCall /\ unsaved' = TRUE
  /\ UNCHANGED <<step, open, callAlone>>

\* A call has its result: an answer or an error, of malformed arguments too.
EndToolCall ==
  /\ step = "acting" /\ ~torn /\ doing # "none" /\ doing' = "none"
  /\ open' = IF doing = "tool" THEN [open EXCEPT !.tools = @ - 1] ELSE [open EXCEPT !.plans = @ - 1]
  /\ step' = IF open' = NoCalls THEN "head" ELSE "acting"
  /\ UNCHANGED <<unsaved, callAlone>>

\* An exception that no handler in the loop catches, or the time-out of a task.
BreakLoop ==
  /\ step \in {"acting", "asking"} /\ ~torn /\ (step = "asking" => loop = "task")
  /\ step' = "closing"
  /\ UNCHANGED <<open, doing, unsaved, callAlone>>

\* The cancellation is delivered where the loop waits.
Unwind ==
  /\ torn /\ step \in {"asking", "acting", "boundary"} /\ step' = "unwinding"
  /\ UNCHANGED <<open, doing, unsaved, callAlone>>

\* The finally clause of a turn; the handlers of a task, which know no cancellation.
CloseLoop ==
  /\ step \in {"closing", "unwinding"} /\ step' = "over"
  /\ IF ~emitted /\ (loop = "chat" \/ step = "closing") THEN StreamEnds
     ELSE UNCHANGED <<unsaved, saved, ended>>
  /\ UNCHANGED <<loop, budget, reserve, pauses, reply, open, doing, typed, emitted, halted, torn>>

-----------------------------------------------------------------------------
(***************************************************************************)
(* What comes from outside.                                                *)
(***************************************************************************)
outsideAlone == <<loop, step, budget, reserve, pauses, reply, open, doing, unsaved, saved, ended,
                  emitted>>
Working == step \notin {"idle", "over"}

TypeMessage ==
  /\ Working /\ loop = "chat" /\ typed < MaxTyped /\ typed' = typed + 1
  /\ UNCHANGED <<outsideAlone, halted, torn>>

\* A Stop aborts and cancels; a full event queue only aborts; the parent of a
\* delegated turn and the shutdown only cancel.
HaltLoop ==
  /\ Working /\ \E h, t \in BOOLEAN :
       (h \/ t) /\ halted' = (halted \/ h) /\ torn' = (torn \/ t)
  /\ UNCHANGED <<outsideAlone, typed>>

LoopGoesOn ==
  \/ SeeAborted \/ RunOut \/ AskModel \/ EndBoundary
  \/ ModelReplies \/ ModelFails \/ StartCall \/ EndToolCall \/ Unwind \/ CloseLoop

AgentLoopNext == BeginLoop \/ LoopGoesOn \/ StreamText \/ BreakLoop \/ TypeMessage \/ HaltLoop

\* The model answers or its client gives up, a tool has its own limit.
AgentLoopFairness == WF_loopState(LoopGoesOn)
AgentLoopSpec == AgentLoopInit /\ [][AgentLoopNext]_loopState
AgentLoopFairSpec == AgentLoopSpec /\ AgentLoopFairness

-----------------------------------------------------------------------------
(***************************************************************************)
(* Properties.                                                             *)
(***************************************************************************)
\* Every tool call has its result when the model is asked again, or the provider rejects
\* the request.  The exception: the user wrote while the model paused once too often.
RequestsAnswerCalls ==
  step = "asking" /\ open # NoCalls => reply.stop = "pause_turn" /\ loop = "chat"

\* So has every sibling of a plan_task call while the tasks of the plan, whose
\* requests repeat the reply, run.  The exception: two plans in one reply.
SiblingsAreAnswered ==
  loop = "chat" /\ step = "acting" /\ doing = "plan" =>
    open.tools = 0 /\ (open.plans = 1 \/ reply.calls.plans > 1)

\* A message id has one row at most: the second insert would be swallowed.
OneRowPerMessage == saved <= 1

\* A stream ends exactly once, whatever ends the loop, and with all output saved; only
\* the stream of a task that was cancelled never ends.
StreamEndsOnce ==
  /\ ended <= 1
  /\ step = "over" => IF loop = "task" /\ ~emitted /\ torn THEN TRUE ELSE ended = 1 /\ ~unsaved

\* Requests to the model are well-formed, rows are not swallowed, a stream ends once.
LoopIsSound == RequestsAnswerCalls /\ SiblingsAreAnswered /\ OneRowPerMessage /\ StreamEndsOnce

\* However the user keeps typing and the model keeps pausing, the loop ends.
LoopEnds == []<>(step \in {"idle", "over"})
=============================================================================
