# Agents Universe in TLA+

A verification development of Agents Universe: TLA+ modules of the parts of
`src/packages/api`, `src/packages/agent-core` and of the web client's sockets
that are concurrent, that fail half way or that keep books, TLC configurations
that check them on small instances, and TLAPS proofs for every value of the
constants.

## 1. The system and its parts

One Python process (FastAPI, asyncio) serves chats with agents. A user opens a
conversation in one or more browser tabs, each a WebSocket. A message becomes a
*turn*: an agent loop that calls a model and tools and streams events back. The
same turn kernel runs headless for published agents (server-sent events) and
for scheduled tasks. State is split between the process (claims, sessions,
abort events, buffers, semaphores, caches), PostgreSQL (conversations, messages,
runs, schedules, projects, credentials, scripts) and the workspace directory of
a project (files, clones, skills, knowledge, artifacts).

| Component | State | Operations | Interacts with |
|---|---|---|---|
| Connection manager (`websocket/manager.py`) | sockets, abort Events, sessions, turn claims, claim-window buffer, session notes, all keyed by conversation | `claim_turn`, `release_turn`, `connect`, `disconnect`, `send`/evict, `register_session`, `deregister_session`, `signal_abort`, `reset_abort`, buffer | everything below |
| Conversation socket (`websocket/handlers.py`) | `active_task` of each receive loop | message, abort, prompt answer, disconnect | manager, turn kernel, session |
| Turn kernel (`services/agent_turn.py`) | local control state of a turn, drain list, watchdogs, buffers of the forwarder | lookup, setup, register, drain, agent + abort watcher, forwarding, settle, ledger, finally | manager, session, runs, database |
| Agent and session (`agent_core/agent.py`, `session.py`) | event queue, user input queue, pending prompts, plan, abort flag | step boundary, model loop, task mode, prompts, emit, close | turn kernel, tools, providers |
| Model providers (`agent_core/providers`) | one reply: blocks, calls, tokens | request, stream, retry without thinking, fall-back | agent |
| Published agents (`routers/publish.py`) | 16-slot semaphore, SSE queue, threads | stream, abort, disconnect, switch off | manager, turn kernel |
| Conversation runs (`services/conversation_runs.py`) | one row per turn: status, partial text, recovery flag | create, snapshot, finish, start-up sweep, materialisation | turn kernel, `main.py` start-up |
| Scheduler (`services/scheduler.py`, `scheduled_runs.py`, `routers/schedules.py`, `scheduling/cron.py`) | schedules with `next_run_at`, run rows, per-schedule lock, slots | tick, run now, update, delete, execute, finalise, deliver, start-up sweep | manager, turn kernel |
| Conversation deletion (`routers/conversations.py`) | `status` of the conversation | check, guarded UPDATE, re-check, revert | manager |
| Project deletion (`services/project_deletion.py`) | deletion jobs, quarantined directories | check, quarantine, delete rows, purge, start-up sweep | manager, scheduler, scripts |
| Compression (`services/compression.py`) | in-flight table, message sequence | compress once, commit | turn kernel, messages |
| Delegation (`services/delegation.py`) | gate per conversation, depth, cancel events | delegate, cancel, time out | turn kernel, manager |
| Prompts (`session.py`, `tools/user_confirm.py`) | pending futures, ledger of answers, prompt lock | ask, answer, time out, abort, replay | socket loop, tabs |
| Scripts and specs (`routers/scripts.py`, `agent_core/scripts`, `services/script_artifacts.py`) | script rows, slots, run rows, logs, per-run bridge, artifacts | edit, run, stream the log, call tools, settle, prune | turn kernel, scheduler |
| Commands and code (`tools/shell.py`, `tools/code_executor.py`, `sandbox.py`) | package directory, browsers, process groups | prepare, run, time out, stop | agent |
| MCP (`tools/mcp_client.py`) | sessions and transports of a turn | connect, list, call, drop, close | agent, prompts |
| Project files: knowledge, skills, clones (`agent_core/knowledge`, `tools/knowledge_rw.py`, `tools/skill_source.py`, `tools/git_repo.py`) | files, index rows, cache, loaded context; cached clone, installed skill; working tree, code graph | write, reindex, load, unload; fetch, install; clone, pull, commit, build | tasks of a project that share them |
| Credentials, memories (`tools/api_request.py`, `secret_vault.py`, `memory_rw.py`, `episodic_service.py`) | credential rows, memories, notes, episodes | call, ask, store, settings page; save, recall, archive, sum up | prompts, sockets |
| Web client (`composables/useWebSocket.ts`) | table of connections, timers | connect, park, retry, evict, heartbeat | manager |
| CRUD routers, database models, sandbox checks, login | independent rows; declarations; decision functions | - | - |

What is hard here: claims and sessions are handed between coroutines that can be
interrupted at every `await`; the abort Event is one object per conversation
shared by successive turns; the claim has no owner; cancellation can land in a
`finally` clause; a crash can fall between two commits; several users, tabs,
timers and API calls act on the same rows; parallel tasks share directories that
nothing locks; and what a model is sent must stay well-formed whatever was cut,
compressed, injected or retried before.

`PROJECT.json` lists every component with what is modelled of it, and under
`hazards` every place in this code that is hard to test, with the properties
that watch it.

## 2. Modules

| Module | Models |
|---|---|
| `TurnLifecycle` | the life of the turns of one conversation: manager, socket loops, `run_turn`, headless callers, result delivery, deletion |
| `TurnLifecycleProps`, `TurnClaim` | its properties; abstract: the claimants of a conversation own it one at a time, with the mapping |
| `TurnEvents` | a turn's events on their way into the database: bounded queue, forwarder, tail of `run_turn`, rows of plans |
| `ConversationRuns`, `ConversationRunsProps` | run rows and history of one conversation across turns, faults, crashes, the start-up sweep and compression |
| `Scheduler`, `SchedulerProps` | schedules, the loop, launches, executions, edits, shutdown, crash, start-up sweep |
| `CronTimes` | `next_run_at` on a scaled calendar, against a reference definition |
| `ProjectDeletion` | hard deletion of a project with the undo of each step and the sweep, beside creation, turns, script runs |
| `SessionPrompts` | questions of parallel and nested callers, dialogs, answers, time-outs, aborts |
| `Delegation` | nested turns: gate, depth, time-out, Stop, cancellation |
| `AgentLoop` | `_run_loop` and `_run_task_loop`: budgets, pauses, tool calls, injection |
| `TaskPlan` | task mode: dependencies, dispatch, skips, deferral, Stop |
| `Compression` | compressions of several users beside turns |
| `RequestMessages` | rows become messages, are compressed, repaired, cut to the byte limit and made into the turns of a wire format |
| `ReplyStreams` | one reply: requests with their retries, the chunks of four provider families, what the loop keeps |
| `PublishedStreams` | published runs: keys, slots, threads, frames, aborts, vanished clients |
| `ScriptRuns` | slots, rows, executors and log views of script runs, death, sweep |
| `ScriptTools` | edits of a script, what its run is given, the bridge over which it calls tools, the masked log |
| `SpecRuns` | Playwright runs: anchor, result, artifacts, retention, page |
| `WorkspaceProcesses` | commands and code: set-up of packages and browsers, process trees, time-outs, Stops |
| `McpConnections` | MCP servers of a turn: transports, time-outs, redirects, calls |
| `RemoteCalls` | an HTTP API call or vault operation: gates, credentials, dialogs, the settings page, what is sent and shown |
| `GitRepos` | a clone that tasks share, its commits, and the code graph built from it |
| `SkillSources` | the cached clone of skills and the installation of one |
| `KnowledgeBase` | knowledge files, index rows, cache and a conversation's context |
| `Memories` | memories, session notes, episodes |
| `ClientSockets` | the connections of one browser tab |
| `TurnLifecycleProofs`, `SchedulerProofs`, `ConversationRunsProofs`, `ServicesProofs` (deletion, prompts, delegation, loop, plan, script runs), `HistoryProofs` (compressions, events of a turn), `AroundTurnProofs` (published streams, MCP servers, commands, sockets), `BookProofs` (skills, knowledge, clones, memories, spec runs, script tools), `WorkspaceProofs` (API calls; the composition of all these books) | theorems about these modules for all values of the constants, checked by TLAPS, see section 4 |
| `MCTurn`, `MCPlan`, `MCRecords`, `MCServices`, `MCTools`, `MCWorkspace` | instances for TLC, see section 3 |

`TurnLifecycle` is the centre: the other modules stand for what its actions
leave abstract. `ConversationRuns` takes from it that the turns of a
conversation follow each other (`AtMostOneTurn`) and numbers them; `TurnEvents`
is its `forward_events` and `Settle` in detail; `Delegation` its nested turns;
`AgentLoop`, `TaskPlan`, `RequestMessages` and `ReplyStreams` what its agent
does between two steps; `PublishedStreams` its jobs. `Scheduler` sees a target
as something that ends with an outcome; that a scheduled turn or a delivery
claims the conversation like everybody else is in `TurnLifecycle` (`Jobs`,
`Deliveries`). `ScriptRuns` keeps the slots and rows of a run, `ScriptTools` and
`SpecRuns` what it is given and what it leaves.

A definition marked `Variant` (or whose comment says what it leaves out) is what
the code does not do: a plausible mistake that a run's property must notice. It
is used by no action.

### Conventions

One action is the code between two points where something else may run: an
`await` that suspends, a commit, a thread. Where an operation is a series of such
steps, its position is a program counter (`pc`, `main`, `stage`, `op`, `callAt`,
`runAt`, ...). What may fail is named by a constant or chosen in `Init`
(`trouble`, `mishap`, `setback`, `situation`, a *load*): an initial state then is
one workload with the misfortunes it may meet, which keeps instances small while
the order of steps stays free. Names of files, keys, texts and URLs are members
of small sets, sizes are small numbers. Variables that exist for the properties
only are commented as such.
### TurnLifecycle

The manager keys all of its state by conversation, so one conversation is
enough. A *claimant* is what can hold the turn claim: a message (a turn started
from a tab), a job (a headless turn), or a delivery (`deliver_result` holds the
claim for one INSERT). `pc` is where a claimant stands:

    idle -> accepted -> lookup -> setup -> drain -> run -> settle -> tail -> unwind -> closing -> done
                          |         |                                          ^
                          +-> dead <+-> release -> closing -> done             | any failure

`accepted` is the time between `claim_turn` and `create_task` (renewing the
login session), `drain` the loop over the claim-window buffer, `run` the time
the agent task runs with its abort watcher, `settle` the drain of its events,
`tail` the ledger write after `deregister_session`, `unwind` the last await of
the `finally` clause of a turn that registered, `dead` and `release` the same
clause of one that did not, `closing` the `agent.close()` after the release.

| Code | Model |
|---|---|
| `_connections`, `_abort_events`, `_sessions`, `_claimed_turns`, `_pending_injections` | `conns`, `abort`, `session`, `claimed`, `pending` |
| which Event object a watcher waits on | `watched`: a turn leaves it when the Event leaves the table |
| receive loops and their `active_task` | `open`, `task` |
| `session` user input queue, messages awaiting persistence | `inputs`, `inflight` |
| history rows, `input_queued` acks, notices to the sender | `rows`, `acked`, `notified` |
| history of the model only | `stops` (turns a Stop reached) |

Abstractions: a message is its identity and is sent once; a turn may fail at any
point where the code can raise or return early (`SetupFails`, `TurnFails`); the
forwarder persists or rejects an injected message; the watchdog persists or
fails to, and reports in either case.

### ConversationRuns

| Code | Model |
|---|---|
| rows of `messages` in order of `sequence` | `history`, with role, turn, a flag for the `[interrupted]`/`[error]` metadata, and the text as a set of chunks |
| `conversation_runs.status`, `.streaming_snapshot` | `status`, `snapshot` |
| process, and the three transactions of the start-up sweep (`main.py`, `mark_interrupted_runs`) | `server` = `flip`, `recover`, `clear`, then `serving`; `older` the runs whose partial text is dropped |
| `run_turn`: insert of the user message, `create_run`, agent start, `await agent_task`, choice of the final status, drain of the forwarder, abort tail, `except`, safety net | `main` = `record`, `setup`, `await`, `attribute`, `drain`, `tail`, `caught`, `net` |
| agent task and how it ended | `agent`, `cause` (what happened), `exit` (what `run_turn` sees of it), `aborted` |
| `_forward_events`: stream, freeze the snapshot, persist, finish | `forward`, `buf`, `intended` |
| `compress_conversation`: boundary read, model call, delete and insert | `cut` |

The chunks of text are numbered as the model produces them. A buffer or a
snapshot is a run of consecutive chunks of one turn, so that the substring test
of the recovery (`conversation_runs.py`, "already in the history") is the
subset relation. `RunFaults` names the writes that may fail: `create`, `persist`,
`finish`, `sweep`. A crash may fall between any two steps.

### TurnEvents

`author` is the agent (message, pieces, plan), `evq` the bounded `_event_queue`
with its drop rules, `courier` is `forward_events` (the event in its hand, its
buffers, the persisted ids), `tail` is `run_turn` after the agent: waiting for
the forwarder, draining what a cancelled one left, settling task rows. A
*setback* of a behaviour is a stalled or failing database or a cancellation that
tears `run_turn` down; a turn may be nested, then it must leave the parent's plan
alone. A piece of text is a pair (message, number), and the buffer and a row are
sets of pieces: the properties tell which message has which text, once, not the
order of the pieces in a row.

### Scheduler and CronTimes

| Code | Model |
|---|---|
| `scheduled_tasks` row | `life`, `row` (`cron_expr`, `enabled`, `next_run_at`; 0 is NULL) |
| `scheduled_task_runs` row | `run` (task, trigger, status) |
| `_tick`: SELECT of due rows, one guarded UPDATE per row, `spawn_run` per claim | `stage`, `due`, `claimed`; `Scan`, `ClaimDue`, `LaunchClaimed`, `EndTick` |
| `spawn_run` under the task's lock: active run? queue full? insert, then `create_task` | `launch` = `insert`, `skip`, `spawn`; `Begin` needs the lock |
| `execute_run`: start, slot, target, `_finalize`, `_deliver`, failure path | `exec` = `queued`, `waiting`, `working`, `finalizing`, `delivering`, `failing` |
| PATCH and DELETE: load, compute, flush of the changed columns | `edit`, `Edited`, `Merge`, `CommitUpdate`, `CommitDelete` |
| `stop_scheduler`, death, `startup_sweep` | `Shutdown`, `Die`, `Start` |

In `Scheduler`, time is a number of minutes and a cron expression is its period:
all the loop uses of `next_fire` is that it is strictly later than the time it
is given. `CronTimes` is where that comes from: the search of `cron.py` (days,
then hours, then minutes, with the rules for repeated and skipped hours) on a
calendar of two minutes, four hours, three weekdays and four days of a month,
compared with the definition "the first later instant whose reading matches".
The clock moves at any moment, so a tick may be arbitrarily late. More than one
loop may run (`duplicate`), because the docstring of `services/scheduler.py`
claims that the guarded UPDATE makes duplicate loops harmless. All loops share
one process: the lock of `spawn_run` lives in it, so `OneActiveRun` says nothing
of replicas.

### ProjectDeletion

`project` is the row (with `is_active`), `source` and `trash` what the workspace
path and the job's quarantine path hold, `job` the deletion job, `deleting` the
position of each request in `delete_project`, `sweeping` the start-up sweep,
`work` what else touches a project: turns and script runs, which read the row
first and write in the directory later. Every step of `delete_project` may fail
and has its undo; the process may die between any two.

### SessionPrompts, Delegation

A caller of `SessionPrompts` is one call of `user_confirm`, in the session of the
turn or in that of a nested one, which registers its prompts with both.
`registered`, `future`, `ledger`, `paused`, `locked` are `_pending_prompts`, the
Futures, `_prompt_outcomes`, `_prompts_paused`, `prompt_lock`; `dialogs` is what a
tab shows, `answering` the frame its receive loop has in hand. `promptRow` is the row
`_persist_selection_answer` writes with best effort: in a cast with the turmoil
"disk" the write may fail, then the prompt is resolved all the same, nobody else is
told, and `Unsaved` stands for what only the log says. In `Delegation` an
agent may delegate from several plan tasks at once; `gate`, `gateOf`, `heldBy` are
the semaphore of the conversation and who took which object from the table;
`stop` is the abort Event, `expired` the time-outs that have set `cancel_event`.

### AgentLoop, TaskPlan, Compression

`AgentLoop` follows one loop: `budget` and `reserve` are `budget` and
`total_budget`, `pauses` is `pause_count`, `open` the tool calls without a result,
`saved` the rows inserted under the current message id, `ended` the terminal
`stream_end` events. `TaskPlan` has the sets of the same names as
`_run_task_mode`, `gathered` being the tasks the current `gather()` waits for.
`Compression` has the in-flight table (`inflight`, `leaderOf`), the boundary that
is read before the minutes-long model call, and the rewrite of the rows.

### RequestMessages, ReplyStreams

`RequestMessages` is a pipeline of operators over a sequence of rows: load the
last rows, convert, compress, drop orphans, grow by the tool loop, degrade images
and knowledge, cut to the byte limit, merge into wire turns. `ReplyStreams` is the
other direction: `requests` is what was asked for one reply (with or without
thinking, streamed or not), `acc` what the loop has of it, `said` what the service
said. A step is one event of the service: a piece of text, thought, signature,
call, the stop reason, usage, an error or the end of the connection.

### PublishedStreams, ClientSockets, McpConnections, WorkspaceProcesses

`PublishedStreams`: `asking` is the handler, `turn` its run task, `permits` the
semaphore, `frames` the bounded queue, `client` the response (fresh, read,
flushed, ended; the client gone, or lost before the first iteration).
`ClientSockets`: `pool` is `_connections` with its entries and timers and
`_failedConversations`; `silent` and `dead` are sockets without frames and
half-open ones. A timer that is armed may fire at any time. `McpConnections`:
`link` is a server session with the task that opened its transport, `attach` the
turn around it; the SDK may connect, answer, drop or hang at any time.
`WorkspaceProcesses`: `package` is `node_modules` (content, links, installed
Playwright) and what `package.json` wants, `stage` the position in
`ensure_node_deps` and `ensure_playwright_browsers`, `alive` the process tree.

### ScriptRuns, ScriptTools, SpecRuns

`ScriptRuns`: `starting` is a caller between authorization and launch,
`executor` the task of a run, `slotsFree` the semaphore, `storedLog` and `seenLog`
the log in the row and at the viewer. `ScriptTools`: `scriptRow`, `unsaved` (the
dirty attributes in the agent's session), `snapshot` (what a run was started
with), `bridge`, `toolCalls`, `sessionOf` (the database session in the shared
`ToolContext`), `leftovers`. `SpecRuns`: `anchors` and `stamps` the hidden script
rows, `specRows` the runs with result and gallery, `runDirs`, `filesOf` and
`reports` the artifact directories.

### RemoteCalls, Memories

`RemoteCalls` follows one call through its gates: endpoint, method, environment,
confirmation, the credentials one by one (project row, then personal row, then a
dialog whose answer the tab stores), files, request, masking of the reply.
`writer` is a writer of the vault (the tab's save, the settings page) with its
insert, the row it locks and the conflict it may lose. `Memories`: `memories` are
the rows, `noteLists` the list objects there have been and `notes` which of them
the manager has (a turn keeps the one it was given), `summing` the generations of
an episode.

### GitRepos, SkillSources, KnowledgeBase

`GitRepos`: `repo` is the working tree, `op` the operation of each task as the
list of git commands still to run, `graphBuild` the stages of a build and what it
has read, `worker` the background task with its `rerun` flag. `SkillSources`:
`skillCache` the cached clone (its `.git`, its HEAD, the files of its tree with their
commits), `skillOp` each task's operation, `skillTold` what the dialog said. A killed
clone or reset and a removal that fails leave any part of the tree; an install looks
for `SKILL.md` only and copies what is there, without the files that cannot be read
or are beyond the limits; `git rev-parse` may fail, and then no commit is named.
`torn` marks a skill whose install was crossed or failed, or whose clone was damaged,
that is, had files of another commit than its HEAD. `GitRepos` lets the removal of a
clone (`remove_failed`) and the clean-up of a staging directory fail: what is left of
a clone is a `Wreck` without its `.git`, or a tree that has lost files. `KnowledgeBase`: `file` and `listed` the files, `fileRows` the
index, `rowCache` the process-wide cache, `context` what a conversation is offered
and holds; a parent file `p` lists its child `c`.

## 3. Runs

Parts of the system that share no state are checked in one run: `MCServices`,
`MCTools` and `MCWorkspace` are unions in which each behaviour is one of a single
part, while the others stay parked in one initial state in which nothing has to
happen (so that their fairness asks nothing). Such a run has one property per
part that is proved, or per kind of promise; each is a conjunction of named
properties that are stated, with a comment, in the module of the part.
`MCRecords` and `MCTurn` choose between instances in the same way; `MCRecords`
and `MCServices` extend the modules of their parts, so that a property of a run is
the very formula that section 4 proves.

| Run | Distinct states | Shows |
|---|---|---|
| `casts` (`MCTurn`) | 480 000 | two casts: two tabs with three messages; one tab with one message beside a published stream that may be cancelled, a delivery and two delete requests. One turn at a time, Stops neither lost nor stale, no claim or session left behind, custody of acknowledged messages, no work after a delete answered `ok`, refinement of `TurnClaim` |
| `live` | 320 000 | 1 tab, 2 messages, a job, a delivery, fair event loop: a Stop ends the turn it reached even if its agent would never end; if agents end, claims are released and queued messages settled |
| `records` (`MCRecords`) | 4 300 000 | two turns with two chunks, deaths and failing writes; two schedules, two loops, a run-now request: launches stay apart, runs tell the truth, what is settled stays settled |
| `settle` | 1 770 000 | two turns, a crash, a compression, failing creates, fair: a completed run has its answer in the history, no run stays running between turns, every run is settled |
| `services` (`MCServices`) | 370 000 | nine parts: deletion, prompts, plans, delegation, scripts, model loop, compression, cron, schedules |
| `tools` (`MCTools`) | 200 000 | five parts: sockets of a tab, MCP, events of a turn, published streams, processes |
| `workspace` (`MCWorkspace`) | 760 000 | nine parts: requests, replies, API calls, skills, knowledge, clones, memories, spec runs, script tools |
| `buffered`, `leak`, `raised`, `twice`, `orphan` | up to 100 000 | the five disagreements of section 6 |

What the composed properties consist of:

| Run | Property | Conjuncts |
|---|---|---|
| `casts` | `StopsAreHeard` | `StopReachesRunningTurn`, `ConnectedTabCanStop` |
| | `TabsAreServed` | `ClaimHasHolder`, `SessionBelongsToHolder`, as long as no published stream has ended, and `AckHasCustodian`, as long as none has begun: the finding `leak` makes them false after a cancelled stream |
| `records` | `LaunchesAreApart` | `OneActiveRun`, `QueueKeepsLimit`, `FiresOnce`, `SettledIsFinal` |
| | `RunsTellTheTruth` | `TroubleIsNotCompleted`, `TextAppearsOnce` |
| | `RunsAreKept` | `SettledStaysSettled`, `PartialIsKept` |
| `services` | `DeletionIsSafe` | `WorkspaceIsKept`, `OpenHasWorkspace`, `TurnHasProject`, `SlugIsNotConfused`, `SweepIsComplete` |
| | `PromptsAreSound` | `RegisteredIsAwaited`, `AskedOnce`, `DeadDialogCloses`, `HeardIsRecorded`, `AnswersStay` |
| | `DelegationIsContained` | `GateIsReturned`, `TimeoutStaysBelow`, `OutermostTakeTurns` |
| | `PlanIsSound` | `DependenciesFirst`, `SkippedForAReason`, `PlanIsAccounted` |
| | `LoopIsSound` | `RequestsAnswerCalls`, `SiblingsAreAnswered`, `OneRowPerMessage`, `StreamEndsOnce` |
| | `FireTimesAreRight` | `CronIsRight` |
| | `ScriptsAreAccounted` | `SlotsAreCounted`, `ActiveRowHasRunner`, `ViewIsComplete` |
| | `HistoryIsKept` | `NothingIsForgotten`, `HistoryReadsInOrder`, `SummariesDoNotRepeat`, `InflightIsLed` |
| | `SchedulesAreKept` | `ActiveIsExecuted`, `ClaimIsRecorded`, `EnabledIsAnchored`, `DueIsNotEaten`, `MissedIsSkipped`, `OnlyEnabledFires` |
| | `EverythingEnds` | `ClosedIsTemporary`, `TrashIsEmptied`, `AskEnds`, `PlanEnds`, `DelegationEnds`, `ScriptCallEnds`, `LoopEnds`, `CompressionEnds`, `RunEnds`, `DueIsServed` |
| `tools` | `TabStaysConnected` | `CapIsKept`, `NobodyIsStranded`, `OneAttemptAtATime`, `FailedIsDown` |
| | `ServersAreContained` | `TransportsHaveOwner`, `ClosedAfterTurn`, `SessionIsCurrent`, `CredentialsStayHome`, `WritesAreAllowed` |
| | `CommandsAreContained` | `NothingRunsOn`, `RunsPrepared`, `VerifiedHasBrowser`, `SecretsAreMasked` |
| | `TurnIsStored` | `OutputIsStored`, `TextIsStoredOnce`, `OutcomeIsKept`, `PlanIsSettled`, `ParentPlanIsKept` |
| | `PublishedRunsAreApart` | `PermitsAreCounted`, `ThreadsAreApart`, `HaltIsForThisRun`, `EndIsExplained` |
| | `ToolsEnd` | `SocketsRecover`, `McpEnds`, `TurnEventsEnd`, `StreamsEnd`, `CommandsEnd` |
| `workspace` | `RequestsAreSound` | requests: `CallsAreAnswered`, `WireIsWellFormed`, `CutIsLeast`; replies: `NothingTwice`, `RequestsAreFew`, `CallsAreWhole`, `CutIsTold`, `BlocksAreSigned`, `TokensCountedOnce`; knowledge: `IndexFollowsFiles`, `ListFollowsFiles`; memories: `RecallIsRight`; specs: `RetentionHolds`, `GalleryIsWhole` |
| | `BooksAreKept` | skills: `SkillIsAsConfirmed`, `FetchHeals`; knowledge: `CacheIsCurrent`, `NothingVanishes`, `BudgetIsKept`; clones: `WorkIsKept`, `CloneIsWhole`, `CommitHoldsSelection`, `OneBuild`, `GraphIsCurrent`; API calls: `SentAsAgreed`, `TypedIsUsed`, `OneRowIsLeft`, `RequestIsWhole`, `RepliesAreMasked`; memories: `SecretsAreKeptOut`, `NotesAreShared`, `NotesEnd`, `EpisodeIsOne`, `KeysStayHome`; specs: `OneAnchor`, `ResultIsOwn`, `StoppedIsNotPassed`, `FailuresAreNamed`; scripts: `EditsAreKept`, `CallsAreDeclared`, `ContextIsShared`, `NothingOutlivesScript`, `LogIsMasked` |

### Bounds, and why they are enough

Limits of the code (8 sockets, 20 buffered messages, 16 slots, 200 rows, 2000
characters, ...) are constants set to 1, 2 or 3, so that they are reached.

- `casts`. Two tabs: one more than the tab that acts. Three messages: a turn, an
  injection and a buffered message at the same time, or two successive turns and
  a message between them. Two delete requests: one is refused and the other
  reverted. The state constraint `Casts` keeps the two instances apart; tabs,
  messages and deletions are interchangeable (symmetry).
- `records`, `settle`. Two turns and two chunks: an answer cut in two by an
  injection boundary, or a left-over of one turn met by the recovery of the next.
  Two crashes: one during the sweep that follows the other. Two loops and a
  request: every pair of launchers, and with three runs on a queue of two a third
  launch that must be refused. To keep it finite in minutes, run-now requests
  overlap with the loops of the first process only, and there is at most one
  chunk before a death that follows a second turn or another death.
- `services`. Two projects and deletions with one turn, one script run, one
  restart; two callers, one tab, five casts (in one the rows of answers may fail); plans of four tasks (a join, a chain, a cycle),
  two in parallel; two delegations, depth 2, two turns; two script calls (page
  and agent) on one slot; a loop of two steps, factor 2, one pause, two plans;
  three requests of two users, three messages said; one schedule with an editor,
  two periods, two starts.
- `tools`. Two conversations on one connection: eviction, parking, a retry and
  two faults; two servers, one with the fall-back from HTTP to SSE; two plan
  tasks, two messages, a queue of two; two requests of a thread or of a page and
  its publisher; two commands in a package directory with two versions and a Stop.
- `workspace`. Three rows of seven kinds; three stream events, two replies; two
  skill tasks, a fault, files of which two fit into a copy; two agent tasks, an editor, one file in the loaded
  budget; two git tasks in seven workloads, one mishap (in one, a build of the graph beside
  a preparation, which moves HEAD under it); one API call with at most
  two credentials and one change by the settings page, and a reply that quotes no, one or
  two credentials, each of them whole; memories of two writers,
  two tabs, two turns, two generations of an episode; three spec requests, one run
  kept, two units of size; one script run with edits of page and agent, three
  calls, three lines on a log of two.

`CHECK_DEADLOCK FALSE` in all runs but those of `TurnLifecycle`: they stop when
their bounds are used up.

Deletion properties exclude the troubles `sweep`, `late` and `slow` (they are in
the instance for the sake of the other properties); section 6 gives the reason.

### Fairness

Weak fairness is given to the steps that the event loop drives: asyncio runs
every ready callback, and each await in those steps has a time-out or is a
database call. Nothing is assumed of users, API clients, edits, the clock, other
services or faults.

- `LoopFairness` (turns) says nothing of the agent: a model call or a tool may
  hang. `ClaimIsReleased`, `QueuedIsSettled` and `BufferedIsDrained` therefore
  are conditional on `AgentsEnd`; `StopEndsTurn` is not.
- `FairRunsSpec` of `ConversationRuns` adds that the agent ends and that the
  container starts a dead process again (`docker-compose.example.yml`, restart
  policy); `Fairness` of `Scheduler`, `DeletionFairness` and `ScriptFairness`
  likewise, and a process that is stopping does exit.
- `PromptFairness`, `DelegateFairness`, `PlanFairness`, `AgentLoopFairness`,
  `CompressionFairness`: the code's own steps and its time-outs; a model call
  ends, by its time-out if need be. `SocketFairness`: an armed timer fires.
  `McpFairness`, `ProcessFairness`: time-outs expire, a killed process ends,
  a cancelled task is resumed; a server or a command may hang for ever.
  `TurnEventsFairness`, `PublishedFairness`: the forwarder and the handlers go
  on; a client may stop reading.
- The parts of `workspace` have no liveness properties and no fairness.

## 4. Proofs

Eight modules hold theorems, for all values of the constants that satisfy the
named assumptions of the modules (`LifecycleAssumption`, `SchedulerAssumption`,
...: disjoint kinds of identifiers, limits that are naturals, finite sets where
something is counted). Each starts with its inductive invariant; a proof then has
one lemma or step per action and, under it, one step per conjunct the action can
disturb. TLC checked each inductive invariant on small instances first. A theorem
that states a property of a run names the same definition.

**`TurnLifecycleProofs`**

| Theorem | Statement | Argument |
|---|---|---|
| `TypeCorrect` | `TypeOK` | inductive by itself |
| `OneTurnAtATime`, `WorkStaysClaimed` | `AtMostOneTurn`, and `WorkIsClaimed` (who works holds the claim), which no run repeats | together inductive: every step is one of six kinds (`Ownership`); only `Takes` makes a new claimant work, and needs the claim free, when `WorkIsClaimed` says nobody works |
| `StopIsReliable`, `StopIsRemembered`, `StopStaysWithItsTurn` | `StopsAreHeard`, `StopIsNotForgotten`, `NoStaleStop` | together, with `SetMeansStopped` (while the Event is set, who holds the claim was stopped: the next turn clears it first) and `StoppedHasBegun` |
| `ClaimImplementsOwnership` | `ImplementsTurnClaim` | step simulation from the six kinds; the leaking cancellation is a `Give` |
| `DeletedStaysQuiet` | `DeletedIsQuiet` | strengthened by `OneDeleter`: the guarded UPDATE lets one request at a time own the deleted status |
| `TabsStayServed` | `TabsAreServed` | `ServedInv`: while no stream that its client may cut off has ended, `SessionInv` (who is registered stands between `register_session` and the release); while none has begun, `DrainedOnlyInDrain` (a drain list is never overwritten). A stream that has ended or begun stays so (`StreamsGoOn`) |
| `AcknowledgedIsKept`, `NothingLeftBehind` | `AckHasCustodian`, `ClaimHasHolder`, `SessionBelongsToHolder` with `Cancellable = {}` | the case of `TabsStayServed` without such streams; no run repeats it, `casts` checks the general case |

**`SchedulerProofs`** (any tasks, runs, loops, requests, editors, limits)

| Theorem | Statement | Argument |
|---|---|---|
| `SchedulerTypeCorrect` | `TypeOK` | with "a process that is not up can be started again" |
| `SettledStaysFinal`, `LaunchesStayApart` | `SettledIsFinal`; `LaunchesAreApart` | `LaunchInv`: one launcher of a task is past its check (the lock), it inserts only where no run is active, a row to be spawned is fresh, a row says what its executor does, the dead hold nothing. `QueueInv`: what runs and what has reserved a place are within the limit *together*; without the reservation the limit is not inductive, which is the hazard. `FireInv`: what was claimed lies before what is next, in rows and in what a tick has read |
| `ActiveRunsAreExecuted` | `ActiveIsExecuted` if the writes that settle runs and the sweep do not fail | with `LaunchInv` |
| `ClaimsAreRecorded` | `ClaimIsRecorded` if inserts do not fail | `RecordInv`: the count of claims is the count of launches under way and of rows |
| `EditsKeepOccurrences` | `EnabledIsAnchored`, `DueIsNotEaten`, `OnlyEnabledFires` if edits of a task do not overlap | `AnchorInv`: what the editor has loaded still stands, but for claims |
| `MissedStaysSkipped` | `MissedIsSkipped` under the same condition, if the sweep does not fail | `SweptInv`: nothing that is next lies before the last start |
| `SchedulesStayKept` | `SchedulesAreKept`, all of the above | |

That edits do not overlap (`OneEditor`) is a real condition, not a guarantee of
the code: two PATCHes at a time violate `DueIsNotEaten` and `OnlyEnabledFires` in
TLC (section 6), and the first three theorems do without it.

**`ConversationRunsProofs`** (any turns, chunks, deaths, compressions, failing writes)

| Theorem | Statement | Argument |
|---|---|---|
| `RunsTypeCorrect` | `RunsTypeOK` | `StageInv`: where `run_turn` is bounds where its agent and forwarder are, and what its row may say |
| `SettledRunsStay` | `SettledStaysSettled` | every write of a status finds `running` |
| `TroubleStaysVisible` | `TroubleIsNotCompleted` | `TroubleInv`: the outcome in hand agrees with how the agent ended |
| `NothingStaysRunning` | `NothingLeftRunning` if the writes of `finish_run` and the sweep do not fail | `RunningInv`: once the sweep has been there only the turn under way runs |
| `CompletedStaysAnswered` | `CompletedIsAnswered` if no write of a message fails | `AnswerInv`: the answer comes *after* its question, so that a compression, which deletes a prefix, never keeps the question alone |
| `TextStandsOnce`, `RunsStayTruthful` | `TextAppearsOnce`; `RunsTellTheTruth` where no compression deletes rows | `TextInv`: snapshots, buffer and history are disjoint or contained in one row (`Filed`), per turn and between turns |
| `PartialTextIsKept`, `RunsStayKept` | `PartialIsKept`; `RunsAreKept` under the same condition | with `TextInv` |

The condition `MaxCompressions = 0` is needed: with a compression `TextAppearsOnce`
is false (run `twice`). `TroubleIsNotCompleted`, the statuses and the answers are
proved beside any number of compressions.

**The others**

| Theorem | Statement | Inductive invariant |
|---|---|---|
| `ServicesProofs`: `DeletionTypeCorrect`, `WorkspacesStay`, `SlugStaysClear`, `SweepsAreComplete`, `DeletionStaysSafe` | `DeletionTypeOK`; `DeletionIsSafe` and its parts, for any projects, deletions, turns, scripts, troubles and restarts | `DeletionInv`: what each stage of `delete_project` may rely on after its commit (`StageInv`), one live row per slug (`RowInv`), the path holds no other project's files (`PlaceInv`), a turn's project is not being taken (`TurnInv`), and, where the troubles `sweep`, `late`, `slow` are absent (`Orderly`), where each file is in each stage of the sweep (`TidyInv`) |
| `ServicesProofs`: `PromptTypeCorrect`, `QuestionsStaySound` | `PromptTypeOK`; `PromptsAreSound`, for any callers, sessions, tabs and casts | `PromptInv`: a waiting caller holds the lock unless it is forced (`LockInv`), the events of a prompt are one of four short sequences (`EventInv`), a frame about to be resolved has its row or a failed write (`FrameInv`, `AnswerRowInv`) |
| `ServicesProofs`: `DelegationTypeCorrect`, `DelegationStaysContained` | `DelegateTypeOK`; `DelegationIsContained`, for any calls, turns and depth | `DelegationInv`: the number of the gate is that of the turn at work (`GateInv`), parents are agents that have worked (`TreeInv`) |
| `ServicesProofs`: `LoopTypeCorrect`, `LoopStaysSound` | `AgentLoopTypeOK`; `LoopIsSound`, for any budgets, pauses, calls, replies and Stops | `LoopInv`: which calls are open, saved and answered at each place of the loop, and that ids of messages are used up in order |
| `ServicesProofs`: `PlanTypeCorrect`, `PlansStaySound` | `PlanTypeOK`; `PlanIsSound`, for any tasks, dependencies, parallelism and Stops | `PlanInv`: the sets of `_run_task_mode` are disjoint and account for every task, nothing runs before what it depends on; that what is left over has a reason rests on the least-fixed-point reading of "depends on something that failed", with a minimal counterexample in place of an induction |
| `HistoryProofs`: `CompressionTypeCorrect`, `HistoryStaysKept` | `CompressionTypeOK`; `HistoryIsKept`, for any users and requesters | `CompressionInv`: every message is in the part a compression has summarized or in a row above its boundary (`KeepInv`), which is what survives the compressions of others; `SeqInv`, `OrderInv`, `SummaryInv`, `LedInv` |
| `HistoryProofs`: `TurnEventsTypeCorrect`, `TurnsAreStored` | `TurnEventsTypeOK`; `TurnIsStored`, for any plan, queue, messages, files and setbacks | `TurnEventsInv`: an event on its way (in the queue or the forwarder's hand) was true of the agent when it was emitted and keeps its order (`CarriedInv`); a piece of text is on its way, in the buffer or in one row, never in two of these (`TextInv`), and in one of them unless something was lost (`StoreInv`); a task's row has its outcome or the event that tells it is on its way (`PlanInv`, `OutcomeInv`). What `close` leaves of a full queue is a recursive function; that it keeps order and, if it drops nothing, whatever makes rows is `ClosingKeeps`, with a first prefix that would not (`WantedHolds`) |
| `ServicesProofs`: `ScriptTypeCorrect`, `ScriptsStayAccounted` | `ScriptTypeOK`; `ScriptsAreAccounted`, for any calls, slots, lines and boots | `ScriptInv`: call, row and executor stand together in a few ways (`RunInv`), the log is settled before the status (`LogInv`), a view has sent a prefix of whole lines (`ViewInv`) |
| `AroundTurnProofs`: `PublishedTypeCorrect`, `PublishedRunsStayApart` | `PublishedTypeOK`; `PublishedRunsAreApart`, for any requests, scopes, slots and queue | `PublishedInv`: where a request, its run and its client can stand together (`RequestInv`), the run at work holds the claim (`ClaimInv`), the last frame is on its way (`FrameInv`) |
| `AroundTurnProofs`: `ServersStayContained` | `ServersAreContained`, for any servers, redirects, calls and results | `McpInv`: a transport that is open has the task that opened it in one of a few places (`LinkInv`, `TableInv`, `AttachInv`), a call was allowed before it was sent; credentials by a lemma about one redirect (`CredentialsFollowHome`) |
| `AroundTurnProofs`: `ProcessTypeCorrect`, `CommandsStayContained` | `ProcessTypeOK`; `CommandsAreContained`, for any commands, jobs, versions and outputs | `CommandsInv`: what each stage of the set-up relies on (`StageInv`), who is alive in which stage (`AliveInv`), what a prepared package and a verified browser have in common with what is on disk (`PreparedInv`); `LedgerInv`: what was cut from an output is accounted for |
| `AroundTurnProofs`: `SocketTypeCorrect`, `TabsStayConnected`, `LiveStaysConnected` | `SocketTypeOK`; `TabStaysConnected`; `LiveIsNotEvicted`, for any conversations, cap and faults | `SocketInv`: the table is within the cap and every entry sound, that is, a backoff runs beside a socket that is down, a poll beside no socket. Every function of the composable keeps any table sound, `connect` in particular (`ConnectIsSound`), so that a kick does, which is a recursive function over the table (`TriedIsSound`, by a first prefix that would not be) |
| `BookProofs`: `SkillsStayAsConfirmed` | `SkillTypeOK`, `SkillIsAsConfirmed`, `FetchHeals`, for any tasks, operations, commits and faults | `SkillInv`: who was not crossed since his operation began knows the cache and the skill as they are (`KnownInv`); until an install is torn, what lies beside the skill is of its commit (`BundleInv`), and a lone install that mends a torn one has put nothing else there (`CopyInv`) |
| `BookProofs`: `KnowledgeStaysCurrent` | `CacheIsCurrent`, `NothingVanishes`, `BudgetIsKept`, for any agents, editors, operations, rebuilds and index faults | `KnowInv`: a cache that is not the rows has somebody about to evict it (`CacheInv`); what an uncrossed build found on the disk is there (`OfferInv`); the budget by counting what is held (`BudgetInv`) |
| `BookProofs`: `ClonesStayKept` | `GitTypeOK`, `WorkIsKept`, `CloneIsWhole`, `CommitHoldsSelection`, `OneBuild`, `GraphIsCurrent`, for any tasks, series of commands, edits and mishaps | `GitInv`: a branch only grows (by the kinds of commands, `GitDoes`), so a commit stays in one until somebody removes the tree or fails to (`CommitInv`); a tree without `.git` comes from a failed removal, a staging directory nobody works on from a clone that was cancelled or could not clean up (`TreeInv`); a builder belongs to an operation that waits for it or to the worker (`BuilderInv`); a graph that is asked for is served, or a build that is still to come will read that HEAD (`WantedInv`) |
| `BookProofs`: `MemoriesStayKept` | `SecretsAreKeptOut`, `NotesAreShared`, `NotesEnd`, `EpisodeIsOne`, `KeysStayHome`, for any writers, operations, tabs, turns and models | `MemoryInv`: a row that was checked is there and may be changed (`MemoryRowsInv`); a turn that is set up holds its conversation's list (`NotesInv`) |
| `BookProofs`: `SpecResultsStayOwn` | `OneAnchor`, `ResultIsOwn`, `StoppedIsNotPassed`, `FailuresAreNamed`, for any requests, reports and endings | `SpecInv`: until two first requests overlap one of them makes the anchor (`OneAnchorInv`), a directory holds its own run's files or none (`FilesInv`), a result read from a report counts what the run reported (`ResultInv`), with a lemma about the count over outcomes (`CountedOnce`) |
| `BookProofs`: `ScriptToolsStaySound` | `EditsAreKept`, `CallsAreDeclared`, `ContextIsShared`, `NothingOutlivesScript`, `LogIsMasked`, for any edits, calls, endings and output | `ToolInv`: the row is what was accepted, what the agent has not saved is one edit (`EditsInv`); which bridge and leftovers go with which step of a run (`StageInv`); open calls are declared (`CallsInv`); what was printed is masked (`OutInv`) |
| `WorkspaceProofs`: `RemoteCallsStaySound` | `SentAsAgreed`, `TypedIsUsed`, `OneRowIsLeft`, `RequestIsWhole`, `RepliesAreMasked`, for any calls, stored rows, keys that repeat, changes by the page and replies | `RemoteInv`: which tool is at which step and what was agreed there (`GateInv`); a save that found rows has all of its tag locked, one that found none is alone with that tag (`LocksHold`), so that one row is left (`StoredIsOne`); the dialog is about the place that is looked at (`LookInv`); what was typed is the first thing a lookup finds (`LookupFinds`), and what the page changed before that is found again under the same key, so that no second dialog hides it (`FoundAgain`) |
| `WorkspaceProofs`: `BooksStayKept` | `BooksAreKept`: the seven above beside each other in the run `workspace` | their conjunction: a step of one part leaves the variables of the others alone (`PartsMove`) |

Conditions that are part of these properties, because the code does not do more:
`SweepIsComplete` speaks of orderly behaviours; `HeardIsRecorded` promises a row where
no write of one fails (`agent_turn.py:3210-3267` is best-effort and `handlers.py:357-371`
resolves the prompt regardless), and that it is the user's answer where he has one tab
(with two, which may answer differently, the row may show the other one's);
`WorkIsKept` and `CloneIsWhole` exempt what somebody removed or failed to remove;
`SkillIsAsConfirmed` speaks of skills that are not `torn` and lets files be missing;
`ActiveRowHasRunner` of reliable
commits; `SummariesDoNotRepeat` of one user; `NothingIsForgotten` of summaries that
are not empty (section 6).

Attempts that failed first and what they taught: `QueueKeepsLimit` is not
inductive without the places reserved under the lock; `NothingIsForgotten` needs
the rows below another user's boundary accounted for; `HeardIsRecorded` was false
with two tabs, and again once the write of the row could fail; `RunsAreKept` was false after
a compression, `SchedulesAreKept` with two editors. `CopyInv` is new with installs
from damaged clones: that a second install mends a torn one needs to know that
nothing but its own copies lies there. `GraphIsCurrent` was not inductive as long as a graph counted as
asked for after HEAD had moved away and back: a build could have read the HEAD in
between. It now speaks of a HEAD that stayed since. `NothingVanishes` asked how a
save of the editor finds neither row nor file: the code answers 404
(`knowledge.py:631`), which the model had left out. The properties above are stated
accordingly.

## 5. What is only model-checked, and what is not modelled

Only model-checked:

- every liveness property (`ClaimIsReleased`, `QueuedIsSettled`, `StopEndsTurn`,
  `RunIsSettled`, `EverythingEnds`, `ToolsEnd`): they need fairness and `ENABLED`,
  which are beyond these provers;
- `FireTimesAreRight` (`CronIsRight`): it says what a search over days, hours and
  minutes computes, with division and remainders by constants, which the SMT
  solver does not decide;
- `ServicesTypeOK`, `ToolsTypeOK`: the types of their parts are proved (above) except
  those of `CronTimes` and of `McpConnections`, whose conversion of results is a fold
  over a sequence: what it yields for every input is an induction over data, which
  the provers cannot instantiate. `ServersAreContained` does not need it;
- `RequestsAreSound` and `WorkspaceTypeOK` of `workspace`. `RequestMessages` and
  `ReplyStreams` are pipelines of folds over sequences, so that what they compute is
  an induction again; so are the retention, the gallery
  (`SpecRuns`) and the order of a recall (`Memories`). `IndexFollowsFiles` and
  `ListFollowsFiles` hold for the loads of the instance and not for all: a save that
  began before a file was deleted writes it again, and its parent does not list it.

Left out of the modules:

- `TurnLifecycle`: the content of prompts and events, the semaphore and the queue
  of a published stream (`PublishedStreams`), nested turns (`Delegation`), prompt
  answers (`SessionPrompts`).
- `ConversationRuns`: the 50 000-character cap of a snapshot, media rows, token
  counts. Two compressions at a time are in `Compression`, without crashes.
- `TurnEvents`: the wording of rows, the websocket side of each event.
- `Scheduler`: `last_run_at` and `last_status`, the batch of 20 rows per tick
  (one tick reads all due tasks), the distinct slots of scripts and agents, the
  branch for a cron expression that no longer parses, inactive projects, the
  bodies of the targets. `CronTimes`: the parsing of the text; zones whose skipped
  hour ends a day (`CronAssumption`).
- `ProjectDeletion`: ownership, child projects and links (a refusal).
- `SessionPrompts`: secrets and sign-in prompts, several questions of one caller; a
  broadcast that fails after the row is written (the row comes with the next load).
- `AgentLoop`, `TaskPlan`: the routing of models, the prompt.
- `RequestMessages`, `ReplyStreams`: token estimates, parameters of requests,
  clients and their pools.
- `WorkspaceProcesses`: the checks of file and network access in a subprocess.
- `McpConnections`: the rows of servers and their requests. `ClientSockets`: the
  presentation of events. `PublishedStreams`: viewer tokens, attachments.
- `GitRepos`, `SkillSources`, `KnowledgeBase`: parsing of source code and
  Markdown, scoring, imports of documents; of a clone, more than two branches. Git
  finds no repository in a clone whose `.git` is gone (one above it, if the workspace
  were in one, is left out). The thread of a cancelled install or clean-up ends its
  work at the cancellation, not at a later step, except the writing of a graph.
- `RemoteCalls`: encryption, retries of the transport. `Memories`: listing,
  ownership. `SpecRuns`, `ScriptTools`: what a script does in its sandbox.

Not modelled at all: CRUD routers (one transaction over independent rows), the
declarations of database models and migrations, login sessions and encryption,
the sandbox's audit hooks (a decision function), the browser, file, web-search
and e-mail tools and the clients of issue trackers and code hosts (one external
call each), and the views of the web client. `PROJECT.json` gives the reason for
each.

## 6. Findings

1. `BufferedIsDrained` (run `buffered`): a message that arrives while
   `deliver_result` holds the claim, or after a turn's `deregister_session`, is
   buffered for a session that will never be registered. It waits until
   somebody starts another turn.
2. `ClaimIsReleased` (run `leak`): a cancellation that lands at the
   `finish_run` await of the `finally` clause skips `deregister_session` and
   `release_turn`; the conversation stays claimed until the process restarts.
3. `RaisedIsNotCompleted` (run `raised`): an agent that raises emits a fallback
   `stream_end` first; the forwarder settles the run as completed before
   `run_turn` learns of the exception.
4. `TextAppearsOnce` (run `twice`): if the process dies between the commit of
   the answer and that of the run's status, and a compression has deleted the
   question that anchors the duplicate check, the recovery adds the text again.
5. `NoTaskOutlivesPlan` (run `orphan`): a Stop cancels the tasks that `gather()`
   was given; those dispatched since then work on after task mode has raised,
   with a `ToolContext` that is being cleaned up.

Observations that have no run. The properties of the modules are stated so that
they hold around them; each was met while modelling.

Turns, runs and schedules:

- What is left in the claim-window buffer by (1) is discarded by the next turn
  if that one dies before it registers (`agent_turn.py:1861`).
- A cancellation in the drain loop loses acknowledged messages: `AckHasCustodian`
  is checked and proved without outside cancellation.
- An answer whose insert fails still ends in a completed run (`CompletedIsAnswered`
  is checked without failing inserts).
- Snapshots left over by several interrupted runs are recovered once, but the
  text of an old turn then stands after that of a newer one.
- Two overlapping PATCHes of one schedule each write the columns that differ
  from what they loaded, and can leave an enabled schedule without a fire time.
- A schedule that is switched off between the claim of an occurrence and
  `spawn_run` runs once more.
- When the write that settles a run fails, or the start-up sweep does, the
  schedule is busy until the next start.
- `cron.py`: in zones whose skipped hour ends a day (America/Nuuk) an occurrence
  is missed, which the docstring (17-20) excludes; the horizon of four years
  misses 29 February around 2100.
- `session.close()` on a full queue drops `task_plan_created`, `task_started` and
  `agentic_loop_completed`, although its comment counts all but the kept kinds as
  "UI-only"; if the whole queue is of kept kinds, the oldest piece of text is
  lost. A failed insert at `stream_end` leaves the buffers, so its text is stored
  under the next message. Deferred task rows stay pending after the turn.

Deletion, prompts, plans, delegation, loop, compression:

- A script run authorized before a project is closed and inserted after the check
  is missed, and its `mkdir(parents=True)` makes the path again, which blocks the
  undo; a late initialisation of the file system does the same. A crash between
  the commit of a new project and its `mkdir` leaves an active project without a
  workspace. A failing `_job_error` commit leaves the project closed until the
  next start; a failed purge is retried by the start-up sweep only.
- The comments of `scheduled_runs.py` (400-403, 481-483) that no start-up sweep
  settles script runs are out of date (`scripts.py:68`, `main.py:202`).
- An answer in the loop step of the time-out or abort is recorded though the
  agent hears otherwise; two tabs may answer differently. A replay between the
  broadcast and the resolution of a prompt leaves a dialog that bounces. An answer
  whose row cannot be written is heard by the agent and is in no transcript.
- A deferred and then aborted plan leaves rows pending; a cancelled task in flight
  emits no terminal event.
- `plan_task` is available at depth 1, so a delegated agent can run parallel tasks
  that delegate at depth 2 without the gate: two nested turns at once.
  `gate.acquire()` stands before the `try`, so a cancellation there emits
  `delegate_started` without `delegate_finished`.
- Two `plan_task` calls in one reply: the requests of the first plan's tasks
  contain the unanswered second call, contrary to `agent.py:1731-1733`. A
  `pause_turn` beyond the maximum with tool calls and an injection leaves
  unanswered calls, too. A cancellation during `_await_persist` emits a second
  `stream_end` for the same id.
- An empty summary still deletes the early rows (`compression.py`, about 501);
  "no duplicated summary pairs" (`conversations.py`, about 475) fails for two
  users.

Requests and replies:

- `_degrade_request` runs in every iteration of the loop (its docstring: "Runs
  once at the top of a turn"), so that in the middle of a turn it can summarize
  the current instruction away. The limit of 200 rows may make a history start
  with an assistant message.
- A gateway stream that breaks off before `message_delta` ends as a normal
  completion. A gateway that answers 404 everywhere after it rejected thinking is
  asked five times. For Gemini, TOOL_USE masks MAX_TOKENS, and a continuation
  without a common key goes to the most recent call.

Published streams and the web client:

- A client that vanishes when its own run is over and the next stream of the
  thread has the claim stops that run. A response that is lost before its
  generator is first iterated is never cancelled: a hanging agent keeps slot and
  claim. A dropped terminal frame ends a stream with neither end nor error. Keys
  are checked before the wait of up to 10 s for a slot, not after it.
- `onerror` on an open socket leaves the stability timer armed, which can reset
  the retry ladder in the middle of a back-off (contrary to the comments at
  `useWebSocket.ts:30-36, 345-352, 409-411`). More idle conversations than slots
  make parked ones evict one another every 5 s. Entries refused for good count as
  sockets and can starve the conversation on display (contrary to 146-148). A
  reconnect between `stream_end` and its commit misses the answer until the next
  reload.

Commands, MCP, scripts, specs:

- `terminate_process_tree` (`sandbox.py:45-60`) asks for the group of a shell that
  may have been reaped while a background child holds its pipes; then it raises
  and the child survives, contrary to its docstring. A Stop while `node_modules`
  is removed leaves the removing thread running under the next command's install.
  `dest.stat()` after a move (`code_executor.py`, about 470) reports a delivered
  file as an error.
- A turn cancelled in the very step between the return of `attach_mcp_tools` and
  the agent task's first step never cleans up its transports. A second
  cancellation during the cleanup skips the rest of it. After a drop of an `auto`
  connection the dead session stays current while SSE is tried.
- The truncation marker of `drain_stream` is appended after `LOG_CAP` characters
  and `persist_run_log` cuts at `LOG_CAP`: it is never stored, although the
  comment (`runner.py`, about 190) wants truncation never silent. A line longer
  than the stream limit ends the reader; a child that keeps printing stalls until
  its time-out. An agent's `run` reads the script before it waits for the slot, so
  declarations revoked meanwhile are used (the page reads them under the slot). A
  cancellation while the bridge starts or closes leaves its context, or the run
  directory and a `running` row. Secrets are masked line by line: a value of
  several lines, or of less than six characters, passes.
- Script runs: cancelled callers on a commit that took effect leave a pending row;
  a failing terminal commit strands the row until the next start; one failed flush
  turns a successful run into a failed one.
- Two overlapping first spec runs make two anchors; a run below the later one is
  not in the history of specs (`list_playwright_spec_runs` reads the earliest
  anchor only). Runs ended by `fail()` or by shutdown do not trim older ones
  (contrary to `script_artifacts.py:36-39`), and trimming may remove the directory
  of a run in progress. A spec run in several browser projects shows the outcome
  of the last one. A passing report with a non-zero exit shows "passed" in a failed
  run.

Project files, credentials, memories:

- `KnowledgeCache.get_or_load` stores rows fetched before an `invalidate` that ran
  meanwhile; the cache is stale until the next write. Overlapping writes of one
  slug can leave the row with the older text. PUT of a parent loses a child synced
  since its read; a child written again without `parent` stays on the old list;
  PUT files the old body under the new version, contrary to `reindex_one`
  (744-747).
- Two tasks committing in one clone can mix staged files. If HEAD moves away and
  back while a graph is built, the graph carries the head's sha with another
  tree's content. A build cancelled while its thread writes may overwrite a newer
  graph. A cancelled clone leaves its staging directory, and so does one that cannot
  clean up. A removal that fails has deleted the graph already and leaves a tree in
  part, without a note for the next task; without its `.git` later clones are refused.
- A skill's install names the commit read before the dialog, and copies the text
  read after it; one installed meanwhile is replaced unannounced, and the files of
  the two bundles mix. A clone that was killed halfway is taken for a clone: `.git` and
  `SKILL.md` are enough, and the text of the skill says that its package was copied as
  it is (`skill_source.py:823`) although files may be missing.
- `body_field` credentials with GET or HEAD are put into a body that is not sent.
  A tab's save that loses the insert race to the settings page reports failure
  although the credential is stored.
- A socket that leaves between `deregister_session` and `release_turn` leaves the
  abort Event and the notes behind until the next disconnect, contrary to the
  docstring of `manager.disconnect`. The guard against partial episodes
  (`handlers.py:468-478`) looks at the disconnect only: a turn begun by another
  tab before the background task reads is summed up half way. Session notes fill
  the limit of a recall first and crowd out personal rows.

## 7. Plan

Done: who may work on a conversation and what happens to what the user sent
(`TurnLifecycle`); what is recorded of it (`ConversationRuns`); what runs without a
user (`Scheduler`, `ScriptRuns`); deletion of projects, prompts, delegation and
compression; the loop, the plan, the events of a turn, published streams, MCP
servers, commands, the sockets of a tab; what a project keeps (skills, knowledge,
clones, API calls, memories, spec runs, scripts): all checked and proved. Next, in this order:

1. Proofs about `SpecRuns` (`RetentionHolds`) and `Memories` (`RecallIsRight`).
2. An abstract run of work (queued, running, settled once, survives a restart)
   that `Scheduler`, `ScriptRuns` and `ConversationRuns` implement.
3. Further modules: the browser tool's pages, login sessions with their renewal,
   the file tools beside a running command.
