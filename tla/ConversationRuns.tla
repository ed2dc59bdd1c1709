--------------------------- MODULE ConversationRuns ---------------------------
(***************************************************************************)
(* The durable record of the turns of one conversation: the rows of        *)
(* conversation_runs (services/conversation_runs.py), the forwarder of     *)
(* run_turn that streams text, snapshots and persists it, the writers of   *)
(* a run's final status (services/agent_turn.py), the start-up sweep that  *)
(* recovers what a dead process left (main.py) and the compression that    *)
(* deletes old rows of the history (services/compression.py).              *)
(*                                                                         *)
(* The turn claim makes the turns of a conversation follow each other      *)
(* (module TurnLifecycle); here they are numbered.  Text is a set of       *)
(* chunks, numbered as the model produces them: a buffer holds consecutive *)
(* chunks of one turn, so "is a substring of" is the subset relation.      *)
(***************************************************************************)
EXTENDS Naturals, Sequences, FiniteSetsExt

CONSTANTS
  MaxTurns,         \* bound: turns of the conversation
  MaxChunks,        \* bound: chunks of text in all turns together
  MaxCrashes,       \* bound: deaths of the process
  MaxCompressions,  \* bound: compressions of the history
  RecentKeep,       \* RECENT_TURNS_KEEP
  RunFaults         \* database writes that may fail

Turns == 1..MaxTurns
Chunks == 1..MaxChunks
Terminal == {"completed", "failed", "interrupted"}

ASSUME RunsAssumption ==
  /\ MaxTurns \in Nat /\ MaxChunks \in Nat /\ MaxCrashes \in Nat
  /\ MaxCompressions \in Nat /\ RecentKeep \in Nat \ {0}
  /\ RunFaults \subseteq {"create", "persist", "finish", "sweep"}

VARIABLES
  \* the database
  history,   \* rows of the conversation's messages, by sequence number
  status,    \* status of each turn's run; "none" before or without a row
  snapshot,  \* streaming_snapshot of each run; {} is NULL
  \* the process
  server,    \* serving, down, or a stage of the start-up sweep
  older,     \* runs the sweep read besides the one it recovers
  cut,       \* boundary of the compression under way, or 0
  \* the current turn
  turn,      \* its number
  main,      \* where run_turn is
  agent,     \* where the agent task is
  cause,     \* how each turn's agent ended
  exit,      \* how its task ended, as run_turn sees it
  aborted,   \* session.is_aborted
  forward,   \* where the forwarder is
  buf,       \* _text_buf
  intended,  \* _terminal_status
  \* bounds
  said, crashes, compressions

recordVars == <<history, status, snapshot>>
serverVars == <<server, older, cut, crashes, compressions>>
agentVars == <<agent, cause, exit, aborted>>
forwardVars == <<forward, buf, intended, said>>
runsVars == <<recordVars, serverVars, turn, main, agentVars, forwardVars>>

Causes == {"done", "error", "stopped", "cancelled", "raised"}
UserRow(t) == [role |-> "user", turn |-> t, flag |-> "plain", text |-> {}]
AssistantRow(t, flag, text) ==
  [role |-> "assistant", turn |-> t, flag |-> flag, text |-> text]
Rows == [role : {"user", "assistant"}, turn : 0..MaxTurns,
         flag : {"plain", "interrupted", "error"}, text : SUBSET Chunks]

\* Types; a compression never removes the last row it has read.
RunsTypeOK ==
  /\ history \in Seq(Rows)
  /\ status \in [Turns -> {"none", "running"} \cup Terminal]
  /\ snapshot \in [Turns -> SUBSET Chunks]
  /\ server \in {"serving", "down", "flip", "recover", "clear"}
  /\ older \subseteq Turns
  /\ cut = 0 \/ cut \in 1..(Len(history) - 1)
  /\ turn \in 0..MaxTurns
  /\ main \in {"idle", "record", "setup", "await", "attribute", "drain", "tail",
               "caught", "net"}
  /\ agent \in {"none", "running", "ending", "ended"}
  /\ cause \in [Turns -> Causes \cup {"none"}]
  /\ exit \in {"ok", "raised", "cancelled", "aborted"}
  /\ aborted \in BOOLEAN
  /\ forward \in {"none", "streaming", "freeze", "persist", "finish", "over"}
  /\ buf \subseteq Chunks /\ intended \in Terminal \cup {"none"}
  /\ said \in 0..MaxChunks /\ crashes \in 0..MaxCrashes
  /\ compressions \in 0..MaxCompressions

RunsInit ==
  /\ history = <<>> /\ status = [t \in Turns |-> "none"] /\ snapshot = [t \in Turns |-> {}]
  /\ server = "serving" /\ older = {} /\ cut = 0
  /\ turn = 0 /\ main = "idle"
  /\ agent = "none" /\ cause = [t \in Turns |-> "none"] /\ exit = "ok" /\ aborted = FALSE
  /\ forward = "none" /\ buf = {} /\ intended = "none"
  /\ said = 0 /\ crashes = 0 /\ compressions = 0

-----------------------------------------------------------------------------
(* Writes to the run row.                                                  *)

\* finish_run: only a running row changes; the snapshot goes when `clear`
\* (replace_snapshot) says that the text is in the history.
FinishRun(st, clear) ==
  IF status[turn] = "running"
    THEN /\ status' = [status EXCEPT ![turn] = st]
         /\ snapshot' = IF clear THEN [snapshot EXCEPT ![turn] = {}] ELSE snapshot
    ELSE UNCHANGED <<status, snapshot>>

\* Every caller of finish_run logs a failing write and goes on.
TryFinish(st, clear) ==
  \/ FinishRun(st, clear)
  \/ "finish" \in RunFaults /\ UNCHANGED <<status, snapshot>>

-----------------------------------------------------------------------------
(* run_turn up to the start of the agent.                                  *)

Serving == server = "serving"

\* The user message is persisted before anything runs.
BeginTurn ==
  /\ Serving /\ main = "idle" /\ turn < MaxTurns
  /\ turn' = turn + 1
  /\ history' = Append(history, UserRow(turn + 1))
  /\ main' = "record"
  /\ UNCHANGED <<status, snapshot, serverVars, agentVars, forwardVars>>

\* create_run; without a row the turn goes on unrecorded.
CreateRun ==
  /\ Serving /\ main = "record" /\ main' = "setup"
  /\ \/ status' = [status EXCEPT ![turn] = "running"]
     \/ "create" \in RunFaults /\ UNCHANGED status
  /\ UNCHANGED <<history, snapshot, serverVars, turn, agentVars, forwardVars>>

StartAgent ==
  /\ Serving /\ main = "setup" /\ main' = "await"
  /\ agent' = "running" /\ forward' = "streaming"
  /\ UNCHANGED <<recordVars, serverVars, turn, cause, exit, aborted, buf, intended, said>>

-----------------------------------------------------------------------------
(* The agent.  Each way to end emits the final stream_end first and then   *)
(* cleans up, which takes a while ("ending").                              *)

\* The agent stops for reason c and its task ends as e.
EndWith(c, e) ==
  /\ agent' = "ending" /\ exit' = e
  /\ cause' = [cause EXCEPT ![turn] = c]

\* The loop ends by itself, with an answer or with a reported error.
AgentFinishes ==
  /\ Serving /\ agent = "running"
  /\ \E c \in {"done", "error"} : EndWith(c, "ok")
  /\ UNCHANGED <<recordVars, serverVars, turn, main, aborted, forwardVars>>

\* The watcher aborts the session and cancels the agent; the agent may also
\* abort itself, when its events are not taken, and end by itself.
AgentStopped ==
  /\ Serving /\ agent = "running" /\ aborted' = TRUE
  /\ \E e \in {"cancelled", "ok"} : EndWith("stopped", e)
  /\ UNCHANGED <<recordVars, serverVars, turn, main, forwardVars>>

\* The task is cancelled without an abort, or an exception leaves the loop.
AgentBreaks ==
  /\ Serving /\ agent = "running"
  /\ \E e \in {"cancelled", "raised"} : EndWith(e, e)
  /\ UNCHANGED <<recordVars, serverVars, turn, main, aborted, forwardVars>>

\* The same after the final stream_end: only run_turn notices.
CleanupBreaks ==
  /\ Serving /\ agent = "ending"
  /\ \/ exit' \in {"cancelled", "raised"} /\ UNCHANGED aborted
     \/ exit' = "cancelled" /\ aborted' = TRUE
  /\ UNCHANGED <<recordVars, serverVars, turn, main, agent, cause, forwardVars>>

\* A Stop after the agent's end, while the watcher still exists.
LateStop ==
  /\ Serving /\ agent = "ended" /\ ~aborted /\ aborted' = TRUE
  /\ UNCHANGED <<recordVars, serverVars, turn, main, agent, cause, exit, forwardVars>>

AgentReturns ==
  /\ Serving /\ agent = "ending" /\ agent' = "ended"
  /\ UNCHANGED <<recordVars, serverVars, turn, main, cause, exit, aborted, forwardVars>>

-----------------------------------------------------------------------------
(* forward_events.                                                         *)

\* A stream_delta; the buffer is written to the run row every five seconds.
Delta ==
  /\ Serving /\ forward = "streaming" /\ said < MaxChunks
  /\ said' = said + 1 /\ buf' = buf \cup {said + 1}
  /\ \/ UNCHANGED snapshot
     \/ /\ status[turn] = "running"
        /\ snapshot' = [snapshot EXCEPT ![turn] = buf']
  /\ UNCHANGED <<history, status, serverVars, turn, main, agentVars, forward, intended>>

\* The stream_end of an injection: the partial output becomes a row, the run
\* goes on.
Boundary ==
  /\ Serving /\ forward = "streaming" /\ buf # {}
  /\ forward' = "freeze"
  /\ UNCHANGED <<recordVars, serverVars, turn, main, agentVars, buf, intended, said>>

\* A failed persist leaves the buffer: the next stream_end has all the text.
PersistFrozen ==
  /\ Serving /\ forward = "freeze" /\ forward' = "streaming"
  /\ \/ history' = Append(history, AssistantRow(turn, "interrupted", buf)) /\ buf' = {}
     \/ "persist" \in RunFaults /\ UNCHANGED <<history, buf>>
  /\ UNCHANGED <<status, snapshot, serverVars, turn, main, agentVars, intended, said>>

\* Variant: the stream_end of a stopped agent carries no stop_reason.
OutcomeWithoutReason ==
  IF cause[turn] = "error" \/ buf = {} THEN "failed" ELSE "completed"

\* How the final stream_end classifies the turn.
Outcome ==
  IF cause[turn] = "stopped" THEN "interrupted"
  ELSE IF cause[turn] = "error" \/ buf = {} THEN "failed" ELSE "completed"

\* The final stream_end: a turn without text has a row only if it failed.
StreamEnd ==
  /\ Serving /\ forward = "streaming" /\ agent \in {"ending", "ended"}
  /\ intended' = IF status[turn] = "none" THEN "none" ELSE Outcome
  /\ forward' = IF buf # {} \/ Outcome = "failed" THEN "persist" ELSE "finish"
  /\ UNCHANGED <<recordVars, serverVars, turn, main, agentVars, buf, said>>

FinalRow ==
  LET flag == [interrupted |-> "interrupted", failed |-> "error", completed |-> "plain"]
  IN AssistantRow(turn, flag[Outcome], buf)

\* Variant: the run is settled although the persist failed or never happened.
PersistSkipped ==
  /\ Serving /\ forward = "persist" /\ forward' = "finish"
  /\ UNCHANGED <<recordVars, serverVars, turn, main, agentVars, buf, intended, said>>

\* A failed persist skips finish_run.
Persist ==
  /\ Serving /\ forward = "persist"
  /\ \/ history' = Append(history, FinalRow) /\ forward' = "finish"
     \/ "persist" \in RunFaults /\ forward' = "over" /\ UNCHANGED history
  /\ UNCHANGED <<status, snapshot, serverVars, turn, main, agentVars, buf, intended, said>>

Finish ==
  /\ Serving /\ forward = "finish" /\ forward' = "over" /\ buf' = {}
  /\ TryFinish(intended, TRUE)
  /\ UNCHANGED <<history, serverVars, turn, main, agentVars, intended, said>>

\* run_turn gives up on the forwarder.  A persist is shielded and completes;
\* of the write of the final status nobody knows.
CancelForward ==
  /\ Serving /\ main \in {"drain", "caught"} /\ forward \notin {"none", "over"}
  /\ forward' = "over"
  /\ \/ forward = "streaming" /\ UNCHANGED recordVars
     \/ /\ forward = "freeze"
        /\ history' = Append(history, AssistantRow(turn, "interrupted", buf))
        /\ UNCHANGED <<status, snapshot>>
     \/ /\ forward = "persist" /\ history' = Append(history, FinalRow)
        /\ UNCHANGED <<status, snapshot>>
     \/ "persist" \in RunFaults /\ forward \in {"freeze", "persist"} /\ UNCHANGED recordVars
     \/ forward = "finish" /\ FinishRun(intended, TRUE) /\ UNCHANGED history
     \/ forward = "finish" /\ UNCHANGED recordVars
  /\ UNCHANGED <<serverVars, turn, main, agentVars, buf, intended, said>>

-----------------------------------------------------------------------------
(* run_turn from the end of the agent.                                     *)

\* The agent's task is over: a cancellation with an abort is a Stop.
AwaitAgent ==
  /\ Serving /\ main = "await" /\ agent = "ended"
  /\ exit' = IF exit = "cancelled" /\ aborted THEN "aborted" ELSE exit
  /\ main' = IF exit' \in {"cancelled", "raised"} THEN "attribute" ELSE "drain"
  /\ UNCHANGED <<recordVars, serverVars, turn, agent, cause, aborted, forwardVars>>

\* An unexplained end of the agent settles the run before the drain.
Attribute ==
  /\ Serving /\ main = "attribute" /\ main' = "drain"
  /\ TryFinish(IF exit = "raised" THEN "failed" ELSE "interrupted", FALSE)
  /\ UNCHANGED <<history, serverVars, turn, agentVars, forwardVars>>

Drained ==
  /\ Serving /\ main = "drain" /\ forward = "over" /\ main' = "tail"
  /\ UNCHANGED <<recordVars, serverVars, turn, agentVars, forwardVars>>

\* The tail of a stopped turn settles the run unless stream_end did.
SettleStopped ==
  /\ Serving /\ main = "tail" /\ main' = "net"
  /\ IF exit = "aborted" THEN TryFinish("interrupted", FALSE) ELSE UNCHANGED <<status, snapshot>>
  /\ UNCHANGED <<history, serverVars, turn, agentVars, forwardVars>>

\* An exception, or a cancellation of run_turn, outside the agent.
Raise ==
  /\ Serving /\ main \in {"setup", "drain", "tail"} /\ main' = "caught"
  /\ UNCHANGED <<recordVars, serverVars, turn, agentVars, forwardVars>>

\* The outer except clause, once the forwarder is over.
Caught ==
  /\ Serving /\ main = "caught" /\ forward \in {"none", "over"} /\ main' = "net"
  /\ \E st \in {"interrupted", "failed"} : TryFinish(st, FALSE)
  /\ UNCHANGED <<history, serverVars, turn, agentVars, forwardVars>>

ForgetTurn ==
  /\ main' = "idle" /\ agent' = "none" /\ exit' = "ok" /\ aborted' = FALSE
  /\ forward' = "none" /\ buf' = {} /\ intended' = "none"

\* Variant: the safety net is missing.
SafetyNetMissing ==
  /\ Serving /\ main = "net" /\ ForgetTurn
  /\ UNCHANGED <<recordVars, serverVars, turn, cause, said>>

\* The finally clause replays the known status, or finds the best one.
SafetyNet ==
  /\ Serving /\ main = "net" /\ ForgetTurn
  /\ TryFinish(IF intended # "none" THEN intended
               ELSE IF aborted THEN "interrupted" ELSE "failed", FALSE)
  /\ UNCHANGED <<history, serverVars, turn, cause, said>>

-----------------------------------------------------------------------------
(* Death and start-up (main.py: the sweep runs before the server serves).  *)

Crash ==
  /\ server # "down" /\ crashes < MaxCrashes
  /\ server' = "down" /\ crashes' = crashes + 1 /\ older' = {} /\ cut' = 0
  /\ ForgetTurn
  /\ UNCHANGED <<recordVars, compressions, turn, cause, said>>

Restart ==
  /\ server = "down" /\ server' = "flip"
  /\ UNCHANGED <<recordVars, older, cut, crashes, compressions, turn, main, agentVars, forwardVars>>

\* Variant: the sweep leaves running rows alone.
FlipSkipped ==
  /\ server = "flip" /\ server' = "recover"
  /\ UNCHANGED <<recordVars, older, cut, crashes, compressions, turn, main, agentVars, forwardVars>>

\* interrupt_stale_runs
Flip ==
  /\ server = "flip" /\ server' = "recover"
  /\ \/ status' = [t \in Turns |-> IF status[t] = "running" THEN "interrupted" ELSE status[t]]
     \/ "sweep" \in RunFaults /\ UNCHANGED status
  /\ UNCHANGED <<history, snapshot, older, cut, crashes, compressions, turn, main, agentVars,
                 forwardVars>>

Recoverable == {t \in Turns : status[t] = "interrupted" /\ snapshot[t] # {}}

\* Variant: any answer after the user's message counts, a frozen one included.
AnyRowLanded(t) ==
  \E i, j \in DOMAIN history :
    /\ i < j /\ history[i] = UserRow(t) /\ history[j].role = "assistant"

\* The output of t's run is in the history: after t's user message there is an
\* answer that was not cut short, or one that contains the snapshot.
Landed(t) ==
  \E i, j \in DOMAIN history :
    /\ i < j /\ history[i] = UserRow(t) /\ history[j].role = "assistant"
    /\ history[j].flag # "interrupted" \/ snapshot[t] \subseteq history[j].text

\* materialize_interrupted_snapshots: the newest run with a snapshot, in one
\* transaction; a failure is rolled back.
Recover ==
  /\ server = "recover"
  /\ IF Recoverable = {}
       THEN server' = "serving" /\ UNCHANGED <<history, snapshot, older>>
       ELSE LET t == Max(Recoverable) IN
            /\ server' = "clear" /\ older' = Recoverable \ {t}
            /\ \/ /\ snapshot' = [snapshot EXCEPT ![t] = {}]
                  /\ history' = IF Landed(t) THEN history
                                ELSE Append(history, AssistantRow(t, "interrupted", snapshot[t]))
               \/ "sweep" \in RunFaults /\ UNCHANGED <<history, snapshot>>
  /\ UNCHANGED <<status, cut, crashes, compressions, turn, main, agentVars, forwardVars>>

\* The snapshots of the other runs are cleared in a transaction of their own.
ClearOlder ==
  /\ server = "clear" /\ server' = "serving" /\ older' = {}
  /\ \/ snapshot' = [t \in Turns |-> IF t \in older THEN {} ELSE snapshot[t]]
     \/ "sweep" \in RunFaults /\ UNCHANGED snapshot
  /\ UNCHANGED <<history, status, cut, crashes, compressions, turn, main, agentVars, forwardVars>>

-----------------------------------------------------------------------------
(* Compression, started while no turn runs.  The boundary is read before   *)
(* the summary is written, which takes minutes.                            *)

\* Variant: the boundary may be the last row.
StartCompressionWhole ==
  /\ Serving /\ main = "idle" /\ cut = 0 /\ compressions < MaxCompressions
  /\ Len(history) > RecentKeep
  /\ cut' \in 1..Len(history) /\ compressions' = compressions + 1
  /\ UNCHANGED <<recordVars, server, older, crashes, turn, main, agentVars, forwardVars>>

\* A row with tool calls counts for several messages, so between one row and
\* RecentKeep of them are kept.
StartCompression ==
  /\ Serving /\ main = "idle" /\ cut = 0 /\ compressions < MaxCompressions
  /\ Len(history) > RecentKeep
  /\ cut' \in (Len(history) - RecentKeep)..(Len(history) - 1)
  /\ compressions' = compressions + 1
  /\ UNCHANGED <<recordVars, server, older, crashes, turn, main, agentVars, forwardVars>>

SummaryPair == <<UserRow(0), AssistantRow(0, "plain", {})>>

\* The rows up to the boundary go, the summary comes first.
CommitCompression ==
  /\ Serving /\ cut # 0 /\ cut' = 0
  /\ history' = SummaryPair \o SubSeq(history, cut + 1, Len(history))
  /\ UNCHANGED <<status, snapshot, server, older, crashes, compressions, turn, main, agentVars,
                 forwardVars>>

\* The model call fails: nothing is deleted.
GiveUpCompression ==
  /\ Serving /\ cut # 0 /\ cut' = 0
  /\ UNCHANGED <<recordVars, server, older, crashes, compressions, turn, main, agentVars, forwardVars>>

-----------------------------------------------------------------------------
TurnStep ==
  \/ CreateRun \/ StartAgent \/ AwaitAgent \/ Attribute \/ Drained \/ SettleStopped
  \/ Caught \/ SafetyNet
ForwardStep == StreamEnd \/ PersistFrozen \/ Persist \/ Finish
AgentStep == AgentFinishes \/ AgentReturns
SweepStep == Restart \/ Flip \/ Recover \/ ClearOlder

RunsNext ==
  \/ BeginTurn \/ TurnStep \/ Raise
  \/ AgentStep \/ AgentStopped \/ AgentBreaks \/ CleanupBreaks \/ LateStop
  \/ ForwardStep \/ Delta \/ Boundary \/ CancelForward
  \/ Crash \/ SweepStep
  \/ StartCompression \/ CommitCompression \/ GiveUpCompression

RunsSpec == RunsInit /\ [][RunsNext]_runsVars

\* The event loop runs what is ready; the agent ends (a model call has a
\* time-out); the process is restarted when it dies (docker-compose).
RunsFairness == WF_runsVars(TurnStep) /\ WF_runsVars(ForwardStep) /\ WF_runsVars(AgentStep) /\ WF_runsVars(SweepStep)
FairRunsSpec == RunsSpec /\ RunsFairness
=============================================================================
