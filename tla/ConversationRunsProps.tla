------------------------ MODULE ConversationRunsProps ------------------------
(***************************************************************************)
(* What the run rows and the history of a conversation must tell.          *)
(***************************************************************************)
EXTENDS ConversationRuns, Functions

AssistantRows == {i \in DOMAIN history : history[i].role = "assistant"}

\* A settled run keeps its status: finish_run and the sweep write running rows
\* only, whatever writer comes late.
SettledStaysSettled ==
  [][\A t \in Turns : status[t] \in Terminal => status'[t] = status[t]]_runsVars

\* A turn that was stopped, or whose model reported an error, never shows as
\* completed.
TroubleIsNotCompleted ==
  \A t \in Turns : cause[t] \in {"stopped", "error"} => status[t] # "completed"

\* An agent that raised is not recorded as completed.
RaisedIsNotCompleted ==
  \A t \in Turns : cause[t] = "raised" => status[t] # "completed"

\* A completed run has its answer in the history, as long as a compression has
\* not taken both the question and the answer.
CompletedIsAnswered ==
  \A t \in Turns : status[t] = "completed" /\ UserRow(t) \in Range(history) =>
    \E i \in AssistantRows : history[i].turn = t /\ history[i].flag = "plain"

\* No text stands twice in the history, so recovery adds only what was lost.
TextAppearsOnce ==
  \A i, j \in AssistantRows : i # j => history[i].text \cap history[j].text = {}

\* A turn that was stopped, or whose model reported an error, never shows as completed,
\* whichever of its writers fail or come late; and recovery adds only what was lost, so
\* that no text stands twice in the history.
RunsTellTheTruth == TroubleIsNotCompleted /\ TextAppearsOnce

\* The partial text of the newest turn leaves its run row only for the history.
PartialIsKept ==
  [][\A t \in Turns : t = turn' =>
       snapshot[t] \ snapshot'[t] \subseteq UNION {history'[i].text : i \in DOMAIN history'}]_runsVars

\* Neither a final status nor partial text is lost to a late writer or to the sweep.
RunsAreKept == SettledStaysSettled /\ PartialIsKept

\* Between turns no run of the serving process is left running.
NothingLeftRunning ==
  Serving /\ main = "idle" => \A t \in Turns : status[t] # "running"

\* Every run is settled in the end, by its turn or by the next start.
RunIsSettled == \A t \in Turns : status[t] = "running" ~> status[t] \in Terminal
=============================================================================
