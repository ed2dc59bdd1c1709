------------------------------- MODULE MCRecords -------------------------------
(***************************************************************************)
(* One run for the two components whose rows outlive the process under     *)
(* failing writes and deaths: the schedules with their runs, and the run   *)
(* rows of a conversation.  They share no state: a behaviour is one of     *)
(* either, the other stays in its initial state.                           *)
(***************************************************************************)
EXTENDS SchedulerProps, ConversationRunsProps

VARIABLE part

RecordsInit == part \in {"runs", "overlap", "restart"} /\ Init /\ RunsInit

\* Bounds: requests to run a task now overlap with the loops of one process only;
\* the loops alone are followed over a restart; one chunk of text before a death that follows
\* a second turn or another death.
RecordsNext ==
  \/ /\ part = "runs" /\ RunsNext /\ UNCHANGED <<part, vars>>
     /\ said' <= 1 \/ crashes' = 0 \/ (turn' <= 1 /\ crashes' <= 1)
  \/ part = "overlap" /\ Next /\ starts' = 1 /\ UNCHANGED <<part, runsVars>>
  \/ part = "restart" /\ Next /\ (\A q \in Requests : launch'[q].at = "idle") /\ UNCHANGED <<part, runsVars>>

RecordsSpec == RecordsInit /\ [][RecordsNext]_<<part, vars, runsVars>>
=============================================================================
