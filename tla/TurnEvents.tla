-------------------------------- MODULE TurnEvents --------------------------------
(***************************************************************************)
(* The events of a turn on their way into the database: the bounded queue  *)
(* of the session (session.py), forward_events with its buffers, and the   *)
(* tail of run_turn that waits for it, drains what it left and settles the *)
(* rows of the task plan (agent_turn.py).                                  *)
(***************************************************************************)
EXTENDS Naturals, FiniteSets, Sequences, SequencesExt

CONSTANTS
  PlanRows,    \* tasks of the plan
  QueueSize,   \* maxsize of the event queue
  MaxMessages, \* bound: messages of the turn, the last one and the frozen partials
  Files,       \* deliverables
  Workloads,   \* bound: what a turn does, [tasks, deltas (in one message), messages, files]
  Setbacks     \* sets of what may go wrong: "stall", "db", "teardown"

ASSUME TurnEventsAssumption ==
  /\ IsFiniteSet(PlanRows) /\ IsFiniteSet(Files) /\ MaxMessages \in Nat \ {0}
  /\ Workloads \subseteq [tasks : SUBSET PlanRows, deltas : Nat, messages : 1..MaxMessages,
                          files : SUBSET Files]
  /\ QueueSize \in Nat \ {0, 1} /\ Setbacks \subseteq SUBSET {"stall", "db", "teardown"}

VARIABLES
  setback, workload, nested,
  author,   \* the agent: its message, pieces and state; work: its plan; deferred: what it put off
  evq,      \* _event_queue
  eventsAborted, \* the session was aborted
  courier,  \* forward_events: where it is, the event in its hand, its buffers and sets
  planRow,  \* agent_tasks.status
  textRow,  \* messages: the pieces in the row of each message, {}: no row
  kept,     \* files that are in a row
  tail      \* run_turn after the agent

turnEventsVars == <<setback, workload, nested, author, evq, eventsAborted, courier, planRow, textRow, kept,
                    tail>>

Outcomes == {"completed", "failed", "skipped"}
RowStates == {"none", "pending", "running"} \cup Outcomes
Nothing == [kind |-> "none"]
Sentinel == [kind |-> "sentinel"]
Delta(m, n) == [kind |-> "delta", of |-> m, piece |-> n]
StreamEnd(m) == [kind |-> "end", of |-> m]
FileOutput(f) == [kind |-> "file", of |-> f]
TaskEvent(t, status) == [kind |-> "task", of |-> t, status |-> status]
PlanCreated == [kind |-> "plan"]
LoopCompleted(S) == [kind |-> "loop", of |-> S]
IsTerminal(e) == e.kind = "task" /\ e.status \in Outcomes
Events ==
  {Nothing, Sentinel, PlanCreated} \cup {Delta(m, n) : m \in 1..MaxMessages, n \in 1..workload.deltas}
    \cup {StreamEnd(m) : m \in 1..MaxMessages} \cup {FileOutput(f) : f \in Files}
    \cup {LoopCompleted(S) : S \in SUBSET PlanRows}
    \cup {TaskEvent(t, s) : t \in PlanRows, s \in Outcomes \cup {"running"}}

\* The text of a message is the set of its pieces.
Pieces == (1..MaxMessages) \X (1..workload.deltas)

TurnEventsTypeOK ==
  /\ setback \in Setbacks /\ workload \in Workloads /\ nested \in BOOLEAN /\ eventsAborted \in BOOLEAN
  /\ author \in [at : {"writing", "ended", "closed"}, message : 1..MaxMessages,
                 said : [1..MaxMessages -> 0..workload.deltas], files : SUBSET Files,
                 work : [PlanRows -> RowStates], deferred : SUBSET PlanRows,
                 dropped : BOOLEAN, stopped : BOOLEAN]
  /\ evq \in Seq(Events) /\ Len(evq) <= QueueSize
  /\ courier \in [at : {"idle", "busy", "flush", "done", "cancelled"}, hand : Events, text : SUBSET Pieces,
                  files : SUBSET Files, terminal : SUBSET PlanRows, deferred : SUBSET PlanRows]
  /\ planRow \in [PlanRows -> RowStates] /\ textRow \in [1..MaxMessages -> SUBSET Pieces]
  /\ kept \subseteq Files /\ tail \in {"agent", "waiting", "guards", "draining", "sweeping", "over", "tearing", "torn"}

\* A delegated turn begins under the plan of its parent (bound: with no setback).
TurnEventsInit ==
  /\ setback \in Setbacks /\ workload \in Workloads /\ nested \in BOOLEAN /\ (nested => setback = {})
  /\ evq = <<>> /\ eventsAborted = FALSE
  /\ author = [at |-> "writing", message |-> 1, said |-> [m \in 1..MaxMessages |-> 0],
               files |-> {}, work |-> [t \in PlanRows |-> "none"], deferred |-> {}, dropped |-> FALSE,
               stopped |-> FALSE]
  /\ courier = [at |-> "idle", hand |-> Nothing, text |-> {}, files |-> {},
                terminal |-> {}, deferred |-> {}]
  /\ planRow = [t \in PlanRows |-> IF nested THEN "running" ELSE "none"]
  /\ textRow = [m \in 1..MaxMessages |-> {}] /\ kept = {} /\ tail = "agent"

-----------------------------------------------------------------------------
(***************************************************************************)
(* The agent.  A put waits while the queue is full; if the consumer stalls *)
(* it times out, the event is dropped and the session aborted.             *)
(***************************************************************************)
Emit(e, a) ==
  \/ /\ Len(evq) < QueueSize /\ evq' = Append(evq, e) /\ author' = a
     /\ UNCHANGED eventsAborted
  \/ /\ Len(evq) = QueueSize /\ "stall" \in setback /\ eventsAborted' = TRUE
     /\ author' = [a EXCEPT !.dropped = TRUE] /\ UNCHANGED evq

Writing == author.at = "writing" /\ tail = "agent"

Say ==
  /\ Writing /\ author.said[author.message] < workload.deltas
  /\ Emit(Delta(author.message, author.said[author.message] + 1),
          [author EXCEPT !.said[author.message] = @ + 1])
  /\ UNCHANGED <<setback, workload, nested, courier, planRow, textRow, kept, tail>>

Deliver(f) ==
  /\ author.at \in {"writing", "ended"} /\ tail = "agent" /\ f \in workload.files \ author.files
  /\ Emit(FileOutput(f), [author EXCEPT !.files = @ \cup {f}])
  /\ UNCHANGED <<setback, workload, nested, courier, planRow, textRow, kept, tail>>

Plan ==
  /\ Writing /\ workload.tasks # {} /\ \A t \in PlanRows : author.work[t] = "none"
  /\ Emit(PlanCreated, [author EXCEPT !.work = [t \in PlanRows |-> IF t \in workload.tasks THEN "pending" ELSE "none"]])
  /\ UNCHANGED <<setback, workload, nested, courier, planRow, textRow, kept, tail>>

BeginTask(t) ==
  /\ Writing /\ author.work[t] = "pending" /\ t \notin author.deferred
  /\ Emit(TaskEvent(t, "running"), [author EXCEPT !.work[t] = "running"])
  /\ UNCHANGED <<setback, workload, nested, courier, planRow, textRow, kept, tail>>

EndTask(t) ==
  /\ Writing
  /\ \/ \E s \in {"completed", "failed"} :
          author.work[t] = "running" /\ Emit(TaskEvent(t, s), [author EXCEPT !.work[t] = s])
     \/ /\ author.work[t] = "pending" /\ t \notin author.deferred
        /\ Emit(TaskEvent(t, "skipped"), [author EXCEPT !.work[t] = "skipped"])
  /\ UNCHANGED <<setback, workload, nested, courier, planRow, textRow, kept, tail>>

\* A message of the user puts off what has not begun.
Defer ==
  LET rest == {t \in PlanRows : author.work[t] = "pending"}
  IN /\ Writing /\ rest # {} /\ author.deferred = {} /\ \A t \in PlanRows : author.work[t] # "running"
     /\ Emit(LoopCompleted(rest), [author EXCEPT !.deferred = rest])
     /\ UNCHANGED <<setback, workload, nested, courier, planRow, textRow, kept, tail>>

\* A partial is frozen before the message of the user, and the turn goes on.
Freeze ==
  /\ Writing /\ author.message < workload.messages
  /\ Emit(StreamEnd(author.message), [author EXCEPT !.message = @ + 1])
  /\ UNCHANGED <<setback, workload, nested, courier, planRow, textRow, kept, tail>>

\* The last message ends, whatever the tasks do: on a Stop they are left where they are.
Finish ==
  /\ Writing /\ \E stop \in BOOLEAN : Emit(StreamEnd(author.message), [author EXCEPT !.at = "ended", !.stopped = stop])
  /\ UNCHANGED <<setback, workload, nested, courier, planRow, textRow, kept, tail>>

\* A full queue is cleared of what only the screen needs; one slot is left for the sentinel.
KeptOnClose(e) == e.kind \in {"delta", "end", "file"} \/ IsTerminal(e)
Wanted[i \in 0..Len(evq)] ==
  IF i = 0 THEN <<>>
  ELSE IF KeptOnClose(evq[i]) THEN Append(Wanted[i - 1], evq[i]) ELSE Wanted[i - 1]
LastOf(k, n) == SubSeq(k, IF n < Len(k) THEN Len(k) - n + 1 ELSE 1, Len(k))
ClosedQueue ==
  Append(IF Len(evq) < QueueSize THEN evq ELSE LastOf(Wanted[Len(evq)], QueueSize - 1), Sentinel)

\* The clearing loses the oldest of what it wants to keep if there is nothing else, and the
\* events that make the rows of a plan or put tasks off.
ClosingDrops ==
  /\ Len(evq) = QueueSize
  /\ \/ \A e \in ToSet(evq) : KeptOnClose(e)
     \/ \E e \in ToSet(evq) : e.kind \in {"plan", "loop"}

Close ==
  /\ author.at = "ended" /\ tail = "agent"
  /\ author' = [author EXCEPT !.at = "closed", !.dropped = @ \/ ClosingDrops]
  /\ evq' = ClosedQueue /\ tail' = "waiting"
  /\ UNCHANGED <<setback, workload, nested, eventsAborted, courier, planRow, textRow, kept>>

-----------------------------------------------------------------------------
(***************************************************************************)
(* forward_events: an event is sent, then persisted.                       *)
(***************************************************************************)
Take ==
  /\ courier.at = "idle" /\ evq # <<>> /\ evq' = Tail(evq)
  /\ courier' = IF Head(evq) = Sentinel
                THEN [courier EXCEPT !.at = IF courier.files = {} THEN "done" ELSE "flush"]
                ELSE [courier EXCEPT !.at = "busy", !.hand = Head(evq)]
  /\ UNCHANGED <<setback, workload, nested, author, eventsAborted, planRow, textRow, kept, tail>>

\* The rows an event changes, if the database does.
PlanRowAfter(e) ==
  CASE nested -> planRow
    [] e.kind = "plan" /\ ~nested -> [t \in PlanRows |-> IF t \in workload.tasks THEN "pending" ELSE "none"]
    [] e.kind = "task" /\ ~nested -> [planRow EXCEPT ![e.of] = IF @ = "none" THEN @ ELSE e.status]
    [] OTHER -> planRow
TextRowAfter(e) == IF e.kind = "end" THEN [textRow EXCEPT ![e.of] = courier.text] ELSE textRow
KeptAfter(e) == IF e.kind = "end" THEN kept \cup courier.files ELSE kept

\* Variant: a stored message leaves its text in the buffer.
BuffersKept(e) ==
  CASE e.kind = "delta" -> [courier EXCEPT !.text = @ \cup {<<e.of, e.piece>>}]
    [] e.kind = "file" -> [courier EXCEPT !.files = @ \cup {e.of}]
    [] e.kind = "loop" -> [courier EXCEPT !.deferred = @ \cup e.of]
    [] IsTerminal(e) -> [courier EXCEPT !.terminal = @ \cup {e.of}]
    [] OTHER -> courier

\* The buffers after it: a message that is stored empties them.
BuffersAfter(e) ==
  CASE e.kind = "delta" -> [courier EXCEPT !.text = @ \cup {<<e.of, e.piece>>}]
    [] e.kind = "file" -> [courier EXCEPT !.files = @ \cup {e.of}]
    [] e.kind = "end" -> [courier EXCEPT !.text = {}, !.files = {}]
    [] e.kind = "loop" -> [courier EXCEPT !.deferred = @ \cup e.of]
    [] IsTerminal(e) -> [courier EXCEPT !.terminal = @ \cup {e.of}]
    [] OTHER -> courier

\* The row and the timeline entry of a task are two commits.
Persist ==
  /\ courier.at = "busy"
  /\ LET e == courier.hand
     IN \/ /\ planRow' = PlanRowAfter(e) /\ textRow' = TextRowAfter(e) /\ kept' = KeptAfter(e)
           /\ courier' = [BuffersAfter(e) EXCEPT !.at = "idle", !.hand = Nothing]
        \/ /\ "db" \in setback /\ e.kind \in {"end", "plan", "task"}
           /\ \E half \in BOOLEAN : planRow' = IF half THEN PlanRowAfter(e) ELSE planRow
           /\ courier' = [courier EXCEPT !.at = "idle", !.hand = Nothing]
           /\ UNCHANGED <<textRow, kept>>
  /\ UNCHANGED <<setback, workload, nested, author, evq, eventsAborted, tail>>

\* Deliverables that came after the last message go into its row, or into one of their own.
Flush ==
  /\ courier.at = "flush"
  /\ courier' = [courier EXCEPT !.at = "done"]
  /\ \/ kept' = kept \cup courier.files
     \/ "db" \in setback /\ UNCHANGED kept
  /\ UNCHANGED <<setback, workload, nested, author, evq, eventsAborted, planRow, textRow, tail>>

-----------------------------------------------------------------------------
(***************************************************************************)
(* The tail of run_turn.                                                   *)
(***************************************************************************)
Drained ==
  /\ tail = "waiting" /\ courier.at = "done" /\ tail' = "sweeping"
  /\ UNCHANGED <<setback, workload, nested, author, evq, eventsAborted, courier, planRow, textRow, kept>>

\* Thirty seconds are over: forward_events is cancelled.  What it was persisting is lost,
\* but for a message, whose persist is shielded.
DrainTimesOut ==
  /\ tail = "waiting" /\ "stall" \in setback /\ courier.at # "done" /\ tail' = "guards"
  /\ courier' = [courier EXCEPT !.at = "cancelled"]
  /\ UNCHANGED <<setback, workload, nested, author, evq, eventsAborted, planRow, textRow, kept>>

\* A minute more for the shielded persist; then it is cancelled too.
Guards ==
  /\ tail = "guards" /\ tail' = "draining"
  /\ \/ courier.hand.kind = "end" /\ textRow' = TextRowAfter(courier.hand) /\ kept' = KeptAfter(courier.hand)
     \/ UNCHANGED <<textRow, kept>>
  /\ UNCHANGED <<setback, workload, nested, author, evq, eventsAborted, courier, planRow>>

\* Terminal events that are still queued are persisted, one after the other.
DrainOne ==
  /\ tail = "draining" /\ evq # <<>> /\ evq' = IF Head(evq) = Sentinel THEN <<>> ELSE Tail(evq)
  /\ \/ planRow' = IF IsTerminal(Head(evq)) THEN PlanRowAfter(Head(evq)) ELSE planRow
     \/ "db" \in setback /\ UNCHANGED planRow
  /\ UNCHANGED <<setback, workload, nested, author, eventsAborted, courier, textRow, kept, tail>>

DrainEnds ==
  /\ tail = "draining" /\ evq = <<>> /\ tail' = "sweeping"
  /\ UNCHANGED <<setback, workload, nested, author, evq, eventsAborted, courier, planRow, textRow, kept>>

\* Rows without a terminal status are settled, except those put off; never by a delegated turn.
Sweep ==
  /\ tail = "sweeping" /\ tail' = "over"
  /\ \/ planRow' = [t \in PlanRows |->
                      IF ~nested /\ planRow[t] \in {"pending", "running"}
                           /\ t \notin courier.terminal \cup courier.deferred
                      THEN IF eventsAborted \/ author.stopped THEN "skipped" ELSE "failed"
                      ELSE planRow[t]]
     \/ "db" \in setback /\ UNCHANGED planRow
  /\ UNCHANGED <<setback, workload, nested, author, evq, eventsAborted, courier, textRow, kept>>

\* run_turn itself is cancelled: the agent goes with it, forward_events is given its time...
Teardown ==
  /\ "teardown" \in setback /\ tail \in {"agent", "waiting"} /\ tail' = "tearing"
  /\ author' = [author EXCEPT !.at = "closed"]
  /\ evq' = IF tail = "agent" THEN ClosedQueue ELSE evq
  /\ UNCHANGED <<setback, workload, nested, eventsAborted, courier, planRow, textRow, kept>>

\* ... and is cancelled if that was not enough; nothing is swept.
TornDown ==
  /\ tail = "tearing" /\ tail' = "torn"
  /\ courier' = IF courier.at = "done" THEN courier ELSE [courier EXCEPT !.at = "cancelled"]
  /\ \/ courier.hand.kind = "end" /\ textRow' = TextRowAfter(courier.hand) /\ kept' = KeptAfter(courier.hand)
     \/ UNCHANGED <<textRow, kept>>
  /\ UNCHANGED <<setback, workload, nested, author, evq, eventsAborted, planRow>>

TurnTailNext == Drained \/ DrainTimesOut \/ Guards \/ DrainOne \/ DrainEnds \/ Sweep \/ TornDown

TurnEventsNext ==
  \/ Say \/ Plan \/ Defer \/ Freeze \/ Finish \/ Close
  \/ \E f \in Files : Deliver(f)
  \/ \E t \in PlanRows : BeginTask(t) \/ EndTask(t)
  \/ Take \/ Persist \/ Flush \/ TurnTailNext \/ Teardown

\* Everything behind the agent goes on; a stalled consumer is one that is slow to.
TurnEventsFairness ==
  /\ WF_turnEventsVars(Take \/ Persist \/ Flush) /\ WF_turnEventsVars(TurnTailNext)
  /\ WF_turnEventsVars(Close)

-----------------------------------------------------------------------------
Delivered == tail \in {"sweeping", "over"} /\ courier.at = "done" /\ "db" \notin setback /\ ~author.dropped

\* What the agent said and delivered is in the rows of the messages, deliverables that raced
\* the last message included (forward_events, the residual flush).
OutputIsStored ==
  Delivered =>
    /\ kept = author.files
    /\ \A m \in 1..MaxMessages : textRow[m] = {<<m, n>> : n \in 1..author.said[m]}

\* No piece of text is stored twice or before its message, even if the forwarder is cancelled
\* or a commit fails: what a failed commit left in the buffer goes into a later row.
TextIsStoredOnce ==
  /\ \A m, j \in 1..MaxMessages : m # j => textRow[m] \cap textRow[j] = {}
  /\ \A m \in 1..MaxMessages : \A p \in textRow[m] : p[1] <= m /\ p[2] <= author.said[p[1]]

\* A task that has told its end keeps that end: neither the sweep nor an event that was
\* still queued when forward_events was cancelled overrides it.
OutcomeIsKept ==
  tail = "over" /\ ~nested /\ "db" \notin setback /\ ~author.dropped =>
    \A t \in PlanRows :
      author.work[t] \in Outcomes =>
        \/ planRow[t] = author.work[t]
        \/ courier.at = "cancelled" /\ (courier.hand.kind = "plan" \/ courier.hand = TaskEvent(t, author.work[t]))
        \/ courier.at = "cancelled" /\ planRow[t] = "none"

\* When the turn is over no row is left open but those of tasks the user put off: an open
\* row blocks the deletion of the project.
PlanIsSettled ==
  tail = "over" /\ ~nested /\ "db" \notin setback =>
    \A t \in PlanRows : planRow[t] \in {"pending", "running"} => t \in author.deferred

\* A delegated turn never touches the plan of its parent.
ParentPlanIsKept == nested => \A t \in PlanRows : planRow[t] = "running"

\* What a turn emitted is in its rows, once, and its tasks end as they were told to.
TurnIsStored == OutputIsStored /\ TextIsStoredOnce /\ OutcomeIsKept /\ PlanIsSettled /\ ParentPlanIsKept

\* The tail of the turn ends, whatever the consumer does.
TurnEventsEnd == []<>(tail \in {"agent", "over", "torn"})
=============================================================================
