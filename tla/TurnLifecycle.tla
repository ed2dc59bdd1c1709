---------------------------- MODULE TurnLifecycle ----------------------------
(***************************************************************************)
(* The life of the turns of ONE conversation: the ConnectionManager        *)
(* (websocket/manager.py), the receive loop of the conversation socket     *)
(* (websocket/handlers.py), the skeleton of run_turn                       *)
(* (services/agent_turn.py), the headless callers (published streams,      *)
(* scheduled agent runs), the delivery of a scheduled result and the       *)
(* deletion of the conversation.  The manager keys all of its state by     *)
(* conversation, so conversations do not interact here and one is enough.  *)
(*                                                                         *)
(* One action is the code that runs between two suspension points of the   *)
(* event loop.  A message is its identity.  A turn is identified by what   *)
(* started it: the message that won the claim, or the headless job.        *)
(***************************************************************************)
EXTENDS Naturals, FiniteSets, Sequences, SequencesExt

CONSTANTS
  Sockets,       \* browser tabs that may open the conversation
  Msgs,          \* user messages; each is sent at most once
  Jobs,          \* headless turns: scheduled agent runs, published streams
  Cancellable,   \* the jobs whose HTTP client may vanish (published streams)
  Deliveries,    \* scheduled results to append to the conversation
  Deletes,       \* requests to delete the conversation
  MaxSockets,    \* _MAX_WS_PER_CONVERSATION
  PendingLimit,  \* _PENDING_INJECTION_LIMIT
  QueueLimit,    \* maxsize of the session's user input queue
  None

Turns == Msgs \cup Jobs
Claimants == Turns \cup Deliveries

ASSUME LifecycleAssumption ==
  /\ Msgs \cap Jobs = {}
  /\ Turns \cap Deliveries = {}
  /\ Cancellable \subseteq Jobs
  /\ None \notin Claimants
  /\ MaxSockets \in Nat /\ PendingLimit \in Nat /\ QueueLimit \in Nat

VARIABLES
  \* ConnectionManager
  conns,       \* _connections of the conversation
  abort,       \* _abort_events: "absent", or the state of the Event
  watched,     \* turns whose abort watcher waits on the Event now in the table
  claimed,     \* the conversation is in _claimed_turns
  session,     \* the turn whose session is in _sessions, or None
  pending,     \* _pending_injections
  \* conversation_ws
  open,        \* sockets whose receive loop runs
  task,        \* active_task of each loop: the turn it started last
  \* run_turn and its callers
  pc,          \* where each claimant is
  drained,     \* the list a turn's drain loop still has to enqueue
  inputs,      \* user input queue of a turn's session
  inflight,    \* messages the agent took and waits to see persisted
  aborted,     \* turns whose session was aborted
  \* the database and what the client was told
  status,      \* status column of the conversation
  rows,        \* messages that are in the history
  acked,       \* messages acknowledged with input_queued
  notified,    \* messages refused or reported as not processed
  deletion,    \* where each delete request is
  \* history variable
  stops        \* turns that a Stop reached while they held the claim

managerVars == <<conns, abort, watched, claimed, session, pending>>
socketVars  == <<open, task>>
turnVars    == <<pc, drained, inputs, inflight, aborted>>
dbVars      == <<status, rows, acked, notified, deletion>>
history     == <<stops>>
vars == <<managerVars, socketVars, turnVars, dbVars, history>>

-----------------------------------------------------------------------------
(* The stations of a claimant.  A message that did not win the claim ends  *)
(* at "injected"; a turn that dies before register_session passes by       *)
(* "dead", one that dies later by "unwind".                                *)
Holding == {"accepted", "lookup", "setup", "drain", "run", "settle", "tail",
            "unwind", "dead", "release", "delivering"}
Stations == Holding \cup {"idle", "injected", "closing", "done"}

Holds(h) == pc[h] \in Holding
PastLookup(t) == pc[t] \in {"setup", "drain", "run", "settle", "tail"}

\* is_turn_active
TurnActive == claimed \/ session # None

\* The messages a turn's session answers for: queued, or taken by the agent.
SessionOwes(t) == ToSet(inputs[t]) \cup inflight[t]

TypeOK ==
  /\ conns \subseteq Sockets /\ open \subseteq Sockets
  /\ abort \in {"absent", "clear", "set"}
  /\ watched \subseteq Turns /\ aborted \subseteq Turns /\ stops \subseteq Turns
  /\ claimed \in BOOLEAN
  /\ session \in Turns \cup {None}
  /\ pending \in Seq(Msgs) /\ Len(pending) <= PendingLimit
  /\ task \in [Sockets -> Turns \cup {None}]
  /\ pc \in [Claimants -> Stations]
  /\ drained \in [Turns -> Seq(Msgs)] /\ inputs \in [Turns -> Seq(Msgs)]
  /\ \A t \in Turns : Len(inputs[t]) <= QueueLimit
  /\ inflight \in [Turns -> SUBSET Msgs]
  /\ status \in {"active", "deleted"}
  /\ rows \subseteq Msgs /\ acked \subseteq Msgs /\ notified \subseteq Msgs
  /\ deletion \in [Deletes -> {"idle", "checked", "flipped", "reverting", "ok", "refused"}]

Init ==
  /\ conns = {} /\ open = {} /\ task = [s \in Sockets |-> None]
  /\ abort = "absent" /\ watched = {}
  /\ claimed = FALSE /\ session = None /\ pending = <<>>
  /\ pc = [h \in Claimants |-> "idle"]
  /\ drained = [t \in Turns |-> <<>>] /\ inputs = [t \in Turns |-> <<>>]
  /\ inflight = [t \in Turns |-> {}] /\ aborted = {}
  /\ status = "active" /\ rows = {} /\ acked = {} /\ notified = {}
  /\ deletion = [d \in Deletes |-> "idle"]
  /\ stops = {}

-----------------------------------------------------------------------------
(* The ConnectionManager's operations, as conjuncts of the actions below.  *)

\* The Event leaves the table; a watcher of it waits on an object nobody sets.
DropAbort == abort' = "absent" /\ watched' = {}

\* Variant: deregistering forgets that sockets may still be connected.
DeregisterDropsEvent == session' = None /\ DropAbort

\* deregister_session: the Event stays while any socket is connected.
Deregister ==
  /\ session' = None
  /\ IF conns = {} THEN DropAbort ELSE UNCHANGED <<abort, watched>>

\* signal_abort: nothing happens without an Event in the table.
SignalAbort ==
  IF abort = "absent"
    THEN UNCHANGED <<abort, stops>>
    ELSE /\ abort' = "set"
         /\ stops' = stops \cup {t \in Turns : Holds(t)}

\* claim_turn by h, which then stands at station `to`.
Claim(h, to) ==
  /\ ~claimed
  /\ claimed' = TRUE
  /\ pc' = [pc EXCEPT ![h] = to]

\* release_turn by h: the claim is a set member and knows no owner.
ReleaseClaim(h) == claimed' = FALSE /\ pc' = [pc EXCEPT ![h] = "closing"]

Goto(h, to) == pc' = [pc EXCEPT ![h] = to]

-----------------------------------------------------------------------------
(* Sockets.  A loop that is still between claim_turn and create_task       *)
(* (renewing the login session) reads no further frame.                    *)
TaskStation(s) == IF task[s] = None THEN "done" ELSE pc[task[s]]
Ready(s) == s \in open /\ TaskStation(s) # "accepted"
TaskDone(s) == TaskStation(s) = "done"

\* connect: over the cap the newest socket is closed, which ends its loop.
Connect(s) ==
  /\ s \notin open
  /\ Cardinality(conns) < MaxSockets
  /\ conns' = conns \cup {s} /\ open' = open \cup {s}
  /\ task' = [task EXCEPT ![s] = None]
  /\ abort' = IF abort = "absent" THEN "clear" ELSE abort
  /\ UNCHANGED <<watched, claimed, session, pending, turnVars, dbVars, history>>

\* The loop ends (peer gone, or an error in it); the turn it started goes on.
Disconnect(s) ==
  /\ Ready(s)
  /\ open' = open \ {s} /\ conns' = conns \ {s}
  /\ IF conns' = {} /\ session = None /\ ~claimed
       THEN DropAbort ELSE UNCHANGED <<abort, watched>>
  /\ UNCHANGED <<claimed, session, pending, task, turnVars, dbVars, history>>

\* A send to the socket failed or timed out: it is dropped from the multicast
\* set and closed, but its loop has not noticed yet.
Evict(s) ==
  /\ s \in conns
  /\ conns' = conns \ {s}
  /\ UNCHANGED <<abort, watched, claimed, session, pending>>
  /\ UNCHANGED <<socketVars, turnVars, dbVars, history>>

\* An abort frame on a socket, or an abort call of the publishing API.
Stop(s) ==
  /\ Ready(s)
  /\ SignalAbort
  /\ UNCHANGED <<conns, watched, claimed, session, pending>>
  /\ UNCHANGED <<socketVars, turnVars, dbVars>>

ApiStop ==
  /\ \E j \in Jobs : pc[j] # "idle"
  /\ SignalAbort
  /\ UNCHANGED <<conns, watched, claimed, session, pending>>
  /\ UNCHANGED <<socketVars, turnVars, dbVars>>

\* A message frame wins the claim and will become a turn.
AcceptMessage(s, m) ==
  /\ Ready(s) /\ pc[m] = "idle"
  /\ TaskDone(s) /\ session = None
  /\ Claim(m, "accepted")
  /\ task' = [task EXCEPT ![s] = m]
  /\ abort' = IF abort = "absent" THEN abort ELSE "clear"
  /\ UNCHANGED <<conns, watched, session, pending, open, stops>>
  /\ UNCHANGED <<drained, inputs, inflight, aborted, dbVars>>

\* A message frame that found the conversation busy, or malformed: refused.
RefuseMessage(s, m) ==
  /\ Ready(s) /\ pc[m] = "idle"
  /\ ~TaskDone(s) \/ TurnActive
  /\ Goto(m, "injected")
  /\ notified' = notified \cup {m}
  /\ UNCHANGED <<managerVars, socketVars, drained, inputs, inflight, aborted>>
  /\ UNCHANGED <<status, rows, acked, deletion, history>>

\* Variant: the buffer has no limit.
BufferUnbounded(s, m) ==
  /\ Ready(s) /\ pc[m] = "idle"
  /\ ~TaskDone(s) \/ TurnActive
  /\ session = None
  /\ Goto(m, "injected")
  /\ pending' = Append(pending, m)
  /\ acked' = acked \cup {m}
  /\ UNCHANGED <<conns, abort, watched, claimed, session, socketVars>>
  /\ UNCHANGED <<drained, inputs, inflight, aborted, status, rows, notified, deletion, history>>

\* ... buffered, because no session is registered yet, ...
BufferMessage(s, m) ==
  /\ Ready(s) /\ pc[m] = "idle"
  /\ ~TaskDone(s) \/ TurnActive
  /\ session = None
  /\ Len(pending) < PendingLimit
  /\ Goto(m, "injected")
  /\ pending' = Append(pending, m)
  /\ acked' = acked \cup {m}
  /\ UNCHANGED <<conns, abort, watched, claimed, session, socketVars>>
  /\ UNCHANGED <<drained, inputs, inflight, aborted, status, rows, notified, deletion, history>>

\* ... or queued on the running session, under the watchdog's eye.
InjectMessage(s, m) ==
  /\ Ready(s) /\ pc[m] = "idle"
  /\ session # None
  /\ Len(inputs[session]) < QueueLimit
  /\ Goto(m, "injected")
  /\ inputs' = [inputs EXCEPT ![session] = Append(@, m)]
  /\ acked' = acked \cup {m}
  /\ UNCHANGED <<managerVars, socketVars, drained, inflight, aborted>>
  /\ UNCHANGED <<status, rows, notified, deletion, history>>

-----------------------------------------------------------------------------
(* run_turn *)

\* create_task once the login session was renewed.
Launch(m) ==
  /\ pc[m] = "accepted"
  /\ Goto(m, "lookup")
  /\ UNCHANGED <<managerVars, socketVars, drained, inputs, inflight, aborted, dbVars, history>>

\* Variant: the Event is ensured but the last turn's Stop is not reset.
StartJobWithoutReset(j) ==
  /\ pc[j] = "idle"
  /\ Claim(j, "lookup")
  /\ abort' = IF abort = "absent" THEN "clear" ELSE abort
  /\ UNCHANGED <<conns, watched, session, pending, socketVars, stops>>
  /\ UNCHANGED <<drained, inputs, inflight, aborted, dbVars>>

\* A published stream or a scheduled run: claim, then a fresh abort Event.
StartJob(j) ==
  /\ pc[j] = "idle"
  /\ Claim(j, "lookup")
  /\ abort' = "clear"
  /\ UNCHANGED <<conns, watched, session, pending, socketVars, stops>>
  /\ UNCHANGED <<drained, inputs, inflight, aborted, dbVars>>

\* 409 CONVERSATION_ALREADY_RUNNING, the outcome "skipped", or no active row.
RefuseJob(j) ==
  /\ pc[j] = "idle" /\ (claimed \/ status = "deleted")
  /\ Goto(j, "done")
  /\ UNCHANGED <<managerVars, socketVars, drained, inputs, inflight, aborted, dbVars, history>>

\* The first query: the conversation must be active.
Lookup(t) ==
  /\ pc[t] = "lookup"
  /\ Goto(t, IF status = "active" THEN "setup" ELSE "dead")
  /\ UNCHANGED <<managerVars, socketVars, drained, inputs, inflight, aborted, dbVars, history>>

\* An early return or an exception before register_session.
SetupFails(t) ==
  /\ pc[t] = "setup"
  /\ Goto(t, "dead")
  /\ UNCHANGED <<managerVars, socketVars, drained, inputs, inflight, aborted, dbVars, history>>

\* The user message is persisted, the session registered and the buffer taken.
Register(t) ==
  /\ pc[t] = "setup"
  /\ Goto(t, "drain")
  /\ rows' = rows \cup ({t} \cap Msgs)
  /\ session' = t
  /\ drained' = [drained EXCEPT ![t] = pending] /\ pending' = <<>>
  /\ UNCHANGED <<conns, abort, watched, claimed, socketVars, inputs, inflight, aborted>>
  /\ UNCHANGED <<status, acked, notified, deletion, history>>

\* One round of the drain loop; it suspends in the acknowledgement it sends.
DrainOne(t) ==
  /\ pc[t] = "drain" /\ drained[t] # <<>>
  /\ drained' = [drained EXCEPT ![t] = Tail(@)]
  /\ IF Len(inputs[t]) < QueueLimit
       THEN /\ inputs' = [inputs EXCEPT ![t] = Append(@, Head(drained[t]))]
            /\ UNCHANGED notified
       ELSE /\ notified' = notified \cup {Head(drained[t])}
            /\ UNCHANGED inputs
  /\ UNCHANGED <<managerVars, socketVars, pc, inflight, aborted>>
  /\ UNCHANGED <<status, rows, acked, deletion, history>>

\* Variant: the watcher starts from a cleared Event.
StartAgentResets(t) ==
  /\ pc[t] = "drain" /\ drained[t] = <<>>
  /\ Goto(t, "run")
  /\ abort' = "clear"
  /\ watched' = watched \cup {t}
  /\ UNCHANGED <<conns, claimed, session, pending, socketVars>>
  /\ UNCHANGED <<drained, inputs, inflight, aborted, dbVars, history>>

\* Variant: the watcher starts only if the Event happens to exist.
StartAgentUnwatched(t) ==
  /\ pc[t] = "drain" /\ drained[t] = <<>>
  /\ Goto(t, "run")
  /\ watched' = IF abort = "absent" THEN watched ELSE watched \cup {t}
  /\ UNCHANGED <<conns, abort, claimed, session, pending, socketVars>>
  /\ UNCHANGED <<drained, inputs, inflight, aborted, dbVars, history>>

\* The agent task and its abort watcher start.
StartAgent(t) ==
  /\ pc[t] = "drain" /\ drained[t] = <<>>
  /\ Goto(t, "run")
  /\ abort' = IF abort = "absent" THEN "clear" ELSE abort
  /\ watched' = watched \cup {t}
  /\ UNCHANGED <<conns, claimed, session, pending, socketVars>>
  /\ UNCHANGED <<drained, inputs, inflight, aborted, dbVars, history>>

\* An exception between register_session and the end of the turn.
TurnFails(t) ==
  /\ \/ pc[t] = "drain" /\ drained[t] = <<>>
     \/ pc[t] = "tail"
  /\ Goto(t, "unwind")
  /\ UNCHANGED <<managerVars, socketVars, drained, inputs, inflight, aborted, dbVars, history>>

\* _watch_abort: the session is aborted, then the agent task cancelled.
WatcherFires(t) ==
  /\ t \in watched /\ abort = "set" /\ pc[t] \in {"run", "settle"}
  /\ watched' = watched \ {t}
  /\ aborted' = aborted \cup {t}
  /\ Goto(t, "settle")
  /\ UNCHANGED <<conns, abort, claimed, session, pending, socketVars>>
  /\ UNCHANGED <<drained, inputs, inflight, dbVars, history>>

\* The agent returns or raises by itself.
AgentEnds(t) ==
  /\ pc[t] = "run" /\ inflight[t] = {}
  /\ Goto(t, "settle")
  /\ UNCHANGED <<managerVars, socketVars, drained, inputs, inflight, aborted, dbVars, history>>

\* Step boundary: the agent takes every queued message and waits.
Consume(t) ==
  /\ pc[t] = "run" /\ t \notin aborted
  /\ inputs[t] # <<>> /\ inflight[t] = {}
  /\ inflight' = [inflight EXCEPT ![t] = ToSet(inputs[t])]
  /\ inputs' = [inputs EXCEPT ![t] = <<>>]
  /\ UNCHANGED <<managerVars, socketVars, pc, drained, aborted, dbVars, history>>

\* forward_events persists an injected message, or rejects it.
PersistInjected(t, m) ==
  /\ pc[t] \in {"run", "settle"} /\ m \in inflight[t]
  /\ inflight' = [inflight EXCEPT ![t] = @ \ {m}]
  /\ \/ rows' = rows \cup {m} /\ UNCHANGED notified
     \/ notified' = notified \cup {m} /\ UNCHANGED rows
  /\ UNCHANGED <<managerVars, socketVars, pc, drained, inputs, aborted>>
  /\ UNCHANGED <<status, acked, deletion, history>>

\* The events are drained, or the drain timed out: the session goes.
Settle(t) ==
  /\ pc[t] = "settle"
  /\ Deregister
  /\ Goto(t, "tail")
  /\ UNCHANGED <<conns, claimed, pending, socketVars>>
  /\ UNCHANGED <<drained, inputs, inflight, aborted, dbVars, history>>

\* The token ledger is written.
WriteLedger(t) ==
  /\ pc[t] = "tail"
  /\ Goto(t, "unwind")
  /\ UNCHANGED <<managerVars, socketVars, drained, inputs, inflight, aborted, dbVars, history>>

\* Variant: the finally clause relies on the normal path's deregister_session.
UnwindStillRegistered(t) ==
  /\ pc[t] = "unwind"
  /\ watched' = watched \ {t}
  /\ ReleaseClaim(t)
  /\ UNCHANGED <<conns, abort, session, pending, socketVars>>
  /\ UNCHANGED <<drained, inputs, inflight, aborted, dbVars, history>>

\* The finally clause of a turn that registered, from its last await on.
Unwind(t) ==
  /\ pc[t] = "unwind"
  /\ session' = None
  /\ IF conns = {}
       THEN DropAbort
       ELSE watched' = watched \ {t} /\ UNCHANGED abort
  /\ ReleaseClaim(t)
  /\ UNCHANGED <<conns, pending, socketVars>>
  /\ UNCHANGED <<drained, inputs, inflight, aborted, dbVars, history>>

\* Variant: a turn that never registered skips the release as well.
DiscardAndReturn(t) ==
  /\ pc[t] = "dead"
  /\ Deregister
  /\ notified' = notified \cup ToSet(pending)
  /\ pending' = <<>>
  /\ Goto(t, "closing")
  /\ UNCHANGED <<conns, claimed, socketVars, drained, inputs, inflight, aborted>>
  /\ UNCHANGED <<status, rows, acked, deletion, history>>

\* The finally clause of a turn that never registered: its buffer is
\* discarded and each sender told, which suspends before the release.
Discard(t) ==
  /\ pc[t] = "dead"
  /\ Deregister
  /\ notified' = notified \cup ToSet(pending)
  /\ pending' = <<>>
  /\ Goto(t, "release")
  /\ UNCHANGED <<conns, claimed, socketVars, drained, inputs, inflight, aborted>>
  /\ UNCHANGED <<status, rows, acked, deletion, history>>

Release(t) ==
  /\ pc[t] = "release"
  /\ ReleaseClaim(t)
  /\ UNCHANGED <<conns, abort, watched, session, pending, socketVars>>
  /\ UNCHANGED <<drained, inputs, inflight, aborted, dbVars, history>>

\* Variant: the caller releases the claim once more after run_turn.
CloseAndRelease(t) ==
  /\ pc[t] = "closing"
  /\ Goto(t, "done")
  /\ claimed' = FALSE
  /\ UNCHANGED <<conns, abort, watched, session, pending, socketVars>>
  /\ UNCHANGED <<drained, inputs, inflight, aborted, dbVars, history>>

\* agent.close(), after which the task is done.
Close(t) ==
  /\ pc[t] = "closing"
  /\ Goto(t, "done")
  /\ UNCHANGED <<managerVars, socketVars, drained, inputs, inflight, aborted, dbVars, history>>

\* The client of a published stream disconnects: abort, then task.cancel().
\* The cancellation lands at the await the turn stands at; at the last await
\* of the finally clause it skips what follows.
ClientVanishes(j) ==
  /\ j \in Cancellable
  /\ \/ pc[j] \in {"lookup", "setup"} /\ Goto(j, "dead")
     \/ pc[j] = "run" /\ Goto(j, "settle")
     \/ pc[j] \in {"drain", "settle", "tail"} /\ Goto(j, "unwind")
     \/ pc[j] = "unwind" /\ Goto(j, "done")
  /\ SignalAbort
  /\ drained' = [drained EXCEPT ![j] = <<>>]
  /\ UNCHANGED <<conns, watched, claimed, session, pending>>
  /\ UNCHANGED <<socketVars, inputs, inflight, aborted, dbVars>>

\* The watchdog's last word on m: persisted or not, its sender is told.
Orphan(m) ==
  /\ rows' \in {rows, rows \cup {m}}
  /\ notified' = notified \cup {m}

\* m leaves the queue of t's session, wherever it stands in it.
Unqueue(t, m) ==
  \E i \in DOMAIN inputs[t] :
    inputs[t][i] = m /\ inputs' = [inputs EXCEPT ![t] = RemoveAt(@, i)]

\* Variant: a message the agent has taken counts as consumed.
WatchdogQueuedOnly(t, m) ==
  /\ session # t
  /\ Unqueue(t, m) /\ UNCHANGED inflight
  /\ Orphan(m)
  /\ UNCHANGED <<managerVars, socketVars, pc, drained, aborted>>
  /\ UNCHANGED <<status, acked, deletion, history>>

\* _guard_injected_message: the session is gone and nobody settled m.
Watchdog(t, m) ==
  /\ session # t
  /\ \/ Unqueue(t, m) /\ UNCHANGED inflight
     \/ /\ m \in inflight[t]
        /\ inflight' = [inflight EXCEPT ![t] = @ \ {m}]
        /\ UNCHANGED inputs
  /\ Orphan(m)
  /\ UNCHANGED <<managerVars, socketVars, pc, drained, aborted>>
  /\ UNCHANGED <<status, acked, deletion, history>>

-----------------------------------------------------------------------------
(* deliver_result: claim (with five attempts), append a row, release.      *)
ClaimDelivery(d) ==
  /\ pc[d] = "idle"
  /\ Claim(d, "delivering")
  /\ UNCHANGED <<conns, abort, watched, session, pending, socketVars, stops>>
  /\ UNCHANGED <<drained, inputs, inflight, aborted, dbVars>>

GiveUpDelivery(d) ==
  /\ pc[d] = "idle" /\ (claimed \/ status = "deleted")
  /\ Goto(d, "done")
  /\ UNCHANGED <<managerVars, socketVars, drained, inputs, inflight, aborted, dbVars, history>>

FinishDelivery(d) ==
  /\ pc[d] = "delivering"
  /\ claimed' = FALSE /\ Goto(d, "done")
  /\ UNCHANGED <<conns, abort, watched, session, pending, socketVars>>
  /\ UNCHANGED <<drained, inputs, inflight, aborted, dbVars, history>>

(* delete_conversation: check, guarded UPDATE and commit, check again.     *)
DeleteStep(d, from, to) ==
  /\ deletion[d] = from
  /\ deletion' = [deletion EXCEPT ![d] = to]
  /\ UNCHANGED <<managerVars, socketVars, turnVars, rows, acked, notified, history>>

CheckDelete(d) ==
  /\ DeleteStep(d, "idle", IF TurnActive THEN "refused" ELSE "checked")
  /\ UNCHANGED status

FlipStatus(d) ==
  /\ DeleteStep(d, "checked", IF status = "active" THEN "flipped" ELSE "refused")
  /\ status' = "deleted"

\* Variant: the check before the UPDATE is thought to be enough.
RecheckSkipped(d) ==
  /\ DeleteStep(d, "flipped", "ok")
  /\ UNCHANGED status

RecheckDelete(d) ==
  /\ DeleteStep(d, "flipped", IF TurnActive THEN "reverting" ELSE "ok")
  /\ UNCHANGED status

RevertDelete(d) ==
  /\ DeleteStep(d, "reverting", "refused")
  /\ status' = "active"

-----------------------------------------------------------------------------
SocketNext ==
  \E s \in Sockets :
    \/ Connect(s) \/ Disconnect(s) \/ Evict(s) \/ Stop(s)
    \/ \E m \in Msgs : \/ AcceptMessage(s, m) \/ RefuseMessage(s, m)
                       \/ BufferMessage(s, m) \/ InjectMessage(s, m)

\* What the event loop drives a turn through, the agent's own end apart.
TurnStep(t) ==
  \/ Lookup(t) \/ Register(t) \/ DrainOne(t) \/ StartAgent(t)
  \/ WatcherFires(t) \/ Settle(t) \/ WriteLedger(t) \/ Unwind(t)
  \/ Discard(t) \/ Release(t) \/ Close(t)

TurnFault(t) == SetupFails(t) \/ TurnFails(t)

InjectionStep(t) ==
  \/ Consume(t)
  \/ \E m \in Msgs : PersistInjected(t, m) \/ Watchdog(t, m)

JobNext ==
  \/ ApiStop
  \/ \E j \in Jobs : StartJob(j) \/ RefuseJob(j) \/ ClientVanishes(j)

DeliveryNext ==
  \E d \in Deliveries : ClaimDelivery(d) \/ GiveUpDelivery(d) \/ FinishDelivery(d)

DeleteNext ==
  \E d \in Deletes : CheckDelete(d) \/ FlipStatus(d) \/ RecheckDelete(d) \/ RevertDelete(d)

Next ==
  \/ SocketNext
  \/ \E m \in Msgs : Launch(m)
  \/ \E t \in Turns : TurnStep(t) \/ TurnFault(t) \/ AgentEnds(t) \/ InjectionStep(t)
  \/ JobNext
  \/ DeliveryNext
  \/ DeleteNext

Spec == Init /\ [][Next]_vars

\* The event loop keeps running every ready coroutine.  Nothing is assumed of
\* the agent: a model call or a tool may never return.
LoopFairness ==
  /\ \A m \in Msgs : WF_vars(Launch(m))
  /\ \A t \in Turns : WF_vars(TurnStep(t))
  /\ \A d \in Deliveries : WF_vars(FinishDelivery(d))

LoopSpec == Spec /\ LoopFairness
=============================================================================
