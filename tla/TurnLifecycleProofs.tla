------------------------- MODULE TurnLifecycleProofs -------------------------
(***************************************************************************)
(* Proofs about TurnLifecycle, for every set of sockets, messages, jobs,   *)
(* deliveries and delete requests and every limit.                         *)
(***************************************************************************)
EXTENDS TurnLifecycleProps, SequenceTheorems, TLAPS

-----------------------------------------------------------------------------
(* Sequences of messages.                                                  *)

\* A position taken out of a sequence leaves a sequence one shorter.
LEMMA RemoveAtType ==
  ASSUME NEW S, NEW s \in Seq(S), NEW i \in DOMAIN s
  PROVE  RemoveAt(s, i) \in Seq(S) /\ Len(RemoveAt(s, i)) = Len(s) - 1
  BY DEF RemoveAt

\* What taking the head of a list and appending it to a queue gives.
LEMMA DrainType ==
  ASSUME NEW S, NEW s \in Seq(S), s # <<>>
  PROVE  Head(s) \in S /\ Tail(s) \in Seq(S)
  OBVIOUS

\* The elements of a sequence over S are in S.
LEMMA ToSetType ==
  ASSUME NEW S, NEW s \in Seq(S)
  PROVE  ToSet(s) \subseteq S
  BY DEF ToSet

-----------------------------------------------------------------------------
(* Type correctness.                                                       *)

LEMMA TypeInit == Init => TypeOK
<1> SUFFICES ASSUME Init PROVE TypeOK
  OBVIOUS
<1> USE LifecycleAssumption DEF LifecycleAssumption
<1>1. pending \in Seq(Msgs) /\ Len(pending) <= PendingLimit
  BY DEF Init
<1>2. /\ drained \in [Turns -> Seq(Msgs)] /\ inputs \in [Turns -> Seq(Msgs)]
      /\ \A t \in Turns : Len(inputs[t]) <= QueueLimit
  BY DEF Init
<1>3. pc \in [Claimants -> Stations] /\ task \in [Sockets -> Turns \cup {None}]
  BY DEF Init, Stations
<1>4. deletion \in [Deletes -> {"idle", "checked", "flipped", "reverting", "ok", "refused"}]
  BY DEF Init
<1>5. inflight \in [Turns -> SUBSET Msgs]
  BY DEF Init
<1>. QED
  BY <1>1, <1>2, <1>3, <1>4, <1>5 DEF Init, TypeOK

LEMMA TypeSocket ==
  ASSUME TypeOK, SocketNext
  PROVE  TypeOK'
<1> USE LifecycleAssumption DEF TypeOK, managerVars, socketVars, turnVars, dbVars, history
<1>1. ASSUME NEW s \in Sockets, Connect(s)
      PROVE  TypeOK'
  BY <1>1 DEF Connect
<1>2. ASSUME NEW s \in Sockets, Disconnect(s)
      PROVE  TypeOK'
  BY <1>2 DEF Disconnect, DropAbort
<1>3. ASSUME NEW s \in Sockets, Evict(s)
      PROVE  TypeOK'
  BY <1>3 DEF Evict
<1>4. ASSUME NEW s \in Sockets, Stop(s)
      PROVE  TypeOK'
  BY <1>4 DEF Stop, SignalAbort
<1>5. ASSUME NEW s \in Sockets, NEW m \in Msgs, AcceptMessage(s, m)
      PROVE  TypeOK'
  BY <1>5, ToSetType DEF AcceptMessage, Claim, Turns, Claimants, Stations, Holding
<1>6. ASSUME NEW s \in Sockets, NEW m \in Msgs, RefuseMessage(s, m)
      PROVE  TypeOK'
  BY <1>6 DEF RefuseMessage, Goto, Turns, Claimants, Stations
<1>7. ASSUME NEW s \in Sockets, NEW m \in Msgs, BufferMessage(s, m)
      PROVE  TypeOK'
  BY <1>7 DEF BufferMessage, Goto, Turns, Claimants, Stations
<1>8. ASSUME NEW s \in Sockets, NEW m \in Msgs, InjectMessage(s, m)
      PROVE  TypeOK'
  BY <1>8 DEF InjectMessage, Goto, Turns, Claimants, Stations
<1>. QED
  BY <1>1, <1>2, <1>3, <1>4, <1>5, <1>6, <1>7, <1>8 DEF SocketNext

LEMMA TypeTurnStep ==
  ASSUME NEW t \in Turns, TypeOK, TurnStep(t)
  PROVE  TypeOK'
<1> USE LifecycleAssumption DEF LifecycleAssumption, TypeOK, managerVars, socketVars, turnVars, dbVars, history
<1>1. CASE Lookup(t)
  BY <1>1 DEF Lookup, Goto, Claimants, Stations, Holding
<1>2. CASE Register(t)
  BY <1>2 DEF Register, Goto, Claimants, Stations, Holding, Turns
<1>3. CASE DrainOne(t)
  <2>1. Head(drained[t]) \in Msgs /\ Tail(drained[t]) \in Seq(Msgs)
    BY <1>3, DrainType DEF DrainOne
  <2>2. drained' \in [Turns -> Seq(Msgs)]
    BY <1>3, <2>1 DEF DrainOne
  <2>3. /\ inputs' \in [Turns -> Seq(Msgs)]
        /\ \A u \in Turns : Len(inputs'[u]) <= QueueLimit
        /\ notified' \subseteq Msgs
    <3>1. CASE Len(inputs[t]) < QueueLimit
      <4>1. inputs' = [inputs EXCEPT ![t] = Append(@, Head(drained[t]))] /\ notified' = notified
        BY <1>3, <3>1 DEF DrainOne
      <4>2. /\ Append(inputs[t], Head(drained[t])) \in Seq(Msgs)
            /\ Len(Append(inputs[t], Head(drained[t]))) = Len(inputs[t]) + 1
            /\ Len(inputs[t]) \in Nat
        BY <2>1
      <4>. QED
        BY <3>1, <4>1, <4>2
    <3>2. CASE ~(Len(inputs[t]) < QueueLimit)
      BY <1>3, <2>1, <3>2 DEF DrainOne
    <3>. QED
      BY <3>1, <3>2
  <2>. QED
    BY <1>3, <2>2, <2>3 DEF DrainOne
<1>4. CASE StartAgent(t)
  BY <1>4 DEF StartAgent, Goto, Claimants, Stations, Holding
<1>5. CASE WatcherFires(t)
  BY <1>5 DEF WatcherFires, Goto, Claimants, Stations, Holding
<1>6. CASE Settle(t)
  BY <1>6 DEF Settle, Deregister, DropAbort, Goto, Claimants, Stations, Holding
<1>7. CASE WriteLedger(t)
  BY <1>7 DEF WriteLedger, Goto, Claimants, Stations, Holding
<1>8. CASE Unwind(t)
  BY <1>8 DEF Unwind, DropAbort, ReleaseClaim, Claimants, Stations, Holding
<1>9. CASE Discard(t)
  BY <1>9, ToSetType DEF Discard, Deregister, DropAbort, Goto, Claimants, Stations, Holding
<1>10. CASE Release(t)
  BY <1>10 DEF Release, ReleaseClaim, Claimants, Stations, Holding
<1>11. CASE Close(t)
  BY <1>11 DEF Close, Goto, Claimants, Stations, Holding
<1>. QED
  BY <1>1, <1>2, <1>3, <1>4, <1>5, <1>6, <1>7, <1>8, <1>9, <1>10, <1>11 DEF TurnStep

\* An injected message is taken, persisted, rejected, or watched over.
LEMMA TypeInjection ==
  ASSUME NEW t \in Turns, TypeOK, InjectionStep(t)
  PROVE  TypeOK'
<1> USE LifecycleAssumption DEF LifecycleAssumption, TypeOK, managerVars, socketVars, turnVars, dbVars, history
<1>1. CASE Consume(t)
  <2>1. ToSet(inputs[t]) \subseteq Msgs
    BY ToSetType
  <2>. QED
    BY <1>1, <2>1 DEF Consume
<1>2. ASSUME NEW m \in Msgs, PersistInjected(t, m)
      PROVE  TypeOK'
  BY <1>2 DEF PersistInjected
<1>3. ASSUME NEW m \in Msgs, Watchdog(t, m)
      PROVE  TypeOK'
  <2>1. /\ inputs' \in [Turns -> Seq(Msgs)]
        /\ \A u \in Turns : Len(inputs'[u]) <= QueueLimit
        /\ inflight' \in [Turns -> SUBSET Msgs]
    <3>1. CASE Unqueue(t, m) /\ UNCHANGED inflight
      <4>1. PICK i \in DOMAIN inputs[t] : inputs' = [inputs EXCEPT ![t] = RemoveAt(@, i)]
        BY <3>1 DEF Unqueue
      <4>2. RemoveAt(inputs[t], i) \in Seq(Msgs) /\ Len(RemoveAt(inputs[t], i)) = Len(inputs[t]) - 1
        BY <4>1, RemoveAtType
      <4>3. Len(inputs[t]) \in Nat
        OBVIOUS
      <4>. QED
        BY <3>1, <4>1, <4>2, <4>3
    <3>2. CASE m \in inflight[t] /\ inflight' = [inflight EXCEPT ![t] = @ \ {m}] /\ UNCHANGED inputs
      BY <3>2
    <3>. QED
      BY <1>3, <3>1, <3>2 DEF Watchdog
  <2>. QED
    BY <1>3, <2>1 DEF Watchdog, Orphan
<1>. QED
  BY <1>1, <1>2, <1>3 DEF InjectionStep

\* The steps that only move a claimant from one station to another.
LEMMA TypeGoto ==
  ASSUME TypeOK, NEW h \in Claimants, NEW to \in Stations, Goto(h, to),
         UNCHANGED <<managerVars, socketVars, drained, inputs, inflight, aborted, dbVars, history>>
  PROVE  TypeOK'
  BY DEF Goto, TypeOK, managerVars, socketVars, dbVars, history

LEMMA TypeJob ==
  ASSUME TypeOK, JobNext
  PROVE  TypeOK'
<1> USE LifecycleAssumption DEF LifecycleAssumption, TypeOK, managerVars, socketVars, turnVars, dbVars, history
<1>1. CASE ApiStop
  BY <1>1 DEF ApiStop, SignalAbort
<1>2. ASSUME NEW j \in Jobs, StartJob(j)
      PROVE  TypeOK'
  BY <1>2, ToSetType DEF StartJob, Claim, Turns, Claimants, Stations, Holding
<1>3. ASSUME NEW j \in Jobs, RefuseJob(j)
      PROVE  TypeOK'
  BY <1>3, TypeGoto DEF RefuseJob, Turns, Claimants, Stations
<1>4. ASSUME NEW j \in Jobs, ClientVanishes(j)
      PROVE  TypeOK'
  <2>1. pc' \in [Claimants -> Stations]
    BY <1>4 DEF ClientVanishes, Goto, Turns, Claimants, Stations, Holding
  <2>2. drained' \in [Turns -> Seq(Msgs)]
    BY <1>4 DEF ClientVanishes, Turns
  <2>3. abort' \in {"absent", "clear", "set"} /\ stops' \subseteq Turns
    BY <1>4 DEF ClientVanishes, SignalAbort
  <2>. QED
    BY <1>4, <2>1, <2>2, <2>3 DEF ClientVanishes
<1>. QED
  BY <1>1, <1>2, <1>3, <1>4 DEF JobNext

LEMMA TypeDelivery ==
  ASSUME TypeOK, DeliveryNext
  PROVE  TypeOK'
<1> USE DEF TypeOK, managerVars, socketVars, turnVars, dbVars, history
<1>1. ASSUME NEW d \in Deliveries, ClaimDelivery(d)
      PROVE  TypeOK'
  BY <1>1, ToSetType DEF ClaimDelivery, Claim, Claimants, Stations, Holding
<1>2. ASSUME NEW d \in Deliveries, GiveUpDelivery(d)
      PROVE  TypeOK'
  BY <1>2, TypeGoto DEF GiveUpDelivery, Claimants, Stations
<1>3. ASSUME NEW d \in Deliveries, FinishDelivery(d)
      PROVE  TypeOK'
  BY <1>3 DEF FinishDelivery, Goto, Claimants, Stations
<1>. QED
  BY <1>1, <1>2, <1>3 DEF DeliveryNext

LEMMA TypeDelete ==
  ASSUME TypeOK, DeleteNext
  PROVE  TypeOK'
<1> USE DEF TypeOK, managerVars, socketVars, turnVars, dbVars, history, DeleteStep
<1>1. ASSUME NEW d \in Deletes, CheckDelete(d)
      PROVE  TypeOK'
  BY <1>1 DEF CheckDelete
<1>2. ASSUME NEW d \in Deletes, FlipStatus(d)
      PROVE  TypeOK'
  BY <1>2 DEF FlipStatus
<1>3. ASSUME NEW d \in Deletes, RecheckDelete(d)
      PROVE  TypeOK'
  BY <1>3 DEF RecheckDelete
<1>4. ASSUME NEW d \in Deletes, RevertDelete(d)
      PROVE  TypeOK'
  BY <1>4 DEF RevertDelete
<1>. QED
  BY <1>1, <1>2, <1>3, <1>4 DEF DeleteNext

\* TypeOK is inductive by itself.
LEMMA TypeNext == TypeOK /\ [Next]_vars => TypeOK'
<1> SUFFICES ASSUME TypeOK, [Next]_vars PROVE TypeOK'
  OBVIOUS
<1>1. CASE SocketNext
  BY <1>1, TypeSocket
<1>2. ASSUME NEW m \in Msgs, Launch(m)
      PROVE  TypeOK'
  BY <1>2, TypeGoto DEF Launch, Turns, Claimants, Stations, Holding
<1>3. ASSUME NEW t \in Turns, TurnStep(t) \/ TurnFault(t) \/ AgentEnds(t) \/ InjectionStep(t)
      PROVE  TypeOK'
  <2>1. CASE TurnStep(t)
    BY <2>1, TypeTurnStep
  <2>2. CASE TurnFault(t)
    BY <2>2, TypeGoto DEF TurnFault, SetupFails, TurnFails, Claimants, Stations, Holding
  <2>3. CASE AgentEnds(t)
    BY <2>3, TypeGoto DEF AgentEnds, Claimants, Stations, Holding
  <2>4. CASE InjectionStep(t)
    BY <2>4, TypeInjection
  <2>. QED
    BY <1>3, <2>1, <2>2, <2>3, <2>4
<1>4. CASE JobNext
  BY <1>4, TypeJob
<1>5. CASE DeliveryNext
  BY <1>5, TypeDelivery
<1>6. CASE DeleteNext
  BY <1>6, TypeDelete
<1>7. CASE UNCHANGED vars
  BY <1>7 DEF vars, managerVars, socketVars, turnVars, dbVars, history, TypeOK
<1>. QED
  BY <1>1, <1>2, <1>3, <1>4, <1>5, <1>6, <1>7 DEF Next

\* Every state variable keeps its type, the queue and the buffer their limits.
THEOREM TypeCorrect == Spec => []TypeOK
  BY TypeInit, TypeNext, PTL DEF Spec

-----------------------------------------------------------------------------
(* Ownership.  For the claim a step is one of six kinds.                   *)
Takes(h) ==
  /\ ~claimed /\ pc[h] = "idle"
  /\ claimed' = TRUE /\ \E to \in Holding : Goto(h, to)
Works(h) ==
  /\ Holds(h) /\ claimed' = claimed
  /\ \E to \in Holding : Goto(h, to)
Gives(h) ==
  /\ Holds(h) /\ claimed' = FALSE
  /\ \E to \in {"closing", "done"} : Goto(h, to)
Leaks(h) == h \in Cancellable /\ Holds(h) /\ claimed' = claimed /\ Goto(h, "done")
IsTurnedAway(h) ==
  /\ pc[h] = "idle" /\ claimed' = claimed
  /\ \E to \in {"injected", "done"} : Goto(h, to)
Finishes(h) == pc[h] = "closing" /\ claimed' = claimed /\ Goto(h, "done")

StepOf(h) ==
  Takes(h) \/ Works(h) \/ Gives(h) \/ Leaks(h) \/ IsTurnedAway(h) \/ Finishes(h)

OwnershipStep == UNCHANGED <<pc, claimed>> \/ \E h \in Claimants : StepOf(h)

LEMMA SocketOwnership ==
  ASSUME SocketNext
  PROVE  OwnershipStep
<1> USE DEF OwnershipStep, managerVars, socketVars, turnVars
<1>1. ASSUME NEW s \in Sockets, Connect(s) \/ Disconnect(s) \/ Evict(s) \/ Stop(s)
      PROVE  OwnershipStep
  BY <1>1 DEF Connect, Disconnect, DropAbort, Evict, Stop
<1>2. ASSUME NEW s \in Sockets, NEW m \in Msgs, AcceptMessage(s, m)
      PROVE  OwnershipStep
  BY <1>2 DEF AcceptMessage, Claim, StepOf, Takes, Goto, Holding, Claimants, Turns
<1>3. ASSUME NEW s \in Sockets, NEW m \in Msgs,
             RefuseMessage(s, m) \/ BufferMessage(s, m) \/ InjectMessage(s, m)
      PROVE  OwnershipStep
  BY <1>3 DEF RefuseMessage, BufferMessage, InjectMessage, StepOf, IsTurnedAway, Claimants, Turns
<1>. QED
  BY <1>1, <1>2, <1>3 DEF SocketNext

LEMMA TurnOwnership ==
  ASSUME NEW t \in Turns, TurnStep(t) \/ TurnFault(t) \/ AgentEnds(t) \/ InjectionStep(t)
  PROVE  OwnershipStep
<1> USE DEF OwnershipStep, StepOf, Holds, Holding, managerVars, socketVars, Claimants
<1>1. CASE Lookup(t) \/ Register(t) \/ StartAgent(t) \/ WatcherFires(t)
  BY <1>1 DEF Lookup, Register, StartAgent, WatcherFires, Works
<1>2. CASE Settle(t) \/ WriteLedger(t) \/ Discard(t)
  BY <1>2 DEF Settle, WriteLedger, Discard, Works
<1>3. CASE Unwind(t) \/ Release(t)
  BY <1>3 DEF Unwind, Release, ReleaseClaim, Gives, Goto
<1>4. CASE Close(t)
  BY <1>4 DEF Close, Finishes
<1>5. CASE TurnFault(t) \/ AgentEnds(t)
  BY <1>5 DEF TurnFault, SetupFails, TurnFails, AgentEnds, Works
<1>6. CASE DrainOne(t) \/ InjectionStep(t)
  BY <1>6 DEF DrainOne, InjectionStep, Consume, PersistInjected, Watchdog
<1>. QED
  BY <1>1, <1>2, <1>3, <1>4, <1>5, <1>6 DEF TurnStep

LEMMA Ownership ==
  ASSUME Next
  PROVE  OwnershipStep
<1> USE DEF OwnershipStep, StepOf, Claimants, Turns, managerVars, socketVars
<1>1. ASSUME NEW m \in Msgs, Launch(m)
      PROVE  OwnershipStep
  BY <1>1 DEF Launch, Works, Holds, Holding
<1>2. ASSUME NEW j \in Jobs, StartJob(j)
      PROVE  OwnershipStep
  BY <1>2 DEF StartJob, Claim, Takes, Goto, Holding
<1>3. ASSUME NEW j \in Jobs, RefuseJob(j)
      PROVE  OwnershipStep
  BY <1>3 DEF RefuseJob, IsTurnedAway
<1>4. ASSUME NEW j \in Jobs, ClientVanishes(j)
      PROVE  OwnershipStep
  BY <1>4 DEF ClientVanishes, Works, Leaks, Holds, Holding
<1>5. CASE ApiStop
  BY <1>5 DEF ApiStop, turnVars
<1>6. CASE DeliveryNext
  BY <1>6 DEF DeliveryNext, ClaimDelivery, GiveUpDelivery, FinishDelivery,
              Claim, Takes, Gives, IsTurnedAway, Goto, Holds, Holding
<1>7. CASE DeleteNext
  BY <1>7 DEF DeleteNext, CheckDelete, FlipStatus, RecheckDelete, RevertDelete, DeleteStep, turnVars
<1>. QED
  BY <1>1, <1>2, <1>3, <1>4, <1>5, <1>6, <1>7, SocketOwnership, TurnOwnership DEF Next, JobNext

-----------------------------------------------------------------------------
(* One claimant at a time.                                                 *)
ClaimInv == AtMostOneTurn /\ WorkIsClaimed

LEMMA ClaimInit == Init => ClaimInv
  BY DEF Init, ClaimInv, AtMostOneTurn, WorkIsClaimed, Holds, Holding

\* A claimant begins to work only when the claim is free, and then by
\* WorkIsClaimed nobody works; no other step makes a new one work.
LEMMA ClaimNext ==
  ASSUME TypeOK, ClaimInv, [Next]_vars
  PROVE  ClaimInv'
<1> USE DEF ClaimInv, AtMostOneTurn, WorkIsClaimed
<1>1. pc \in [Claimants -> Stations]
  BY DEF TypeOK
<1>2. CASE UNCHANGED <<pc, claimed>>
  BY <1>2 DEF Holds
<1>3. ASSUME NEW h \in Claimants, StepOf(h)
      PROVE  ClaimInv'
  <2>1. CASE Takes(h)
    BY <1>1, <2>1 DEF Takes, Goto, Holds
  <2>2. CASE Works(h)
    BY <1>1, <2>2 DEF Works, Goto, Holds
  <2>3. CASE Gives(h)
    BY <1>1, <2>3 DEF Gives, Goto, Holds, Holding
  <2>4. CASE Leaks(h)
    BY <1>1, <2>4 DEF Leaks, Goto, Holds, Holding
  <2>5. CASE IsTurnedAway(h)
    BY <1>1, <2>5 DEF IsTurnedAway, Goto, Holds, Holding
  <2>6. CASE Finishes(h)
    BY <1>1, <2>6 DEF Finishes, Goto, Holds, Holding
  <2>. QED
    BY <1>3, <2>1, <2>2, <2>3, <2>4, <2>5, <2>6 DEF StepOf
<1>4. CASE Next
  BY <1>2, <1>3, <1>4, Ownership DEF OwnershipStep
<1>. QED
  BY <1>2, <1>4 DEF vars, turnVars, managerVars

\* Never two turns on one conversation, whoever claims and releases it.
THEOREM OneTurnAtATime == Spec => []AtMostOneTurn
  BY TypeCorrect, ClaimInit, ClaimNext, PTL DEF Spec, ClaimInv

\* Nobody works on the conversation without the claim: it is released once, and last.
THEOREM WorkStaysClaimed == Spec => []WorkIsClaimed
  BY TypeCorrect, ClaimInit, ClaimNext, PTL DEF Spec, ClaimInv

-----------------------------------------------------------------------------
(* Stops.  Why a Stop is neither lost nor taken by the wrong turn: as long *)
(* as the Event is set whoever holds the claim was its addressee, because  *)
(* the next turn starts with the Event cleared.                            *)
SetMeansStopped == abort = "set" => \A t \in Turns : Holds(t) => t \in stops

\* A turn is stopped after it began, never before.
StoppedHasBegun == \A t \in stops : pc[t] # "idle"

StopInv ==
  /\ SetMeansStopped /\ StoppedHasBegun
  /\ NoStaleStop /\ StopIsNotForgotten
  /\ StopReachesRunningTurn /\ ConnectedTabCanStop

Before == {"accepted", "lookup", "setup", "drain"}
stopVars == <<conns, abort, watched, aborted, stops>>

LEMMA StopInit == Init => StopInv
<1> SUFFICES ASSUME Init PROVE StopInv
  OBVIOUS
<1>1. \A t \in Turns : pc[t] = "idle"
  BY DEF Init, Claimants
<1>2. stops = {} /\ aborted = {} /\ conns = {} /\ abort = "absent"
  BY DEF Init
<1>. QED
  BY <1>1, <1>2 DEF StopInv, SetMeansStopped, StoppedHasBegun, NoStaleStop,
         StopIsNotForgotten, StopReachesRunningTurn, ConnectedTabCanStop

\* A claimant that moves on, without touching the Event, changes nothing: it
\* neither starts to hold, to run, nor to wait again for its agent.
LEMMA StopMove ==
  ASSUME TypeOK, StopInv, NEW h \in Claimants, NEW to \in Stations,
         Goto(h, to), UNCHANGED stopVars,
         to \in Before => pc[h] \in Before,
         to \in Holding /\ h \in Turns => Holds(h),
         to \notin {"idle", "run"}
  PROVE  StopInv'
<1> USE DEF stopVars
<1>1. pc' = [pc EXCEPT ![h] = to] /\ pc \in [Claimants -> Stations] /\ stops \subseteq Claimants
  BY DEF Goto, TypeOK, Claimants
<1>2. SetMeansStopped'
  BY <1>1 DEF StopInv, SetMeansStopped, Holds, Claimants
<1>3. StoppedHasBegun'
  BY <1>1 DEF StopInv, StoppedHasBegun
<1>4. StopIsNotForgotten'
  BY <1>1 DEF StopInv, StopIsNotForgotten, Before
<1>5. StopReachesRunningTurn'
  BY <1>1 DEF StopInv, StopReachesRunningTurn, Claimants
<1>. QED
  BY <1>2, <1>3, <1>4, <1>5 DEF StopInv, NoStaleStop, ConnectedTabCanStop

\* Nor does a step that leaves the stations and the Event alone.
LEMMA StopQuiet ==
  ASSUME StopInv, UNCHANGED <<pc, stopVars>>
  PROVE  StopInv'
  BY DEF stopVars, StopInv, SetMeansStopped, StoppedHasBegun, NoStaleStop,
         StopIsNotForgotten, StopReachesRunningTurn, ConnectedTabCanStop, Holds

\* Whoever takes the claim clears a set Event first; nobody was working.
LEMMA StopClaim ==
  ASSUME TypeOK, ClaimInv, StopInv, NEW h \in Claimants, NEW to \in Holding,
         Claim(h, to), pc[h] = "idle", to # "run",
         h \in Turns => abort' # "set",
         abort # "absent" => abort' # "absent",
         abort' = "set" => abort = "set",
         UNCHANGED <<conns, watched, aborted, stops>>
  PROVE  StopInv'
<1>1. /\ pc' = [pc EXCEPT ![h] = to] /\ pc \in [Claimants -> Stations]
      /\ stops \subseteq Claimants /\ Turns \subseteq Claimants
  BY DEF Claim, TypeOK, Claimants
<1>2. \A g \in Claimants : ~Holds(g)
  BY DEF Claim, ClaimInv, WorkIsClaimed
<1>3. SetMeansStopped'
  BY <1>1, <1>2 DEF SetMeansStopped, Holds
<1>4. StoppedHasBegun'
  BY <1>1 DEF StopInv, StoppedHasBegun, Holding
<1>5. StopIsNotForgotten'
  BY <1>1, <1>2 DEF StopIsNotForgotten, StopInv, StoppedHasBegun, Holds, Holding, Claim
<1>6. StopReachesRunningTurn'
  BY <1>1, <1>2 DEF StopReachesRunningTurn, Holds, Holding
<1>. QED
  BY <1>3, <1>4, <1>5, <1>6 DEF StopInv, NoStaleStop, ConnectedTabCanStop

\* An abort frame, an abort call, or the disconnect of a published stream's
\* client: the Event is set, and whoever holds the claim is its addressee.
\* At most a holder is sent to a station where no Stop is waited for.
LEMMA StopSignal ==
  ASSUME TypeOK, StopInv, SignalAbort, UNCHANGED <<conns, watched, aborted>>,
         pc' = pc \/ \E h \in Claimants, to \in {"dead", "settle", "unwind", "done"} :
                       Holds(h) /\ Goto(h, to)
  PROVE  StopInv'
<1>1. /\ \A t \in Turns : Holds(t)' => Holds(t)
      /\ \A t \in Turns : pc'[t] # pc[t] => pc'[t] \in {"dead", "settle", "unwind", "done"}
  BY DEF Goto, Holds, TypeOK, Claimants
<1>2. CASE abort = "absent"
  BY <1>1, <1>2 DEF SignalAbort, StopInv, SetMeansStopped, StoppedHasBegun, NoStaleStop,
              StopIsNotForgotten, StopReachesRunningTurn, ConnectedTabCanStop, TypeOK
<1>3. CASE abort # "absent"
  <2>1. abort' = "set" /\ stops' = stops \cup {t \in Turns : Holds(t)}
    BY <1>3 DEF SignalAbort
  <2>2. SetMeansStopped' /\ StopIsNotForgotten'
    BY <1>1, <2>1 DEF SetMeansStopped, StopIsNotForgotten
  <2>3. StoppedHasBegun'
    BY <1>1, <2>1 DEF StopInv, StoppedHasBegun, Holds, Holding, TypeOK
  <2>4. NoStaleStop' /\ StopReachesRunningTurn' /\ ConnectedTabCanStop'
    BY <1>1, <2>1 DEF StopInv, NoStaleStop, StopReachesRunningTurn, ConnectedTabCanStop
  <2>. QED
    BY <2>2, <2>3, <2>4 DEF StopInv
<1>. QED
  BY <1>2, <1>3

LEMMA StopSocket ==
  ASSUME TypeOK, ClaimInv, StopInv, SocketNext
  PROVE  StopInv'
<1> USE DEF managerVars, socketVars, turnVars, dbVars, history, stopVars
<1>1. ASSUME NEW s \in Sockets, Connect(s)
      PROVE  StopInv'
  BY <1>1 DEF Connect, StopInv, SetMeansStopped, StoppedHasBegun, NoStaleStop,
              StopIsNotForgotten, StopReachesRunningTurn, ConnectedTabCanStop, Holds
<1>2. ASSUME NEW s \in Sockets, Disconnect(s)
      PROVE  StopInv'
  <2>1. CASE conns' = {} /\ session = None /\ ~claimed
    <3>1. \A t \in Turns : ~Holds(t)
      BY <2>1 DEF ClaimInv, WorkIsClaimed, Claimants
    <3>2. abort' = "absent" /\ pc' = pc /\ stops' = stops /\ aborted' = aborted
      BY <1>2, <2>1 DEF Disconnect, DropAbort
    <3>3. StopIsNotForgotten' /\ StopReachesRunningTurn'
      BY <3>1, <3>2 DEF StopIsNotForgotten, StopReachesRunningTurn, Holds, Holding, StopInv, NoStaleStop, TypeOK
    <3>. QED
      BY <2>1, <3>2, <3>3 DEF StopInv, SetMeansStopped, StoppedHasBegun, NoStaleStop, ConnectedTabCanStop
  <2>2. CASE ~(conns' = {} /\ session = None /\ ~claimed)
    BY <1>2, <2>2 DEF Disconnect, StopInv, SetMeansStopped, StoppedHasBegun, NoStaleStop,
              StopIsNotForgotten, StopReachesRunningTurn, ConnectedTabCanStop, Holds
  <2>. QED
    BY <2>1, <2>2
<1>3. ASSUME NEW s \in Sockets, Evict(s)
      PROVE  StopInv'
  BY <1>3 DEF Evict, StopInv, SetMeansStopped, StoppedHasBegun, NoStaleStop,
              StopIsNotForgotten, StopReachesRunningTurn, ConnectedTabCanStop, Holds
<1>4. ASSUME NEW s \in Sockets, Stop(s)
      PROVE  StopInv'
  BY <1>4, StopSignal DEF Stop
<1>5. ASSUME NEW s \in Sockets, NEW m \in Msgs, AcceptMessage(s, m)
      PROVE  StopInv'
  BY <1>5, StopClaim DEF AcceptMessage, Holding, Claimants, Turns
<1>6. ASSUME NEW s \in Sockets, NEW m \in Msgs,
             RefuseMessage(s, m) \/ BufferMessage(s, m) \/ InjectMessage(s, m)
      PROVE  StopInv'
  BY <1>6, StopMove DEF RefuseMessage, BufferMessage, InjectMessage,
                        Before, Holding, Stations, Claimants, Turns
<1>. QED
  BY <1>1, <1>2, <1>3, <1>4, <1>5, <1>6 DEF SocketNext

LEMMA StopTurnStep ==
  ASSUME TypeOK, ClaimInv, StopInv, NEW t \in Turns, TurnStep(t)
  PROVE  StopInv'
<1> USE DEF managerVars, socketVars, turnVars, dbVars, history, stopVars
<1>0. t \in Claimants /\ pc \in [Claimants -> Stations]
  BY DEF Claimants, TypeOK
<1>1. CASE Lookup(t) \/ Register(t) \/ WriteLedger(t) \/ Release(t) \/ Close(t)
  BY <1>0, <1>1, StopMove DEF Lookup, Register, WriteLedger, Release, ReleaseClaim, Close,
                              Goto, Before, Holding, Holds, Stations
<1>2. CASE DrainOne(t)
  BY <1>2, StopQuiet DEF DrainOne
<1>3. CASE StartAgent(t)
  <2>1. pc' = [pc EXCEPT ![t] = "run"] /\ t \in watched' /\ watched \subseteq watched'
    BY <1>3 DEF StartAgent, Goto
  <2>2. /\ abort' # "absent" /\ (abort' = "set" <=> abort = "set")
        /\ stops' = stops /\ aborted' = aborted /\ conns' = conns
    BY <1>3 DEF StartAgent, TypeOK
  <2>3. pc[t] = "drain"
    BY <1>3 DEF StartAgent
  <2>4. SetMeansStopped' /\ StoppedHasBegun'
    BY <1>0, <2>1, <2>2, <2>3 DEF StopInv, SetMeansStopped, StoppedHasBegun, Holds, Holding, Claimants, TypeOK
  <2>5. StopIsNotForgotten'
    BY <1>0, <2>1, <2>2, <2>3 DEF StopInv, StopIsNotForgotten, Claimants, TypeOK
  <2>6. StopReachesRunningTurn'
    BY <1>0, <2>1, <2>2, <2>3 DEF StopInv, StopReachesRunningTurn, Claimants
  <2>. QED
    BY <2>2, <2>4, <2>5, <2>6 DEF StopInv, NoStaleStop, ConnectedTabCanStop
<1>4. CASE WatcherFires(t)
  <2>1. /\ pc' = [pc EXCEPT ![t] = "settle"] /\ abort' = abort /\ stops' = stops /\ conns' = conns
        /\ watched' = watched \ {t} /\ aborted' = aborted \cup {t}
        /\ abort = "set" /\ Holds(t)
    BY <1>4 DEF WatcherFires, Goto, Holds, Holding
  <2>2. SetMeansStopped' /\ NoStaleStop'
    BY <1>0, <2>1 DEF StopInv, SetMeansStopped, NoStaleStop, Holds, Holding, Claimants
  <2>3. StoppedHasBegun' /\ StopIsNotForgotten' /\ StopReachesRunningTurn'
    BY <1>0, <2>1 DEF StopInv, StoppedHasBegun, StopIsNotForgotten, StopReachesRunningTurn, Claimants, TypeOK
  <2>. QED
    BY <2>1, <2>2, <2>3 DEF StopInv, ConnectedTabCanStop
<1>5. CASE Settle(t) \/ Unwind(t) \/ Discard(t)
  <2>1. PICK to \in {"tail", "closing", "release"} : pc' = [pc EXCEPT ![t] = to]
    BY <1>5 DEF Settle, Unwind, Discard, ReleaseClaim, Goto
  <2>2. /\ Holds(t)
        /\ conns' = conns /\ stops' = stops /\ aborted' = aborted
        /\ (abort' = "absent" /\ conns = {}) \/ abort' = abort
        /\ watched' = {} \/ watched \ {t} \subseteq watched'
    BY <1>5 DEF Settle, Unwind, Discard, Deregister, DropAbort, Holds, Holding
  <2>3. \A u \in Turns : u # t => ~Holds(u) /\ pc'[u] = pc[u]
    BY <1>0, <2>1, <2>2 DEF ClaimInv, AtMostOneTurn, Claimants
  <2>4. SetMeansStopped' /\ StoppedHasBegun'
    BY <1>0, <2>1, <2>2, <2>3 DEF StopInv, SetMeansStopped, StoppedHasBegun, Holds, TypeOK
  <2>5. StopIsNotForgotten' /\ StopReachesRunningTurn'
    BY <1>0, <2>1, <2>2, <2>3 DEF StopIsNotForgotten, StopReachesRunningTurn, Holds, Holding, TypeOK
  <2>. QED
    BY <2>2, <2>4, <2>5 DEF StopInv, NoStaleStop, ConnectedTabCanStop
<1>. QED
  BY <1>1, <1>2, <1>3, <1>4, <1>5 DEF TurnStep

LEMMA StopNext ==
  ASSUME TypeOK, ClaimInv, StopInv, [Next]_vars
  PROVE  StopInv'
<1> USE DEF managerVars, socketVars, turnVars, dbVars, history, stopVars
<1>1. ASSUME NEW m \in Msgs, Launch(m)
      PROVE  StopInv'
  BY <1>1, StopMove DEF Launch, Before, Holding, Holds, Stations, Claimants, Turns
<1>2. ASSUME NEW t \in Turns, TurnFault(t) \/ AgentEnds(t)
      PROVE  StopInv'
  BY <1>2, StopMove DEF TurnFault, SetupFails, TurnFails, AgentEnds, Before, Holding, Holds, Stations, Claimants
<1>3. ASSUME NEW t \in Turns, InjectionStep(t)
      PROVE  StopInv'
  BY <1>3, StopQuiet DEF InjectionStep, Consume, PersistInjected, Watchdog
<1>4. CASE ApiStop
  BY <1>4, StopSignal DEF ApiStop
<1>5. ASSUME NEW j \in Jobs, StartJob(j)
      PROVE  StopInv'
  BY <1>5, StopClaim DEF StartJob, Holding, Claimants, Turns
<1>6. ASSUME NEW j \in Jobs, RefuseJob(j)
      PROVE  StopInv'
  BY <1>6, StopMove DEF RefuseJob, Before, Holding, Stations, Claimants, Turns
<1>7. ASSUME NEW j \in Jobs, ClientVanishes(j)
      PROVE  StopInv'
  BY <1>7, StopSignal DEF ClientVanishes, Holding, Holds, Claimants, Turns
<1>8. ASSUME NEW d \in Deliveries, ClaimDelivery(d)
      PROVE  StopInv'
  BY <1>8, StopClaim, LifecycleAssumption DEF LifecycleAssumption, ClaimDelivery, Holding, Claimants
<1>9. ASSUME NEW d \in Deliveries, GiveUpDelivery(d) \/ FinishDelivery(d)
      PROVE  StopInv'
  BY <1>9, StopMove DEF GiveUpDelivery, FinishDelivery, Before, Holding, Stations, Claimants
<1>10. CASE DeleteNext
  BY <1>10, StopQuiet DEF DeleteNext, CheckDelete, FlipStatus, RecheckDelete, RevertDelete, DeleteStep
<1>11. CASE UNCHANGED vars
  BY <1>11, StopQuiet DEF vars
<1>. QED
  BY <1>1, <1>2, <1>3, <1>4, <1>5, <1>6, <1>7, <1>8, <1>9, <1>10, <1>11, StopSocket, StopTurnStep
  DEF Next, JobNext, DeliveryNext

LEMMA StopAlways == Spec => [](ClaimInv /\ StopInv)
  BY TypeCorrect, ClaimInit, ClaimNext, StopInit, StopNext, PTL DEF Spec

\* A Stop reaches the running turn, and a connected tab can always send one, whatever
\* sockets came and went since the turn was claimed.
THEOREM StopIsReliable == Spec => []StopsAreHeard
<1>1. ClaimInv /\ StopInv => StopsAreHeard
  BY DEF StopInv, StopsAreHeard
<1>. QED
  BY <1>1, StopAlways, PTL

\* A Stop is remembered until the agent of the turn it was sent to is done.
THEOREM StopIsRemembered == Spec => []StopIsNotForgotten
<1>1. ClaimInv /\ StopInv => StopIsNotForgotten
  BY DEF StopInv
<1>. QED
  BY <1>1, StopAlways, PTL

\* A Stop never ends another turn than the one it was sent to.
THEOREM StopStaysWithItsTurn == Spec => []NoStaleStop
<1>1. ClaimInv /\ StopInv => NoStaleStop
  BY DEF StopInv
<1>. QED
  BY <1>1, StopAlways, PTL

-----------------------------------------------------------------------------
(* Refinement: the manager and its callers implement TurnClaim.            *)
LEMMA OwnerIsHolder ==
  ASSUME AtMostOneTurn, NEW h \in Claimants, Holds(h)
  PROVE  Owner = h
  BY DEF AtMostOneTurn, Owner

LEMMA OwnerOnlyHolder ==
  ASSUME NEW h \in Claimants, ~Holds(h)
  PROVE  Owner # h
  BY LifecycleAssumption DEF LifecycleAssumption, Owner

LEMMA OwnerNone ==
  ASSUME \A h \in Claimants : ~Holds(h)
  PROVE  Owner = None
  BY DEF Owner

LEMMA RefineInit == Init => Abstract!Init
  BY OwnerNone DEF Init, Abstract!Init, Served, Holds, Holding

\* Taking, giving back (or leaking) and being turned away are the abstract
\* steps of that name, every other step of a claimant stutters.
LEMMA RefineStep ==
  ASSUME TypeOK, ClaimInv, ClaimInv', NEW h \in Claimants, StepOf(h)
  PROVE  Abstract!Next \/ UNCHANGED <<Owner, Served>>
<1>1. pc \in [Claimants -> Stations]
  BY DEF TypeOK
<1>2. \A g \in Claimants : g # h => (pc'[g] = pc[g])
  BY <1>1 DEF StepOf, Takes, Works, Gives, Leaks, IsTurnedAway, Finishes, Goto
<1>3. ASSUME NEW g \in Claimants, Holds(g)'
      PROVE  Owner' = g
  BY <1>3 DEF ClaimInv, AtMostOneTurn, Owner
<1>4. ASSUME \A g \in Claimants : ~Holds(g)'
      PROVE  Owner' = None
  BY <1>4 DEF Owner
<1>5. CASE Takes(h)
  <2>1. pc[h] = "idle" /\ pc'[h] \in Holding
    BY <1>1, <1>5 DEF Takes, Goto
  <2>2. Owner = None
    BY <1>5, OwnerNone DEF Takes, ClaimInv, WorkIsClaimed
  <2>3. Owner' = h
    BY <1>3, <2>1 DEF Holds
  <2>4. Served' = Served /\ h \notin Served
    BY <1>2, <2>1 DEF Served, Holding
  <2>. QED
    BY <2>2, <2>3, <2>4 DEF Abstract!Next, Abstract!Take
<1>6. CASE Works(h)
  <2>1. pc[h] \in Holding /\ pc'[h] \in Holding
    BY <1>1, <1>6 DEF Works, Goto, Holds
  <2>2. Owner = h /\ Owner' = h
    BY <1>3, <2>1, OwnerIsHolder DEF Holds, ClaimInv
  <2>3. Served' = Served
    BY <1>2, <2>1 DEF Served, Holding
  <2>. QED
    BY <2>2, <2>3
<1>7. CASE Gives(h) \/ Leaks(h)
  <2>1. pc[h] \in Holding /\ pc'[h] \in {"closing", "done"}
    BY <1>1, <1>7 DEF Gives, Leaks, Goto, Holds
  <2>2. Owner = h
    BY <2>1, OwnerIsHolder DEF Holds, ClaimInv
  <2>3. \A g \in Claimants : ~Holds(g)'
    BY <1>2, <2>1 DEF ClaimInv, AtMostOneTurn, Holds, Holding
  <2>4. Owner' = None
    BY <1>4, <2>3
  <2>5. Served' = Served \cup {h}
    BY <1>2, <2>1 DEF Served, Holding
  <2>. QED
    BY <2>2, <2>4, <2>5 DEF Abstract!Next, Abstract!Give
<1>8. CASE IsTurnedAway(h) \/ Finishes(h)
  <2>1. /\ pc[h] \in {"idle", "closing"} /\ pc'[h] \in {"injected", "done"}
        /\ ~Holds(h) /\ ~Holds(h)'
    BY <1>1, <1>8 DEF IsTurnedAway, Finishes, Goto, Holds, Holding
  <2>2. \A g \in Claimants : Holds(g)' <=> Holds(g)
    BY <1>2, <2>1 DEF Holds
  <2>3. Owner' = Owner
    BY <1>3, <1>4, <2>2, OwnerIsHolder, OwnerNone DEF ClaimInv
  <2>4. Served' = Served \cup {h}
    BY <1>2, <2>1 DEF Served
  <2>5. Owner # h
    BY <2>1, OwnerOnlyHolder
  <2>6. CASE pc[h] = "idle"
    <3>1. h \notin Served
      BY <2>6 DEF Served
    <3>. QED
      BY <2>3, <2>4, <2>5, <3>1 DEF Abstract!Next, Abstract!TurnAway
  <2>7. CASE pc[h] = "closing"
    <3>1. h \in Served
      BY <2>7 DEF Served
    <3>. QED
      BY <2>3, <2>4, <3>1
  <2>. QED
    BY <2>1, <2>6, <2>7
<1>. QED
  BY <1>5, <1>6, <1>7, <1>8 DEF StepOf

LEMMA RefineNext ==
  ASSUME TypeOK, ClaimInv, ClaimInv', [Next]_vars
  PROVE  [Abstract!Next]_<<Owner, Served>>
<1>1. CASE UNCHANGED <<pc, claimed>>
  BY <1>1 DEF Owner, Served, Holds
<1>2. CASE Next
  BY <1>1, <1>2, Ownership, RefineStep DEF OwnershipStep
<1>. QED
  BY <1>1, <1>2 DEF vars, turnVars, managerVars

\* The claim in the manager, taken and released all over the code without an
\* owner, implements the one-at-a-time ownership of TurnClaim.
THEOREM ClaimImplementsOwnership == Spec => ImplementsTurnClaim
<1>1. Spec => []TypeOK /\ []ClaimInv
  BY TypeCorrect, ClaimInit, ClaimNext, PTL DEF Spec
<1>2. TypeOK /\ ClaimInv /\ ClaimInv' /\ [Next]_vars => [Abstract!Next]_<<Owner, Served>>
  BY RefineNext
<1>. QED
  BY <1>1, <1>2, RefineInit, PTL DEF Spec, ImplementsTurnClaim, Abstract!Spec

-----------------------------------------------------------------------------
(* Deletion.  The guarded UPDATE lets one request at a time own the deleted *)
(* status, and once it has checked again the first query of run_turn keeps  *)
(* every later turn out.                                                    *)
Deleting(d) == deletion[d] \in {"flipped", "reverting", "ok"}

OneDeleter ==
  /\ \A c, d \in Deletes : Deleting(c) /\ Deleting(d) => c = d
  /\ \A d \in Deletes : Deleting(d) => status = "deleted"

DeleteInv == OneDeleter /\ DeletedIsQuiet

LEMMA DeleteInit == Init => DeleteInv
  BY DEF Init, DeleteInv, OneDeleter, DeletedIsQuiet, Deleting

\* What every other step leaves to the deletion: a turn passes the first query
\* of run_turn only while the conversation is active.
StaysOut ==
  /\ UNCHANGED <<status, deletion>>
  /\ \A t \in Turns : PastLookup(t)' => PastLookup(t) \/ status = "active"

LEMMA OthersStayOut ==
  ASSUME TypeOK, Next
  PROVE  DeleteNext \/ StaysOut
<1> USE DEF StaysOut, PastLookup, managerVars, socketVars, turnVars, dbVars, history
<1>1. pc \in [Claimants -> Stations] /\ Turns \subseteq Claimants
  BY DEF TypeOK, Claimants
<1>2. CASE SocketNext
  <2>1. ASSUME NEW s \in Sockets, Connect(s) \/ Disconnect(s) \/ Evict(s) \/ Stop(s)
        PROVE  StaysOut
    BY <2>1 DEF Connect, Disconnect, Evict, Stop
  <2>2. ASSUME NEW s \in Sockets, NEW m \in Msgs,
               AcceptMessage(s, m) \/ RefuseMessage(s, m) \/ BufferMessage(s, m) \/ InjectMessage(s, m)
        PROVE  StaysOut
    BY <1>1, <2>2 DEF AcceptMessage, Claim, RefuseMessage, BufferMessage, InjectMessage, Goto
  <2>. QED
    BY <1>2, <2>1, <2>2 DEF SocketNext
<1>3. ASSUME NEW m \in Msgs, Launch(m)
      PROVE  StaysOut
  BY <1>1, <1>3 DEF Launch, Goto
<1>4. ASSUME NEW t \in Turns, TurnStep(t)
      PROVE  StaysOut
  <2>1. CASE Lookup(t) \/ Register(t) \/ DrainOne(t) \/ StartAgent(t)
    BY <1>1, <2>1 DEF Lookup, Register, DrainOne, StartAgent, Goto
  <2>2. CASE WatcherFires(t) \/ Settle(t) \/ WriteLedger(t) \/ Unwind(t)
    BY <1>1, <2>2 DEF WatcherFires, Settle, WriteLedger, Unwind, ReleaseClaim, Goto
  <2>3. CASE Discard(t) \/ Release(t) \/ Close(t)
    BY <1>1, <2>3 DEF Discard, Release, ReleaseClaim, Close, Goto
  <2>. QED
    BY <1>4, <2>1, <2>2, <2>3 DEF TurnStep
<1>5. ASSUME NEW t \in Turns, TurnFault(t) \/ AgentEnds(t) \/ InjectionStep(t)
      PROVE  StaysOut
  BY <1>1, <1>5 DEF TurnFault, SetupFails, TurnFails, AgentEnds, InjectionStep,
                    Consume, PersistInjected, Watchdog, Goto
<1>6. CASE JobNext
  <2>1. CASE ApiStop
    BY <2>1 DEF ApiStop
  <2>2. ASSUME NEW j \in Jobs, StartJob(j) \/ RefuseJob(j) \/ ClientVanishes(j)
        PROVE  StaysOut
    BY <1>1, <2>2 DEF StartJob, Claim, RefuseJob, ClientVanishes, Goto
  <2>. QED
    BY <1>6, <2>1, <2>2 DEF JobNext
<1>7. CASE DeliveryNext
  BY <1>1, <1>7 DEF DeliveryNext, ClaimDelivery, Claim, GiveUpDelivery, FinishDelivery, Goto
<1>. QED
  BY <1>2, <1>3, <1>4, <1>5, <1>6, <1>7 DEF Next

LEMMA DeleteNextInv ==
  ASSUME TypeOK, ClaimInv, DeleteInv, [Next]_vars
  PROVE  DeleteInv'
<1> USE DEF DeleteInv, OneDeleter, DeletedIsQuiet, Deleting
<1>1. CASE StaysOut
  BY <1>1 DEF StaysOut
<1>2. CASE UNCHANGED vars
  BY <1>2 DEF vars, dbVars, turnVars, PastLookup
<1>3. ASSUME NEW d \in Deletes,
             CheckDelete(d) \/ FlipStatus(d) \/ RecheckDelete(d) \/ RevertDelete(d)
      PROVE  DeleteInv'
  <2>1. deletion \in [Deletes -> {"idle", "checked", "flipped", "reverting", "ok", "refused"}]
    BY DEF TypeOK
  <2>2. pc' = pc
    BY <1>3 DEF CheckDelete, FlipStatus, RecheckDelete, RevertDelete, DeleteStep, turnVars
  <2>3. CASE CheckDelete(d)
    BY <2>1, <2>2, <2>3 DEF CheckDelete, DeleteStep, PastLookup
  <2>4. CASE FlipStatus(d)
    BY <2>1, <2>2, <2>4 DEF FlipStatus, DeleteStep, PastLookup
  <2>5. CASE RecheckDelete(d)
    <3>1. ~TurnActive => \A t \in Turns : ~PastLookup(t)
      BY DEF TurnActive, ClaimInv, WorkIsClaimed, PastLookup, Holds, Holding, Claimants
    <3>. QED
      BY <2>1, <2>2, <2>5, <3>1 DEF RecheckDelete, DeleteStep, PastLookup
  <2>6. CASE RevertDelete(d)
    BY <2>1, <2>2, <2>6 DEF RevertDelete, DeleteStep, PastLookup
  <2>. QED
    BY <1>3, <2>3, <2>4, <2>5, <2>6
<1>. QED
  BY <1>1, <1>2, <1>3, OthersStayOut DEF DeleteNext

\* A conversation that was reported deleted stays deleted and no turn gets
\* past its first query any more, however the requests and turns interleave.
THEOREM DeletedStaysQuiet == Spec => []DeletedIsQuiet
<1>1. DeleteInv => DeletedIsQuiet
  BY DEF DeleteInv
<1>. QED
  BY <1>1, TypeCorrect, ClaimInit, ClaimNext, DeleteInit, DeleteNextInv, PTL DEF Spec

-----------------------------------------------------------------------------
(* Custody of acknowledged messages.                                       *)

\* What appending, taking the head and removing a position do to the elements.
LEMMA AppendElements ==
  ASSUME NEW S, NEW s \in Seq(S), NEW e \in S
  PROVE  ToSet(Append(s, e)) = ToSet(s) \cup {e}
<1>1. DOMAIN s = 1 .. Len(s) /\ DOMAIN Append(s, e) = 1 .. Len(s) + 1
  OBVIOUS
<1>2. \A i \in 1 .. Len(s) : Append(s, e)[i] = s[i]
  OBVIOUS
<1>3. Append(s, e)[Len(s) + 1] = e
  OBVIOUS
<1>4. Len(s) \in Nat
  OBVIOUS
<1>. QED
  BY <1>1, <1>2, <1>3, <1>4 DEF ToSet

LEMMA TailElements ==
  ASSUME NEW S, NEW s \in Seq(S), s # <<>>
  PROVE  ToSet(s) \subseteq {Head(s)} \cup ToSet(Tail(s))
<1>1. Len(s) \in Nat \ {0} /\ Len(Tail(s)) = Len(s) - 1 /\ Tail(s) \in Seq(S)
  OBVIOUS
<1>2. DOMAIN s = 1 .. Len(s) /\ DOMAIN Tail(s) = 1 .. Len(s) - 1 /\ Head(s) = s[1]
  BY <1>1
<1>3. \A k \in 1 .. Len(s) - 1 : Tail(s)[k] = s[k + 1]
  BY <1>1
<1>4. ASSUME NEW k \in DOMAIN s, k # 1
      PROVE  s[k] \in ToSet(Tail(s))
  <2>1. k - 1 \in 1 .. Len(s) - 1 /\ Tail(s)[k - 1] = s[k]
    BY <1>1, <1>2, <1>3, <1>4
  <2>. QED
    BY <1>2, <2>1 DEF ToSet
<1>. QED
  BY <1>2, <1>4 DEF ToSet

LEMMA RemoveAtElements ==
  ASSUME NEW S, NEW s \in Seq(S), NEW i \in DOMAIN s
  PROVE  ToSet(s) \subseteq {s[i]} \cup ToSet(RemoveAt(s, i))
<1> DEFINE r == RemoveAt(s, i)
<1>1. /\ Len(s) \in Nat /\ i \in 1 .. Len(s) /\ DOMAIN s = 1 .. Len(s)
      /\ r \in Seq(S) /\ Len(r) = Len(s) - 1
  BY RemoveAtType
<1>2. \A k \in 1 .. i - 1 : k \in DOMAIN r /\ r[k] = s[k]
  BY <1>1 DEF RemoveAt
<1>3. \A k \in i + 1 .. Len(s) : k - 1 \in DOMAIN r /\ r[k - 1] = s[k]
  <2> DEFINE a == SubSeq(s, 1, i - 1)
             b == SubSeq(s, i + 1, Len(s))
  <2>1. a \in Seq(S) /\ Len(a) = i - 1
    BY <1>1
  <2>2. /\ b \in Seq(S) /\ Len(b) = Len(s) - i
        /\ \A j \in 1 .. Len(s) - i : b[j] = s[i + j]
    BY <1>1
  <2> HIDE DEF a, b
  <2>3. \A k \in 1 .. Len(a) + Len(b) :
          (a \o b)[k] = IF k <= Len(a) THEN a[k] ELSE b[k - Len(a)]
    BY <2>1, <2>2, ConcatProperties
  <2>4. r = a \o b
    BY DEF a, b, RemoveAt
  <2>5. ASSUME NEW k \in i + 1 .. Len(s)
        PROVE  k - 1 \in DOMAIN r /\ r[k - 1] = s[k]
    <3>1. k - 1 \in 1 .. Len(a) + Len(b) /\ ~(k - 1 <= Len(a))
      BY <1>1, <2>1, <2>2
    <3>2. k - 1 - Len(a) = k - i /\ k - i \in 1 .. Len(s) - i /\ i + (k - i) = k
      <4>1. i \in Int /\ k \in Int /\ i + 1 <= k /\ k <= Len(s) /\ Len(s) \in Int
        BY <1>1
      <4>. QED
        BY <4>1, <2>1
    <3>3. r[k - 1] = b[k - i]
      BY <2>3, <2>4, <3>1, <3>2
    <3>4. b[k - i] = s[k]
      BY <2>2, <3>2
    <3>5. k - 1 \in DOMAIN r
      BY <1>1
    <3>. QED
      BY <3>3, <3>4, <3>5
  <2>. QED
    BY <2>5
<1>. QED
  BY <1>1, <1>2, <1>3 DEF ToSet

\* Only a turn in its drain loop still has messages to enqueue.
DrainedOnlyInDrain == \A t \in Turns : drained[t] # <<>> => pc[t] = "drain"

Keeps(m) ==
  \/ m \in rows \cup notified \cup ToSet(pending)
  \/ \E t \in Turns : m \in SessionOwes(t) \cup ToSet(drained[t])

CustodyInv == DrainedOnlyInDrain /\ \A m \in acked : Keeps(m)

LEMMA CustodyInit == Init => CustodyInv
  BY DEF Init, CustodyInv, DrainedOnlyInDrain

\* A step that acknowledges nothing and loses no message that is kept.
LEMMA CustodyKept ==
  ASSUME CustodyInv, DrainedOnlyInDrain', acked' \subseteq acked,
         \A m \in Msgs : Keeps(m) => Keeps(m)', TypeOK
  PROVE  CustodyInv'
  BY DEF CustodyInv, TypeOK

\* A step that only moves a claimant, which was not draining.
LEMMA CustodyMove ==
  ASSUME TypeOK, CustodyInv, NEW h \in Claimants, NEW to \in Stations,
         pc' = [pc EXCEPT ![h] = to], h \in Turns => drained'[h] = <<>>,
         \A t \in Turns : drained'[t] # <<>> => drained'[t] = drained[t]
  PROVE  DrainedOnlyInDrain'
  BY DEF TypeOK, CustodyInv, DrainedOnlyInDrain, Claimants

LEMMA CustodyTurnStep ==
  ASSUME TypeOK, CustodyInv, NEW t \in Turns, TurnStep(t)
  PROVE  CustodyInv'
<1> USE DEF managerVars, socketVars, turnVars, dbVars, history
<1>0. /\ t \in Claimants /\ pc \in [Claimants -> Stations] /\ pending \in Seq(Msgs)
      /\ drained \in [Turns -> Seq(Msgs)] /\ inputs \in [Turns -> Seq(Msgs)]
      /\ ToSet(pending) \subseteq Msgs
  BY ToSetType DEF Claimants, TypeOK
<1>1. CASE Register(t)
  <2>1. /\ drained' = [drained EXCEPT ![t] = pending] /\ pending' = <<>>
        /\ pc' = [pc EXCEPT ![t] = "drain"] /\ pc[t] = "setup"
        /\ inputs' = inputs /\ inflight' = inflight /\ notified' = notified
        /\ rows \subseteq rows' /\ acked' = acked
    BY <1>1 DEF Register, Goto
  <2>2. DrainedOnlyInDrain'
    BY <1>0, <2>1 DEF CustodyInv, DrainedOnlyInDrain, Claimants
  <2>3. drained[t] = <<>>
    BY <2>1 DEF CustodyInv, DrainedOnlyInDrain
  <2>4. ToSet(<<>>) = {}
    BY DEF ToSet
  <2>5. ToSet(drained'[t]) = ToSet(pending)
    BY <1>0, <2>1
  <2>6. \A u \in Turns : u # t => drained'[u] = drained[u]
    BY <1>0, <2>1
  <2>7. ASSUME NEW m \in Msgs, Keeps(m)
        PROVE  Keeps(m)'
    BY <2>1, <2>3, <2>4, <2>5, <2>6, <2>7 DEF Keeps, SessionOwes
  <2>. QED
    BY <2>1, <2>2, <2>7, CustodyKept
<1>2. CASE DrainOne(t)
  <2>1. /\ drained[t] # <<>> /\ pc[t] = "drain" /\ pc' = pc
        /\ drained' = [drained EXCEPT ![t] = Tail(@)]
        /\ pending' = pending /\ inflight' = inflight /\ rows' = rows /\ acked' = acked
        /\ \/ inputs' = [inputs EXCEPT ![t] = Append(@, Head(drained[t]))] /\ notified' = notified
           \/ notified' = notified \cup {Head(drained[t])} /\ inputs' = inputs
    BY <1>2 DEF DrainOne
  <2>2. DrainedOnlyInDrain'
    BY <1>0, <2>1 DEF CustodyInv, DrainedOnlyInDrain
  <2>3. ToSet(drained[t]) \subseteq {Head(drained[t])} \cup ToSet(drained'[t])
    BY <1>0, <2>1, TailElements
  <2>4. Head(drained[t]) \in Msgs
    BY <1>0, <2>1, DrainType
  <2>5. ToSet(Append(inputs[t], Head(drained[t]))) = ToSet(inputs[t]) \cup {Head(drained[t])}
    BY <1>0, <2>4, AppendElements
  <2>6. /\ \A u \in Turns : ToSet(inputs[u]) \subseteq ToSet(inputs'[u])
        /\ Head(drained[t]) \in notified' \cup ToSet(inputs'[t])
    <3>1. CASE inputs' = [inputs EXCEPT ![t] = Append(@, Head(drained[t]))] /\ notified' = notified
      <4>1. \A u \in Turns : inputs'[u] = IF u = t THEN Append(inputs[t], Head(drained[t])) ELSE inputs[u]
        BY <1>0, <3>1
      <4>. QED
        BY <2>5, <4>1
    <3>2. CASE notified' = notified \cup {Head(drained[t])} /\ inputs' = inputs
      BY <3>2
    <3>. QED
      BY <2>1, <3>1, <3>2
  <2>7. /\ notified \subseteq notified'
        /\ \A u \in Turns : u # t => drained'[u] = drained[u]
    BY <1>0, <2>1
  <2>8. ASSUME NEW m \in Msgs, Keeps(m)
        PROVE  Keeps(m)'
    <3>1. CASE m \in rows \cup notified \cup ToSet(pending)
      BY <2>1, <2>7, <3>1 DEF Keeps
    <3>2. ASSUME NEW u \in Turns, m \in SessionOwes(u)
          PROVE  Keeps(m)'
      BY <2>1, <2>6, <3>2 DEF Keeps, SessionOwes
    <3>3. ASSUME NEW u \in Turns, m \in ToSet(drained[u])
          PROVE  Keeps(m)'
      BY <2>3, <2>6, <2>7, <3>3 DEF Keeps, SessionOwes
    <3>. QED
      BY <2>8, <3>1, <3>2, <3>3 DEF Keeps
  <2>. QED
    BY <2>1, <2>2, <2>8, CustodyKept
<1>3. CASE Discard(t)
  <2>1. /\ pc' = [pc EXCEPT ![t] = "release"] /\ pc[t] = "dead" /\ pending' = <<>>
        /\ notified' = notified \cup ToSet(pending) /\ rows' = rows /\ acked' = acked
        /\ inputs' = inputs /\ inflight' = inflight /\ drained' = drained
    BY <1>3 DEF Discard, Goto
  <2>2. DrainedOnlyInDrain'
    BY <1>0, <2>1 DEF CustodyInv, DrainedOnlyInDrain, Claimants
  <2>3. \A m \in Msgs : Keeps(m) => Keeps(m)'
    BY <2>1 DEF Keeps, SessionOwes
  <2>. QED
    BY <2>1, <2>2, <2>3, CustodyKept
<1>4. CASE \/ Lookup(t) \/ StartAgent(t) \/ WatcherFires(t) \/ Settle(t)
           \/ WriteLedger(t) \/ Unwind(t) \/ Release(t) \/ Close(t)
  <2>1. /\ drained' = drained /\ inputs' = inputs /\ inflight' = inflight
        /\ pending' = pending /\ rows' = rows /\ notified' = notified /\ acked' = acked
    BY <1>4 DEF Lookup, StartAgent, WatcherFires, Settle, WriteLedger, Unwind, Release, Close
  <2>2. drained[t] = <<>> /\ \E to \in Stations : pc' = [pc EXCEPT ![t] = to]
    BY <1>4 DEF Lookup, StartAgent, WatcherFires, Settle, WriteLedger, Unwind, Release, Close,
                ReleaseClaim, Goto, Stations, Holding, CustodyInv, DrainedOnlyInDrain
  <2>3. DrainedOnlyInDrain'
    BY <1>0, <2>1, <2>2, CustodyMove
  <2>4. \A m \in Msgs : Keeps(m) => Keeps(m)'
    BY <2>1 DEF Keeps, SessionOwes
  <2>. QED
    BY <2>1, <2>3, <2>4, CustodyKept
<1>. QED
  BY <1>1, <1>2, <1>3, <1>4 DEF TurnStep

LEMMA CustodySocket ==
  ASSUME TypeOK, CustodyInv, SocketNext
  PROVE  CustodyInv'
<1> USE DEF managerVars, socketVars, turnVars, dbVars, history
<1>0. /\ pc \in [Claimants -> Stations] /\ pending \in Seq(Msgs) /\ session \in Turns \cup {None}
      /\ inputs \in [Turns -> Seq(Msgs)] /\ Msgs \subseteq Claimants /\ Turns \subseteq Claimants
      /\ acked \subseteq Msgs
  BY DEF Claimants, Turns, TypeOK
<1>1. ASSUME NEW s \in Sockets, Connect(s) \/ Disconnect(s) \/ Evict(s) \/ Stop(s)
      PROVE  CustodyInv'
  <2>1. UNCHANGED <<pc, drained, inputs, inflight, pending, rows, notified, acked>>
    BY <1>1 DEF Connect, Disconnect, Evict, Stop
  <2>. QED
    BY <2>1 DEF CustodyInv, DrainedOnlyInDrain, Keeps, SessionOwes
<1>2. ASSUME NEW s \in Sockets, NEW m \in Msgs, AcceptMessage(s, m) \/ RefuseMessage(s, m)
      PROVE  CustodyInv'
  <2>1. /\ UNCHANGED <<drained, inputs, inflight, pending, rows, acked>>
        /\ notified \subseteq notified' /\ pc[m] = "idle"
        /\ \E to \in {"accepted", "injected"} : pc' = [pc EXCEPT ![m] = to]
    BY <1>2 DEF AcceptMessage, RefuseMessage, Claim, Goto
  <2>2. DrainedOnlyInDrain'
    BY <1>0, <2>1 DEF CustodyInv, DrainedOnlyInDrain
  <2>. QED
    BY <2>1, <2>2 DEF CustodyInv, Keeps, SessionOwes
<1>3. ASSUME NEW s \in Sockets, NEW m \in Msgs, BufferMessage(s, m)
      PROVE  CustodyInv'
  <2>1. /\ UNCHANGED <<drained, inputs, inflight, rows, notified>>
        /\ pc[m] = "idle" /\ pc' = [pc EXCEPT ![m] = "injected"]
        /\ pending' = Append(pending, m) /\ acked' = acked \cup {m}
    BY <1>3 DEF BufferMessage, Goto
  <2>2. DrainedOnlyInDrain'
    BY <1>0, <2>1 DEF CustodyInv, DrainedOnlyInDrain
  <2>3. ToSet(pending') = ToSet(pending) \cup {m}
    BY <1>0, <2>1, AppendElements
  <2>. QED
    BY <2>1, <2>2, <2>3 DEF CustodyInv, Keeps, SessionOwes
<1>4. ASSUME NEW s \in Sockets, NEW m \in Msgs, InjectMessage(s, m)
      PROVE  CustodyInv'
  <2>1. /\ UNCHANGED <<drained, inflight, pending, rows, notified>>
        /\ pc[m] = "idle" /\ pc' = [pc EXCEPT ![m] = "injected"]
        /\ session \in Turns /\ acked' = acked \cup {m}
        /\ inputs' = [inputs EXCEPT ![session] = Append(@, m)]
    BY <1>0, <1>4 DEF InjectMessage, Goto
  <2>2. DrainedOnlyInDrain'
    BY <1>0, <2>1 DEF CustodyInv, DrainedOnlyInDrain
  <2>3. ToSet(Append(inputs[session], m)) = ToSet(inputs[session]) \cup {m}
    BY <1>0, <2>1, AppendElements
  <2>4. /\ \A u \in Turns : ToSet(inputs[u]) \subseteq ToSet(inputs'[u])
        /\ m \in ToSet(inputs'[session])
    <3>1. \A u \in Turns : inputs'[u] = IF u = session THEN Append(inputs[session], m) ELSE inputs[u]
      BY <1>0, <2>1
    <3>. QED
      BY <2>1, <2>3, <3>1
  <2>. QED
    BY <2>1, <2>2, <2>4 DEF CustodyInv, Keeps, SessionOwes
<1>. QED
  BY <1>1, <1>2, <1>3, <1>4 DEF SocketNext

LEMMA CustodyInjection ==
  ASSUME TypeOK, CustodyInv, NEW t \in Turns, InjectionStep(t)
  PROVE  CustodyInv'
<1> USE DEF managerVars, socketVars, turnVars, dbVars, history
<1>0. inputs \in [Turns -> Seq(Msgs)] /\ inflight \in [Turns -> SUBSET Msgs]
  BY DEF TypeOK
<1>1. CASE Consume(t)
  <2>1. /\ UNCHANGED <<pc, drained, pending, rows, notified, acked>>
        /\ inflight' = [inflight EXCEPT ![t] = ToSet(inputs[t])] /\ inflight[t] = {}
        /\ inputs' = [inputs EXCEPT ![t] = <<>>]
    BY <1>1 DEF Consume
  <2>2. \A u \in Turns : SessionOwes(u) \subseteq SessionOwes(u)'
    BY <1>0, <2>1 DEF SessionOwes
  <2>. QED
    BY <2>1, <2>2 DEF CustodyInv, DrainedOnlyInDrain, Keeps
<1>2. ASSUME NEW m \in Msgs, PersistInjected(t, m)
      PROVE  CustodyInv'
  <2>1. /\ UNCHANGED <<pc, drained, pending, inputs, acked>>
        /\ inflight' = [inflight EXCEPT ![t] = @ \ {m}]
        /\ rows \subseteq rows' /\ notified \subseteq notified' /\ m \in rows' \cup notified'
    BY <1>2 DEF PersistInjected
  <2>2. \A u \in Turns : SessionOwes(u) \subseteq SessionOwes(u)' \cup {m}
    BY <1>0, <2>1 DEF SessionOwes
  <2>. QED
    BY <2>1, <2>2 DEF CustodyInv, DrainedOnlyInDrain, Keeps
<1>3. ASSUME NEW m \in Msgs, Watchdog(t, m)
      PROVE  CustodyInv'
  <2>1. /\ UNCHANGED <<pc, drained, pending, acked>>
        /\ rows \subseteq rows' /\ notified' = notified \cup {m}
    BY <1>3 DEF Watchdog, Orphan
  <2>2. \A u \in Turns : SessionOwes(u) \subseteq SessionOwes(u)' \cup {m}
    <3>1. CASE Unqueue(t, m) /\ UNCHANGED inflight
      <4>1. PICK i \in DOMAIN inputs[t] :
              inputs[t][i] = m /\ inputs' = [inputs EXCEPT ![t] = RemoveAt(@, i)]
        BY <3>1 DEF Unqueue
      <4>2. ToSet(inputs[t]) \subseteq {m} \cup ToSet(RemoveAt(inputs[t], i))
        BY <1>0, <4>1, RemoveAtElements
      <4>3. \A u \in Turns : inputs'[u] = IF u = t THEN RemoveAt(inputs[t], i) ELSE inputs[u]
        BY <1>0, <4>1
      <4>. QED
        BY <3>1, <4>2, <4>3 DEF SessionOwes
    <3>2. CASE inflight' = [inflight EXCEPT ![t] = @ \ {m}] /\ UNCHANGED inputs
      BY <1>0, <3>2 DEF SessionOwes
    <3>. QED
      BY <1>3, <3>1, <3>2 DEF Watchdog
  <2>. QED
    BY <2>1, <2>2 DEF CustodyInv, DrainedOnlyInDrain, Keeps
<1>. QED
  BY <1>1, <1>2, <1>3 DEF InjectionStep

LEMMA CustodyNext ==
  ASSUME \A j \in Cancellable : pc[j] = "idle", TypeOK, CustodyInv, [Next]_vars
  PROVE  CustodyInv'
<1> USE DEF managerVars, socketVars, turnVars, dbVars, history
<1>0. pc \in [Claimants -> Stations] /\ Turns \subseteq Claimants
  BY DEF TypeOK, Claimants
<1>1. ASSUME NEW h \in Claimants, NEW to \in Stations, Goto(h, to), to # "drain",
             h \in Turns => pc[h] # "drain" \/ drained[h] = <<>>,
             UNCHANGED <<drained, inputs, inflight, pending, rows, notified, acked>>
      PROVE  CustodyInv'
  <2>1. DrainedOnlyInDrain'
    BY <1>0, <1>1 DEF Goto, CustodyInv, DrainedOnlyInDrain
  <2>. QED
    BY <1>1, <2>1 DEF CustodyInv, Keeps, SessionOwes
<1>2. ASSUME NEW m \in Msgs, Launch(m)
      PROVE  CustodyInv'
  BY <1>1, <1>2 DEF Launch, Stations, Holding, Claimants, Turns
<1>3. ASSUME NEW t \in Turns, TurnFault(t) \/ AgentEnds(t)
      PROVE  CustodyInv'
  BY <1>1, <1>3 DEF TurnFault, SetupFails, TurnFails, AgentEnds, Stations, Holding, Claimants
<1>4. ASSUME NEW j \in Jobs, StartJob(j) \/ RefuseJob(j)
      PROVE  CustodyInv'
  BY <1>1, <1>4 DEF StartJob, RefuseJob, Claim, Goto, Stations, Holding, Claimants, Turns
<1>5. ASSUME NEW d \in Deliveries, ClaimDelivery(d) \/ GiveUpDelivery(d) \/ FinishDelivery(d)
      PROVE  CustodyInv'
  <2>1. d \in Claimants /\ d \notin Turns
    BY LifecycleAssumption DEF LifecycleAssumption, Claimants
  <2>. QED
    BY <1>1, <1>5, <2>1 DEF ClaimDelivery, GiveUpDelivery, FinishDelivery, Claim, Goto, Stations, Holding
<1>6. CASE ApiStop \/ DeleteNext \/ UNCHANGED vars
  <2>1. UNCHANGED <<pc, drained, inputs, inflight, pending, rows, notified, acked>>
    BY <1>6 DEF ApiStop, DeleteNext, CheckDelete, FlipStatus, RecheckDelete, RevertDelete, DeleteStep, vars
  <2>. QED
    BY <2>1 DEF CustodyInv, DrainedOnlyInDrain, Keeps, SessionOwes
<1>7. \A j \in Jobs : ~ClientVanishes(j)
  BY DEF ClientVanishes
<1>. QED
  BY <1>2, <1>3, <1>4, <1>5, <1>6, <1>7, CustodySocket, CustodyTurnStep, CustodyInjection
  DEF Next, JobNext, DeliveryNext

-----------------------------------------------------------------------------
(* Nobody leaves the claim or the session behind.                          *)

\* A session is registered only between register_session and the release.
SessionInv == session # None => pc[session] \in {"drain", "run", "settle", "unwind"}

HolderInv == ClaimHasHolder /\ SessionInv

LEMMA HolderInit == Init => HolderInv
  BY DEF Init, HolderInv, ClaimHasHolder, SessionInv

\* Without the leaking step a claim keeps its holder until it is released.
LEMMA HolderKept ==
  ASSUME TypeOK, ClaimInv, ClaimHasHolder, NEW h \in Claimants, StepOf(h), ~Leaks(h)
  PROVE  ClaimHasHolder'
<1> USE DEF ClaimHasHolder
<1>1. pc \in [Claimants -> Stations]
  BY DEF TypeOK
<1>2. CASE Takes(h)
  BY <1>1, <1>2 DEF Takes, Goto, Holds
<1>3. CASE Works(h)
  BY <1>1, <1>3 DEF Works, Goto, Holds
<1>4. CASE Gives(h)
  BY <1>4 DEF Gives
<1>5. CASE IsTurnedAway(h) \/ Finishes(h)
  <2>1. /\ ~Holds(h) /\ claimed' = claimed
        /\ \A g \in Claimants : g # h => pc'[g] = pc[g]
    BY <1>1, <1>5 DEF IsTurnedAway, Finishes, Goto, Holds, Holding
  <2>. QED
    BY <2>1 DEF Holds
<1>. QED
  BY <1>2, <1>3, <1>4, <1>5 DEF StepOf

LEMMA SessionKept ==
  ASSUME \A j \in Cancellable : pc'[j] # "done", TypeOK, ClaimInv, SessionInv, Next
  PROVE  SessionInv'
<1> USE DEF SessionInv, managerVars, socketVars, turnVars, dbVars, history
<1>0. /\ pc \in [Claimants -> Stations] /\ session \in Turns \cup {None}
      /\ Turns \subseteq Claimants
  BY DEF TypeOK, Claimants
<1>1. CASE SocketNext
  <2>1. ASSUME NEW s \in Sockets, Connect(s) \/ Disconnect(s) \/ Evict(s) \/ Stop(s)
        PROVE  SessionInv'
    BY <2>1 DEF Connect, Disconnect, Evict, Stop
  <2>2. ASSUME NEW s \in Sockets, NEW m \in Msgs,
               AcceptMessage(s, m) \/ RefuseMessage(s, m) \/ BufferMessage(s, m) \/ InjectMessage(s, m)
        PROVE  SessionInv'
    BY <1>0, <2>2 DEF AcceptMessage, Claim, RefuseMessage, BufferMessage, InjectMessage, Goto
  <2>. QED
    BY <1>1, <2>1, <2>2 DEF SocketNext
<1>2. ASSUME NEW m \in Msgs, Launch(m)
      PROVE  SessionInv'
  BY <1>0, <1>2 DEF Launch, Goto
<1>3. ASSUME NEW t \in Turns, TurnStep(t)
      PROVE  SessionInv'
  <2>1. CASE Lookup(t) \/ Register(t) \/ DrainOne(t) \/ StartAgent(t)
    BY <1>0, <2>1 DEF Lookup, Register, DrainOne, StartAgent, Goto
  <2>2. CASE WatcherFires(t) \/ Settle(t) \/ WriteLedger(t) \/ Unwind(t)
    BY <1>0, <2>2 DEF WatcherFires, Settle, Deregister, WriteLedger, Unwind, Goto
  <2>3. CASE Discard(t) \/ Release(t) \/ Close(t)
    BY <1>0, <2>3 DEF Discard, Deregister, Release, ReleaseClaim, Close, Goto
  <2>. QED
    BY <1>3, <2>1, <2>2, <2>3 DEF TurnStep
<1>4. ASSUME NEW t \in Turns, TurnFault(t) \/ AgentEnds(t) \/ InjectionStep(t)
      PROVE  SessionInv'
  BY <1>0, <1>4 DEF TurnFault, SetupFails, TurnFails, AgentEnds, InjectionStep,
                    Consume, PersistInjected, Watchdog, Goto
<1>5. CASE JobNext
  <2>1. ASSUME NEW j \in Jobs, ClientVanishes(j)
        PROVE  SessionInv'
    <3>1. session' = session /\ j \in Cancellable /\ pc'[j] # "done"
      BY <2>1 DEF ClientVanishes
    <3>2. \A h \in Claimants : h # j => pc'[h] = pc[h]
      BY <1>0, <2>1 DEF ClientVanishes, Goto
    <3>3. CASE session = j
      BY <1>0, <2>1, <3>1, <3>3 DEF ClientVanishes, Goto
    <3>. QED
      BY <1>0, <3>1, <3>2, <3>3
  <2>2. CASE ApiStop
    BY <2>2 DEF ApiStop
  <2>3. ASSUME NEW j \in Jobs, StartJob(j) \/ RefuseJob(j)
        PROVE  SessionInv'
    BY <1>0, <2>3 DEF StartJob, Claim, RefuseJob, Goto
  <2>. QED
    BY <1>5, <2>1, <2>2, <2>3 DEF JobNext
<1>6. CASE DeliveryNext
  BY <1>0, <1>6 DEF DeliveryNext, ClaimDelivery, Claim, GiveUpDelivery, FinishDelivery, Goto
<1>7. CASE DeleteNext
  BY <1>7 DEF DeleteNext, CheckDelete, FlipStatus, RecheckDelete, RevertDelete, DeleteStep
<1>. QED
  BY <1>1, <1>2, <1>3, <1>4, <1>5, <1>6, <1>7 DEF Next

LEMMA HolderNext ==
  ASSUME \A j \in Cancellable : pc'[j] # "done", TypeOK, ClaimInv, HolderInv, [Next]_vars
  PROVE  HolderInv'
<1>1. ASSUME NEW h \in Claimants, StepOf(h)
      PROVE  ClaimHasHolder'
  <2>1. ~Leaks(h)
    BY DEF Leaks, Goto, TypeOK
  <2>. QED
    BY <1>1, <2>1, HolderKept DEF HolderInv
<1>2. CASE Next
  <2>1. ClaimHasHolder'
    BY <1>1, <1>2, Ownership DEF OwnershipStep, HolderInv, ClaimHasHolder, Holds
  <2>. QED
    BY <2>1, <1>2, SessionKept DEF HolderInv
<1>3. CASE UNCHANGED vars
  BY <1>3 DEF vars, turnVars, managerVars, HolderInv, ClaimHasHolder, SessionInv, Holds
<1>. QED
  BY <1>2, <1>3

\* A stream that has ended does not go on, and one that has begun is not idle again.
LEMMA StreamsGoOn ==
  ASSUME TypeOK, [Next]_vars, NEW h \in Claimants
  PROVE  /\ pc[h] = "done" => pc'[h] = "done"
         /\ pc[h] # "idle" => pc'[h] # "idle"
<1>1. ASSUME NEW g \in Claimants, StepOf(g)
      PROVE  pc[g] # "done" /\ pc'[g] # "idle" /\ (h # g => pc'[h] = pc[h])
  <2>1. ASSUME NEW to, Goto(g, to)
        PROVE  pc'[g] = to /\ (h # g => pc'[h] = pc[h])
    BY <2>1 DEF Goto, TypeOK
  <2>2. "done" \notin Holding /\ "idle" \notin Holding
    BY DEF Holding
  <2>3. CASE Takes(g) \/ IsTurnedAway(g)
    BY <2>1, <2>2, <2>3 DEF Takes, IsTurnedAway
  <2>4. CASE Works(g) \/ Gives(g) \/ Leaks(g)
    BY <2>1, <2>2, <2>4 DEF Works, Gives, Leaks, Holds
  <2>5. CASE Finishes(g)
    BY <2>1, <2>5 DEF Finishes
  <2>. QED
    BY <1>1, <2>3, <2>4, <2>5 DEF StepOf
<1>2. CASE Next
  BY <1>1, <1>2, Ownership DEF OwnershipStep
<1>3. CASE UNCHANGED vars
  BY <1>3 DEF vars, turnVars
<1>. QED
  BY <1>2, <1>3

\* As long as the streams are not cut off, holders and custodians stay.
ServedInv ==
  /\ (\A j \in Cancellable : pc[j] # "done") => HolderInv
  /\ (\A j \in Cancellable : pc[j] = "idle") => CustodyInv

LEMMA ServedNext ==
  ASSUME TypeOK, ClaimInv, ServedInv, [Next]_vars
  PROVE  ServedInv'
<1>0. Cancellable \subseteq Claimants
  BY LifecycleAssumption DEF LifecycleAssumption, Claimants, Turns
<1>1. ASSUME \A j \in Cancellable : pc'[j] # "done"
      PROVE  HolderInv'
  <2>1. \A j \in Cancellable : pc[j] # "done"
    BY <1>0, <1>1, StreamsGoOn
  <2>. QED
    BY <1>1, <2>1, HolderNext DEF ServedInv
<1>2. ASSUME \A j \in Cancellable : pc'[j] = "idle"
      PROVE  CustodyInv'
  <2>1. \A j \in Cancellable : pc[j] = "idle"
    BY <1>0, <1>2, StreamsGoOn
  <2>. QED
    BY <2>1, CustodyNext DEF ServedInv
<1>. QED
  BY <1>1, <1>2 DEF ServedInv

\* Until a published stream could have been cut off, the claim has a holder that will
\* release it, the session is the holder's, and an acknowledged message is in the history,
\* reported back, or in the custody of the buffer, of a drain loop or of a session.
THEOREM TabsStayServed == Spec => []TabsAreServed
<1>1. Init => ServedInv
  BY HolderInit, CustodyInit DEF ServedInv
<1>2. ServedInv => TabsAreServed
  <2>1. HolderInv => ClaimHasHolder /\ SessionBelongsToHolder
    BY DEF HolderInv, SessionInv, SessionBelongsToHolder, Holds, Holding
  <2>2. CustodyInv => AckHasCustodian
    BY DEF CustodyInv, AckHasCustodian, Keeps
  <2>. QED
    BY <2>1, <2>2 DEF ServedInv, TabsAreServed
<1>. QED
  BY <1>1, <1>2, TypeCorrect, ClaimInit, ClaimNext, ServedNext, PTL DEF Spec

\* Where no turn is cancelled from outside, an acknowledged message always has a custodian.
THEOREM AcknowledgedIsKept ==
  ASSUME Cancellable = {}
  PROVE  Spec => []AckHasCustodian
<1>1. TabsAreServed => AckHasCustodian
  BY DEF TabsAreServed
<1>. QED
  BY <1>1, TabsStayServed, PTL

\* Where no turn is cancelled from outside, a claim always has a holder that
\* will release it and the registered session belongs to that holder.
THEOREM NothingLeftBehind ==
  ASSUME Cancellable = {}
  PROVE  Spec => [](ClaimHasHolder /\ SessionBelongsToHolder)
<1>1. TabsAreServed => ClaimHasHolder /\ SessionBelongsToHolder
  BY DEF TabsAreServed
<1>. QED
  BY <1>1, TabsStayServed, PTL
=============================================================================
