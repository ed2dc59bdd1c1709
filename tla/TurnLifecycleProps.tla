-------------------------- MODULE TurnLifecycleProps --------------------------
(***************************************************************************)
(* What the turns of a conversation must and must not do.                  *)
(***************************************************************************)
EXTENDS TurnLifecycle

\* A conversation never has two claimants between claim_turn and release_turn,
\* although the claim knows no owner and anyone could release it.
AtMostOneTurn ==
  \A g, h \in Claimants : Holds(g) /\ Holds(h) => g = h

\* While somebody works under the claim the claim is set, so nobody else can
\* take it (the callers of run_turn do not release after it).
WorkIsClaimed == \A h \in Claimants : Holds(h) => claimed

\* A claim always has somebody who will release it: a claim without one blocks
\* the conversation until the process restarts.
ClaimHasHolder == claimed => \E h \in Claimants : Holds(h)

\* The registered session is that of the turn that holds the claim, and goes
\* before the claim does (is_session_active would block every later message).
SessionBelongsToHolder == session # None => Holds(session)

\* A running turn's watcher waits on the very Event that a Stop sets, whatever
\* sockets came and went since the turn was claimed.
StopReachesRunningTurn ==
  \A t \in Turns : pc[t] = "run" /\ t \notin aborted => t \in watched /\ abort # "absent"

\* The abort Event exists whenever a socket is in the multicast set: the Stop
\* button of a connected tab is never a silent no-op.
ConnectedTabCanStop == conns # {} => abort # "absent"

\* A Stop reaches the turn that runs, and whoever is connected can give one.
StopsAreHeard == StopReachesRunningTurn /\ ConnectedTabCanStop

\* A Stop that a turn received is still pending or was taken, until the agent
\* is done; in particular one pressed before the watcher exists.
StopIsNotForgotten ==
  \A t \in stops :
    pc[t] \in {"accepted", "lookup", "setup", "drain", "run"} => abort = "set" \/ t \in aborted

\* A Stop aimed at one turn never aborts the next one.
NoStaleStop == aborted \subseteq stops

\* A message acknowledged with input_queued is in the history, was reported
\* back, or is held by something that will do one of the two.
AckHasCustodian ==
  \A m \in acked :
    \/ m \in rows \cup notified \cup ToSet(pending)
    \/ \E t \in Turns : m \in SessionOwes(t) \cup ToSet(drained[t])

\* While no published stream has ended, which its client may cut off, the claim has a
\* holder that will release it and the session is the holder's; while none has begun, an
\* acknowledged message is kept by somebody.
TabsAreServed ==
  /\ (\A j \in Cancellable : pc[j] # "done") => ClaimHasHolder /\ SessionBelongsToHolder
  /\ (\A j \in Cancellable : pc[j] = "idle") => AckHasCustodian

\* Once a delete request answered ok no turn works on the conversation.
DeletedIsQuiet ==
  \A d \in Deletes : deletion[d] = "ok" =>
    status = "deleted" /\ \A t \in Turns : ~PastLookup(t)

-----------------------------------------------------------------------------
(* The abstract claim: its owner is whoever works under the claim.         *)
Owner == IF \E h \in Claimants : Holds(h)
           THEN CHOOSE h \in Claimants : Holds(h) ELSE None
Served == {h \in Claimants : pc[h] \in {"injected", "closing", "done"}}

Abstract == INSTANCE TurnClaim WITH owner <- Owner, served <- Served

\* The manager, the sockets, the turns and the deliveries together implement
\* the one-at-a-time ownership of the conversation that TurnClaim states.
ImplementsTurnClaim == Abstract!Spec

-----------------------------------------------------------------------------
\* The agents end (the iteration budget, the time-outs of the providers) and
\* what was injected is handled.
AgentsEnd == WF_vars(\E t \in Turns : AgentEnds(t) \/ InjectionStep(t))

\* Every claim is released, as long as agents end.
ClaimIsReleased == AgentsEnd => (claimed ~> ~claimed)

\* A turn that received a Stop while its agent had not finished ends, even if
\* the agent would never end by itself.
StopEndsTurn ==
  \A t \in Turns : (t \in stops /\ pc[t] \in {"drain", "run"}) ~> pc[t] = "done"

\* A message handed to a session is persisted or reported back in the end, as
\* long as agents end.
QueuedIsSettled ==
  AgentsEnd =>
    \A m \in Msgs : (\E t \in Turns : m \in SessionOwes(t)) ~> m \in rows \cup notified

\* enqueue_pending_injection: a buffered message is drained into the session,
\* if agents end.
BufferedIsDrained ==
  AgentsEnd => \A m \in Msgs : m \in ToSet(pending) ~> m \notin ToSet(pending)
=============================================================================
