------------------------------- MODULE Delegation -------------------------------
(***************************************************************************)
(* Agents that delegate to agents (services/delegation.py and the nested   *)
(* mode of run_turn): a delegate_agent call runs a nested turn inside the  *)
(* caller's task, under the conversation's delegation gate and a time-out; *)
(* an agent delegates from several plan tasks at once; a Stop reaches every*)
(* agent through its own watcher and through the cancellation of its       *)
(* parent.  Two turns of a conversation follow each other.                 *)
(***************************************************************************)
EXTENDS Naturals, FiniteSets

CONSTANTS
  Calls,     \* calls of delegate_agent
  Turns,     \* top-level turns, in order: 1..n
  MaxDepth,  \* agent_delegation_max_depth
  NoCall

ASSUME DelegationAssumption ==
  /\ IsFiniteSet(Turns) /\ Turns = 1..Cardinality(Turns) /\ 1 \in Turns
  /\ MaxDepth \in 0..2 /\ NoCall \notin Calls \cup Turns /\ Calls \cap Turns = {}

Agents == Turns \cup Calls   \* the agent of each turn, top-level or nested

VARIABLES
  calling,  \* where each call is
  parent,   \* the agent that made it
  loose,    \* calls made by a plan task the agent's gather() does not wait for
  agent,    \* where each agent is
  stopped,  \* agents whose session is aborted
  expired,  \* calls whose time-out has set the cancel_event
  stop,     \* the conversation's abort Event
  gate,     \* number of the gate now in _delegation_gates
  gateOf,   \* the gate each outermost call took from there
  heldBy    \* who holds each gate

delegationVars == <<calling, parent, loose, agent, stopped, expired, stop, gate, gateOf, heldBy>>

Gates == {0} \cup Turns
DelegationsOver == {"ok", "error", "aborted", "timeout", "torn", "unstarted"}

DelegateTypeOK ==
  /\ calling \in [Calls -> {"idle", "waiting", "running"} \cup DelegationsOver]
  /\ parent \in [Calls -> Agents \cup {NoCall}] /\ loose \subseteq Calls
  /\ agent \in [Agents -> {"none", "working", "unwinding", "ended", "failed", "cancelled", "released"}]
  /\ stopped \subseteq Agents /\ expired \subseteq Calls /\ stop \in BOOLEAN
  /\ gate \in Gates /\ gateOf \in [Calls -> Gates] /\ heldBy \in [Gates -> Calls \cup {NoCall}]

DelegateInit ==
  /\ calling = [c \in Calls |-> "idle"] /\ parent = [c \in Calls |-> NoCall] /\ loose = {}
  /\ agent = [a \in Agents |-> IF a = 1 THEN "working" ELSE "none"]
  /\ stopped = {} /\ expired = {} /\ stop = FALSE
  /\ gate = 0 /\ gateOf = [c \in Calls |-> 0] /\ heldBy = [g \in Gates |-> NoCall]

Delegating(c) == calling[c] \in {"waiting", "running"}
ActiveCalls(a) == {c \in Calls : parent[c] = a /\ Delegating(c)}
Attached(a) == ActiveCalls(a) \ loose
Depth(a) == IF a \in Turns THEN 0 ELSE IF parent[a] \in Turns THEN 1 ELSE 2   \* no deeper here
Outermost(c) == parent[c] \in Turns

-----------------------------------------------------------------------------
(***************************************************************************)
(* A call: delegation, gate, nested turn.                                  *)
(***************************************************************************)
MayDelegate(a) == agent[a] = "working" /\ Depth(a) < MaxDepth

\* An outermost call waits for the gate; a nested agent's call inherits it.
Delegate(c, a) ==
  /\ calling[c] = "idle" /\ c = CHOOSE d \in Calls : calling[d] = "idle"
  /\ MayDelegate(a) /\ parent' = [parent EXCEPT ![c] = a]
  /\ loose' \in {loose, loose \cup {c}}
  /\ IF a \in Turns
     THEN /\ calling' = [calling EXCEPT ![c] = "waiting"] /\ gateOf' = [gateOf EXCEPT ![c] = gate]
          /\ UNCHANGED agent
     ELSE /\ calling' = [calling EXCEPT ![c] = "running"] /\ agent' = [agent EXCEPT ![c] = "working"]
          /\ UNCHANGED gateOf
  /\ UNCHANGED <<stopped, expired, stop, gate, heldBy>>

\* The caller's cancellation has reached this call.
Interrupted(c) == agent[parent[c]] = "unwinding" /\ c \notin loose

AcquireGate(c) ==
  /\ calling[c] = "waiting" /\ heldBy[gateOf[c]] = NoCall /\ ~Interrupted(c)
  /\ calling' = [calling EXCEPT ![c] = "running"] /\ agent' = [agent EXCEPT ![c] = "working"]
  /\ heldBy' = [heldBy EXCEPT ![gateOf[c]] = c]
  /\ UNCHANGED <<parent, loose, stopped, expired, stop, gate, gateOf>>

\* gate.acquire() stands before the try: no event says that this delegation is over.
LeaveGate(c) ==
  /\ calling[c] = "waiting" /\ Interrupted(c) /\ calling' = [calling EXCEPT ![c] = "unstarted"]
  /\ UNCHANGED <<parent, loose, agent, stopped, expired, stop, gate, gateOf, heldBy>>

\* _expire: the timer was armed when the call entered its try.
Expire(c) ==
  /\ calling[c] = "running" /\ c \notin expired /\ expired' = expired \cup {c}
  /\ UNCHANGED <<calling, parent, loose, agent, stopped, stop, gate, gateOf, heldBy>>

-----------------------------------------------------------------------------
(***************************************************************************)
(* Stop, watchers and cancellation.                                        *)
(***************************************************************************)
PressStop ==
  /\ ~stop /\ (\E n \in Turns : agent[n] = "working") /\ stop' = TRUE
  /\ UNCHANGED <<calling, parent, loose, agent, stopped, expired, gate, gateOf, heldBy>>

\* Cancelling a task cancels what it awaits, down to the innermost agents.
Reached(a) == {a} \cup Attached(a) \cup UNION {Attached(c) : c \in Attached(a)}
Cancel(a) == [b \in Agents |-> IF b \in Reached(a) /\ agent[b] = "working" THEN "unwinding" ELSE agent[b]]

AtWork(a) == agent[a] \in {"working", "unwinding"}

\* _watch_abort: the session is aborted before the agent is cancelled.
Watch(a) ==
  /\ AtWork(a) /\ a \notin stopped /\ (stop \/ a \in expired)
  /\ stopped' = stopped \cup {a} /\ agent' = Cancel(a)
  /\ UNCHANGED <<calling, parent, loose, expired, stop, gate, gateOf, heldBy>>

\* An agent ends by itself when nothing it called is at work.
FinishAgent(a) ==
  /\ agent[a] = "working" /\ ActiveCalls(a) = {}
  /\ agent' \in {[agent EXCEPT ![a] = how] : how \in {"ended", "failed"}}
  /\ UNCHANGED <<calling, parent, loose, stopped, expired, stop, gate, gateOf, heldBy>>

\* A cancelled agent ends when what it awaits has unwound.
UnwindAgent(a) ==
  /\ agent[a] = "unwinding" /\ Attached(a) = {} /\ agent' = [agent EXCEPT ![a] = "cancelled"]
  /\ UNCHANGED <<calling, parent, loose, stopped, expired, stop, gate, gateOf, heldBy>>

-----------------------------------------------------------------------------
(***************************************************************************)
(* The end of a nested turn and of a turn.                                 *)
(***************************************************************************)
\* Variant: a cancelled call keeps it.
FreeGateOnReturn(c) ==
  heldBy' = [g \in Gates |-> IF heldBy[g] = c /\ ~(agent[c] = "cancelled" /\ c \notin stopped)
                              THEN NoCall ELSE heldBy[g]]

\* The gate is released on every way out; only its holder holds one.
FreeGate(c) == heldBy' = [g \in Gates |-> IF heldBy[g] = c THEN NoCall ELSE heldBy[g]]

\* A cancellation the turn's own watcher did not cause goes on to the parent.
TornDown(c) == agent[c] = "cancelled" /\ c \notin stopped

EndCall(c) ==
  LET p == parent[c] IN
  /\ calling[c] = "running" /\ agent[c] \in {"ended", "failed", "cancelled"} /\ FreeGate(c)
  /\ IF TornDown(c)
     THEN /\ calling' = [calling EXCEPT ![c] = "torn"]
          /\ agent' = IF agent[p] = "working" /\ c \notin loose THEN [agent EXCEPT ![p] = "unwinding"] ELSE agent
     ELSE /\ calling' = [calling EXCEPT ![c] = IF c \in expired THEN "timeout"
                                              ELSE IF agent[c] = "failed" THEN "error"
                                              ELSE IF c \in stopped THEN "aborted" ELSE "ok"]
          \* The cancellation that was under way ends here, unless a gather() remembers it.
          /\ agent' \in {agent} \cup
               IF agent[p] = "unwinding" /\ Attached(p) = {c} THEN {[agent EXCEPT ![p] = "working"]} ELSE {}
  /\ UNCHANGED <<parent, loose, stopped, expired, stop, gate, gateOf>>

\* release_turn drops the gate from the table; the next turn resets the Event.
ReleaseTurn(n) ==
  /\ agent[n] \in {"ended", "failed", "cancelled"} /\ gate' = n
  /\ agent' = [a \in Agents |-> IF a = n THEN "released" ELSE IF a \in Turns /\ a = n + 1 THEN "working" ELSE agent[a]]
  /\ stop' = IF n + 1 \in Turns THEN FALSE ELSE stop
  /\ UNCHANGED <<calling, parent, loose, stopped, expired, gateOf, heldBy>>

DelegateNext ==
  \/ \E c \in Calls : \/ (\E a \in Agents : Delegate(c, a))
                     \/ AcquireGate(c) \/ LeaveGate(c) \/ Expire(c) \/ EndCall(c)
  \/ PressStop
  \/ \E a \in Agents : Watch(a) \/ FinishAgent(a) \/ UnwindAgent(a)
  \/ \E n \in Turns : ReleaseTurn(n)

\* Timers fire, watchers run, cancelled code unwinds, and an agent whose session is aborted
\* stops at its next step.  No other agent need ever finish by itself.
DelegateFairness ==
  /\ \A c \in Calls : WF_delegationVars(AcquireGate(c) \/ LeaveGate(c) \/ Expire(c)) /\ WF_delegationVars(EndCall(c))
  /\ \A a \in Agents : WF_delegationVars(Watch(a) \/ UnwindAgent(a) \/ (a \in stopped /\ FinishAgent(a)))
DelegateSpec == DelegateInit /\ [][DelegateNext]_delegationVars
DelegateFairSpec == DelegateSpec /\ DelegateFairness

-----------------------------------------------------------------------------
(***************************************************************************)
(* Properties.                                                             *)
(***************************************************************************)
\* A gate is held exactly by an outermost call that runs: the conversation can delegate
\* again however the last nested turn ended.
GateIsReturned ==
  \A g \in Gates : heldBy[g] # NoCall => calling[heldBy[g]] = "running" /\ Outermost(heldBy[g])

\* The time-out of a nested turn stops what is below it and nothing above: the agent of a
\* turn is cancelled by a Stop only, a nested agent by a Stop or by a time-out on its way up.
TimeoutStaysBelow ==
  \A a \in Agents : agent[a] \in {"unwinding", "cancelled"} =>
    \/ a \in stopped \/ (a \in Calls /\ parent[a] \in stopped)
    \/ (a \in Calls /\ parent[a] \in Calls /\ parent[parent[a]] \in stopped)

\* What the gate does guarantee: the outermost nested turns of one turn take turns.
OutermostTakeTurns ==
  \A c, d \in Calls : c # d /\ calling[c] = "running" /\ calling[d] = "running" /\ parent[c] \in Turns
                      => parent[c] # parent[d]

\* Whatever is stopped, expires or is torn down: the gate comes back, agents are
\* cancelled from above only, and outermost nested turns of one turn take turns.
DelegationIsContained == GateIsReturned /\ TimeoutStaysBelow /\ OutermostTakeTurns

\* Every delegation ends, if not by its agent then by its time-out, and with it the wait
\* of those behind it at the gate.
DelegationEnds == \A c \in Calls : []<>(~Delegating(c))
=============================================================================
