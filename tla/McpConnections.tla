------------------------------ MODULE McpConnections ------------------------------
(***************************************************************************)
(* The connections of one turn to MCP servers: discovery with time-outs    *)
(* and the fall-back from streamable HTTP to SSE, redirects, calls with    *)
(* confirmation, and the closing of every transport (tools/mcp_client.py). *)
(*                                                                         *)
(* The SDK is external: connecting, listing tools, a drop and the answer   *)
(* of a call are events that may come at any time or not at all.           *)
(***************************************************************************)
EXTENDS Naturals, FiniteSets, Sequences, SequencesExt, FiniteSetsExt

CONSTANTS
  Servers,      \* the servers the agent declares and the catalog holds
  Transport,    \* [Servers -> {"auto", "streamable_http", "sse"}]
  ServerCalls,  \* calls the agent may make
  ServerOf,     \* [ServerCalls -> Servers]
  Destructive,  \* calls that need the user's confirmation
  Home, Away,   \* origins: the configured one and another
  Chains,       \* sequences of redirects [to : {Home, Away}, safe : BOOLEAN]
  MaxHops,      \* 5 in the code
  Results,      \* sequences of content blocks [kind : {"text", "image"}, size : Nat]
  MaxText, MaxImages, MaxBytes, ImageBytes, \* caps of one result
  MaxDrops      \* bound: connections lost

ASSUME McpAssumption ==
  /\ IsFiniteSet(Servers) /\ Destructive \subseteq ServerCalls /\ Home # Away
  /\ Transport \in [Servers -> {"auto", "streamable_http", "sse"}]
  /\ ServerOf \in [ServerCalls -> Servers]
  /\ {MaxHops, MaxText, MaxImages, MaxBytes, ImageBytes, MaxDrops} \subseteq Nat
  /\ Chains \subseteq Seq([to : {Home, Away}, safe : BOOLEAN])

VARIABLES
  attach,    \* "new", "gather", "attached", "running", "cleanup", "over"
  stopping,  \* the turn is being cancelled
  stillborn, \* it was cancelled in the step that starts its agent
  link,      \* McpServerSession and the _connect_one that started it, by server
  sessions,  \* McpConnectionManager._sessions
  call,      \* calls: [at, allowed, text, images, bytes]
  drops

mcpVars == <<attach, stopping, stillborn, link, sessions, call, drops>>

FirstTransport(s) == IF Transport[s] = "auto" THEN "streamable_http" ELSE Transport[s]

\* start: where _connect_one is; task: where _run is; session: the object calls would use.
Starts == {"off", "resolve", "waiting", "unwinding", "up", "refused"}
RunStates == {"none", "connecting", "live", "ending", "over"}
CallStates == {"idle", "asking", "calling", "done", "error", "declined", "stopped"}

McpTypeOK ==
  /\ attach \in {"new", "gather", "attached", "running", "cleanup", "over"}
  /\ stopping \in BOOLEAN /\ stillborn \in BOOLEAN /\ sessions \subseteq Servers
  /\ link \in [Servers -> [start : Starts, task : RunStates, via : {"streamable_http", "sse"},
                           session : {"none", "good", "dead"}, ready : BOOLEAN, failed : BOOLEAN, shut : BOOLEAN,
                           host : {Home, Away}, credentials : BOOLEAN]]
  /\ call \in [ServerCalls -> [at : CallStates, allowed : BOOLEAN, text : 0..MaxText,
                               images : 0..MaxImages, bytes : 0..MaxBytes]]
  /\ drops \in 0..MaxDrops

McpInit ==
  /\ attach = "new" /\ stopping = FALSE /\ stillborn = FALSE /\ sessions = {} /\ drops = 0
  /\ link = [s \in Servers |-> [start |-> "off", task |-> "none",
                                via |-> FirstTransport(s), session |-> "none",
                                ready |-> FALSE, failed |-> FALSE, shut |-> FALSE,
                                host |-> Home, credentials |-> TRUE]]
  /\ call = [c \in ServerCalls |-> [at |-> "idle", allowed |-> FALSE, text |-> 0,
                                    images |-> 0, bytes |-> 0]]

-----------------------------------------------------------------------------
\* The redirects that are followed, and where a chain stands after i of them.
Hops(chain) == 1..(IF Len(chain) < MaxHops THEN Len(chain) ELSE MaxHops)
Origin(chain, i) == IF i = 0 THEN Home ELSE chain[i].to

\* Where a chain of redirects leads: a hop that is not safe blocks the connection, a hop to
\* another origin strips the sensitive headers for good, and the chain is cut at MaxHops.
FollowRedirects(chain) ==
  [host |-> Origin(chain, Cardinality(Hops(chain))),
   credentials |-> \A i \in Hops(chain) : Origin(chain, i) = Origin(chain, i - 1),
   blocked |-> \E i \in Hops(chain) : ~chain[i].safe]

\* The connection of l fails or is lost: auto goes on with SSE, the others give up.
Broken(s, l) ==
  IF Transport[s] = "auto" /\ l.via = "streamable_http"
  THEN [l EXCEPT !.task = "connecting", !.via = "sse", !.session = IF @ = "good" THEN "dead" ELSE @]
  ELSE [l EXCEPT !.task = "over", !.session = "none", !.failed = TRUE, !.ready = TRUE]

\* Variant: who cancels a start does not wait for the task that opened the transport.
CancelledUnawaited(l) == [l EXCEPT !.start = "refused", !.shut = TRUE,
                                   !.task = IF @ = "over" THEN @ ELSE "ending"]

Cancelled(l) == [l EXCEPT !.start = "unwinding", !.shut = TRUE,
                          !.task = IF @ = "over" THEN @ ELSE "ending"]

Attach ==
  /\ attach = "new" /\ attach' = "gather"
  /\ link' = [s \in Servers |-> [link[s] EXCEPT !.start = "resolve"]]
  /\ UNCHANGED <<stopping, stillborn, sessions, call, drops>>

\* Headers, secrets, the URL and the options are checked before the task exists.
Resolve(s) ==
  /\ link[s].start = "resolve"
  /\ \/ link' = [link EXCEPT ![s].start = "waiting", ![s].task = "connecting"]
     \/ link' = [link EXCEPT ![s].start = "refused"]
  /\ UNCHANGED <<attach, stopping, stillborn, sessions, call, drops>>

\* The redirects are followed, the session is initialized and the tools are listed.
Connected(s) ==
  /\ link[s].task = "connecting"
  /\ \E chain \in Chains :
       LET r == FollowRedirects(chain)
       IN /\ ~r.blocked
          /\ link' = [link EXCEPT ![s].task = "live", ![s].session = "good", ![s].ready = TRUE,
                                  ![s].host = r.host, ![s].credentials = r.credentials]
  /\ UNCHANGED <<attach, stopping, stillborn, sessions, call, drops>>

\* _session is set before the tools are listed, so a failure may leave a dead one.
ConnectFails(s) ==
  /\ link[s].task = "connecting"
  /\ \E half \in BOOLEAN :
       link' = [link EXCEPT ![s] = Broken(s, IF half THEN [@ EXCEPT !.session = "dead"] ELSE @)]
  /\ UNCHANGED <<attach, stopping, stillborn, sessions, call, drops>>

-----------------------------------------------------------------------------
StartReturns(s) ==
  /\ link[s].start = "waiting" /\ link[s].ready
  /\ link' = [link EXCEPT ![s].start = IF link[s].failed THEN "refused" ELSE "up"]
  /\ sessions' = IF link[s].failed THEN sessions ELSE sessions \cup {s}
  /\ UNCHANGED <<attach, stopping, stillborn, call, drops>>

StartTimesOut(s) ==
  /\ link[s].start = "waiting"
  /\ link' = [link EXCEPT ![s] = Cancelled(@)]
  /\ UNCHANGED <<attach, stopping, stillborn, sessions, call, drops>>

TaskUnwinds(s) ==
  /\ link[s].task = "ending"
  /\ link' = [link EXCEPT ![s].task = "over"]
  /\ UNCHANGED <<attach, stopping, stillborn, sessions, call, drops>>

StartRaises(s) ==
  /\ link[s].start = "unwinding" /\ link[s].task = "over"
  /\ link' = [link EXCEPT ![s].start = "refused"]
  /\ UNCHANGED <<attach, stopping, stillborn, sessions, call, drops>>

Gathered ==
  /\ attach = "gather" /\ \A s \in Servers : link[s].start \in {"up", "refused"}
  /\ attach' = IF stopping THEN "cleanup" ELSE "attached"
  /\ link' = IF stopping THEN [s \in Servers |-> IF s \in sessions
                                                 THEN [link[s] EXCEPT !.shut = TRUE] ELSE link[s]]
             ELSE link
  /\ UNCHANGED <<stopping, stillborn, sessions, call, drops>>

\* The turn is cancelled while it connects: gather passes it on and waits for its children.
StopAttach ==
  /\ attach = "gather" /\ ~stopping /\ stopping' = TRUE
  /\ link' = [s \in Servers |->
                CASE link[s].start = "waiting" -> Cancelled(link[s])
                  [] link[s].start = "resolve" -> [link[s] EXCEPT !.start = "refused"]
                  [] OTHER -> link[s]]
  /\ UNCHANGED <<attach, stillborn, sessions, call, drops>>

\* run_agent is a task of its own: a cancellation in the step that creates it ends the turn
\* before the finally clause of Agent.run exists.
AgentBegins ==
  /\ attach = "attached"
  /\ \/ attach' = "running" /\ UNCHANGED stillborn
     \/ attach' = "over" /\ stillborn' = TRUE
  /\ UNCHANGED <<stopping, link, sessions, call, drops>>

\* A transport is lost: the body that waits for the shutdown is ended by an exception.
Lost(s) ==
  /\ link[s].task = "live" /\ drops < MaxDrops /\ drops' = drops + 1
  /\ link' = [link EXCEPT ![s] = Broken(s, @)]
  /\ UNCHANGED <<attach, stopping, stillborn, sessions, call>>

-----------------------------------------------------------------------------
\* Text is cut at MaxText; an image is kept if it fits what is left of the budgets.
\* Variant: the budget of the whole result is forgotten.
ConvertEach(blocks) ==
  FoldLeft(LAMBDA r, b : IF b.kind = "image" /\ r.images < MaxImages /\ b.size <= ImageBytes
                         THEN [r EXCEPT !.images = @ + 1, !.bytes = @ + b.size] ELSE r,
           [text |-> 0, images |-> 0, bytes |-> 0], blocks)

Convert(blocks) ==
  FoldLeft(LAMBDA r, b :
             CASE b.kind = "text" -> [r EXCEPT !.text = Min({MaxText, @ + b.size})]
               [] /\ b.kind = "image" /\ r.images < MaxImages
                  /\ b.size <= Min({ImageBytes, MaxBytes - r.bytes}) /\ r.bytes < MaxBytes
                    -> [r EXCEPT !.images = @ + 1, !.bytes = @ + b.size]
               [] OTHER -> r,
           [text |-> 0, images |-> 0, bytes |-> 0], blocks)

\* What the call does once it may: a session that is known to be lost fails it at once.
Enter(c) == IF link[ServerOf[c]].session = "none" THEN "error" ELSE "calling"

Execute(c) ==
  /\ attach = "running" /\ call[c].at = "idle" /\ ServerOf[c] \in sessions
  /\ call' = [call EXCEPT ![c].at = IF c \in Destructive THEN "asking" ELSE Enter(c)]
  /\ UNCHANGED <<attach, stopping, stillborn, link, sessions, drops>>

\* A refusal, the time-out of the prompt and an aborted session all decline.
Confirm(c) ==
  /\ call[c].at = "asking"
  /\ \E allow \in BOOLEAN :
       call' = [call EXCEPT ![c].allowed = allow, ![c].at = IF allow THEN Enter(c) ELSE "declined"]
  /\ UNCHANGED <<attach, stopping, stillborn, link, sessions, drops>>

CallReturns(c) ==
  /\ call[c].at = "calling"
  /\ \/ /\ link[ServerOf[c]].session = "good"
        /\ \E blocks \in Results :
             LET r == Convert(blocks)
             IN call' = [call EXCEPT ![c].at = "done", ![c].text = r.text,
                                     ![c].images = r.images, ![c].bytes = r.bytes]
     \/ call' = [call EXCEPT ![c].at = "error"]  \* refused, lost or timed out
  /\ UNCHANGED <<attach, stopping, stillborn, link, sessions, drops>>

\* The agent is done or cancelled: ToolContext.cleanup signals every session.
Cleanup ==
  /\ attach = "running" /\ attach' = "cleanup"
  /\ link' = [s \in Servers |-> IF s \in sessions THEN [link[s] EXCEPT !.shut = TRUE] ELSE link[s]]
  /\ call' = [c \in ServerCalls |-> IF call[c].at \in {"asking", "calling"}
                                    THEN [call[c] EXCEPT !.at = "stopped"] ELSE call[c]]
  /\ UNCHANGED <<stopping, stillborn, sessions, drops>>

\* The body sees the shutdown; a task that is still connecting sees it once it is live.
ShutsDown(s) ==
  /\ link[s].task = "live" /\ link[s].shut
  /\ link' = [link EXCEPT ![s].task = "over"]
  /\ UNCHANGED <<attach, stopping, stillborn, sessions, call, drops>>

CloseTimesOut(s) ==
  /\ attach = "cleanup" /\ s \in sessions /\ link[s].task \notin {"ending", "over"}
  /\ link' = [link EXCEPT ![s].task = "ending"]
  /\ UNCHANGED <<attach, stopping, stillborn, sessions, call, drops>>

AllClosed ==
  /\ attach = "cleanup" /\ \A s \in sessions : link[s].task = "over"
  /\ attach' = "over" /\ sessions' = {}
  /\ UNCHANGED <<stopping, stillborn, link, call, drops>>

McpStep(s) ==
  \/ Resolve(s) \/ StartReturns(s) \/ StartTimesOut(s) \/ TaskUnwinds(s) \/ StartRaises(s)
  \/ ShutsDown(s) \/ CloseTimesOut(s)

McpNext ==
  \/ Attach \/ Gathered \/ StopAttach \/ AgentBegins \/ Cleanup \/ AllClosed
  \/ \E s \in Servers : McpStep(s) \/ Connected(s) \/ ConnectFails(s) \/ Lost(s)
  \/ \E c \in ServerCalls : Execute(c) \/ Confirm(c) \/ CallReturns(c)

\* The process makes its steps and time-outs expire; a server owes nothing.
McpFairness ==
  /\ WF_mcpVars(Gathered) /\ WF_mcpVars(AgentBegins) /\ WF_mcpVars(Cleanup) /\ WF_mcpVars(AllClosed)
  /\ \A s \in Servers : WF_mcpVars(McpStep(s))

-----------------------------------------------------------------------------
\* A transport that is open has somebody who will close it: the start that waits for it, or
\* the manager in whose table it is (start, _connect_one, attach_mcp_tools).
TransportsHaveOwner ==
  \A s \in Servers :
    link[s].task \notin {"none", "over"} => s \in sessions \/ link[s].start \in {"waiting", "unwinding"}

\* After the turn no transport is open, unless it was cancelled in the one step between the
\* discovery and its agent.
ClosedAfterTurn ==
  attach = "over" /\ ~stillborn =>
    sessions = {} /\ \A s \in Servers : link[s].task \in {"none", "over"}

\* While the agent runs, a server whose task gave up is not called on its old session, and a
\* live one has a good session (_run, call_tool).
SessionIsCurrent ==
  attach = "running" =>
    \A s \in sessions : /\ link[s].task = "over" => link[s].session = "none"
                        /\ link[s].task = "live" => link[s].session = "good"

\* Credentials reach the configured origin only, whatever the redirects do.
CredentialsStayHome == \A s \in Servers : link[s].credentials => link[s].host = Home

\* A destructive call was allowed by the user before it was sent.
WritesAreAllowed == \A c \in Destructive : call[c].at \in {"calling", "done"} => call[c].allowed

\* What the servers of a turn do stays contained: transports are owned and end with the turn,
\* calls go to the session that is alive, credentials stay at home, writes were allowed.
ServersAreContained ==
  TransportsHaveOwner /\ ClosedAfterTurn /\ SessionIsCurrent /\ CredentialsStayHome /\ WritesAreAllowed

\* A turn gets past its servers, however they hang, and ends.
McpEnds == []<>(attach \in {"new", "over"})
=============================================================================
