-------------------------------- MODULE MCTools --------------------------------
(***************************************************************************)
(* One run for the parts around a turn that share no state: every          *)
(* behaviour is one of a single part, the others stay in an initial state, *)
(* in which nothing of them has to happen.                                 *)
(***************************************************************************)
EXTENDS ClientSockets, McpConnections, TurnEvents, PublishedStreams, WorkspaceProcesses

MCTransport == [s \in Servers |-> IF s = "s1" THEN "auto" ELSE "streamable_http"]
MCServerOf == [c \in ServerCalls |-> IF c = "k1" THEN "s1" ELSE "s2"]

To(origin, ok) == [to |-> origin, safe |-> ok]
\* Away, away and back, and a hop that is not allowed.
MCChains == {<<>>, <<To(Away, TRUE)>>, <<To(Away, TRUE), To(Home, TRUE)>>,
             <<To(Home, TRUE), To(Home, TRUE), To(Away, FALSE)>>}

Block(k, n) == [kind |-> k, size |-> n]
MCResults == {<<Block("text", 2), Block("text", 2)>>,
              <<Block("image", 2), Block("image", 2), Block("image", 1), Block("image", 1)>>}

MCSetbacks == {{}, {"stall"}, {"db"}, {"teardown"}}
MCWorkloads ==
  {[tasks |-> {"t1", "t2"}, deltas |-> 0, messages |-> 1, files |-> {}],
   [tasks |-> {}, deltas |-> 1, messages |-> 2, files |-> {"f"}],
   [tasks |-> {"t1"}, deltas |-> 1, messages |-> 1, files |-> {}]}

Situation(s, l, n, h, f, a, w) ==
  [scope |-> [r \in StreamRequests |-> s], loads |-> l, slots |-> n, hang |-> h, frames |-> f,
   aborts |-> a, switches |-> w]
\* Two runs of a thread, one of which hangs; both with a Stop; a page beside the publisher.
MCSituations == {Situation("thread", {}, 1, {"r1"}, 1, 0, 0), Situation("thread", {}, 2, {}, 0, 1, 0),
                 Situation("viewer", {"r2"}, 1, {}, 0, 1, 1)}

\* Output with a secret in two chunks, and one that is cut within the secret.
OutputOf(n, i) == [of |-> n, part |-> i]
MCOutputs == {<<OutputOf("text", 0), OutputOf("key", 1), OutputOf("key", 2)>>,
              <<OutputOf("key", 1), OutputOf("key", 2)>>}
Job(k1, k2, w, m, t, cs) ==
  [kind |-> [c \in Commands |-> IF c = "p1" THEN k1 ELSE k2],
   writable |-> w, modules |-> m, tools |-> t, caches |-> cs]
BrowserCache(a, w) == [allowed |-> a, writable |-> w]
MCJobs ==
  {Job("playwright", "playwright", TRUE, "none", TRUE, <<BrowserCache(FALSE, TRUE), BrowserCache(TRUE, TRUE)>>),
   Job("playwright", "code", FALSE, "full", TRUE, <<BrowserCache(TRUE, TRUE)>>),
   Job("npm", "plain", TRUE, "part", FALSE, <<BrowserCache(TRUE, FALSE), BrowserCache(FALSE, TRUE)>>)}

-----------------------------------------------------------------------------
VARIABLE part

Parts == {"sockets", "mcp", "events", "streams", "processes"}

\* A part that is not looked at begins in one state only.
ToolsInit ==
  /\ part \in Parts
  /\ SocketInit /\ McpInit
  /\ TurnEventsInit /\ (part # "events" => setback = {} /\ ~nested /\ workload.messages = 2)
  /\ PublishedInit /\ (part # "streams" => situation.slots = 2)
  /\ ProcessInit /\ (part # "processes" => job = CHOOSE j \in Jobs : TRUE)

\* What the steps of part p leave alone.
Apart(p) ==
  /\ part = p /\ UNCHANGED part
  /\ IF p = "sockets" THEN TRUE ELSE UNCHANGED socketVars
  /\ IF p = "mcp" THEN TRUE ELSE UNCHANGED mcpVars
  /\ IF p = "events" THEN TRUE ELSE UNCHANGED turnEventsVars
  /\ IF p = "streams" THEN TRUE ELSE UNCHANGED publishedVars
  /\ IF p = "processes" THEN TRUE ELSE UNCHANGED processVars

ToolsNext ==
  \/ Apart("sockets") /\ SocketNext
  \/ Apart("mcp") /\ McpNext
  \/ Apart("events") /\ TurnEventsNext
  \/ Apart("streams") /\ PublishedNext
  \/ Apart("processes") /\ ProcessNext

toolsVars == <<part, socketVars, mcpVars, turnEventsVars, publishedVars, processVars>>

ToolsSpec ==
  /\ ToolsInit /\ [][ToolsNext]_toolsVars
  /\ SocketFairness /\ McpFairness /\ TurnEventsFairness /\ PublishedFairness
  /\ ProcessFairness

-----------------------------------------------------------------------------
(***************************************************************************)
(* The properties of the parts, stated where they are defined.             *)
(***************************************************************************)
\* Every variable has its type.
ToolsTypeOK ==
  /\ part \in Parts
  /\ SocketTypeOK /\ McpTypeOK /\ TurnEventsTypeOK /\ PublishedTypeOK /\ ProcessTypeOK

\* Connections come back; servers, turns, responses and commands end, whoever hangs.
ToolsEnd == SocketsRecover /\ McpEnds /\ TurnEventsEnd /\ StreamsEnd /\ CommandsEnd
=============================================================================
