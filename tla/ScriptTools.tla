------------------------------ MODULE ScriptTools ------------------------------
(***************************************************************************)
(* What a script may use (agent_core/scripts, tools/script_writer.py and   *)
(* the script pages of routers/scripts.py): the declarations kept in its   *)
(* row and the edits of them, the snapshot a run takes, the secrets it is  *)
(* given, the bridge over which it calls tools of the agents, and its log  *)
(* without secrets.  Slots, rows and flushes of runs are in ScriptRuns.    *)
(***************************************************************************)
EXTENDS Naturals, Sequences, SequencesExt

CONSTANTS
  ToolLoads,   \* bound: the row, the edits and the run of a behaviour; see ToolAssumption
  Denied,      \* tools no script may declare
  MaxDeclared, \* tools a script may declare
  LogCap, TailLines

EditOps == {"patch", "update", "create", "run"}
CallWish == [pin : BOOLEAN, tool : STRING, takes : {"quick", "fails", "slow"}]
OutputLines == {"plain", "secret", "pin", "short", "piece", "long"}

\* An edit has, under "sets", the columns it changes.  "waits": the server that is closed waits for
\* its connections, as of Python 3.12.1.
ASSUME ToolAssumption ==
  /\ Denied \subseteq STRING /\ MaxDeclared \in Nat /\ LogCap \in Nat \ {0} /\ TailLines \in Nat \ {0}
  /\ \A l \in ToolLoads :
       /\ l.there \in BOOLEAN /\ l.tools \subseteq STRING
       /\ \A ops \in {l.page, l.agent} : \A i \in DOMAIN ops :
            ops[i].op \in EditOps /\ DOMAIN ops[i].sets \subseteq {"content", "secrets", "tools"}
       /\ l.kind \in {"python", "bash", "other"} /\ l.clean \in BOOLEAN /\ l.vault \in {"full", "empty"}
       /\ l.calls \in Seq(CallWish) /\ l.lines \in Seq(OutputLines) /\ l.ends \in {"exit", "fails", "timeout"}
       /\ l.mcp \in {"up", "broken"} /\ l.waits \in BOOLEAN /\ l.cancelled \in BOOLEAN

VARIABLES
  toolLoad,
  editors,     \* the page and the agent: step, what was done, the row each has read
  scriptRow,   \* content, secrets and tools of the row
  unsaved,     \* changes in the session of the agent that are not committed
  accepted,    \* the row that the accepted edits make
  runAt,       \* the step of the executor
  runStatus,   \* status of the row of the run
  snapshot,    \* the version of the script that is run
  atSlot,      \* the row when the run got its slot
  bridge,      \* "none", "attaching", "up", "down"
  toolCalls,   \* state of each call
  sessionOf,   \* whose session the shared context has
  leftovers,   \* what exists of the run: its directory, its context
  toPrint,     \* lines still to come
  scriptLog, scriptTail,   \* the tail is what a spec's result is read from
  reading      \* the reader of the output is alive

toolVars == <<toolLoad, editors, scriptRow, unsaved, accepted, runAt, runStatus, snapshot, atSlot, bridge,
              toolCalls, sessionOf, leftovers, toPrint, scriptLog, scriptTail, reading>>
rowVars == <<scriptRow, unsaved, accepted>>
runVars == <<runAt, runStatus, snapshot, atSlot, bridge, toolCalls, sessionOf, leftovers, toPrint, scriptLog,
             scriptTail, reading>>

NoScript == [content |-> 0, secrets |-> FALSE, tools |-> {}]
Columns == DOMAIN NoScript
Who == {"page", "agent"}

ToolInit ==
  /\ toolLoad \in ToolLoads /\ unsaved = <<>>
  /\ scriptRow = IF toolLoad.there THEN [content |-> 1, secrets |-> FALSE, tools |-> toolLoad.tools] ELSE NoScript
  /\ accepted = scriptRow
  /\ editors = [w \in Who |-> [at |-> "idle", done |-> 0, read |-> NoScript]]
  /\ runAt = "none" /\ runStatus = "none" /\ snapshot = NoScript /\ atSlot = NoScript /\ bridge = "none"
  /\ toolCalls = [i \in DOMAIN toolLoad.calls |-> "none"] /\ sessionOf = 0 /\ leftovers = {}
  /\ toPrint = toolLoad.lines /\ scriptLog = <<>> /\ scriptTail = <<>> /\ reading = TRUE

-----------------------------------------------------------------------------
(***************************************************************************)
(* The row and its edits.                                                  *)
(***************************************************************************)
OpsOf(w) == IF w = "page" THEN toolLoad.page ELSE toolLoad.agent
Turn(w, op) ==
  editors[w].at = "idle" /\ editors[w].done < Len(OpsOf(w)) /\ OpsOf(w)[editors[w].done + 1].op = op
Change(w) == OpsOf(w)[editors[w].done + 1].sets
EditorGoes(w, at) == editors' = [editors EXCEPT ![w].at = at]
Finishes(w) == editors' = [editors EXCEPT ![w].at = "idle", ![w].done = @ + 1]

MayDeclare(tools) == tools \cap Denied = {} /\ Cardinality(tools) <= MaxDeclared
Merged(row, change) == [k \in Columns |-> IF k \in DOMAIN change THEN change[k] ELSE row[k]]

\* The page reads the row, and changes the columns whose value is another.
PatchReads ==
  /\ Turn("page", "patch") /\ scriptRow # NoScript
  /\ editors' = [editors EXCEPT !["page"].at = "patch", !["page"].read = scriptRow]
  /\ UNCHANGED <<toolLoad, rowVars, runVars>>
Differing(change, row) == [k \in {c \in DOMAIN change : change[c] # row[c]} |-> change[k]]
PatchEdit == Differing(Change("page"), editors["page"].read)
PatchCommits ==
  /\ editors["page"].at = "patch" /\ Finishes("page")
  /\ IF MayDeclare(Merged(editors["page"].read, Change("page")).tools)
     THEN scriptRow' = Merged(scriptRow, PatchEdit) /\ accepted' = Merged(accepted, PatchEdit)
     ELSE UNCHANGED <<scriptRow, accepted>>
  /\ UNCHANGED <<toolLoad, unsaved, runVars>>

\* A commit of the agent's session takes everything with it that is not saved there.
Flushed == FoldLeft(Merged, scriptRow, unsaved)
AgentCommits == scriptRow' = Flushed /\ unsaved' = <<>>

\* Every field is checked before one is changed.
Checked(change) == "tools" \in DOMAIN change => MayDeclare(change.tools)
CreateScript ==
  /\ Turn("agent", "create") /\ scriptRow = NoScript /\ Finishes("agent")
  /\ IF Checked(Change("agent"))
     THEN scriptRow' = Merged(NoScript, Change("agent")) /\ accepted' = scriptRow'
     ELSE UNCHANGED <<scriptRow, accepted>>
  /\ UNCHANGED <<toolLoad, unsaved, runVars>>
UpdateScript ==
  /\ Turn("agent", "update") /\ scriptRow # NoScript
  /\ IF Checked(Change("agent"))
     THEN EditorGoes("agent", "update") /\ unsaved' = Append(unsaved, Differing(Change("agent"), scriptRow))
     ELSE Finishes("agent") /\ UNCHANGED unsaved
  /\ UNCHANGED <<toolLoad, scriptRow, accepted, runVars>>
CommitUpdate ==
  /\ editors["agent"].at = "update" /\ Finishes("agent") /\ AgentCommits
  /\ accepted' = Merged(accepted, Last(unsaved)) /\ UNCHANGED <<toolLoad, runVars>>

\* The agent reads the script and waits for a slot; the page waits, and reads it then.
RequestScript(w) ==
  /\ Turn(w, "run") /\ runAt = "none" /\ scriptRow # NoScript
  /\ editors' = [editors EXCEPT ![w].at = "queue", ![w].read = scriptRow]
  /\ UNCHANGED <<toolLoad, rowVars, runVars>>
RunOf(w) == IF w = "page" THEN scriptRow ELSE editors[w].read
TakeRunSlot(w) ==
  /\ editors[w].at = "queue" /\ Finishes(w) /\ runAt = "none"
  /\ runAt' = "begin" /\ runStatus' = "pending" /\ snapshot' = RunOf(w)
  /\ IF w = "agent" THEN AgentCommits ELSE UNCHANGED <<scriptRow, unsaved>>
  /\ atSlot' = [by |-> w, row |-> scriptRow']
  /\ UNCHANGED <<toolLoad, accepted, bridge, toolCalls, sessionOf, leftovers, toPrint, scriptLog,
                 scriptTail, reading>>

-----------------------------------------------------------------------------
(***************************************************************************)
(* The executor.                                                           *)
(***************************************************************************)
edits == <<toolLoad, editors, rowVars, snapshot, atSlot>>
output == <<toPrint, scriptLog, scriptTail, reading>>
Step(from, to) == runAt = from /\ runAt' = to

RuntimeTools == snapshot.tools \ Denied

BeginScript ==
  /\ runAt = "begin" /\ UNCHANGED <<edits, bridge, toolCalls, sessionOf, output>>
  /\ IF toolLoad.kind = "other" THEN runAt' = "over" /\ runStatus' = "failed" /\ UNCHANGED leftovers
     ELSE runAt' = "checks" /\ runStatus' = "running" /\ leftovers' = leftovers \cup {"directory"}

\* Commands a bash script may not use, a secret that is not in the vault: the run fails.
Resolves == toolLoad.clean \/ toolLoad.kind = "python"
ResolveSecrets ==
  /\ runAt = "checks" /\ UNCHANGED <<edits, runStatus, bridge, toolCalls, sessionOf, leftovers, output>>
  /\ runAt' = IF Resolves /\ (snapshot.secrets => toolLoad.vault = "full")
             THEN (IF RuntimeTools = {} THEN "spawn" ELSE "attach") ELSE "failing"

\* The context of the bridge may hold connections before the bridge is there to close them.
AttachTools ==
  /\ Step("attach", "listen") /\ bridge' = "attaching"
  /\ leftovers' = leftovers \cup (IF "mcp" \in RuntimeTools /\ toolLoad.mcp = "up" THEN {"context"} ELSE {})
  /\ UNCHANGED <<edits, runStatus, toolCalls, sessionOf, output>>
Listen ==
  /\ Step("listen", "spawn") /\ bridge' = "up" /\ leftovers' = leftovers \cup {"context"}
  /\ UNCHANGED <<edits, runStatus, toolCalls, sessionOf, output>>
SpawnScript ==
  /\ Step("spawn", "running") /\ UNCHANGED <<edits, runStatus, bridge, toolCalls, sessionOf, leftovers,
                                             output>>

\* Secrets and the PIN are masked line by line; short values are not.
MaskLine(line) ==
  IF (line = "secret" /\ snapshot.secrets) \/ (line = "pin" /\ bridge # "none") THEN "masked" ELSE line
LastOf(s) == SubSeq(s, IF Len(s) > TailLines THEN Len(s) - TailLines + 1 ELSE 1, Len(s))
\* A line too long for the reader ends it.
PrintScript ==
  /\ runAt = "running" /\ toPrint # <<>> /\ toPrint' = Tail(toPrint)
  /\ reading' = (reading /\ Head(toPrint) # "long")
  /\ IF reading'
     THEN /\ scriptLog' = IF Len(scriptLog) < LogCap THEN Append(scriptLog, MaskLine(Head(toPrint))) ELSE scriptLog
          /\ scriptTail' = LastOf(Append(scriptTail, MaskLine(Head(toPrint))))
     ELSE UNCHANGED <<scriptLog, scriptTail>>
  /\ UNCHANGED <<edits, runAt, runStatus, bridge, toolCalls, sessionOf, leftovers>>
\* By its end, or its time; the status is committed when the bridge is closed.
EndScript ==
  /\ runAt = "running" /\ (toolLoad.ends = "timeout" \/ toPrint = <<>>)
  /\ runAt' = IF toolLoad.ends = "exit" THEN "passing" ELSE "failing"
  /\ UNCHANGED <<edits, runStatus, bridge, toolCalls, sessionOf, leftovers, output>>

\* A cancellation commits the status before the bridge is closed.
CancelScript ==
  /\ toolLoad.cancelled /\ runAt \in {"checks", "attach", "listen", "spawn", "running"}
  /\ runAt' = "cancelled" /\ runStatus' = "failed"
  /\ bridge' = IF bridge = "attaching" THEN "lost" ELSE bridge
  /\ UNCHANGED <<edits, toolCalls, sessionOf, leftovers, output>>

-----------------------------------------------------------------------------
(***************************************************************************)
(* The bridge.                                                             *)
(***************************************************************************)
Wants(i) == toolLoad.calls[i]
ToolCallGoes(i, s) == toolCalls' = [toolCalls EXCEPT ![i] = s]
exceptCalls == <<edits, runAt, runStatus, bridge, leftovers, output>>

Registry == RuntimeTools \ (IF toolLoad.mcp = "broken" THEN {"mcp"} ELSE {})
Dispatch(i) ==
  /\ runAt = "running" /\ bridge = "up" /\ toolCalls[i] = "none"
  /\ ToolCallGoes(i, IF ~Wants(i).pin THEN "unknown" ELSE IF Wants(i).tool \notin Registry THEN "refused" ELSE "waiting")
  /\ UNCHANGED <<exceptCalls, sessionOf>>
\* One call at a time has the context.
CallTool(i) ==
  /\ toolCalls[i] = "waiting" /\ \A j \in DOMAIN toolCalls : toolCalls[j] # "calling"
  /\ ToolCallGoes(i, "calling") /\ sessionOf' = i /\ UNCHANGED exceptCalls
AnswerCall(i) ==
  /\ toolCalls[i] = "calling"
  /\ ToolCallGoes(i, CASE Wants(i).takes = "quick" -> "answered"
                   [] Wants(i).takes = "fails" -> "failed"
                   [] OTHER -> "late")
  /\ sessionOf' = 0 /\ UNCHANGED exceptCalls

Ending == {"passing", "failing", "cancelled"}
Open == {i \in DOMAIN toolCalls : toolCalls[i] \in {"waiting", "calling"}}
CloseBridge ==
  /\ runAt \in Ending /\ bridge = "up" /\ bridge' = "closing"
  /\ UNCHANGED <<edits, runAt, runStatus, toolCalls, sessionOf, leftovers, output>>
\* A server that waits for its connections has none left to cancel.
CleanContext ==
  /\ runAt \in Ending /\ bridge = "closing" /\ (toolLoad.waits => Open = {})
  /\ bridge' = "down" /\ leftovers' = leftovers \ {"context"} /\ sessionOf' = 0
  /\ toolCalls' = [i \in DOMAIN toolCalls |-> IF i \in Open THEN "cut" ELSE toolCalls[i]]
  /\ UNCHANGED <<edits, runAt, runStatus, output>>
\* A cancellation while the bridge is closed leaves the rest undone.
CancelClosing ==
  /\ toolLoad.cancelled /\ runAt \in {"passing", "failing"} /\ bridge = "closing"
  /\ runAt' = "cut" /\ UNCHANGED <<edits, runStatus, bridge, toolCalls, sessionOf, leftovers, output>>
SettleScript ==
  /\ runAt \in Ending /\ bridge \in {"none", "lost", "down"} /\ runAt' = "over"
  /\ leftovers' = leftovers \ {"directory"}
  /\ runStatus' = IF runAt = "passing" THEN "completed" ELSE "failed"
  /\ UNCHANGED <<edits, bridge, toolCalls, sessionOf, output>>

ToolNext ==
  \/ PatchReads \/ PatchCommits \/ CreateScript \/ UpdateScript \/ CommitUpdate
  \/ \E w \in Who : RequestScript(w) \/ TakeRunSlot(w)
  \/ BeginScript \/ ResolveSecrets \/ AttachTools \/ Listen \/ SpawnScript \/ PrintScript \/ EndScript
  \/ CancelScript \/ CloseBridge \/ CleanContext \/ CancelClosing \/ SettleScript
  \/ \E i \in DOMAIN toolCalls : Dispatch(i) \/ CallTool(i) \/ AnswerCall(i)

-----------------------------------------------------------------------------
\* Every variable has its type.
ToolTypeOK ==
  /\ scriptRow.content \in Nat /\ DOMAIN accepted = Columns /\ sessionOf \in Nat /\ reading \in BOOLEAN
  /\ runAt \in {"none", "begin", "checks", "attach", "listen", "spawn", "running", "over", "cut"} \cup Ending
  /\ runStatus \in {"none", "pending", "running", "completed", "failed"}
  /\ bridge \in {"none", "attaching", "lost", "up", "closing", "down"} /\ leftovers \subseteq {"directory", "context"}
  /\ \A i \in DOMAIN toolCalls : toolCalls[i] \in {"none", "unknown", "refused", "waiting", "calling", "answered",
                                                 "failed", "late", "cut"}

\* What is stored was accepted: a refused edit leaves no trace, not even one that a later commit of
\* its session would store, and an edit of one column keeps what another gave the others.
EditsAreKept == scriptRow = accepted /\ (unsaved # <<>> => editors["agent"].at = "update")

\* A tool is called only with the PIN, as the script that runs declares it and as a script may;
\* a script that was changed while the page waited for its slot runs as changed.
CallsAreDeclared ==
  /\ \A i \in DOMAIN toolCalls : toolCalls[i] \in {"calling", "answered", "failed", "late"} =>
       Wants(i).pin /\ Wants(i).tool \in snapshot.tools \ Denied
  /\ runAt # "none" /\ atSlot.by = "page" => snapshot = atSlot.row

\* Calls share one context: one at a time uses it, with a session of its own that is gone after it.
ContextIsShared ==
  /\ Cardinality({i \in DOMAIN toolCalls : toolCalls[i] = "calling"}) <= 1
  /\ IF \E i \in DOMAIN toolCalls : toolCalls[i] = "calling" THEN toolCalls[sessionOf] = "calling" ELSE sessionOf = 0

\* When a run is over, no tool works for it, and its bridge, context and directory are gone,
\* unless it was cancelled while these were set up or closed.
NothingOutlivesScript ==
  /\ runAt = "over" /\ bridge # "lost" => leftovers = {} /\ Open = {} /\ bridge \in {"none", "down"}
  /\ runStatus = "completed" => Open = {}

\* The log has no value of a secret and not the PIN, and the tail has what was printed last.
LogIsMasked ==
  /\ \A log \in {scriptLog, scriptTail} : \A i \in DOMAIN log :
       /\ snapshot.secrets => log[i] # "secret"
       /\ bridge # "none" => log[i] # "pin"
  /\ LET printed == SubSeq(toolLoad.lines, 1, Len(toolLoad.lines) - Len(toPrint))
     IN  reading => LastOf([i \in DOMAIN printed |-> MaskLine(printed[i])]) = scriptTail
=============================================================================
