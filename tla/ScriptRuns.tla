------------------------------- MODULE ScriptRuns -------------------------------
(***************************************************************************)
(* Runs of scripts and Playwright specs (routers/scripts.py, the runner of *)
(* agent_core/scripts, the script tool of the agents and the scheduled     *)
(* targets): a slot of the shared pool, a row, an executor that streams    *)
(* the output of a subprocess into the row, the log view that polls the    *)
(* row, shutdown, death and the start-up sweep.                            *)
(*                                                                         *)
(* Output is a number of lines.  What runs, and its sandbox, is left out.  *)
(***************************************************************************)
EXTENDS Naturals, Sequences, FiniteSets

CONSTANTS
  ScriptCalls,  \* requests to run something
  FromPage,     \* those of the page; the others are made by agents and schedules
  ScriptSlots,  \* size of the pool
  MaxLines,     \* bound: lines a run prints
  MaxBoots,     \* bound: starts of the process
  Mishaps       \* what may happen in a behaviour: sets of Mishap

\* Commits that may fail, "lost": a commit whose success the caller does not learn.
Mishap == {"lost", "begin", "flush", "settle"}

ASSUME ScriptAssumption ==
  /\ FromPage \subseteq ScriptCalls /\ IsFiniteSet(ScriptCalls)
  /\ ScriptSlots \in Nat \ {0} /\ MaxLines \in Nat /\ MaxBoots \in Nat
  /\ Mishaps \subseteq SUBSET Mishap

VARIABLES
  mishap,    \* what may happen in this behaviour
  host,      \* the process: up, stopping or down
  boots,
  starting,  \* where each call is
  slotsFree, \* value of the semaphore
  runRow,    \* status of each ScriptRun row
  executor,  \* where the task of each run is
  verdict,   \* the status it is about to commit
  printed,   \* lines of the subprocess
  storedLog, \* stdout_log, in lines
  remark,    \* stderr_log is set
  viewer,    \* where the log view of each run is
  seenLog    \* what it has sent

scriptVars == <<mishap, host, boots, starting, slotsFree, runRow, executor, verdict,
                printed, storedLog, remark, viewer, seenLog>>

ActiveRow == {"pending", "running"}
Lines == 0..MaxLines

ScriptTypeOK ==
  /\ mishap \in Mishaps /\ host \in {"up", "stopping", "down"} /\ boots \in 0..MaxBoots
  /\ starting \in [ScriptCalls -> {"idle", "queued", "slot", "inserted", "launched", "over"}]
  /\ slotsFree \in 0..ScriptSlots
  /\ runRow \in [ScriptCalls -> {"none", "completed", "failed"} \cup ActiveRow]
  /\ executor \in [ScriptCalls -> {"none", "ready", "working", "broken", "closing", "over"}]
  /\ verdict \in [ScriptCalls -> {"completed", "failed"}]
  /\ printed \in [ScriptCalls -> Lines] /\ storedLog \in [ScriptCalls -> Lines]
  /\ remark \in [ScriptCalls -> BOOLEAN]
  /\ viewer \in [ScriptCalls -> {"none", "polling", "told", "closed"}]
  /\ seenLog \in [ScriptCalls -> Seq({"line", "remark"})]

ScriptInit ==
  /\ mishap \in Mishaps /\ host = "up" /\ boots = 0 /\ slotsFree = ScriptSlots
  /\ starting = [c \in ScriptCalls |-> "idle"] /\ runRow = [c \in ScriptCalls |-> "none"]
  /\ executor = [c \in ScriptCalls |-> "none"] /\ verdict = [c \in ScriptCalls |-> "failed"]
  /\ printed = [c \in ScriptCalls |-> 0] /\ storedLog = [c \in ScriptCalls |-> 0]
  /\ remark = [c \in ScriptCalls |-> FALSE]
  /\ viewer = [c \in ScriptCalls |-> "none"] /\ seenLog = [c \in ScriptCalls |-> <<>>]

Running == host # "down"
hostAlone == <<mishap, host, boots>>
viewSide == <<viewer, seenLog>>
outputSide == <<executor, verdict, printed, storedLog>>
CallGoes(c, at) == starting' = [starting EXCEPT ![c] = at]
RowIs(c, status) == runRow' = [runRow EXCEPT ![c] = status]

-----------------------------------------------------------------------------
(***************************************************************************)
(* A slot, a row, a task.                                                  *)
(***************************************************************************)
RequestRun(c) ==
  /\ host = "up" /\ starting[c] = "idle" /\ CallGoes(c, "queued")
  /\ UNCHANGED <<hostAlone, slotsFree, runRow, outputSide, remark, viewSide>>

TakeSlot(c) ==
  /\ Running /\ starting[c] = "queued" /\ slotsFree > 0 /\ slotsFree' = slotsFree - 1
  /\ CallGoes(c, "slot")
  /\ UNCHANGED <<hostAlone, runRow, outputSide, remark, viewSide>>

\* Variant: the slot is released where the row is marked, and again on the way out.
GiveUpMarked(c) == CallGoes(c, "over") /\ slotsFree' = slotsFree + (IF runRow[c] = "pending" THEN 2 ELSE 1)

GiveUp(c) == CallGoes(c, "over") /\ slotsFree' = slotsFree + 1

\* Nothing to run, no permission, no workspace; or the insert fails.
RefuseRun(c) ==
  /\ Running /\ starting[c] = "slot" /\ GiveUp(c)
  /\ UNCHANGED <<hostAlone, runRow, outputSide, remark, viewSide>>

InsertScriptRow(c) ==
  /\ Running /\ starting[c] = "slot" /\ CallGoes(c, "inserted") /\ RowIs(c, "pending")
  /\ UNCHANGED <<hostAlone, slotsFree, outputSide, remark, viewSide>>

\* The page marks it failed, if that commit succeeds.
SettleUnstarted(c) ==
  \/ RowIs(c, "failed") /\ remark' = [remark EXCEPT ![c] = TRUE]
  \/ "settle" \in mishap /\ UNCHANGED <<runRow, remark>>

\* The workspace of a run of the page is resolved when the row is there.
FailToStart(c) ==
  /\ Running /\ starting[c] = "inserted" /\ c \in FromPage
  /\ GiveUp(c) /\ SettleUnstarted(c)
  /\ UNCHANGED <<hostAlone, outputSide, viewSide>>

\* Cancelled or disconnected on the commit of the insert, which has taken effect:
\* the other callers roll back and leave the row.
LoseInsert(c) ==
  /\ Running /\ "lost" \in mishap /\ starting[c] = "inserted" /\ c \notin FromPage
  /\ GiveUp(c) /\ UNCHANGED <<hostAlone, runRow, remark, outputSide, viewSide>>

Launch(c) ==
  /\ Running /\ starting[c] = "inserted" /\ CallGoes(c, "launched")
  /\ executor' = [executor EXCEPT ![c] = "ready"]
  /\ UNCHANGED <<hostAlone, slotsFree, runRow, verdict, printed, storedLog, remark, viewSide>>

\* The task's done callback, or the finally clause of a scheduled target.
ReleaseSlot(c) ==
  /\ Running /\ starting[c] = "launched" /\ executor[c] = "over" /\ GiveUp(c)
  /\ UNCHANGED <<hostAlone, runRow, outputSide, remark, viewSide>>

-----------------------------------------------------------------------------
(***************************************************************************)
(* execute_script and _execute_playwright.                                 *)
(***************************************************************************)
ExecutorGoes(c, at) == executor' = [executor EXCEPT ![c] = at]
runAlone == <<hostAlone, starting, slotsFree, viewSide>>

\* The commit of "running" stands before the try.
BeginRun(c) ==
  /\ Running /\ executor[c] = "ready"
  /\ \/ ExecutorGoes(c, "working") /\ RowIs(c, "running")
     \/ "begin" \in mishap /\ ExecutorGoes(c, "over") /\ UNCHANGED runRow
  /\ UNCHANGED <<runAlone, verdict, printed, storedLog, remark>>

PrintLine(c) ==
  /\ Running /\ executor[c] \in {"working", "broken"} /\ printed[c] < MaxLines
  /\ printed' = [printed EXCEPT ![c] = @ + 1]
  /\ UNCHANGED <<runAlone, runRow, executor, verdict, storedLog, remark>>

\* _flush_loop; a commit that fails ends it and leaves the session to be rolled back.
FlushLog(c) ==
  /\ Running /\ executor[c] = "working"
  /\ \/ storedLog[c] # printed[c] /\ storedLog' = [storedLog EXCEPT ![c] = printed[c]] /\ UNCHANGED executor
     \/ "flush" \in mishap /\ ExecutorGoes(c, "broken") /\ UNCHANGED storedLog
  /\ UNCHANGED <<runAlone, runRow, verdict, printed, remark>>

\* Variant: the lines printed since the last flush are not stored.
EndProcessUnflushed(c) ==
  /\ Running /\ executor[c] = "working" /\ ExecutorGoes(c, "closing")
  /\ \E how \in {"completed", "failed"} : verdict' = [verdict EXCEPT ![c] = how]
  /\ UNCHANGED <<runAlone, runRow, printed, storedLog, remark>>

\* The process ends, or is killed by the time-out; the log is stored before the status.
EndProcess(c) ==
  /\ Running /\ executor[c] = "working" /\ ExecutorGoes(c, "closing")
  /\ storedLog' = [storedLog EXCEPT ![c] = printed[c]]
  /\ \E how \in {"completed", "failed"} : verdict' = [verdict EXCEPT ![c] = how]
  /\ UNCHANGED <<runAlone, runRow, printed, remark>>

\* The session must be rolled back first, whatever the process did; and a run that is
\* refused before its process starts, or cancelled by the shutdown, fails.
BreakRun(c) ==
  /\ Running
  /\ \/ executor[c] = "broken"
     \/ executor[c] = "working" /\ (host = "stopping" \/ printed[c] = 0)
  /\ ExecutorGoes(c, "closing") /\ verdict' = [verdict EXCEPT ![c] = "failed"]
  /\ storedLog' \in {storedLog} \cup IF executor[c] = "working" THEN {[storedLog EXCEPT ![c] = printed[c]]} ELSE {}
  /\ UNCHANGED <<runAlone, runRow, printed, remark>>

\* Status and remark are one commit, the last.
CloseRun(c) ==
  /\ Running /\ executor[c] = "closing" /\ ExecutorGoes(c, "over")
  /\ \/ /\ RowIs(c, verdict[c])
        /\ remark' \in {[remark EXCEPT ![c] = said] : said \in {verdict[c] = "failed", FALSE}}
     \/ "settle" \in mishap /\ UNCHANGED <<runRow, remark>>
  /\ UNCHANGED <<runAlone, verdict, printed, storedLog>>

-----------------------------------------------------------------------------
(***************************************************************************)
(* script_run_ws: the log view.                                            *)
(***************************************************************************)
viewAlone == <<hostAlone, starting, slotsFree, runRow, outputSide, remark>>

OpenView(c) ==
  /\ host = "up" /\ runRow[c] # "none" /\ viewer[c] = "none"
  /\ viewer' = [viewer EXCEPT ![c] = "polling"] /\ UNCHANGED <<viewAlone, seenLog>>

\* stdout_log and stderr_log, one after the other.
LogOf(c) == [i \in 1..storedLog[c] |-> "line"] \o IF remark[c] THEN <<"remark">> ELSE <<>>

\* What the row has beyond the length already sent; "done" comes with the same row.
PollRow(c) ==
  /\ host = "up" /\ viewer[c] = "polling"
  /\ seenLog' = [seenLog EXCEPT ![c] = @ \o SubSeq(LogOf(c), Len(@) + 1, Len(LogOf(c)))]
  /\ viewer' = [viewer EXCEPT ![c] = IF runRow[c] \in ActiveRow THEN "polling" ELSE "told"]
  /\ seenLog' # seenLog \/ viewer' # viewer
  /\ UNCHANGED viewAlone

\* The client leaves, or the polls are used up.
CloseView(c) ==
  /\ viewer[c] = "polling" /\ viewer' = [viewer EXCEPT ![c] = "closed"]
  /\ UNCHANGED <<viewAlone, seenLog>>

-----------------------------------------------------------------------------
(***************************************************************************)
(* The process.                                                            *)
(***************************************************************************)
StopHost ==
  /\ host = "up" /\ boots < MaxBoots /\ host' = "stopping"
  /\ viewer' = [c \in ScriptCalls |-> IF viewer[c] = "polling" THEN "closed" ELSE viewer[c]]
  /\ UNCHANGED <<mishap, boots, starting, slotsFree, runRow, outputSide, remark, seenLog>>

KillHost ==
  /\ Running /\ boots < MaxBoots /\ host' = "down"
  /\ starting' = [c \in ScriptCalls |-> IF starting[c] = "idle" THEN "idle" ELSE "over"]
  /\ executor' = [c \in ScriptCalls |-> IF executor[c] = "none" THEN "none" ELSE "over"]
  /\ viewer' = [c \in ScriptCalls |-> IF viewer[c] = "polling" THEN "closed" ELSE viewer[c]]
  /\ slotsFree' = ScriptSlots
  /\ UNCHANGED <<mishap, boots, runRow, verdict, printed, storedLog, remark, seenLog>>

\* startup_sweep
BootHost ==
  /\ host = "down" /\ host' = "up" /\ boots' = boots + 1
  /\ runRow' = [c \in ScriptCalls |-> IF runRow[c] \in ActiveRow THEN "failed" ELSE runRow[c]]
  /\ remark' = [c \in ScriptCalls |-> remark[c] \/ runRow[c] \in ActiveRow]
  /\ UNCHANGED <<mishap, starting, slotsFree, outputSide, viewSide>>

CallStep(c) == TakeSlot(c) \/ RefuseRun(c) \/ InsertScriptRow(c) \/ Launch(c) \/ ReleaseSlot(c)
ExecutorStep(c) == BeginRun(c) \/ EndProcess(c) \/ BreakRun(c) \/ CloseRun(c)

ScriptNext ==
  \/ \E c \in ScriptCalls :
       \/ RequestRun(c) \/ FailToStart(c) \/ LoseInsert(c) \/ CallStep(c)
       \/ PrintLine(c) \/ FlushLog(c) \/ ExecutorStep(c)
       \/ OpenView(c) \/ PollRow(c) \/ CloseView(c)
  \/ StopHost \/ KillHost \/ BootHost

\* The loop runs what is ready, a subprocess ends or is killed by its time-out, a
\* stopped process is started again.
ScriptFairness ==
  /\ \A c \in ScriptCalls : WF_scriptVars(CallStep(c)) /\ WF_scriptVars(ExecutorStep(c))
  /\ WF_scriptVars(host = "stopping" /\ KillHost) /\ WF_scriptVars(BootHost)
ScriptSpec == ScriptInit /\ [][ScriptNext]_scriptVars
ScriptFairSpec == ScriptSpec /\ ScriptFairness

-----------------------------------------------------------------------------
(***************************************************************************)
(* Properties.                                                             *)
(***************************************************************************)
Holders == {c \in ScriptCalls : starting[c] \in {"slot", "inserted", "launched"}}

\* Every slot is free or held by one call: none leaks, none is released twice, on
\* whatever path a call ends.
SlotsAreCounted == slotsFree + Cardinality(Holders) = ScriptSlots

\* An active row blocks the deletion of its project: as long as commits are
\* reliable it has a call or an executor that will settle it.
ActiveRowHasRunner ==
  mishap \cap {"lost", "begin", "settle"} = {} /\ Running =>
    \A c \in ScriptCalls : runRow[c] \in ActiveRow =>
      starting[c] = "inserted" \/ executor[c] \in {"ready", "working", "broken", "closing"}

\* "The stored value must only grow": a view sends what lies beyond the length it has sent;
\* when it tells the end it has shown the log as it is, and the log of a completed run is whole.
ViewIsComplete ==
  \A c \in ScriptCalls :
    /\ viewer[c] = "told" => seenLog[c] = LogOf(c)
    /\ runRow[c] = "completed" => storedLog[c] = printed[c]

\* Slots, active rows and the log view of script runs agree with what runs.
ScriptsAreAccounted == SlotsAreCounted /\ ActiveRowHasRunner /\ ViewIsComplete

\* Every call ends: it gets its slot, since those before it end by themselves or by
\* their time-out.
ScriptCallEnds == \A c \in ScriptCalls : []<>(starting[c] \in {"idle", "over"})
=============================================================================
