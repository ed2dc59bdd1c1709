----------------------------- MODULE BookProofs -----------------------------
(***************************************************************************)
(* Proofs about the books a project keeps beside its conversations, part   *)
(* by part:                                                                *)
(*                                                                         *)
(*   - ToolInv (ScriptTools): the row is what was accepted last; a bridge  *)
(*     lives in a few steps of a run, and its calls are declared.          *)
(*   - SkillInv (SkillSources): what an installation has read, shown and   *)
(*     written at each of its steps.                                       *)
(*   - MemoryInv (Memories): a row was checked before it was written.      *)
(*   - SpecInv (SpecRuns): what a request has recorded at each stage, and  *)
(*     whose directory holds what.                                         *)
(*   - GitInv (GitRepos): no commit that was in a clone leaves it; what a  *)
(*     task and a build have seen of HEAD.                                 *)
(*   - KnowInv (KnowledgeBase): a cached file is the current one, or who   *)
(*     made it stale is about to evict it; what an uncrossed turn offers is*)
(*     on the disk.                                                        *)
(***************************************************************************)
EXTENDS SkillSources, KnowledgeBase, GitRepos, Memories, SpecRuns, ScriptTools,
        FiniteSetTheorems, SequenceTheorems, TLAPS

-----------------------------------------------------------------------------
(***************************************************************************)
(* What a script may use (ScriptTools)                                     *)
(***************************************************************************)
\* Without an edit the row is the one that was.
LEMMA NoneFlushed ==
  ASSUME NEW r
  PROVE  FoldLeft(Merged, r, <<>>) = r
<1> DEFINE f == [s \in SUBSET {} |-> r]
           G(g) == [s \in SUBSET {} |-> IF s = {} THEN r ELSE Merged(g[s \ {Max(s)}], <<>>[Max(s)])]
           c == CHOOSE g : g = G(g)
<1>1. f = G(f)
  OBVIOUS
<1>2. DOMAIN <<>> = {}
  OBVIOUS
<1>3. FoldLeft(Merged, r, <<>>) = c[{}]
  BY <1>2 DEF FoldLeft, MapThenFoldSet
<1>4. \A g : g = G(g) => g[{}] = r
  OBVIOUS
<1> HIDE DEF f, G
<1>5. c = G(c)
  BY <1>1, Zenon
<1>6. c[{}] = r
  BY <1>4, <1>5, Zenon
<1> QED
  BY <1>3, <1>6, Zenon

\* One edit is merged.
LEMMA OneFlushed ==
  ASSUME NEW r, NEW x
  PROVE  FoldLeft(Merged, r, <<x>>) = Merged(r, x)
<1> DEFINE f == [s \in SUBSET {1} |-> IF s = {} THEN r ELSE Merged(r, x)]
           G(g) == [s \in SUBSET {1} |-> IF s = {} THEN r ELSE Merged(g[s \ {Max(s)}], <<x>>[Max(s)])]
           c == CHOOSE g : g = G(g)
<1>1. Max({1}) = 1
  BY DEF Max
<1>2. DOMAIN <<x>> = {1} /\ <<x>>[1] = x /\ SUBSET {1} = {{}, {1}} /\ {1} \ {1} = {}
  OBVIOUS
<1>3. \A g : g = G(g) => g[{}] = r
  OBVIOUS
<1>4. \A g : g = G(g) => g[{1}] = Merged(g[{1} \ {Max({1})}], <<x>>[Max({1})])
  OBVIOUS
<1>5. \A g : g = G(g) => g[{1}] = Merged(r, x)
  BY <1>1, <1>2, <1>3, <1>4, Zenon
<1>6. f = G(f)
  <2>1. \A s \in SUBSET {1} : f[s] = G(f)[s]
    <3>1. f[{}] = r /\ G(f)[{}] = r
      OBVIOUS
    <3>2. G(f)[{1}] = Merged(f[{1} \ {Max({1})}], <<x>>[Max({1})])
      OBVIOUS
    <3>3. f[{1}] = Merged(r, x)
      OBVIOUS
    <3>4. G(f)[{1}] = Merged(r, x)
      BY <1>1, <1>2, <3>1, <3>2, Zenon
    <3> QED
      BY <1>2, <3>1, <3>3, <3>4, Zenon
  <2> QED
    BY <2>1, Zenon
<1>7. FoldLeft(Merged, r, <<x>>) = c[{1}]
  BY <1>2 DEF FoldLeft, MapThenFoldSet
<1> HIDE DEF f, G
<1>8. c = G(c)
  BY <1>6, Zenon
<1> QED
  BY <1>5, <1>7, <1>8, Zenon
-----------------------------------------------------------------------------
(***************************************************************************)
(* The row of a script and its edits.                                      *)
(***************************************************************************)
EditorRecord(r) == r = [at |-> r.at, done |-> r.done, read |-> r.read]

\* What the agent has not saved is the one edit it is about to commit.
EditsInv ==
  /\ editors = [w \in Who |-> editors[w]] /\ \A w \in Who : \A r : r = editors[w] => EditorRecord(r)
  /\ scriptRow = accepted
  /\ IF editors["agent"].at = "update" THEN \E x : unsaved = <<x>> ELSE unsaved = <<>>

Early == {"none", "begin", "checks", "attach", "listen", "spawn"}

\* What there is of a run, by its step and that of its bridge.
StageInv ==
  /\ runAt \in Early \cup {"running", "over", "cut"} \cup Ending
  /\ runAt \in {"none", "begin", "checks", "attach"} => bridge = "none"
  /\ runAt = "listen" => bridge = "attaching"
  /\ runAt \in {"spawn", "running"} => bridge \in {"none", "up"}
  /\ runAt \in Ending => bridge \in {"none", "lost", "up", "closing", "down"}
  /\ bridge = "lost" => runAt \in {"cancelled", "over"}
  /\ runAt = "over" => bridge \in {"none", "lost", "down"}
  /\ runAt = "cut" => bridge = "closing"
  /\ leftovers \subseteq {"directory", "context"}
  /\ "context" \in leftovers => bridge \in {"attaching", "up", "closing", "lost"}
  /\ "directory" \in leftovers => runAt \notin {"none", "begin", "over"}
  /\ runStatus = "completed" => runAt = "over" /\ bridge # "lost"

\* Only a bridge that is up has calls, each as the snapshot declares it, and one of them the context.
CallStates == {"none", "unknown", "refused", "waiting", "calling", "answered", "failed", "late", "cut"}
CallsInv ==
  /\ toolCalls = [i \in DOMAIN toolLoad.calls |-> toolCalls[i]] /\ \A i \in DOMAIN toolCalls : toolCalls[i] \in CallStates
  /\ bridge \notin {"up", "closing"} => Open = {} /\ (bridge # "down" => \A i \in DOMAIN toolCalls : toolCalls[i] = "none")
  /\ \A i \in DOMAIN toolCalls : toolCalls[i] \in {"waiting", "calling", "answered", "failed", "late"} =>
       Wants(i).pin /\ Wants(i).tool \in snapshot.tools \ Denied
  /\ runAt # "none" /\ atSlot.by = "page" => snapshot = atSlot.row
  /\ \A i \in DOMAIN toolCalls : toolCalls[i] = "calling" => sessionOf = i
  /\ (\A i \in DOMAIN toolCalls : toolCalls[i] # "calling") => sessionOf = 0

\* Nothing is printed before the script runs; the tail is that of what was printed and masked.
PrintedLines == SubSeq(toolLoad.lines, 1, Len(toolLoad.lines) - Len(toPrint))
OutInv ==
  /\ toolLoad \in ToolLoads
  /\ Len(toPrint) \in 0 .. Len(toolLoad.lines)
  /\ toPrint = SubSeq(toolLoad.lines, Len(toolLoad.lines) - Len(toPrint) + 1, Len(toolLoad.lines))
  /\ scriptLog \in Seq(OutputLines \cup {"masked"}) /\ scriptTail \in Seq(OutputLines \cup {"masked"})
  /\ runAt \in Early => toPrint = toolLoad.lines /\ scriptLog = <<>> /\ scriptTail = <<>>
  /\ \A log \in {scriptLog, scriptTail} : \A i \in DOMAIN log :
       (snapshot.secrets => log[i] # "secret") /\ (bridge # "none" => log[i] # "pin")
  /\ reading => LastOf([i \in DOMAIN PrintedLines |-> MaskLine(PrintedLines[i])]) = scriptTail

ToolInv == EditsInv /\ StageInv /\ CallsInv /\ OutInv

LEMMA ToolInitKeeps ==
  ASSUME ToolInit
  PROVE  ToolInv
<1>1. toolLoad \in ToolLoads /\ toolLoad.lines \in Seq(OutputLines)
  BY ToolAssumption DEF ToolInit
<1>2. EditsInv
  <2>1. /\ editors = [w \in Who |-> [at |-> "idle", done |-> 0, read |-> NoScript]] /\ scriptRow = accepted /\ unsaved = <<>>
    BY DEF ToolInit
  <2>2. \A w \in Who : editors[w] = [at |-> "idle", done |-> 0, read |-> NoScript]
    BY <2>1
  <2>3. \A w \in Who : \A r : r = editors[w] => EditorRecord(r) /\ r.at = "idle"
    BY <2>2 DEF EditorRecord
  <2>4. editors = [w \in Who |-> editors[w]]
    BY <2>1
  <2>5. editors["agent"].at = "idle"
    BY <2>3 DEF Who
  <2> QED
    BY <2>1, <2>3, <2>4, <2>5 DEF EditsInv
<1>3. StageInv
  BY DEF ToolInit, StageInv, Early
<1>4. CallsInv
  <2>1. toolCalls = [i \in DOMAIN toolLoad.calls |-> "none"]
    BY DEF ToolInit
  <2>2. \A i \in DOMAIN toolCalls : toolCalls[i] = "none"
    BY <2>1
  <2>3. toolCalls = [i \in DOMAIN toolLoad.calls |-> toolCalls[i]]
    BY <2>1
  <2> QED
    BY <2>2, <2>3 DEF ToolInit, CallsInv, CallStates, Open
<1>5. OutInv
  <2>1. toPrint = toolLoad.lines /\ scriptLog = <<>> /\ scriptTail = <<>>
    BY DEF ToolInit
  <2>2. Len(toPrint) = Len(toolLoad.lines) /\ Len(toPrint) \in Nat
    BY <1>1, <2>1
  <2>3. SubSeq(toolLoad.lines, 1, Len(toolLoad.lines)) = toolLoad.lines
    BY <1>1
  <2>4. PrintedLines = <<>>
    BY <1>1, <2>1, <2>2 DEF PrintedLines
  <2>5. LastOf([i \in DOMAIN PrintedLines |-> MaskLine(PrintedLines[i])]) = <<>>
    <3>1. [i \in DOMAIN PrintedLines |-> MaskLine(PrintedLines[i])] = <<>>
      BY <2>4
    <3> QED
      BY <3>1, ToolAssumption DEF LastOf
  <2>6. <<>> \in Seq(OutputLines \cup {"masked"})
    OBVIOUS
  <2> QED
    BY <1>1, <2>1, <2>2, <2>3, <2>5, <2>6 DEF OutInv
<1> QED
  BY <1>2, <1>3, <1>4, <1>5 DEF ToolInv

\* An editor moves, and only that one.
LEMMA EditorMoves ==
  ASSUME EditsInv, NEW w \in Who, NEW a, NEW d, NEW r,
         \/ editors' = [editors EXCEPT ![w].at = a, ![w].done = @ + 1]
         \/ editors' = [editors EXCEPT ![w].at = a, ![w].read = r]
         \/ editors' = [editors EXCEPT ![w].at = a]
  PROVE  /\ editors'[w].at = a /\ \A v \in Who : v # w => editors'[v] = editors[v]
         /\ editors' = [v \in Who |-> editors'[v]] /\ \A v \in Who : \A q : q = editors'[v] => EditorRecord(q)
<1> DEFINE one == [editors EXCEPT ![w].at = a]
<1>1. editors = [v \in Who |-> editors[v]] /\ \A v \in Who : EditorRecord(editors[v])
  BY DEF EditsInv
<1>2. /\ one = [v \in Who |-> one[v]] /\ \A v \in Who : v # w => one[v] = editors[v]
      /\ one[w] = [at |-> a, done |-> editors[w].done, read |-> editors[w].read]
  BY <1>1 DEF EditorRecord
<1>3. \/ editors' = [one EXCEPT ![w].done = editors[w].done + 1]
      \/ editors' = [one EXCEPT ![w].read = r]
      \/ editors' = one
  OBVIOUS
<1> HIDE DEF one
<1>4. CASE editors' = [one EXCEPT ![w].done = editors[w].done + 1]
  <2>1. /\ editors'[w] = [at |-> a, done |-> editors[w].done + 1, read |-> editors[w].read]
        /\ \A v \in Who : v # w => editors'[v] = editors[v]
        /\ editors' = [v \in Who |-> editors'[v]]
    BY <1>2, <1>4
  <2>2. editors'[w].at = a /\ EditorRecord(editors'[w])
    BY <2>1 DEF EditorRecord
  <2> QED
    BY <1>1, <2>1, <2>2
<1>5. CASE editors' = [one EXCEPT ![w].read = r]
  <2>1. /\ editors'[w] = [at |-> a, done |-> editors[w].done, read |-> r]
        /\ \A v \in Who : v # w => editors'[v] = editors[v]
        /\ editors' = [v \in Who |-> editors'[v]]
    BY <1>2, <1>5
  <2>2. editors'[w].at = a /\ EditorRecord(editors'[w])
    BY <2>1 DEF EditorRecord
  <2> QED
    BY <1>1, <2>1, <2>2
<1>6. CASE editors' = one
  <2>1. /\ editors'[w] = [at |-> a, done |-> editors[w].done, read |-> editors[w].read]
        /\ \A v \in Who : v # w => editors'[v] = editors[v]
        /\ editors' = [v \in Who |-> editors'[v]]
    BY <1>2, <1>6
  <2>2. editors'[w].at = a /\ EditorRecord(editors'[w])
    BY <2>1 DEF EditorRecord
  <2> QED
    BY <1>1, <2>1, <2>2
<1> QED
  BY <1>3, <1>4, <1>5, <1>6

LEMMA EditsKeep ==
  ASSUME ToolInv, PatchReads \/ PatchCommits \/ CreateScript \/ UpdateScript \/ CommitUpdate
                  \/ \E w \in Who : RequestScript(w) \/ TakeRunSlot(w)
  PROVE  EditsInv'
<1>1. EditsInv /\ "page" \in Who /\ "agent" \in Who
  BY DEF ToolInv, Who
<1>2. ASSUME NEW w \in Who, NEW a, a # "update", w = "page" \/ editors["agent"].at # "update",
             \E r : \/ editors' = [editors EXCEPT ![w].at = a, ![w].done = @ + 1]
                    \/ editors' = [editors EXCEPT ![w].at = a, ![w].read = r]
                    \/ editors' = [editors EXCEPT ![w].at = a],
             scriptRow' = accepted', UNCHANGED unsaved
      PROVE  EditsInv'
  <2>1. /\ editors'[w].at = a /\ \A v \in Who : v # w => editors'[v] = editors[v]
        /\ editors' = [v \in Who |-> editors'[v]] /\ \A v \in Who : \A q : q = editors'[v] => EditorRecord(q)
    BY <1>1, <1>2, EditorMoves
  <2>2. editors'["agent"].at = "update" <=> editors["agent"].at = "update"
    BY <1>1, <1>2, <2>1 DEF Who
  <2> QED
    BY <1>1, <1>2, <2>1, <2>2 DEF EditsInv
<1>3. CASE PatchReads
  <2>1. editors' = [editors EXCEPT !["page"].at = "patch", !["page"].read = scriptRow] /\ UNCHANGED rowVars
    BY <1>3 DEF PatchReads
  <2> QED
    BY <1>1, <1>2, <2>1 DEF rowVars, EditsInv
<1>4. CASE PatchCommits
  <2>1. editors' = [editors EXCEPT !["page"].at = "idle", !["page"].done = @ + 1] /\ UNCHANGED unsaved
    BY <1>4 DEF PatchCommits, Finishes
  <2>2. scriptRow = accepted
    BY <1>1 DEF EditsInv
  <2>3. scriptRow' = accepted'
    BY <1>4, <2>2 DEF PatchCommits
  <2> QED
    BY <1>1, <1>2, <2>1, <2>3
<1>5. CASE CreateScript
  <2>1. /\ editors["agent"].at = "idle" /\ UNCHANGED unsaved
        /\ editors' = [editors EXCEPT !["agent"].at = "idle", !["agent"].done = @ + 1]
    BY <1>5 DEF CreateScript, Finishes, Turn
  <2>2. scriptRow = accepted
    BY <1>1 DEF EditsInv
  <2>3. scriptRow' = accepted'
    BY <1>5, <2>2 DEF CreateScript
  <2> QED
    BY <1>1, <1>2, <2>1, <2>3
<1>6. CASE UpdateScript
  <2>1. editors["agent"].at = "idle" /\ UNCHANGED <<scriptRow, accepted>>
    BY <1>6 DEF UpdateScript, Turn
  <2>2. unsaved = <<>> /\ scriptRow = accepted
    BY <1>1, <2>1 DEF EditsInv
  <2>3. CASE EditorGoes("agent", "update") /\ unsaved' = Append(unsaved, Differing(Change("agent"), scriptRow))
    <3>1. editors' = [editors EXCEPT !["agent"].at = "update"]
      BY <2>3 DEF EditorGoes
    <3>2. /\ editors'["agent"].at = "update" /\ editors' = [v \in Who |-> editors'[v]]
          /\ \A v \in Who : \A q : q = editors'[v] => EditorRecord(q)
      BY <1>1, <3>1, EditorMoves
    <3>3. \E x : unsaved' = <<x>>
      <4>1. \A x : Append(<<>>, x) = <<x>>
        OBVIOUS
      <4> QED
        BY <2>2, <2>3, <4>1
    <3> QED
      BY <2>1, <2>2, <3>2, <3>3 DEF EditsInv
  <2>4. CASE Finishes("agent") /\ UNCHANGED unsaved
    <3>1. editors' = [editors EXCEPT !["agent"].at = "idle", !["agent"].done = @ + 1]
      BY <2>4 DEF Finishes
    <3> QED
      BY <1>1, <1>2, <2>1, <2>2, <2>4, <3>1
  <2> QED
    BY <1>6, <2>3, <2>4 DEF UpdateScript
<1>7. CASE CommitUpdate
  <2>1. /\ editors["agent"].at = "update" /\ editors' = [editors EXCEPT !["agent"].at = "idle", !["agent"].done = @ + 1]
        /\ scriptRow' = Flushed /\ unsaved' = <<>> /\ accepted' = Merged(accepted, Last(unsaved))
    BY <1>7 DEF CommitUpdate, Finishes, AgentCommits
  <2>2. PICK x : unsaved = <<x>>
    BY <1>1, <2>1 DEF EditsInv
  <2>3. Last(unsaved) = x
    BY <2>2 DEF Last
  <2>4. scriptRow' = Merged(scriptRow, x)
    <3>1. \A u : u = <<x>> => FoldLeft(Merged, scriptRow, u) = Merged(scriptRow, x)
      BY OneFlushed, Zenon
    <3> QED
      BY <2>1, <2>2, <3>1, Zenon DEF Flushed
  <2>5. scriptRow' = accepted'
    BY <1>1, <2>1, <2>3, <2>4 DEF EditsInv
  <2>6. /\ editors'["agent"].at = "idle" /\ editors' = [v \in Who |-> editors'[v]]
        /\ \A v \in Who : \A q : q = editors'[v] => EditorRecord(q)
    BY <1>1, <2>1, EditorMoves
  <2> QED
    BY <2>1, <2>5, <2>6 DEF EditsInv
<1>8. ASSUME NEW w \in Who, RequestScript(w)
      PROVE  EditsInv'
  <2>1. /\ editors[w].at = "idle" /\ editors' = [editors EXCEPT ![w].at = "queue", ![w].read = scriptRow]
        /\ UNCHANGED rowVars
    BY <1>8 DEF RequestScript, Turn
  <2>2. w = "page" \/ editors["agent"].at # "update"
    BY <2>1 DEF Who
  <2> QED
    BY <1>1, <1>2, <2>1, <2>2 DEF rowVars, EditsInv
<1>9. ASSUME NEW w \in Who, TakeRunSlot(w)
      PROVE  EditsInv'
  <2>1. /\ editors[w].at = "queue" /\ editors' = [editors EXCEPT ![w].at = "idle", ![w].done = @ + 1]
        /\ accepted' = accepted
    BY <1>9 DEF TakeRunSlot, Finishes
  <2>2. w = "page" \/ editors["agent"].at # "update"
    BY <2>1 DEF Who
  <2>3. scriptRow = accepted
    BY <1>1 DEF EditsInv
  <2>4. scriptRow' = scriptRow /\ unsaved' = unsaved
    <3>1. CASE w = "agent"
      <4>1. scriptRow' = Flushed /\ unsaved' = <<>>
        BY <1>9, <3>1 DEF TakeRunSlot, AgentCommits
      <4>2. unsaved = <<>>
        BY <1>1, <2>1, <3>1 DEF EditsInv
      <4>3. \A u : u = <<>> => FoldLeft(Merged, scriptRow, u) = scriptRow
        BY NoneFlushed, Zenon
      <4>4. Flushed = scriptRow
        BY <4>2, <4>3, Zenon DEF Flushed
      <4> QED
        BY <4>1, <4>2, <4>4
    <3>2. CASE w # "agent"
      BY <1>9, <3>2 DEF TakeRunSlot
    <3> QED
      BY <3>1, <3>2
  <2> QED
    BY <1>1, <1>2, <2>1, <2>2, <2>3, <2>4
<1> QED
  BY <1>3, <1>4, <1>5, <1>6, <1>7, <1>8, <1>9

-----------------------------------------------------------------------------
(***************************************************************************)
(* The run.                                                                *)
(***************************************************************************)
EditSteps == PatchReads \/ PatchCommits \/ CreateScript \/ UpdateScript \/ CommitUpdate \/ \E w \in Who : RequestScript(w)
RunSteps == BeginScript \/ ResolveSecrets \/ AttachTools \/ Listen \/ SpawnScript \/ PrintScript \/ EndScript
            \/ CancelScript \/ CloseBridge \/ CleanContext \/ CancelClosing \/ SettleScript
CallSteps == \E i \in DOMAIN toolCalls : Dispatch(i) \/ CallTool(i) \/ AnswerCall(i)

LEMMA EditSteadies ==
  ASSUME EditSteps \/ RunSteps \/ CallSteps
  PROVE  /\ UNCHANGED <<toolLoad, snapshot, atSlot>>
         /\ (EditSteps => UNCHANGED runVars) /\ (~EditSteps => UNCHANGED <<editors, scriptRow, unsaved, accepted>>)
         /\ (CallSteps => UNCHANGED <<runAt, runStatus, bridge, leftovers, toPrint, scriptLog, scriptTail, reading>>)
<1>1. CASE EditSteps
  BY <1>1 DEF EditSteps, PatchReads, PatchCommits, CreateScript, UpdateScript, CommitUpdate, RequestScript, runVars,
              CallSteps, Dispatch, CallTool, AnswerCall, exceptCalls, edits, output
<1>2. CASE RunSteps /\ ~EditSteps
  BY <1>2 DEF RunSteps, BeginScript, ResolveSecrets, AttachTools, Listen, SpawnScript, PrintScript, EndScript, CancelScript,
              CloseBridge, CleanContext, CancelClosing, SettleScript, edits, rowVars, output, runVars,
              CallSteps, Dispatch, CallTool, AnswerCall, exceptCalls
<1>3. CASE CallSteps /\ ~EditSteps
  BY <1>3 DEF CallSteps, Dispatch, CallTool, AnswerCall, exceptCalls, edits, output, rowVars, runVars
<1> QED
  BY <1>1, <1>2, <1>3

LEMMA StageKeeps ==
  ASSUME ToolInv, RunSteps
  PROVE  StageInv'
<1> USE DEF StageInv, Early, Ending
<1>1. StageInv
  BY DEF ToolInv
<1>2. CASE BeginScript
  <2>1. UNCHANGED bridge /\ leftovers \cup {"directory"} \subseteq {"directory", "context"}
    BY <1>1, <1>2 DEF BeginScript
  <2> QED
    BY <1>1, <1>2, <2>1 DEF BeginScript
<1>3. CASE ResolveSecrets
  BY <1>1, <1>3 DEF ResolveSecrets
<1>4. CASE AttachTools
  <2>1. /\ runAt = "attach" /\ runAt' = "listen" /\ bridge' = "attaching" /\ UNCHANGED runStatus
        /\ leftovers' = leftovers \/ leftovers' = leftovers \cup {"context"}
    BY <1>4 DEF AttachTools, Step
  <2> QED
    BY <1>1, <2>1
<1>5. CASE Listen
  BY <1>1, <1>5 DEF Listen, Step
<1>6. CASE SpawnScript
  BY <1>1, <1>6 DEF SpawnScript, Step
<1>7. CASE PrintScript
  BY <1>1, <1>7 DEF PrintScript
<1>8. CASE EndScript
  BY <1>1, <1>8 DEF EndScript
<1>9. CASE CancelScript
  BY <1>1, <1>9 DEF CancelScript
<1>10. CASE CloseBridge
  BY <1>1, <1>10 DEF CloseBridge
<1>11. CASE CleanContext
  BY <1>1, <1>11 DEF CleanContext
<1>12. CASE CancelClosing
  BY <1>1, <1>12 DEF CancelClosing
<1>13. CASE SettleScript
  BY <1>1, <1>13 DEF SettleScript
<1> QED
  BY <1>2, <1>3, <1>4, <1>5, <1>6, <1>7, <1>8, <1>9, <1>10, <1>11, <1>12, <1>13 DEF RunSteps

\* The calls of a run stay as they are, while the bridge is set up or closed.
LEMMA CallsStay ==
  ASSUME ToolInv, UNCHANGED <<toolLoad, snapshot, atSlot, toolCalls, sessionOf>>,
         bridge' \notin {"up", "closing"} => bridge \notin {"up", "closing"} /\ (bridge' # "down" => bridge # "down"),
         runAt' # "none" => runAt # "none"
  PROVE  CallsInv'
<1>1. \A i : Wants(i)' = Wants(i)
  BY DEF Wants
<1>2. Open' = Open
  BY DEF Open
<1> QED
  BY <1>1, <1>2 DEF ToolInv, CallsInv

LEMMA RunCallsKeep ==
  ASSUME ToolInv, RunSteps
  PROVE  CallsInv'
<1> USE DEF StageInv, Early, Ending
<1>1. StageInv /\ UNCHANGED <<toolLoad, snapshot, atSlot>>
  BY EditSteadies DEF ToolInv
<1>2. CASE CleanContext
  <2>1. /\ runAt \in Ending /\ bridge' = "down" /\ sessionOf' = 0 /\ UNCHANGED runAt
        /\ toolCalls' = [i \in DOMAIN toolCalls |-> IF i \in Open THEN "cut" ELSE toolCalls[i]]
    BY <1>2 DEF CleanContext, edits
  <2>2. /\ DOMAIN toolCalls' = DOMAIN toolCalls
        /\ \A i \in DOMAIN toolCalls : toolCalls'[i] = IF toolCalls[i] \in {"waiting", "calling"} THEN "cut" ELSE toolCalls[i]
        /\ toolCalls' = [i \in DOMAIN toolLoad'.calls |-> toolCalls'[i]]
    BY <1>1, <2>1 DEF Open, ToolInv, CallsInv
  <2>3. \A i : Wants(i)' = Wants(i)
    BY <1>1 DEF Wants
  <2>4. Open' = {} /\ \A i \in DOMAIN toolCalls' : toolCalls'[i] \in CallStates
    BY <2>2 DEF Open, ToolInv, CallsInv, CallStates
  <2>5. \A i \in DOMAIN toolCalls' : toolCalls'[i] \in {"waiting", "calling", "answered", "failed", "late"} =>
          Wants(i)'.pin /\ Wants(i)'.tool \in snapshot'.tools \ Denied
    BY <1>1, <2>2, <2>3 DEF ToolInv, CallsInv
  <2>6. \A i \in DOMAIN toolCalls' : toolCalls'[i] # "calling"
    BY <2>2
  <2> QED
    BY <1>1, <2>1, <2>2, <2>4, <2>5, <2>6 DEF ToolInv, CallsInv
<1>3. CASE ~CleanContext
  <2>1. /\ UNCHANGED <<toolCalls, sessionOf>> /\ runAt # "none"
        /\ bridge' \notin {"up", "closing"} => bridge \notin {"up", "closing"} /\ (bridge' # "down" => bridge # "down")
    BY <1>1, <1>3 DEF RunSteps, BeginScript, ResolveSecrets, AttachTools, Listen, SpawnScript, PrintScript, EndScript,
         CancelScript, CloseBridge, CancelClosing, SettleScript, Step
  <2> QED
    BY <1>1, <2>1, CallsStay
<1> QED
  BY <1>2, <1>3

\* One call goes on.
LEMMA CallGoesOn ==
  ASSUME ToolInv, NEW i \in DOMAIN toolCalls, NEW s \in CallStates, ToolCallGoes(i, s),
         UNCHANGED <<toolLoad, snapshot, atSlot, runAt, bridge>>, bridge \in {"up", "closing"},
         s \in {"waiting", "calling", "answered", "failed", "late"} => Wants(i).pin /\ Wants(i).tool \in snapshot.tools \ Denied,
         \/ s # "calling" /\ toolCalls[i] # "calling" /\ UNCHANGED sessionOf
         \/ s = "calling" /\ sessionOf' = i /\ \A j \in DOMAIN toolCalls : toolCalls[j] # "calling"
         \/ s # "calling" /\ sessionOf' = 0 /\ toolCalls[i] = "calling"
  PROVE  CallsInv'
<1>1. /\ DOMAIN toolCalls' = DOMAIN toolCalls /\ toolCalls'[i] = s
      /\ \A j \in DOMAIN toolCalls : j # i => toolCalls'[j] = toolCalls[j]
      /\ toolCalls' = [j \in DOMAIN toolLoad'.calls |-> toolCalls'[j]]
  BY DEF ToolCallGoes, ToolInv, CallsInv
<1>2. \A j : Wants(j)' = Wants(j)
  BY DEF Wants
<1>3. \A j \in DOMAIN toolCalls' : toolCalls'[j] \in CallStates
  BY <1>1 DEF ToolInv, CallsInv
<1>4. \A j \in DOMAIN toolCalls' : toolCalls'[j] \in {"waiting", "calling", "answered", "failed", "late"} =>
        Wants(j)'.pin /\ Wants(j)'.tool \in snapshot'.tools \ Denied
  BY <1>1, <1>2 DEF ToolInv, CallsInv
<1>5. \A j \in DOMAIN toolCalls' : toolCalls'[j] = "calling" => sessionOf' = j
  <2>1. \A j \in DOMAIN toolCalls : toolCalls[j] = "calling" => sessionOf = j
    BY DEF ToolInv, CallsInv
  <2> QED
    BY <1>1, <2>1
<1>6. (\A j \in DOMAIN toolCalls' : toolCalls'[j] # "calling") => sessionOf' = 0
  <2>1. (\A j \in DOMAIN toolCalls : toolCalls[j] # "calling") => sessionOf = 0
    BY DEF ToolInv, CallsInv
  <2> QED
    BY <1>1, <2>1
<1> QED
  BY <1>1, <1>3, <1>4, <1>5, <1>6 DEF ToolInv, CallsInv

LEMMA CallsKeep ==
  ASSUME ToolInv, CallSteps
  PROVE  CallsInv'
<1>1. PICK i \in DOMAIN toolCalls : Dispatch(i) \/ CallTool(i) \/ AnswerCall(i)
  BY DEF CallSteps
<1>2. UNCHANGED <<toolLoad, snapshot, atSlot, runAt, bridge>>
  BY EditSteadies
<1>3. CASE Dispatch(i)
  <2>1. /\ bridge = "up" /\ toolCalls[i] = "none" /\ UNCHANGED sessionOf
        /\ ToolCallGoes(i, IF ~Wants(i).pin THEN "unknown" ELSE IF Wants(i).tool \notin Registry THEN "refused" ELSE "waiting")
    BY <1>3 DEF Dispatch
  <2>2. \/ ToolCallGoes(i, "unknown") \/ ToolCallGoes(i, "refused")
        \/ ToolCallGoes(i, "waiting") /\ Wants(i).pin /\ Wants(i).tool \in Registry
    BY <2>1
  <2>3. Registry \subseteq snapshot.tools \ Denied
    BY DEF Registry, RuntimeTools
  <2> QED
    BY <1>2, <2>1, <2>2, <2>3, CallGoesOn DEF CallStates
<1>4. ASSUME toolCalls[i] \in {"waiting", "calling"}
      PROVE  bridge \in {"up", "closing"} /\ Wants(i).pin /\ Wants(i).tool \in snapshot.tools \ Denied
  BY <1>4 DEF ToolInv, CallsInv, Open
<1>5. CASE CallTool(i)
  <2>1. /\ toolCalls[i] = "waiting" /\ \A j \in DOMAIN toolCalls : toolCalls[j] # "calling"
        /\ ToolCallGoes(i, "calling") /\ sessionOf' = i
    BY <1>5 DEF CallTool
  <2> QED
    BY <1>2, <1>4, <2>1, CallGoesOn DEF CallStates
<1>6. CASE AnswerCall(i)
  <2>1. /\ toolCalls[i] = "calling" /\ sessionOf' = 0
        /\ ToolCallGoes(i, "answered") \/ ToolCallGoes(i, "failed") \/ ToolCallGoes(i, "late")
    BY <1>6 DEF AnswerCall
  <2> QED
    BY <1>2, <1>4, <2>1, CallGoesOn DEF CallStates
<1> QED
  BY <1>1, <1>3, <1>5, <1>6

-----------------------------------------------------------------------------
(***************************************************************************)
(* The output.                                                             *)
(***************************************************************************)
\* The last lines of a sequence, element by element.
LEMMA LastOfIs ==
  ASSUME NEW S, NEW s \in Seq(S)
  PROVE  /\ LastOf(s) \in Seq(S)
         /\ Len(s) <= TailLines => LastOf(s) = s
         /\ Len(s) > TailLines => /\ Len(LastOf(s)) = TailLines
                                  /\ \A i \in 1 .. TailLines : LastOf(s)[i] = s[i + (Len(s) - TailLines)]
<1>1. TailLines \in Nat /\ TailLines > 0 /\ Len(s) \in Nat
  BY ToolAssumption
<1>2. CASE Len(s) <= TailLines
  <2>3. ~(Len(s) > TailLines)
    BY <1>1, <1>2
  <2>1. LastOf(s) = SubSeq(s, 1, Len(s))
    BY <2>3, Zenon DEF LastOf
  <2>2. SubSeq(s, 1, Len(s)) = s
    OBVIOUS
  <2> QED
    BY <2>1, <2>2, <2>3
<1>3. CASE Len(s) > TailLines
  <2> DEFINE m == Len(s) - TailLines + 1
  <2>1. LastOf(s) = SubSeq(s, m, Len(s))
    BY <1>1, <1>3 DEF LastOf
  <2>2. m \in 1 .. Len(s)
    BY <1>1, <1>3
  <2>3. Len(LastOf(s)) = Len(s) - m + 1 /\ \A i \in 1 .. Len(s) - m + 1 : LastOf(s)[i] = s[m + i - 1]
    <3> HIDE DEF m
    <3> QED
      BY <1>1, <2>1, <2>2
  <2>4. LastOf(s) \in Seq(S)
    <3> HIDE DEF m
    <3> QED
      BY <1>1, <2>1, <2>2
  <2> QED
    BY <1>1, <1>3, <2>3, <2>4
<1> QED
  BY <1>1, <1>2, <1>3

LEMMA TailGoesOn ==
  ASSUME NEW S, NEW s \in Seq(S), NEW x \in S
  PROVE  LastOf(Append(LastOf(s), x)) = LastOf(Append(s, x))
<1>1. TailLines \in Nat /\ TailLines > 0 /\ Len(s) \in Nat
  BY ToolAssumption
<1>2. CASE Len(s) <= TailLines
  <2>1. LastOf(s) = s
    BY <1>2, LastOfIs
  <2> QED
    BY <2>1
<1>3. CASE Len(s) > TailLines
  <2> DEFINE l == LastOf(s)
             a == Append(l, x)
             b == Append(s, x)
  <2>1. l \in Seq(S) /\ Len(l) = TailLines /\ \A i \in 1 .. TailLines : l[i] = s[i + (Len(s) - TailLines)]
    BY <1>3, LastOfIs
  <2>2. a \in Seq(S) /\ b \in Seq(S)
    BY <2>1
  <2>3. /\ Len(a) = TailLines + 1 /\ Len(b) = Len(s) + 1 /\ a[TailLines + 1] = x /\ b[Len(s) + 1] = x
        /\ \A i \in 1 .. TailLines : a[i] = l[i]
        /\ \A i \in 1 .. Len(s) : b[i] = s[i]
    <3> HIDE DEF l
    <3> QED
      BY <1>1, <2>1
  <2> HIDE DEF l, a, b
  <2>4. /\ LastOf(a) \in Seq(S) /\ Len(LastOf(a)) = TailLines
        /\ \A i \in 1 .. TailLines : LastOf(a)[i] = a[i + (Len(a) - TailLines)]
    BY <1>1, <2>2, <2>3, LastOfIs
  <2>5. /\ LastOf(b) \in Seq(S) /\ Len(LastOf(b)) = TailLines
        /\ \A i \in 1 .. TailLines : LastOf(b)[i] = b[i + (Len(b) - TailLines)]
    <3>1. Len(b) > TailLines
      BY <1>1, <1>3, <2>3
    <3> QED
      BY <2>2, <3>1, LastOfIs
  <2>6. ASSUME NEW i \in 1 .. TailLines
        PROVE  LastOf(a)[i] = LastOf(b)[i]
    <3>1. LastOf(a)[i] = a[i + 1] /\ LastOf(b)[i] = b[i + (Len(s) - TailLines) + 1]
      BY <1>1, <2>3, <2>4, <2>5
    <3>2. CASE i = TailLines
      <4>1. i + (Len(s) - TailLines) + 1 = Len(s) + 1
        BY <1>1, <3>2
      <4> QED
        BY <2>3, <3>1, <3>2, <4>1
    <3>3. CASE i < TailLines
      <4>1. i + 1 \in 1 .. TailLines /\ i + (Len(s) - TailLines) + 1 \in 1 .. Len(s)
            /\ (i + 1) + (Len(s) - TailLines) = i + (Len(s) - TailLines) + 1
        BY <1>1, <1>3, <3>3
      <4>2. a[i + 1] = s[(i + 1) + (Len(s) - TailLines)]
        BY <2>1, <2>3, <4>1
      <4> QED
        BY <2>3, <3>1, <4>1, <4>2
    <3> QED
      BY <1>1, <3>2, <3>3
  <2>7. LastOf(a) = LastOf(b)
    BY <2>4, <2>5, <2>6
  <2> QED
    BY <2>7 DEF a, b, l
<1> QED
  BY <1>1, <1>2, <1>3

\* Nothing is printed.
LEMMA OutStays ==
  ASSUME ToolInv, UNCHANGED <<toolLoad, toPrint, scriptLog, scriptTail, reading>>,
         runAt' \in Early => runAt \in Early,
         runAt \in Early \/ (UNCHANGED snapshot /\ (bridge' = "none" <=> bridge = "none"))
  PROVE  OutInv'
<1>1. OutInv /\ toolLoad.lines \in Seq(OutputLines)
  BY ToolAssumption DEF ToolInv, OutInv
<1>2. PrintedLines' = PrintedLines
  BY DEF PrintedLines
<1>3. CASE runAt \in Early
  <2>1. toPrint = toolLoad.lines /\ scriptLog = <<>> /\ scriptTail = <<>>
    BY <1>1, <1>3 DEF OutInv
  <2>2. Len(toPrint) = Len(toolLoad.lines)
    BY <2>1
  <2>3. PrintedLines = <<>>
    <3>1. SubSeq(toolLoad.lines, 1, 0) = <<>>
      BY <1>1
    <3>2. Len(toolLoad.lines) - Len(toPrint) = 0
      BY <1>1, <2>2
    <3> QED
      BY <3>1, <3>2 DEF PrintedLines
  <2>4. LastOf([i \in DOMAIN PrintedLines |-> MaskLine(PrintedLines[i])])' = <<>>
    <3>1. [i \in DOMAIN PrintedLines' |-> MaskLine(PrintedLines[i])'] = <<>>
      BY <1>2, <2>3
    <3> QED
      BY <3>1, ToolAssumption DEF LastOf
  <2>5. \A log \in {scriptLog', scriptTail'} : DOMAIN log = {}
    BY <2>1
  <2> QED
    BY <1>1, <2>1, <2>4, <2>5 DEF OutInv
<1>4. CASE runAt \notin Early
  <2>1. UNCHANGED snapshot /\ (bridge' = "none" <=> bridge = "none") /\ runAt' \notin Early
    BY <1>4
  <2>2. \A l : MaskLine(l)' = MaskLine(l)
    BY <2>1 DEF MaskLine
  <2>3. LastOf([i \in DOMAIN PrintedLines |-> MaskLine(PrintedLines[i])])'
        = LastOf([i \in DOMAIN PrintedLines |-> MaskLine(PrintedLines[i])])
    <3>1. [i \in DOMAIN PrintedLines' |-> MaskLine(PrintedLines[i])'] = [i \in DOMAIN PrintedLines |-> MaskLine(PrintedLines[i])]
      BY <1>2, <2>2
    <3> QED
      BY <3>1 DEF LastOf
  <2> QED
    BY <1>1, <2>1, <2>3 DEF OutInv
<1> QED
  BY <1>3, <1>4

LEMMA LinesAreTyped ==
  ASSUME OutInv
  PROVE  toolLoad.lines \in Seq(OutputLines) /\ Len(toolLoad.lines) \in Nat /\ Len(toPrint) \in 0 .. Len(toolLoad.lines)
<1>1. toolLoad \in ToolLoads
  BY DEF OutInv
<1>2. toolLoad.lines \in Seq(OutputLines)
  BY <1>1, ToolAssumption
<1>3. Len(toPrint) \in 0 .. Len(toolLoad.lines)
  BY DEF OutInv
<1> QED
  BY <1>2, <1>3

\* What follows the first lines of a sequence, element by element.
LEMMA RestIs ==
  ASSUME NEW S, NEW s \in Seq(S), NEW n \in 0 .. Len(s)
  PROVE  /\ SubSeq(s, n + 1, Len(s)) \in Seq(S) /\ Len(SubSeq(s, n + 1, Len(s))) = Len(s) - n
         /\ \A i \in 1 .. Len(s) - n : SubSeq(s, n + 1, Len(s))[i] = s[n + i]
<1> DEFINE m == n + 1
<1>1. m \in 1 .. Len(s) + 1 /\ Len(s) \in Nat /\ Len(s) - m + 1 = Len(s) - n /\ \A i \in Int : m + i - 1 = n + i
  OBVIOUS
<1> HIDE DEF m
<1>2. SubSeq(s, m, Len(s)) \in Seq(S)
  BY <1>1
<1>3. Len(SubSeq(s, m, Len(s))) = Len(s) - m + 1 /\ \A i \in 1 .. Len(s) - m + 1 : SubSeq(s, m, Len(s))[i] = s[m + i - 1]
  BY <1>1
<1>4. /\ Len(SubSeq(s, m, Len(s))) = Len(s) - n
      /\ \A i \in 1 .. Len(s) - n : SubSeq(s, m, Len(s))[i] = s[n + i]
  BY <1>1, <1>3
<1> QED
  BY <1>2, <1>4 DEF m

\* The next line is the first that is to come.
LEMMA NextLine ==
  ASSUME ToolInv, toPrint # <<>>
  PROVE  LET L == toolLoad.lines
             n == Len(L) - Len(toPrint)
         IN  /\ n \in Nat /\ n + 1 \in 1 .. Len(L) /\ Head(toPrint) = L[n + 1] /\ L[n + 1] \in OutputLines
             /\ Tail(toPrint) = SubSeq(L, n + 2, Len(L)) /\ Len(Tail(toPrint)) = Len(toPrint) - 1
<1> DEFINE L == toolLoad.lines
           n == Len(L) - Len(toPrint)
<1>1. L \in Seq(OutputLines) /\ Len(toPrint) \in 0 .. Len(L) /\ Len(L) \in Nat
  BY LinesAreTyped DEF ToolInv
<1>0. toPrint = SubSeq(L, n + 1, Len(L))
  BY DEF ToolInv, OutInv
<1>2. n \in 0 .. Len(L) /\ Len(L) - n = Len(toPrint)
  BY <1>1
<1> HIDE DEF L, n
<1>3. /\ toPrint \in Seq(OutputLines)
      /\ \A i \in 1 .. Len(toPrint) : toPrint[i] = L[n + i]
  BY <1>0, <1>1, <1>2, RestIs
<1>4. Len(toPrint) \in Nat /\ Len(toPrint) > 0
  BY <1>3
<1>5. n \in Nat /\ n + 1 \in 1 .. Len(L) /\ n + 1 \in 0 .. Len(L) /\ n + 1 + 1 = n + 2 /\ Len(L) - (n + 1) = Len(toPrint) - 1
  BY <1>1, <1>2, <1>4
<1>6. Head(toPrint) = L[n + 1] /\ L[n + 1] \in OutputLines
  <2>1. Head(toPrint) = toPrint[1] /\ 1 \in 1 .. Len(toPrint)
    BY <1>3, <1>4
  <2>2. L[n + 1] \in OutputLines
    BY <1>1, <1>5
  <2> QED
    BY <1>3, <2>1, <2>2
<1>7. Tail(toPrint) = SubSeq(L, n + 2, Len(L)) /\ Len(Tail(toPrint)) = Len(toPrint) - 1
  <2> DEFINE t == Tail(toPrint)
             u == SubSeq(L, n + 2, Len(L))
             k == Len(toPrint) - 1
  <2>1. t \in Seq(OutputLines) /\ Len(t) = k /\ \A i \in 1 .. k : t[i] = toPrint[i + 1]
    BY <1>3, <1>4
  <2>2. u \in Seq(OutputLines) /\ Len(u) = k /\ \A i \in 1 .. k : u[i] = L[n + 1 + i]
    <3> DEFINE m == n + 1
    <3>1. m \in 0 .. Len(L) /\ m + 1 = n + 2 /\ Len(L) - m = k
      BY <1>5
    <3> HIDE DEF m
    <3>2. /\ SubSeq(L, m + 1, Len(L)) \in Seq(OutputLines) /\ Len(SubSeq(L, m + 1, Len(L))) = Len(L) - m
          /\ \A i \in 1 .. Len(L) - m : SubSeq(L, m + 1, Len(L))[i] = L[m + i]
      BY <1>1, <3>1, RestIs
    <3> HIDE DEF k
    <3> QED
      BY <3>1, <3>2 DEF m
  <2>3. k \in Nat /\ \A i \in 1 .. k : i + 1 \in 1 .. Len(toPrint) /\ n + (i + 1) = n + 1 + i
    BY <1>4, <1>5
  <2> HIDE DEF t, u, k
  <2>4. \A i \in 1 .. k : t[i] = u[i]
    BY <1>3, <2>1, <2>2, <2>3
  <2>5. t = u
    BY <2>1, <2>2, <2>4
  <2> QED
    BY <2>1, <2>5 DEF t, u, k
<1> QED
  BY <1>5, <1>6, <1>7 DEF L, n

LEMMA PrintKeeps ==
  ASSUME ToolInv, PrintScript
  PROVE  OutInv'
<1> DEFINE L == toolLoad.lines
           n == Len(L) - Len(toPrint)
           line == MaskLine(Head(toPrint))
           Out == OutputLines \cup {"masked"}
           masked == [i \in DOMAIN PrintedLines |-> MaskLine(PrintedLines[i])]
<1>1. /\ runAt = "running" /\ toPrint # <<>> /\ toPrint' = Tail(toPrint) /\ (reading' => reading)
      /\ UNCHANGED <<toolLoad, snapshot, bridge, runAt>>
      /\ \/ reading' /\ scriptLog' \in {scriptLog, Append(scriptLog, line)} /\ scriptTail' = LastOf(Append(scriptTail, line))
         \/ ~reading' /\ UNCHANGED <<scriptLog, scriptTail>>
  BY DEF PrintScript, edits
<1>2. /\ OutInv /\ L \in Seq(OutputLines) /\ Len(L) \in Nat /\ toolLoad \in ToolLoads
      /\ Len(toPrint) \in 0 .. Len(L)
  <2>1. OutInv /\ toolLoad \in ToolLoads
    BY DEF ToolInv, OutInv
  <2> QED
    BY <2>1, LinesAreTyped
<1>3. /\ n \in Nat /\ n + 1 \in 1 .. Len(L) /\ Head(toPrint) = L[n + 1] /\ L[n + 1] \in OutputLines
      /\ Tail(toPrint) = SubSeq(L, n + 2, Len(L)) /\ Len(Tail(toPrint)) = Len(toPrint) - 1
  BY <1>1, NextLine
<1>4. line \in Out /\ (snapshot.secrets => line # "secret") /\ (bridge # "none" => line # "pin")
  BY <1>3 DEF MaskLine
<1>5. /\ Len(toPrint') \in 0 .. Len(toolLoad'.lines)
      /\ toPrint' = SubSeq(toolLoad'.lines, Len(toolLoad'.lines) - Len(toPrint') + 1, Len(toolLoad'.lines))
  <2>1. Len(toPrint') = Len(toPrint) - 1 /\ Len(L) - Len(toPrint') + 1 = n + 2 /\ Len(toPrint') \in 0 .. Len(L)
    BY <1>1, <1>2, <1>3
  <2>2. toPrint' = SubSeq(L, Len(L) - Len(toPrint') + 1, Len(L))
    BY <1>1, <1>3, <2>1
  <2> QED
    BY <1>1, <2>1, <2>2
<1>6. masked \in Seq(Out) /\ [i \in DOMAIN PrintedLines |-> MaskLine(PrintedLines[i])]' = Append(masked, line)
  <2>1. PrintedLines = SubSeq(L, 1, n)
    BY DEF PrintedLines
  <2>2. PrintedLines' = SubSeq(L, 1, n + 1)
    <3>1. Len(L) - Len(toPrint') = n + 1
      BY <1>1, <1>2, <1>3
    <3> QED
      BY <1>1, <3>1 DEF PrintedLines
  <2>3. \A l : MaskLine(l)' = MaskLine(l)
    BY <1>1 DEF MaskLine
  <2>4. \A l \in OutputLines : MaskLine(l) \in Out
    BY DEF MaskLine
  <2> HIDE DEF n
  <2>5. PrintedLines \in Seq(OutputLines) /\ Len(PrintedLines) = n /\ \A i \in 1 .. n : PrintedLines[i] = L[i]
    BY <1>2, <1>3, <2>1
  <2>6. PrintedLines' \in Seq(OutputLines) /\ Len(PrintedLines') = n + 1 /\ \A i \in 1 .. n + 1 : PrintedLines'[i] = L[i]
    BY <1>2, <1>3, <2>2
  <2>7. masked \in Seq(Out) /\ Len(masked) = n /\ \A i \in 1 .. n : masked[i] = MaskLine(L[i])
    BY <1>3, <2>4, <2>5
  <2> DEFINE after == [i \in DOMAIN PrintedLines' |-> MaskLine(PrintedLines'[i])]
  <2>8. after \in Seq(Out) /\ Len(after) = n + 1 /\ \A i \in 1 .. n + 1 : after[i] = MaskLine(L[i])
    BY <1>3, <2>4, <2>6
  <2>9. [i \in DOMAIN PrintedLines |-> MaskLine(PrintedLines[i])]' = after
    BY <2>3
  <2>10. line = MaskLine(L[n + 1])
    BY <1>3
  <2> HIDE DEF masked, after, line, Out
  <2>11. after = Append(masked, line)
    <3>1. Append(masked, line) \in Seq(Out) /\ Len(Append(masked, line)) = n + 1
      BY <1>3, <1>4, <2>7
    <3>2. \A i \in 1 .. n + 1 : Append(masked, line)[i] = MaskLine(L[i])
      BY <1>3, <2>7, <2>10
    <3> QED
      BY <2>8, <3>1, <3>2
  <2> QED
    BY <2>7, <2>9, <2>11
<1>7. scriptLog' \in Seq(Out) /\ \A i \in DOMAIN scriptLog' : (snapshot.secrets => scriptLog'[i] # "secret")
                                                             /\ (bridge # "none" => scriptLog'[i] # "pin")
  <2>1. scriptLog \in Seq(Out) /\ \A i \in DOMAIN scriptLog : (snapshot.secrets => scriptLog[i] # "secret")
                                                             /\ (bridge # "none" => scriptLog[i] # "pin")
    BY <1>2 DEF OutInv
  <2>2. scriptLog' = scriptLog \/ scriptLog' = Append(scriptLog, line)
    BY <1>1
  <2> HIDE DEF line, Out
  <2> QED
    BY <1>4, <2>1, <2>2
<1>8. CASE reading'
  <2>1. scriptTail' = LastOf(Append(scriptTail, line)) /\ scriptTail = LastOf(masked) /\ scriptTail \in Seq(Out)
    BY <1>1, <1>2, <1>8 DEF OutInv
  <2> HIDE DEF masked, line, Out
  <2>2. scriptTail' = LastOf(Append(masked, line))
    BY <1>4, <1>6, <2>1, TailGoesOn
  <2>3. reading' => LastOf([i \in DOMAIN PrintedLines |-> MaskLine(PrintedLines[i])])' = scriptTail'
    <3>1. \A s : LastOf(s)' = LastOf(s)
      BY DEF LastOf
    <3> QED
      BY <1>6, <2>2 DEF LastOf
  <2>4. scriptTail' \in Seq(Out) /\ \A i \in DOMAIN scriptTail' : (snapshot.secrets => scriptTail'[i] # "secret")
                                                                 /\ (bridge # "none" => scriptTail'[i] # "pin")
    <3>1. \A i \in DOMAIN scriptTail : (snapshot.secrets => scriptTail[i] # "secret") /\ (bridge # "none" => scriptTail[i] # "pin")
      BY <1>2 DEF OutInv
    <3> DEFINE a == Append(scriptTail, line)
    <3>2. a \in Seq(Out) /\ \A i \in DOMAIN a : (snapshot.secrets => a[i] # "secret") /\ (bridge # "none" => a[i] # "pin")
      BY <1>4, <2>1, <3>1
    <3> HIDE DEF a
    <3>3. scriptTail' = LastOf(a)
      BY <2>1 DEF a
    <3>4. LastOf(a) \in Seq(Out) /\ \A i \in DOMAIN LastOf(a) : \E j \in DOMAIN a : LastOf(a)[i] = a[j]
      <4>1. TailLines \in Nat /\ Len(a) \in Nat
        BY <3>2, ToolAssumption
      <4>2. CASE Len(a) <= TailLines
        BY <3>2, <4>2, LastOfIs
      <4>3. CASE Len(a) > TailLines
        <5>1. /\ LastOf(a) \in Seq(Out) /\ Len(LastOf(a)) = TailLines
              /\ \A i \in 1 .. TailLines : LastOf(a)[i] = a[i + (Len(a) - TailLines)]
          BY <3>2, <4>3, LastOfIs
        <5>2. \A i \in 1 .. TailLines : i + (Len(a) - TailLines) \in 1 .. Len(a)
          BY <4>1, <4>3
        <5> QED
          BY <3>2, <5>1, <5>2
      <4> QED
        BY <4>1, <4>2, <4>3
    <3> QED
      BY <3>2, <3>3, <3>4
  <2> QED
    BY <1>1, <1>2, <1>5, <1>7, <2>3, <2>4 DEF OutInv, Early, Out
<1>9. CASE ~reading'
  <2>1. UNCHANGED <<scriptLog, scriptTail>>
    BY <1>1, <1>9
  <2> QED
    BY <1>1, <1>2, <1>5, <1>9, <2>1 DEF OutInv, Early
<1> QED
  BY <1>8, <1>9

-----------------------------------------------------------------------------
(***************************************************************************)
(* Every step.                                                             *)
(***************************************************************************)
\* A run begins with nothing but its snapshot.
LEMMA SlotKeeps ==
  ASSUME ToolInv, NEW w \in Who, TakeRunSlot(w)
  PROVE  StageInv' /\ CallsInv' /\ OutInv'
<1>1. /\ runAt = "none" /\ runAt' = "begin" /\ runStatus' = "pending" /\ snapshot' = RunOf(w)
      /\ atSlot' = [by |-> w, row |-> scriptRow']
      /\ UNCHANGED <<toolLoad, bridge, toolCalls, sessionOf, leftovers, toPrint, scriptLog, scriptTail, reading>>
  BY DEF TakeRunSlot
<1>2. StageInv'
  BY <1>1 DEF ToolInv, StageInv, Early, Ending
<1>3. CallsInv'
  <2>1. bridge = "none" /\ \A i \in DOMAIN toolCalls : toolCalls[i] = "none"
    BY <1>1 DEF ToolInv, StageInv, CallsInv
  <2>2. atSlot'.by = "page" => snapshot' = atSlot'.row
    <3>1. atSlot'.by = w /\ atSlot'.row = scriptRow'
      BY <1>1
    <3>2. CASE w = "page"
      <4>1. scriptRow' = scriptRow
        BY <3>2 DEF TakeRunSlot
      <4> QED
        BY <1>1, <3>1, <3>2, <4>1 DEF RunOf
    <3> QED
      BY <3>1, <3>2
  <2>3. /\ toolCalls' = toolCalls /\ toolCalls = [i \in DOMAIN toolLoad.calls |-> toolCalls[i]] /\ sessionOf' = 0
        /\ Open' = {}
    BY <1>1, <2>1 DEF ToolInv, CallsInv, Open
  <2>4. \A i \in DOMAIN toolCalls' : toolCalls'[i] = "none"
    BY <1>1, <2>1
  <2> QED
    BY <1>1, <2>1, <2>2, <2>3, <2>4 DEF CallsInv, CallStates
<1>4. OutInv'
  <2>1. runAt \in Early
    BY <1>1 DEF Early
  <2> QED
    BY <1>1, <2>1, OutStays
<1> QED
  BY <1>2, <1>3, <1>4

LEMMA RunOutKeeps ==
  ASSUME ToolInv, RunSteps
  PROVE  OutInv'
<1>1. CASE PrintScript
  BY <1>1, PrintKeeps
<1>2. CASE ~PrintScript
  <2>1. UNCHANGED <<toolLoad, snapshot>>
    BY EditSteadies
  <2>2. UNCHANGED <<toPrint, scriptLog, scriptTail, reading>>
    BY <1>2 DEF RunSteps, BeginScript, ResolveSecrets, AttachTools, Listen, SpawnScript, EndScript, CancelScript,
                CloseBridge, CleanContext, CancelClosing, SettleScript, output
  <2>3. /\ runAt' \in Early => runAt \in Early
        /\ runAt \in Early \/ (bridge' = "none" <=> bridge = "none")
    BY <1>2 DEF RunSteps, BeginScript, ResolveSecrets, AttachTools, Listen, SpawnScript, EndScript, CancelScript,
                CloseBridge, CleanContext, CancelClosing, SettleScript, Early, Ending, Step
  <2> QED
    BY <2>1, <2>2, <2>3, OutStays
<1> QED
  BY <1>1, <1>2

\* Each step keeps the invariant.
LEMMA ToolStepKeeps ==
  ASSUME ToolInv, ToolNext
  PROVE  ToolInv'
<1>1. \/ EditSteps \/ RunSteps \/ CallSteps
      \/ \E w \in Who : TakeRunSlot(w)
  BY DEF ToolNext, EditSteps, RunSteps, CallSteps
<1>2. CASE \E w \in Who : TakeRunSlot(w)
  <2>1. EditsInv'
    BY <1>2, EditsKeep
  <2> QED
    BY <1>2, <2>1, SlotKeeps DEF ToolInv
<1>3. CASE EditSteps
  <2>1. EditsInv'
    BY <1>3, EditsKeep DEF EditSteps
  <2>2. UNCHANGED toolLoad /\ UNCHANGED runVars
    BY <1>3, EditSteadies
  <2>3. UNCHANGED <<runAt, runStatus, snapshot, atSlot, bridge, toolCalls, sessionOf, leftovers, toPrint, scriptLog,
                    scriptTail, reading>>
    BY <2>2 DEF runVars
  <2>4. StageInv'
    BY <2>3 DEF ToolInv, StageInv
  <2>5. CallsInv'
    BY <2>2, <2>3, CallsStay
  <2>6. OutInv'
    BY <2>2, <2>3, OutStays
  <2> QED
    BY <2>1, <2>4, <2>5, <2>6 DEF ToolInv
<1>4. CASE ~EditSteps /\ (RunSteps \/ CallSteps)
  <2>1. EditsInv'
    <3>1. UNCHANGED <<editors, scriptRow, unsaved, accepted>>
      BY <1>4, EditSteadies
    <3> QED
      BY <3>1 DEF ToolInv, EditsInv
  <2>2. CASE RunSteps
    BY <2>1, <2>2, StageKeeps, RunCallsKeep, RunOutKeeps DEF ToolInv
  <2>3. CASE CallSteps
    <3>1. UNCHANGED <<toolLoad, snapshot, runAt, runStatus, bridge, leftovers, toPrint, scriptLog, scriptTail, reading>>
      BY <2>3, EditSteadies
    <3>2. StageInv'
      BY <3>1 DEF ToolInv, StageInv
    <3>3. OutInv'
      BY <3>1, OutStays
    <3> QED
      BY <2>1, <2>3, <3>2, <3>3, CallsKeep DEF ToolInv
  <2> QED
    BY <1>4, <2>2, <2>3
<1> QED
  BY <1>1, <1>2, <1>3, <1>4

LEMMA ToolsAreSound ==
  ASSUME ToolInv
  PROVE  EditsAreKept /\ CallsAreDeclared /\ ContextIsShared /\ NothingOutlivesScript /\ LogIsMasked
<1>1. EditsAreKept
  BY DEF ToolInv, EditsInv, EditsAreKept
<1>2. CallsAreDeclared
  BY DEF ToolInv, CallsInv, CallsAreDeclared
<1>3. ContextIsShared
  <2> DEFINE now == {i \in DOMAIN toolCalls : toolCalls[i] = "calling"}
  <2>1. \A i \in DOMAIN toolCalls : toolCalls[i] = "calling" => sessionOf = i
    BY DEF ToolInv, CallsInv
  <2>2. CASE now = {}
    <3>1. Cardinality(now) = 0
      BY <2>2, FS_EmptySet
    <3>2. ~ \E i \in DOMAIN toolCalls : toolCalls[i] = "calling"
      BY <2>2
    <3>3. sessionOf = 0
      BY <3>2 DEF ToolInv, CallsInv
    <3> QED
      BY <3>1, <3>2, <3>3 DEF ContextIsShared
  <2>3. CASE now # {}
    <3>1. now = {sessionOf}
      BY <2>1, <2>3
    <3>2. Cardinality(now) = 1
      BY <3>1, FS_Singleton
    <3>3. toolCalls[sessionOf] = "calling" /\ \E i \in DOMAIN toolCalls : toolCalls[i] = "calling"
      BY <3>1
    <3> QED
      BY <3>2, <3>3 DEF ContextIsShared
  <2> QED
    BY <2>2, <2>3
<1>4. NothingOutlivesScript
  <2>1. bridge \in {"none", "down"} => Open = {}
    BY DEF ToolInv, CallsInv
  <2>2. runAt = "over" /\ bridge # "lost" => leftovers = {} /\ bridge \in {"none", "down"}
    BY DEF ToolInv, StageInv
  <2>3. runStatus = "completed" => runAt = "over" /\ bridge # "lost"
    BY DEF ToolInv, StageInv
  <2> QED
    BY <2>1, <2>2, <2>3 DEF NothingOutlivesScript
<1>5. LogIsMasked
  BY DEF ToolInv, OutInv, LogIsMasked, PrintedLines
<1> QED
  BY <1>1, <1>2, <1>3, <1>4, <1>5

-----------------------------------------------------------------------------
(***************************************************************************)
(* Skills (SkillSources)                                                   *)
(***************************************************************************)
SkillSteps == {"none", "refresh", "discard", "clone", "begin", "checkout", "sweep", "revision", "remove", "read",
               "install", "dialog", "text", "clear", "copy", "write"}
Commit0 == SourceCommits \cup {0}
SourceFiles == UNION {Checkout(c) : c \in SourceCommits}
Installing == {"dialog", "text", "clear", "copy", "write"}
CacheShape == [git : BOOLEAN, head : Commit0, tree : SUBSET SourceFiles]
SkillShape == [there : BOOLEAN, text : Commit0, names : Commit0, copied : 0 .. MaxBundle]
ToldShape == [commit : Commit0, overwrite : BOOLEAN, confirmed : BOOLEAN]
TakenShape == [text : Commit0, copied : 0 .. MaxBundle]

SkillData ==
  /\ skillCache \in CacheShape /\ upstream \in SourceCommits /\ skill \in SkillShape
  /\ skillTold \in [SkillTasks -> ToldShape] /\ taken \in [SkillTasks -> TakenShape]
  /\ fetched \in [SkillTasks -> SUBSET Commit0]
  /\ skillCrossed \subseteq SkillTasks /\ torn \in BOOLEAN /\ skillFaults \in 0 .. MaxSkillFaults
SkillPlaces ==
  /\ skillOp \in [SkillTasks -> [left : Seq(SkillOps), at : SkillSteps]]
  /\ \A t \in SkillTasks : SkillAt(t) # "none" => skillOp[t].left # <<>>

\* Who was not crossed since his operation began knows the cache and the skill as they are.
Knows(t) ==
  /\ SkillAt(t) \in Installing =>
       skillTold[t].commit \in {0, skillCache.head} /\ skillTold[t].overwrite = skill.there
  /\ SkillAt(t) \in {"clear", "copy", "write"} => HasText /\ taken[t].text = TextCommit
  /\ SkillAt(t) = "clone" => ~skillCache.git
  /\ SkillAt(t) = "revision" => Whole
  /\ fetched[t] # {} => Whole /\ fetched[t] \subseteq {0, skillCache.head}
KnownInv ==
  \A t \in SkillTasks : (t \notin skillCrossed => Knows(t)) /\ (SkillAt(t) # "none" => fetched[t] = {})

Copies == {t \in SkillTasks : SkillAt(t) \in {"copy", "write"}}
\* What lies beside a skill that is one install's; and what a lone install, which may be mending a
\* torn one, has put there so far.
BundleInv ==
  ~torn =>
    /\ skill.there => skill.names \in {0, skill.text} /\ skill.text \in SourceCommits
    /\ Copies = {} =>
         IF skill.there THEN bundle \subseteq Checkout(skill.text) /\ skill.copied = Cardinality(bundle)
                        ELSE bundle = {}
CopyInv ==
  \A t \in SkillTasks :
    Copies = {t} /\ t \notin skillCrossed /\ (torn => skillTold[t].overwrite) =>
      IF SkillAt(t) = "copy" THEN bundle = {}
      ELSE bundle \subseteq skillCache.tree /\ taken[t].copied = Cardinality(bundle)

SkillInv == SkillData /\ SkillPlaces /\ KnownInv /\ BundleInv /\ CopyInv

-----------------------------------------------------------------------------
SkillMove(t, s) == (GoTo(t, s) /\ s # "none") \/ (OpEnds(t) /\ s = "none")

\* A step that takes t to s and leaves the others where they are.
LEMMA SkillMoves ==
  ASSUME SkillPlaces, NEW t \in SkillTasks, NEW s \in SkillSteps, skillOp[t].left # <<>>, SkillMove(t, s)
  PROVE  SkillPlaces' /\ \A d \in SkillTasks : SkillAt(d)' = IF d = t THEN s ELSE SkillAt(d)
<1> DEFINE L == Seq(SkillOps)
           new == [left |-> IF s = "none" THEN Tail(skillOp[t].left) ELSE skillOp[t].left, at |-> s]
<1>1. skillOp \in [SkillTasks -> [left : L, at : SkillSteps]]
  BY DEF SkillPlaces
<1>2. Tail(skillOp[t].left) \in L
  BY <1>1
<1> HIDE DEF L
<1>3. skillOp' = [skillOp EXCEPT ![t] = new]
  <2> DEFINE going == [skillOp[t] EXCEPT !.at = s]
  <2>1. skillOp[t] \in [left : L, at : SkillSteps]
    BY <1>1
  <2>2. CASE GoTo(t, s) /\ s # "none"
    <3>1. skillOp' = [skillOp EXCEPT ![t] = going]
      BY <2>2 DEF GoTo
    <3>2. going \in [left : L, at : SkillSteps] /\ going.left = skillOp[t].left /\ going.at = s
      BY <2>1
    <3> HIDE DEF going
    <3>3. going = [left |-> going.left, at |-> going.at]
      BY <3>2
    <3> QED
      BY <2>2, <3>1, <3>2, <3>3
  <2>3. CASE OpEnds(t) /\ s = "none"
    BY <2>3 DEF OpEnds
  <2> QED
    BY <2>2, <2>3 DEF SkillMove
<1>4. new \in [left : L, at : SkillSteps] /\ new.at = s /\ (s # "none" => new.left # <<>>)
  BY <1>1, <1>2
<1> HIDE DEF new
<1>5. skillOp' \in [SkillTasks -> [left : L, at : SkillSteps]]
  BY <1>1, <1>3, <1>4
<1>6. \A d \in SkillTasks : skillOp'[d] = IF d = t THEN new ELSE skillOp[d]
  BY <1>1, <1>3
<1>7. \A d \in SkillTasks : SkillAt(d)' = IF d = t THEN s ELSE SkillAt(d)
  BY <1>4, <1>6 DEF SkillAt
<1>8. \A d \in SkillTasks : SkillAt(d)' # "none" => skillOp'[d].left # <<>>
  BY <1>4, <1>6, <1>7 DEF SkillPlaces
<1> QED
  BY <1>5, <1>7, <1>8 DEF SkillPlaces, L

\* What others know, a step of t leaves as it is, or they are crossed.
LEMMA OthersKnow ==
  ASSUME KnownInv, SkillData, NEW t \in SkillTasks,
         \A d \in SkillTasks \ {t} :
           /\ SkillAt(d)' = SkillAt(d) /\ taken'[d] = taken[d] /\ fetched'[d] = fetched[d] /\ skillTold'[d] = skillTold[d]
           /\ d \notin skillCrossed' => d \notin skillCrossed,
         UNCHANGED <<skillCache, skill>> \/ Crosses(t),
         t \notin skillCrossed' => Knows(t)', SkillAt(t)' # "none" => fetched'[t] = {}
  PROVE  KnownInv'
<1>1. ASSUME NEW d \in SkillTasks, d # t, d \notin skillCrossed'
      PROVE  Knows(d)'
  <2>1. UNCHANGED <<skillCache, skill>> /\ Knows(d)
    BY <1>1 DEF KnownInv, Crosses
  <2>2. (HasText <=> HasText') /\ TextCommit' = TextCommit /\ (Whole <=> Whole')
    BY <2>1 DEF HasText, TextCommit, Whole
  <2> QED
    BY <1>1, <2>1, <2>2 DEF Knows
<1>2. ASSUME NEW d \in SkillTasks, d # t
      PROVE  SkillAt(d)' # "none" => fetched'[d] = {}
  BY <1>2 DEF KnownInv
<1> QED
  BY <1>1, <1>2 DEF KnownInv

\* A step that no task takes at copying or writing.
LEMMA BundleStays ==
  ASSUME BundleInv, CopyInv, UNCHANGED <<skill, bundle, torn>>,
         \A d \in SkillTasks : (SkillAt(d)' = SkillAt(d) \/ {SkillAt(d), SkillAt(d)'} \cap {"copy", "write"} = {}),
         \A d \in Copies :
           /\ skillTold'[d] = skillTold[d] /\ taken'[d] = taken[d]
           /\ d \notin skillCrossed' => d \notin skillCrossed /\ skillCache' = skillCache
  PROVE  BundleInv' /\ CopyInv'
<1>1. Copies' = Copies /\ \A d \in Copies : SkillAt(d)' = SkillAt(d)
  BY DEF Copies
<1>2. BundleInv'
  BY <1>1 DEF BundleInv, Checkout
<1>3. ASSUME NEW d \in SkillTasks, Copies' = {d}, d \notin skillCrossed', torn' => skillTold'[d].overwrite
      PROVE  IF SkillAt(d)' = "copy" THEN bundle' = {}
             ELSE bundle' \subseteq skillCache'.tree /\ taken'[d].copied = Cardinality(bundle')
  BY <1>1, <1>3 DEF CopyInv
<1>4. CopyInv'
  BY <1>3 DEF CopyInv
<1> QED
  BY <1>2, <1>4

\* A step of t, from a step of its operation to the next.
LEMMA SkillMoveKeeps ==
  ASSUME SkillInv, NEW t \in SkillTasks, NEW s \in SkillSteps, SkillAt(t) # "none", SkillMove(t, s), SkillData',
         UNCHANGED <<skillCache, skill, skillCrossed>> \/ Crosses(t),
         \A d \in SkillTasks \ {t} : taken'[d] = taken[d] /\ fetched'[d] = fetched[d] /\ skillTold'[d] = skillTold[d],
         t \notin skillCrossed /\ SkillAt(t)' = s => Knows(t)', s # "none" => fetched'[t] = {},
         \/ BundleInv' /\ CopyInv'
         \/ {SkillAt(t), s} \cap {"copy", "write"} = {} /\ UNCHANGED <<skill, bundle, torn>>
  PROVE  SkillInv'
<1>1. SkillData /\ SkillPlaces /\ KnownInv /\ BundleInv /\ CopyInv
  BY DEF SkillInv
<1>2. SkillPlaces' /\ \A d \in SkillTasks : SkillAt(d)' = IF d = t THEN s ELSE SkillAt(d)
  BY <1>1, SkillMoves DEF SkillPlaces
<1>3. /\ skillCrossed \subseteq skillCrossed' /\ (t \in skillCrossed' <=> t \in skillCrossed)
      /\ \A d \in SkillTasks : d # t /\ d \notin skillCrossed' => skillCache' = skillCache
  BY DEF Crosses
<1>4. KnownInv'
  <2>1. \A d \in SkillTasks \ {t} :
           /\ SkillAt(d)' = SkillAt(d) /\ taken'[d] = taken[d] /\ fetched'[d] = fetched[d] /\ skillTold'[d] = skillTold[d]
           /\ d \notin skillCrossed' => d \notin skillCrossed
    BY <1>2, <1>3
  <2>2. UNCHANGED <<skillCache, skill>> \/ Crosses(t)
    OBVIOUS
  <2>3. (t \notin skillCrossed' => Knows(t)') /\ (SkillAt(t)' # "none" => fetched'[t] = {})
    BY <1>2, <1>3
  <2> QED
    BY <1>1, <2>1, <2>2, <2>3, OthersKnow
<1>5. CASE {SkillAt(t), s} \cap {"copy", "write"} = {} /\ UNCHANGED <<skill, bundle, torn>>
  <2>1. \A d \in SkillTasks : (SkillAt(d)' = SkillAt(d) \/ {SkillAt(d), SkillAt(d)'} \cap {"copy", "write"} = {})
    BY <1>2, <1>5
  <2>2. \A d \in Copies :
           /\ skillTold'[d] = skillTold[d] /\ taken'[d] = taken[d]
           /\ d \notin skillCrossed' => d \notin skillCrossed /\ skillCache' = skillCache
    BY <1>3, <1>5 DEF Copies
  <2> QED
    BY <1>1, <1>2, <1>4, <1>5, <2>1, <2>2, BundleStays DEF SkillInv
<1> QED
  BY <1>2, <1>4, <1>5 DEF SkillInv

-----------------------------------------------------------------------------
\* What git and a removal, done or cut off, leave are files of the source.
LEMMA CacheIsTyped ==
  ASSUME SkillData
  PROVE  /\ NoCache \in CacheShape /\ Cached(upstream) \in CacheShape /\ [NoCache EXCEPT !.git = TRUE] \in CacheShape
         /\ HalfReset \subseteq CacheShape /\ HalfCloned \subseteq CacheShape /\ HalfRemoved \subseteq CacheShape
<1>1. /\ skillCache \in CacheShape /\ upstream \in Commit0 /\ 0 \in Commit0 /\ Checkout(upstream) \subseteq SourceFiles
  BY DEF SkillData, Commit0, SourceFiles
<1>2. NoCache \in CacheShape /\ [NoCache EXCEPT !.git = TRUE] \in CacheShape
  BY <1>1 DEF NoCache, CacheShape
<1>3. Cached(upstream) \in CacheShape
  BY <1>1 DEF Cached, CacheShape
<1>4. HalfCloned \subseteq CacheShape
  <2>1. ASSUME NEW s \in SUBSET Checkout(upstream)
        PROVE  [git |-> TRUE, head |-> upstream, tree |-> s] \in CacheShape
    BY <1>1 DEF CacheShape
  <2>2. [git |-> TRUE, head |-> 0, tree |-> {}] \in CacheShape
    BY <1>1 DEF CacheShape
  <2> QED
    BY <2>1, <2>2 DEF HalfCloned
<1>5. HalfRemoved \subseteq CacheShape
  <2>1. skillCache.git \in BOOLEAN /\ skillCache.head \in Commit0 /\ skillCache.tree \subseteq SourceFiles
    BY <1>1 DEF CacheShape
  <2>2. ASSUME NEW g \in {FALSE, skillCache.git}, NEW h \in {0, skillCache.head}, NEW s \in SUBSET skillCache.tree
        PROVE  [git |-> g, head |-> h, tree |-> s] \in CacheShape
    BY <1>1, <2>1, <2>2 DEF CacheShape
  <2> QED
    BY <2>2 DEF HalfRemoved
<1>6. ASSUME NEW s \in CutOff(skillCache.tree, Checkout(upstream))
      PROVE  [skillCache EXCEPT !.tree = s] \in CacheShape
  <2>1. skillCache.tree \subseteq SourceFiles
    BY <1>1 DEF CacheShape
  <2>2. s \subseteq SourceFiles
    BY <1>1, <2>1 DEF CutOff
  <2> QED
    BY <1>1, <2>2 DEF CacheShape
<1>7. HalfReset \subseteq CacheShape
  BY <1>6 DEF HalfReset
<1> QED
  BY <1>2, <1>3, <1>4, <1>5, <1>7

LEMMA CachedIsWhole ==
  ASSUME SkillData, skillCache' = Cached(upstream)
  PROVE  Whole' /\ skillCache'.git
BY DEF Whole, Cached, SkillData

LEMMA TextIsThere ==
  ASSUME HasText
  PROVE  \E e \in skillCache.tree : e.file = "SKILL.md" /\ TextCommit = e.commit
<1> DEFINE e == CHOOSE x \in skillCache.tree : x.file = "SKILL.md"
<1>1. e \in skillCache.tree /\ e.file = "SKILL.md"
  BY DEF HasText
<1> QED
  BY <1>1 DEF TextCommit

LEMMA TextIsTyped ==
  ASSUME SkillData, HasText
  PROVE  TextCommit \in SourceCommits
<1>1. PICK e \in skillCache.tree : TextCommit = e.commit
  BY TextIsThere
<1>2. e \in SourceFiles
  BY <1>1 DEF SkillData, CacheShape
<1> QED
  BY <1>1, <1>2 DEF SourceFiles, Checkout

\* The faults that are left are spent one at a time.
LEMMA FaultsAreTyped ==
  ASSUME SkillData, Fault \/ NoFault
  PROVE  skillFaults' \in 0 .. MaxSkillFaults
BY SkillAssumption DEF SkillData, Fault, NoFault

\* A step of a fetch or a cleanup.
LEMMA ApartKeeps ==
  ASSUME SkillInv, NEW t \in SkillTasks, NEW s \in SkillSteps \ (Installing \cup {"read", "install"}),
         SkillAt(t) \notin Installing \cup {"none"}, SkillMove(t, s), SkillApart, skillCache' \in CacheShape, Fault \/ NoFault,
         UNCHANGED <<skillCache, skillCrossed>> \/ Crosses(t),
         \/ UNCHANGED fetched
         \/ /\ s = "none" /\ \E c \in {0, skillCache.head} : fetched' = [fetched EXCEPT ![t] = {c}]
            /\ UNCHANGED skillCache /\ (t \notin skillCrossed => Whole),
         t \notin skillCrossed => (s = "clone" => ~skillCache'.git) /\ (s = "revision" => Whole')
  PROVE  SkillInv'
<1>1. SkillData /\ fetched[t] = {}
  BY DEF SkillInv, KnownInv, Installing
<1>2. /\ fetched' \in [SkillTasks -> SUBSET Commit0] /\ \A d \in SkillTasks \ {t} : fetched'[d] = fetched[d]
      /\ s # "none" => fetched'[t] = {}
      /\ t \notin skillCrossed /\ fetched'[t] # {} => Whole' /\ fetched'[t] \subseteq {0, skillCache'.head}
  <2>1. CASE UNCHANGED fetched
    BY <1>1, <2>1 DEF SkillData
  <2>2. CASE /\ s = "none" /\ \E c \in {0, skillCache.head} : fetched' = [fetched EXCEPT ![t] = {c}]
             /\ UNCHANGED skillCache /\ (t \notin skillCrossed => Whole)
    <3>1. PICK c \in {0, skillCache.head} : fetched' = [fetched EXCEPT ![t] = {c}]
      BY <2>2
    <3>2. c \in Commit0
      BY <1>1 DEF SkillData, CacheShape, Commit0
    <3>3. Whole => Whole'
      BY <2>2 DEF Whole
    <3> QED
      BY <1>1, <2>2, <3>1, <3>2, <3>3 DEF SkillData
  <2> QED
    BY <2>1, <2>2
<1>3. SkillData'
  <2>1. skillFaults' \in 0 .. MaxSkillFaults
    BY <1>1, FaultsAreTyped
  <2>2. skillCrossed' \subseteq SkillTasks
    BY <1>1 DEF SkillData, Crosses
  <2> QED
    BY <1>1, <1>2, <2>1, <2>2 DEF SkillData, SkillApart
<1>4. t \notin skillCrossed /\ SkillAt(t)' = s => Knows(t)'
  <2>1. s \notin Installing /\ s \notin {"clear", "copy", "write"}
    BY DEF Installing
  <2> QED
    BY <1>2, <2>1 DEF Knows
<1>5. {SkillAt(t), s} \cap {"copy", "write"} = {} /\ UNCHANGED <<skill, bundle, torn>> /\ UNCHANGED <<upstream, skillTold, taken>>
  BY DEF SkillApart, Installing
<1> QED
  BY <1>2, <1>3, <1>4, <1>5, SkillMoveKeeps

-----------------------------------------------------------------------------
LEMMA StartSkillOpKeeps ==
  ASSUME SkillInv, NEW t \in SkillTasks, StartSkillOp(t)
  PROVE  SkillInv'
<1>1. /\ skillOp[t].left # <<>> /\ SkillAt(t) = "none" /\ skillCrossed' = skillCrossed \ {t}
      /\ skillTold' = [skillTold EXCEPT ![t] = NotTold] /\ fetched' = [fetched EXCEPT ![t] = {}]
      /\ UNCHANGED <<upstream, skillCache, taken, skill, bundle, torn, skillFaults>>
      /\ SkillData /\ SkillPlaces /\ KnownInv /\ BundleInv /\ CopyInv
  BY DEF StartSkillOp, SkillInv
<1>2. PICK s \in {"none", "refresh", "clone", "remove", "read", "install"} :
        SkillMove(t, s) /\ (s = "clone" => ~skillCache.git)
  <2>1. skillOp[t].left[1] \in SkillOps
    BY <1>1 DEF SkillPlaces
  <2> QED
    BY <2>1 DEF StartSkillOp, Op, SkillOps, SkillMove
<1>3. s \in SkillSteps
  BY DEF SkillSteps
<1>4. SkillPlaces' /\ \A d \in SkillTasks : SkillAt(d)' = IF d = t THEN s ELSE SkillAt(d)
  BY <1>1, <1>2, <1>3, SkillMoves
<1>5. SkillData'
  <2>1. NotTold \in ToldShape
    BY DEF NotTold, ToldShape, Commit0
  <2>2. skillTold' \in [SkillTasks -> ToldShape] /\ fetched' \in [SkillTasks -> SUBSET Commit0]
    BY <1>1, <2>1 DEF SkillData
  <2> QED
    BY <1>1, <2>2 DEF SkillData
<1>6. /\ fetched'[t] = {}
      /\ \A d \in SkillTasks \ {t} : taken'[d] = taken[d] /\ fetched'[d] = fetched[d] /\ skillTold'[d] = skillTold[d]
  BY <1>1 DEF SkillData
<1>7. KnownInv'
  <2>1. \A d \in SkillTasks \ {t} :
           /\ SkillAt(d)' = SkillAt(d) /\ taken'[d] = taken[d] /\ fetched'[d] = fetched[d] /\ skillTold'[d] = skillTold[d]
           /\ d \notin skillCrossed' => d \notin skillCrossed
    BY <1>1, <1>4, <1>6
  <2>2. SkillAt(t)' = s /\ s \notin Installing \cup {"clear", "copy", "write", "revision"}
    BY <1>4 DEF Installing
  <2>3. Knows(t)'
    BY <1>1, <1>2, <1>6, <2>2 DEF Knows
  <2>4. UNCHANGED <<skillCache, skill>>
    BY <1>1
  <2> QED
    BY <1>1, <1>6, <2>1, <2>3, <2>4, OthersKnow
<1>8. BundleInv' /\ CopyInv'
  <2>1. \A d \in SkillTasks : (SkillAt(d)' = SkillAt(d) \/ {SkillAt(d), SkillAt(d)'} \cap {"copy", "write"} = {})
    BY <1>1, <1>4
  <2>2. \A d \in Copies :
           /\ skillTold'[d] = skillTold[d] /\ taken'[d] = taken[d]
           /\ d \notin skillCrossed' => d \notin skillCrossed /\ skillCache' = skillCache
    BY <1>1, <1>6 DEF Copies
  <2> QED
    BY <1>1, <2>1, <2>2, BundleStays
<1> QED
  BY <1>4, <1>5, <1>7, <1>8 DEF SkillInv

LEMMA RefreshCacheKeeps ==
  ASSUME SkillInv, NEW t \in SkillTasks, RefreshCache(t)
  PROVE  SkillInv'
<1>1. /\ SkillData /\ SkillAt(t) = "refresh" /\ SkillApart /\ UNCHANGED fetched /\ (Fault \/ NoFault)
      /\ UNCHANGED <<skillCache, skillCrossed>> \/ Crosses(t)
  BY DEF RefreshCache, SkillInv
<1>2. PICK s \in {"revision", "discard"} : GoTo(t, s) /\ (s = "revision" => skillCache' = Cached(upstream))
  BY DEF RefreshCache
<1>3. skillCache' \in CacheShape
  <2>1. skillCache \in CacheShape
    BY <1>1 DEF SkillData
  <2> QED
    BY <1>1, <2>1, CacheIsTyped DEF RefreshCache
<1>4. s = "revision" => Whole'
  BY <1>1, <1>2, CachedIsWhole
<1>5. s \in SkillSteps \ (Installing \cup {"read", "install"}) /\ SkillAt(t) \notin Installing \cup {"none"} /\ s # "clone"
  BY <1>1, <1>2 DEF SkillSteps, Installing
<1>6. SkillMove(t, s)
  BY <1>2 DEF SkillMove
<1> QED
  BY <1>1, <1>3, <1>4, <1>5, <1>6, ApartKeeps

LEMMA DiscardKeeps ==
  ASSUME SkillInv, NEW t \in SkillTasks, Discard(t)
  PROVE  SkillInv'
<1>1. SkillData /\ SkillAt(t) = "discard" /\ SkillApart /\ UNCHANGED fetched /\ Crosses(t) /\ (Fault \/ NoFault)
  BY DEF Discard, SkillInv, NoFault
<1>2. PICK s \in {"clone", "none"} : SkillMove(t, s) /\ (s = "clone" => skillCache' = NoCache)
  BY DEF Discard, SkillMove
<1>3. skillCache' \in CacheShape
  <2>1. skillCache \in CacheShape
    BY <1>1 DEF SkillData
  <2> QED
    BY <1>1, <2>1, CacheIsTyped DEF Discard
<1>4. s \in SkillSteps \ (Installing \cup {"read", "install"}) /\ SkillAt(t) \notin Installing \cup {"none"} /\ s # "revision"
  BY <1>1, <1>2 DEF SkillSteps, Installing
<1>5. s = "clone" => ~skillCache'.git
  BY <1>2 DEF NoCache
<1> QED
  BY <1>1, <1>2, <1>3, <1>4, <1>5, ApartKeeps

LEMMA CloneKeeps ==
  ASSUME SkillInv, NEW t \in SkillTasks, Clone(t)
  PROVE  SkillInv'
<1>1. /\ SkillData /\ SkillAt(t) \in {"clone", "begin"} /\ SkillApart /\ UNCHANGED fetched /\ (Fault \/ NoFault)
      /\ UNCHANGED <<skillCache, skillCrossed>> \/ Crosses(t)
  BY DEF Clone, SkillInv
<1>2. PICK s \in {"revision", "begin", "checkout", "sweep"} :
        GoTo(t, s) /\ (s = "revision" => SkillAt(t) = "clone" /\ skillCache.git)
  <2>1. CASE SkillAt(t) = "clone" /\ GoTo(t, IF skillCache.git THEN "revision" ELSE "begin")
    BY <2>1
  <2>2. CASE SkillAt(t) = "begin"
    BY <2>2 DEF Clone
  <2> QED
    BY <2>1, <2>2 DEF Clone
<1>3. skillCache' \in CacheShape
  <2>1. skillCache \in CacheShape
    BY <1>1 DEF SkillData
  <2> QED
    BY <1>1, <2>1, CacheIsTyped DEF Clone
<1>4. s \in SkillSteps \ (Installing \cup {"read", "install"}) /\ SkillAt(t) \notin Installing \cup {"none"} /\ s # "clone"
  BY <1>1, <1>2 DEF SkillSteps, Installing
\* A task that nobody crossed has seen that there is no clone.
<1>5. t \notin skillCrossed => s # "revision"
  BY <1>2 DEF SkillInv, KnownInv, Knows
<1>6. SkillMove(t, s)
  BY <1>2 DEF SkillMove
<1> QED
  BY <1>1, <1>3, <1>4, <1>5, <1>6, ApartKeeps

LEMMA FinishCloneKeeps ==
  ASSUME SkillInv, NEW t \in SkillTasks, FinishClone(t)
  PROVE  SkillInv'
<1>1. SkillData /\ SkillAt(t) = "checkout" /\ SkillApart /\ UNCHANGED fetched /\ Crosses(t) /\ (Fault \/ NoFault)
  BY DEF FinishClone, SkillInv
<1>2. PICK s \in {"revision", "sweep"} : GoTo(t, s) /\ (s = "revision" => skillCache' = Cached(upstream))
  BY DEF FinishClone
<1>3. skillCache' \in CacheShape
  <2>1. skillCache \in CacheShape
    BY <1>1 DEF SkillData
  <2> QED
    BY <1>1, <2>1, CacheIsTyped DEF FinishClone
<1>4. s = "revision" => Whole'
  BY <1>1, <1>2, CachedIsWhole
<1>5. s \in SkillSteps \ (Installing \cup {"read", "install"}) /\ SkillAt(t) \notin Installing \cup {"none"} /\ s # "clone"
  BY <1>1, <1>2 DEF SkillSteps, Installing
<1>6. SkillMove(t, s)
  BY <1>2 DEF SkillMove
<1> QED
  BY <1>1, <1>3, <1>4, <1>5, <1>6, ApartKeeps

LEMMA RevisionKeeps ==
  ASSUME SkillInv, NEW t \in SkillTasks, Revision(t)
  PROVE  SkillInv'
<1>1. PICK c \in {0, skillCache.head} :
        /\ SkillAt(t) = "revision" /\ SkillApart /\ fetched' = [fetched EXCEPT ![t] = {c}]
        /\ UNCHANGED <<skillCache, skillCrossed>> /\ (Fault \/ NoFault) /\ SkillMove(t, "none")
        /\ skillCache' \in CacheShape
  BY DEF Revision, Names, SkillInv, SkillMove, SkillData
<1>2. t \notin skillCrossed => Whole
  BY <1>1 DEF SkillInv, KnownInv, Knows
<1>3. "none" \in SkillSteps \ (Installing \cup {"read", "install"}) /\ SkillAt(t) \notin Installing \cup {"none"}
  BY <1>1 DEF SkillSteps, Installing
<1> QED
  BY <1>1, <1>2, <1>3, ApartKeeps

LEMMA RemoveCacheKeeps ==
  ASSUME SkillInv, NEW t \in SkillTasks, RemoveCache(t)
  PROVE  SkillInv'
<1>1. /\ SkillData /\ SkillAt(t) \in {"remove", "sweep"} /\ SkillApart /\ UNCHANGED fetched /\ Crosses(t)
      /\ (Fault \/ NoFault) /\ SkillMove(t, "none")
  BY DEF RemoveCache, SkillInv, SkillMove
<1>2. skillCache' \in CacheShape
  BY <1>1, CacheIsTyped DEF RemoveCache
<1>3. "none" \in SkillSteps \ (Installing \cup {"read", "install"}) /\ SkillAt(t) \notin Installing \cup {"none"}
  BY <1>1 DEF SkillSteps, Installing
<1> QED
  BY <1>1, <1>2, <1>3, ApartKeeps

\* Who takes the text takes that of the files that are there.
LEMMA TakesText ==
  ASSUME SkillData, NEW t \in SkillTasks, UNCHANGED taken \/ (HasText /\ Takes(t))
  PROVE  /\ taken' \in [SkillTasks -> TakenShape] /\ \A d \in SkillTasks \ {t} : taken'[d] = taken[d]
         /\ ~UNCHANGED taken => taken'[t].text = TextCommit
<1>1. CASE UNCHANGED taken
  BY <1>1 DEF SkillData
<1>2. CASE HasText /\ Takes(t)
  <2> DEFINE new == [text |-> TextCommit, copied |-> 0]
  <2>1. new \in TakenShape /\ new.text = TextCommit
    BY <1>2, TextIsTyped, SkillAssumption DEF TakenShape, Commit0
  <2>2. taken' = [taken EXCEPT ![t] = new] /\ taken \in [SkillTasks -> TakenShape]
    BY <1>2 DEF Takes, SkillData
  <2> HIDE DEF new
  <2>3. taken' \in [SkillTasks -> TakenShape] /\ taken'[t] = new /\ \A d \in SkillTasks \ {t} : taken'[d] = taken[d]
    BY <2>1, <2>2
  <2> QED
    BY <2>1, <2>3
<1> QED
  BY <1>1, <1>2

LEMMA ReadSkillKeeps ==
  ASSUME SkillInv, NEW t \in SkillTasks, ReadSkill(t)
  PROVE  SkillInv'
<1>1. /\ SkillData /\ SkillAt(t) = "read" /\ SkillMove(t, "none") /\ fetched[t] = {}
      /\ UNCHANGED <<upstream, skillCache, skillTold, skill, bundle, fetched, skillCrossed, torn, skillFaults>>
      /\ UNCHANGED taken \/ (HasText /\ Takes(t))
  BY DEF ReadSkill, SkillInv, SkillMove, KnownInv
<1>2. taken' \in [SkillTasks -> TakenShape] /\ \A d \in SkillTasks \ {t} : taken'[d] = taken[d]
  BY <1>1, TakesText
<1>3. SkillData'
  BY <1>1, <1>2 DEF SkillData
<1>4. "none" \in SkillSteps /\ {SkillAt(t), "none"} \cap {"copy", "write"} = {}
  BY <1>1 DEF SkillSteps
<1>5. SkillAt(t)' = "none" => Knows(t)'
  BY <1>1 DEF Knows, Installing
<1> QED
  BY <1>1, <1>2, <1>3, <1>4, <1>5, SkillMoveKeeps

LEMMA OfferKeeps ==
  ASSUME SkillInv, NEW t \in SkillTasks, Offer(t)
  PROVE  SkillInv'
<1> DEFINE told(c) == [commit |-> c, overwrite |-> skill.there, confirmed |-> FALSE]
<1>1. /\ SkillData /\ SkillAt(t) = "install" /\ fetched[t] = {}
      /\ UNCHANGED <<upstream, skillCache, taken, skill, bundle, fetched, skillCrossed, torn>>
  BY DEF Offer, SkillInv, KnownInv
<1>2. PICK c \in {0, skillCache.head}, s \in {"dialog", "none"} :
        /\ SkillMove(t, s) /\ (Fault \/ NoFault)
        /\ skillTold' = IF s = "dialog" THEN [skillTold EXCEPT ![t] = told(c)] ELSE skillTold
  <2>1. CASE HasText /\ skillLoad.interactive
    BY <2>1 DEF Offer, Names, SkillMove
  <2>2. CASE ~(HasText /\ skillLoad.interactive)
    BY <2>2 DEF Offer, NoFault, SkillMove
  <2> QED
    BY <2>1, <2>2
<1> DEFINE new == told(c)
<1>3. /\ new \in ToldShape /\ new.commit \in {0, skillCache.head} /\ new.overwrite = skill.there
      /\ skillTold' = IF s = "dialog" THEN [skillTold EXCEPT ![t] = new] ELSE skillTold
  BY <1>1, <1>2 DEF SkillData, CacheShape, SkillShape, ToldShape, Commit0
<1> HIDE DEF new
<1>4. /\ skillTold' \in [SkillTasks -> ToldShape] /\ \A d \in SkillTasks \ {t} : skillTold'[d] = skillTold[d]
      /\ s = "dialog" => skillTold'[t] = new
  BY <1>1, <1>3 DEF SkillData
<1>5. SkillData'
  <2>1. skillFaults' \in 0 .. MaxSkillFaults
    BY <1>1, <1>2, FaultsAreTyped
  <2> QED
    BY <1>1, <1>4, <2>1 DEF SkillData
<1>6. s \in SkillSteps /\ {SkillAt(t), s} \cap {"copy", "write"} = {}
  BY <1>1 DEF SkillSteps
<1>7. SkillAt(t)' = s => Knows(t)'
  BY <1>1, <1>3, <1>4 DEF Knows, Installing
<1>8. \A d \in SkillTasks \ {t} : taken'[d] = taken[d] /\ fetched'[d] = fetched[d] /\ skillTold'[d] = skillTold[d]
  BY <1>1, <1>4
<1>9. SkillMove(t, s) /\ fetched'[t] = {}
  BY <1>1, <1>2
<1> QED
  BY <1>1, <1>5, <1>6, <1>7, <1>8, <1>9, SkillMoveKeeps

LEMMA UserAnswersKeeps ==
  ASSUME SkillInv, NEW t \in SkillTasks, UserAnswers(t)
  PROVE  SkillInv'
<1> DEFINE new == [skillTold[t] EXCEPT !.confirmed = TRUE]
<1>1. /\ SkillData /\ SkillAt(t) = "dialog" /\ fetched[t] = {} /\ (t \notin skillCrossed => Knows(t))
      /\ UNCHANGED <<upstream, skillCache, taken, skill, bundle, fetched, skillCrossed, torn, skillFaults>>
  BY DEF UserAnswers, SkillInv, KnownInv
<1>2. PICK s \in {"text", "none"} : SkillMove(t, s) /\ skillTold' \in {skillTold, [skillTold EXCEPT ![t] = new]}
  BY DEF UserAnswers, SkillMove
<1>3. new \in ToldShape /\ new.commit = skillTold[t].commit /\ new.overwrite = skillTold[t].overwrite
  BY <1>1 DEF SkillData, ToldShape
<1> HIDE DEF new
<1>4. /\ skillTold' \in [SkillTasks -> ToldShape] /\ \A d \in SkillTasks \ {t} : skillTold'[d] = skillTold[d]
      /\ skillTold'[t].commit = skillTold[t].commit /\ skillTold'[t].overwrite = skillTold[t].overwrite
  BY <1>1, <1>2, <1>3 DEF SkillData
<1>5. SkillData'
  BY <1>1, <1>4 DEF SkillData
<1>6. s \in SkillSteps /\ {SkillAt(t), s} \cap {"copy", "write"} = {}
  BY <1>1 DEF SkillSteps
<1>7. t \notin skillCrossed /\ SkillAt(t)' = s => Knows(t)'
  BY <1>1, <1>4 DEF Knows, Installing
<1> QED
  BY <1>1, <1>2, <1>4, <1>5, <1>6, <1>7, SkillMoveKeeps

LEMMA TakeTextKeeps ==
  ASSUME SkillInv, NEW t \in SkillTasks, TakeText(t)
  PROVE  SkillInv'
<1>1. /\ SkillData /\ SkillAt(t) = "text" /\ fetched[t] = {} /\ (t \notin skillCrossed => Knows(t))
      /\ UNCHANGED <<upstream, skillCache, skillTold, skill, bundle, fetched, skillCrossed, torn, skillFaults>>
  BY DEF TakeText, SkillInv, KnownInv
<1>2. PICK s \in {"clear", "none"} :
        SkillMove(t, s) /\ IF s = "clear" THEN HasText /\ Takes(t) ELSE UNCHANGED taken
  BY DEF TakeText, SkillMove
<1>3. taken' \in [SkillTasks -> TakenShape] /\ \A d \in SkillTasks \ {t} : taken'[d] = taken[d]
  BY <1>1, <1>2, TakesText
<1>4. s = "clear" => taken'[t].text = TextCommit
  BY <1>1, <1>2 DEF Takes, SkillData
<1>5. SkillData'
  BY <1>1, <1>3 DEF SkillData
<1>6. s \in SkillSteps /\ {SkillAt(t), s} \cap {"copy", "write"} = {}
  BY <1>1 DEF SkillSteps
<1>7. t \notin skillCrossed /\ SkillAt(t)' = s => Knows(t)'
  <2>1. TextCommit' = TextCommit /\ (HasText <=> HasText')
    BY <1>1 DEF TextCommit, HasText
  <2> QED
    BY <1>1, <1>2, <1>4, <2>1 DEF Knows, Installing
<1> QED
  BY <1>1, <1>2, <1>3, <1>5, <1>6, <1>7, SkillMoveKeeps

\* An install that cannot clear what it replaces, or is cut off, leaves the skill torn.
LEMMA TornKeeps ==
  ASSUME SkillData, torn'
  PROVE  BundleInv' /\ (Copies' = {} => CopyInv')
BY DEF BundleInv, CopyInv

\* A step that crosses every other task, and leaves t neither at copying nor at writing.
LEMMA CrossingEndsCopy ==
  ASSUME NEW t \in SkillTasks, Crosses(t), SkillAt(t)' \notin {"copy", "write"}
  PROVE  CopyInv'
<1>1. SUFFICES ASSUME NEW d \in SkillTasks, Copies' = {d}, d \notin skillCrossed'
               PROVE  FALSE
  BY DEF CopyInv
<1>2. d # t
  BY <1>1 DEF Copies
<1> QED
  BY <1>1, <1>2 DEF Crosses

LEMMA ClearBundleKeeps ==
  ASSUME SkillInv, NEW t \in SkillTasks, ClearBundle(t)
  PROVE  SkillInv'
<1>1. /\ SkillData /\ SkillPlaces /\ KnownInv /\ BundleInv /\ CopyInv /\ SkillAt(t) = "clear" /\ fetched[t] = {}
      /\ (t \notin skillCrossed => Knows(t)) /\ UNCHANGED <<upstream, skillCache, skillTold, taken, skill, fetched>>
  BY DEF ClearBundle, SkillInv, KnownInv
<1>2. {"copy", "none"} \subseteq SkillSteps
  BY DEF SkillSteps
<1>3. CASE OpEnds(t) /\ Fault /\ Crosses(t) /\ torn' = TRUE
  <2>1. SkillMove(t, "none") /\ SkillAt(t)' = "none"
    BY <1>1, <1>2, <1>3, SkillMoves DEF SkillMove, SkillPlaces
  <2>2. skillFaults' \in 0 .. MaxSkillFaults /\ skillCrossed' \subseteq SkillTasks
    BY <1>1, <1>3, FaultsAreTyped DEF SkillData, Crosses
  <2>3. SkillData'
    BY <1>1, <1>3, <2>2 DEF SkillData
  <2>4. BundleInv' /\ CopyInv'
    BY <1>1, <1>3, <2>1, TornKeeps, CrossingEndsCopy
  <2>5. t \notin skillCrossed => Knows(t)'
    BY <1>1, <2>1 DEF Knows, Installing
  <2> QED
    BY <1>1, <1>2, <1>3, <2>1, <2>3, <2>4, <2>5, SkillMoveKeeps
<1>4. CASE GoTo(t, "copy") /\ bundle' = (IF skillTold[t].overwrite THEN {} ELSE bundle)
           /\ UNCHANGED <<skillCrossed, torn, skillFaults>>
  <2>1. SkillMove(t, "copy") /\ \A d \in SkillTasks : SkillAt(d)' = IF d = t THEN "copy" ELSE SkillAt(d)
    BY <1>1, <1>2, <1>4, SkillMoves DEF SkillMove, SkillPlaces
  <2>2. SkillData'
    BY <1>1, <1>4 DEF SkillData
  <2>3. Copies' = Copies \cup {t}
    BY <2>1 DEF Copies
  <2>4. BundleInv'
    BY <1>1, <1>4, <2>3 DEF BundleInv
  <2>5. ASSUME NEW d \in SkillTasks, Copies' = {d}, d \notin skillCrossed', torn' => skillTold'[d].overwrite
        PROVE  SkillAt(d)' = "copy" /\ bundle' = {}
    <3>1. d = t /\ Copies = {}
      <4>1. t \notin Copies
        BY <1>1 DEF Copies
      <4> QED
        BY <2>3, <2>5, <4>1
    <3>2. skillTold[t].overwrite = skill.there
      BY <1>1, <1>4, <2>5, <3>1 DEF Knows, Installing
    <3>3. skill.there \in BOOLEAN /\ skillTold[t].overwrite \in BOOLEAN
      BY <1>1 DEF SkillData, SkillShape, ToldShape
    <3> QED
      BY <1>1, <1>4, <2>1, <2>5, <3>1, <3>2, <3>3 DEF BundleInv
  <2>6. CopyInv'
    BY <2>5 DEF CopyInv
  <2>7. t \notin skillCrossed => Knows(t)'
    <3>1. TextCommit' = TextCommit /\ (HasText <=> HasText')
      BY <1>1 DEF TextCommit, HasText
    <3> QED
      BY <1>1, <2>1, <3>1 DEF Knows, Installing
  <2> QED
    BY <1>1, <1>2, <1>4, <2>1, <2>2, <2>4, <2>6, <2>7, SkillMoveKeeps
<1> QED
  BY <1>3, <1>4 DEF ClearBundle

LEMMA CopyBundleKeeps ==
  ASSUME SkillInv, NEW t \in SkillTasks, CopyBundle(t)
  PROVE  SkillInv'
<1>1. /\ SkillData /\ SkillPlaces /\ KnownInv /\ BundleInv /\ CopyInv /\ SkillAt(t) = "copy" /\ fetched[t] = {}
      /\ (t \notin skillCrossed => Knows(t)) /\ GoTo(t, "write")
      /\ UNCHANGED <<upstream, skillCache, skillTold, skill, fetched, skillCrossed, torn>> /\ (Fault \/ NoFault)
  BY DEF CopyBundle, SkillInv, KnownInv
<1>2. PICK got \in SUBSET skillCache.tree :
        /\ Cardinality(got) \in 0 .. MaxBundle
        /\ bundle' = Copied(got) /\ taken' = [taken EXCEPT ![t].copied = Cardinality(got)]
  BY DEF CopyBundle
<1>3. "write" \in SkillSteps
  BY DEF SkillSteps
<1>4. SkillMove(t, "write") /\ \A d \in SkillTasks : SkillAt(d)' = IF d = t THEN "write" ELSE SkillAt(d)
  BY <1>1, <1>3, SkillMoves DEF SkillMove, SkillPlaces
<1>5. /\ taken' \in [SkillTasks -> TakenShape] /\ \A d \in SkillTasks \ {t} : taken'[d] = taken[d]
      /\ taken'[t].text = taken[t].text /\ taken'[t].copied = Cardinality(got)
  <2> DEFINE new == [taken[t] EXCEPT !.copied = Cardinality(got)]
  <2>1. taken \in [SkillTasks -> TakenShape] /\ taken' = [taken EXCEPT ![t] = new]
    BY <1>1, <1>2 DEF SkillData
  <2>2. new \in TakenShape /\ new.text = taken[t].text /\ new.copied = Cardinality(got)
    BY <1>2, <2>1 DEF TakenShape
  <2> HIDE DEF new
  <2>3. taken' \in [SkillTasks -> TakenShape] /\ taken'[t] = new /\ \A d \in SkillTasks \ {t} : taken'[d] = taken[d]
    BY <2>1, <2>2
  <2> QED
    BY <2>2, <2>3
<1>6. SkillData'
  <2>1. skillFaults' \in 0 .. MaxSkillFaults
    BY <1>1, FaultsAreTyped
  <2> QED
    BY <1>1, <1>5, <2>1 DEF SkillData
<1>7. Copies' = Copies
  BY <1>1, <1>4 DEF Copies
<1>8. BundleInv'
  <2>1. t \in Copies
    BY <1>1 DEF Copies
  <2> QED
    BY <1>1, <1>7, <2>1 DEF BundleInv
<1>9. ASSUME NEW d \in SkillTasks, Copies' = {d}, d \notin skillCrossed', torn' => skillTold'[d].overwrite
      PROVE  SkillAt(d)' = "write" /\ bundle' \subseteq skillCache'.tree /\ taken'[d].copied = Cardinality(bundle')
  <2>1. d = t /\ Copies = {t}
    BY <1>1, <1>7, <1>9 DEF Copies
  <2>2. bundle = {}
    BY <1>1, <1>9, <2>1 DEF CopyInv
  <2>3. bundle' = got
    BY <1>2, <2>2 DEF Copied
  <2> QED
    BY <1>1, <1>2, <1>4, <1>5, <2>1, <2>3
<1>10. CopyInv'
  BY <1>9 DEF CopyInv
<1>11. t \notin skillCrossed => Knows(t)'
  <2>1. TextCommit' = TextCommit /\ (HasText <=> HasText')
    BY <1>1 DEF TextCommit, HasText
  <2> QED
    BY <1>1, <1>4, <1>5, <2>1 DEF Knows, Installing
<1> QED
  BY <1>1, <1>3, <1>4, <1>5, <1>6, <1>8, <1>10, <1>11, SkillMoveKeeps

LEMMA WriteSkillKeeps ==
  ASSUME SkillInv, NEW t \in SkillTasks, WriteSkill(t)
  PROVE  SkillInv'
<1>1. /\ SkillData /\ SkillPlaces /\ KnownInv /\ BundleInv /\ CopyInv /\ SkillAt(t) = "write" /\ fetched[t] = {}
      /\ (t \notin skillCrossed => Knows(t)) /\ OpEnds(t) /\ Crosses(t) /\ (Fault \/ NoFault)
      /\ UNCHANGED <<upstream, skillCache, skillTold, taken, bundle, fetched>>
  BY DEF WriteSkill, SkillInv, KnownInv
<1>2. "none" \in SkillSteps
  BY DEF SkillSteps
<1>3. SkillMove(t, "none") /\ \A d \in SkillTasks : SkillAt(d)' = IF d = t THEN "none" ELSE SkillAt(d)
  BY <1>1, <1>2, SkillMoves DEF SkillMove, SkillPlaces
<1>4. Installed(t) \in SkillShape /\ [Installed(t) EXCEPT !.text = 0] \in SkillShape
  BY <1>1 DEF Installed, SkillShape, SkillData, TakenShape, ToldShape, Commit0
<1>5. SkillData'
  <2>1. skill' \in SkillShape /\ torn' \in BOOLEAN
    <3>1. CASE skill' = Installed(t) /\ torn' = (t \in skillCrossed \/ Damaged \/ (torn /\ ~skillTold[t].overwrite))
      BY <1>4, <3>1
    <3>2. CASE skill' \in {skill, [Installed(t) EXCEPT !.text = 0]} /\ torn' = TRUE
      BY <1>1, <1>4, <3>2 DEF SkillData
    <3> QED
      BY <3>1, <3>2 DEF WriteSkill
  <2>2. skillFaults' \in 0 .. MaxSkillFaults /\ skillCrossed' \subseteq SkillTasks
    BY <1>1, FaultsAreTyped DEF SkillData, Crosses
  <2> QED
    BY <1>1, <2>1, <2>2 DEF SkillData
<1>6. CopyInv'
  BY <1>1, <1>3, CrossingEndsCopy
<1>7. BundleInv'
  <2>1. SUFFICES ASSUME ~torn'
                 PROVE  BundleInv'
    BY DEF BundleInv
  <2>2. skill' = Installed(t) /\ t \notin skillCrossed /\ ~Damaged /\ (torn => skillTold[t].overwrite)
    BY <2>1 DEF WriteSkill
  <2>3. /\ skill'.there /\ skill'.text = taken[t].text /\ skill'.names = skillTold[t].commit
        /\ skill'.copied = taken[t].copied
    BY <2>2 DEF Installed
  <2>4. HasText /\ taken[t].text = TextCommit /\ skillTold[t].commit \in {0, skillCache.head}
    BY <1>1, <2>2 DEF Knows, Installing
  <2>5. TextCommit = skillCache.head /\ TextCommit \in SourceCommits
    BY <1>1, <2>2, <2>4, TextIsThere, TextIsTyped DEF Damaged
  <2>6. skillCache.tree \subseteq Checkout(skillCache.head)
    <3>1. skillCache.tree \subseteq SourceFiles
      BY <1>1 DEF SkillData, CacheShape
    <3>2. ASSUME NEW e \in skillCache.tree
          PROVE  e \in Checkout(skillCache.head)
      <4>1. PICK c \in SourceCommits : e \in Checkout(c)
        BY <3>1, <3>2 DEF SourceFiles
      <4>2. e.commit = c
        BY <4>1 DEF Checkout
      <4>3. e.commit = skillCache.head
        BY <2>2, <3>2 DEF Damaged
      <4> QED
        BY <4>1, <4>2, <4>3
    <3> QED
      BY <3>2
  <2>7. Copies' = Copies \ {t} /\ t \in Copies
    BY <1>1, <1>3 DEF Copies
  <2>8. ASSUME Copies' = {}
        PROVE  bundle' \subseteq Checkout(skillCache.head) /\ taken[t].copied = Cardinality(bundle')
    <3>1. Copies = {t}
      BY <2>7, <2>8
    <3>2. bundle \subseteq skillCache.tree /\ taken[t].copied = Cardinality(bundle)
      BY <1>1, <2>2, <3>1 DEF CopyInv
    <3> QED
      BY <1>1, <2>6, <3>2
  <2> QED
    BY <2>3, <2>4, <2>5, <2>8 DEF BundleInv
<1>8. t \notin skillCrossed => Knows(t)'
  BY <1>1, <1>3 DEF Knows, Installing
<1> QED
  BY <1>1, <1>2, <1>3, <1>5, <1>6, <1>7, <1>8, SkillMoveKeeps

LEMMA CancelSkillOpKeeps ==
  ASSUME SkillInv, NEW t \in SkillTasks, CancelSkillOp(t)
  PROVE  SkillInv'
<1>1. /\ SkillData /\ SkillPlaces /\ KnownInv /\ BundleInv /\ CopyInv /\ SkillAt(t) # "none" /\ fetched[t] = {}
      /\ OpEnds(t) /\ Crosses(t) /\ Fault /\ UNCHANGED <<upstream, skillTold, taken, fetched>>
      /\ torn' = (torn \/ SkillAt(t) \in {"clear", "copy", "write"})
  BY DEF CancelSkillOp, SkillInv, KnownInv, InProgress
<1>2. "none" \in SkillSteps
  BY DEF SkillSteps
<1>3. SkillMove(t, "none") /\ \A d \in SkillTasks : SkillAt(d)' = IF d = t THEN "none" ELSE SkillAt(d)
  BY <1>1, <1>2, SkillMoves DEF SkillMove, SkillPlaces
<1>4. skillCache' \in CacheShape
  <2>1. skillCache' \in {skillCache, NoCache} \cup HalfReset \cup HalfCloned
    <3>1. CASE SkillAt(t) = "refresh"
      BY <3>1 DEF CancelSkillOp
    <3>2. CASE SkillAt(t) = "checkout"
      BY <3>2 DEF CancelSkillOp
    <3>3. CASE SkillAt(t) \in {"discard", "remove", "sweep"}
      BY <3>3 DEF CancelSkillOp
    <3>4. CASE SkillAt(t) \notin {"refresh", "checkout", "discard", "remove", "sweep"}
      BY <3>4 DEF CancelSkillOp
    <3> QED
      BY <3>1, <3>2, <3>3, <3>4
  <2>2. skillCache \in CacheShape
    BY <1>1 DEF SkillData
  <2> QED
    BY <1>1, <2>1, <2>2, CacheIsTyped
<1>5. skill' \in SkillShape /\ (SkillAt(t) # "write" => skill' = skill)
  <2>1. Installed(t) \in SkillShape /\ skill \in SkillShape
    BY <1>1 DEF Installed, SkillShape, SkillData, TakenShape, ToldShape, Commit0
  <2> QED
    BY <2>1 DEF CancelSkillOp
<1>6. SkillAt(t) \notin {"clear", "copy", "write"} => UNCHANGED <<bundle, torn>>
  <2>1. torn \in BOOLEAN
    BY <1>1 DEF SkillData
  <2> QED
    BY <1>1, <2>1 DEF CancelSkillOp
<1>7. SkillData'
  <2>1. skillFaults' \in 0 .. MaxSkillFaults /\ skillCrossed' \subseteq SkillTasks /\ torn' \in BOOLEAN
    BY <1>1, FaultsAreTyped DEF SkillData, Crosses
  <2> QED
    BY <1>1, <1>4, <1>5, <2>1 DEF SkillData
<1>8. CASE SkillAt(t) \in {"clear", "copy", "write"}
  <2>1. torn'
    BY <1>1, <1>8
  <2>2. BundleInv' /\ CopyInv'
    BY <1>1, <1>3, <2>1, TornKeeps, CrossingEndsCopy
  <2>3. t \notin skillCrossed => Knows(t)'
    BY <1>1, <1>3 DEF Knows, Installing
  <2> QED
    BY <1>1, <1>2, <1>3, <1>7, <2>2, <2>3, SkillMoveKeeps
<1>9. CASE SkillAt(t) \notin {"clear", "copy", "write"}
  <2>1. {SkillAt(t), "none"} \cap {"copy", "write"} = {} /\ UNCHANGED <<skill, bundle, torn>>
    BY <1>5, <1>6, <1>9
  <2>2. t \notin skillCrossed => Knows(t)'
    BY <1>1, <1>3 DEF Knows, Installing
  <2> QED
    BY <1>1, <1>2, <1>3, <1>7, <2>1, <2>2, SkillMoveKeeps
<1> QED
  BY <1>8, <1>9

LEMMA SkillRests ==
  ASSUME SkillInv, upstream' \in SourceCommits,
         UNCHANGED <<skillCache, skillOp, skillTold, taken, skill, bundle, fetched, skillCrossed, torn, skillFaults>>
  PROVE  SkillInv'
<1>1. Copies' = Copies /\ \A t \in SkillTasks : SkillAt(t)' = SkillAt(t)
  BY DEF Copies, SkillAt
<1>2. SkillData' /\ SkillPlaces'
  BY <1>1 DEF SkillInv, SkillData, SkillPlaces
<1>3. KnownInv'
  <2>1. TextCommit' = TextCommit /\ (HasText <=> HasText') /\ (Whole <=> Whole')
    BY DEF TextCommit, HasText, Whole
  <2> QED
    BY <1>1, <2>1 DEF SkillInv, KnownInv, Knows
<1>4. BundleInv' /\ CopyInv'
  BY <1>1, BundleStays DEF SkillInv, Copies
<1> QED
  BY <1>2, <1>3, <1>4 DEF SkillInv

LEMMA SkillStepKeeps == SkillInv /\ [SkillNext]_skillVars => SkillInv'
<1> SUFFICES ASSUME SkillInv, [SkillNext]_skillVars
             PROVE  SkillInv'
  OBVIOUS
<1>1. ASSUME NEW t \in SkillTasks,
             StartSkillOp(t) \/ RefreshCache(t) \/ Discard(t) \/ Clone(t) \/ FinishClone(t) \/ Revision(t)
      PROVE  SkillInv'
  BY <1>1, StartSkillOpKeeps, RefreshCacheKeeps, DiscardKeeps, CloneKeeps, FinishCloneKeeps, RevisionKeeps
<1>2. ASSUME NEW t \in SkillTasks, RemoveCache(t) \/ ReadSkill(t) \/ Offer(t) \/ UserAnswers(t) \/ TakeText(t)
      PROVE  SkillInv'
  BY <1>2, RemoveCacheKeeps, ReadSkillKeeps, OfferKeeps, UserAnswersKeeps, TakeTextKeeps
<1>3. ASSUME NEW t \in SkillTasks, ClearBundle(t) \/ CopyBundle(t) \/ WriteSkill(t) \/ CancelSkillOp(t)
      PROVE  SkillInv'
  BY <1>3, ClearBundleKeeps, CopyBundleKeeps, WriteSkillKeeps, CancelSkillOpKeeps
<1>4. CASE Publish
  BY <1>4, SkillRests DEF Publish
<1>5. CASE UNCHANGED skillVars
  BY <1>5, SkillRests DEF skillVars, SkillInv, SkillData
<1> QED
  BY <1>1, <1>2, <1>3, <1>4, <1>5 DEF SkillNext

LEMMA SkillInitKeeps == SkillInit => SkillInv
<1> SUFFICES ASSUME SkillInit
             PROVE  SkillInv
  OBVIOUS
<1> USE SkillAssumption DEF SkillInit
<1>1. \A t \in SkillTasks : SkillAt(t) = "none" /\ fetched[t] = {}
  BY DEF SkillAt
<1>2. SkillPlaces
  <2>1. skillLoad.ops \in [SkillTasks -> Seq(SkillOps)] /\ "none" \in SkillSteps
    BY DEF SkillSteps
  <2> QED
    BY <1>1, <2>1 DEF SkillPlaces
<1>3. SkillData
  <2>1. skillCache \in CacheShape
    BY DEF NoCache, CacheShape, Commit0
  <2>2. skill \in SkillShape
    BY DEF NoSkill, SkillShape, Commit0
  <2>3. NotTold \in ToldShape /\ [text |-> 0, copied |-> 0] \in TakenShape
    BY DEF NotTold, ToldShape, TakenShape, Commit0
  <2>4. skillTold \in [SkillTasks -> ToldShape] /\ taken \in [SkillTasks -> TakenShape]
        /\ fetched \in [SkillTasks -> SUBSET Commit0]
    BY <2>3 DEF Commit0
  <2>5. skillCrossed \subseteq SkillTasks /\ upstream \in SourceCommits /\ torn \in BOOLEAN
    OBVIOUS
  <2>6. skillFaults \in 0 .. MaxSkillFaults
    OBVIOUS
  <2> QED
    BY <2>1, <2>2, <2>4, <2>5, <2>6 DEF SkillData
<1>4. KnownInv
  BY <1>1 DEF KnownInv, Knows, Installing
<1>5. BundleInv /\ CopyInv
  BY <1>1 DEF BundleInv, CopyInv, Copies, NoSkill
<1> QED
  BY <1>2, <1>3, <1>4, <1>5 DEF SkillInv

LEMMA SkillsAreSound ==
  ASSUME SkillInv
  PROVE  SkillTypeOK /\ SkillIsAsConfirmed /\ FetchHeals
<1>1. SkillTypeOK
  <2>1. \A e \in skillCache.tree : e.commit \in SourceCommits /\ e.file \in FilesOf[e.commit]
    BY DEF SkillInv, SkillData, CacheShape, SourceFiles, Checkout
  <2> QED
    BY <2>1 DEF SkillInv, SkillData, CacheShape, SkillShape, SkillTypeOK, Commit0
<1>2. SkillIsAsConfirmed
  BY DEF SkillInv, BundleInv, Copies, SkillIsAsConfirmed
<1>3. FetchHeals
  BY DEF SkillInv, KnownInv, Knows, FetchHeals
<1> QED
  BY <1>1, <1>2, <1>3

-----------------------------------------------------------------------------
(***************************************************************************)
(* Memories (Memories)                                                     *)
(***************************************************************************)
MemoryRows == [place : {"here", "global"}, tagged : BOOLEAN, secret : BOOLEAN, by : MemoryWriters, archived : BOOLEAN]

\* A row that was checked is there, and the change of it was let through.
MemoryRowsInv ==
  /\ memoryLoad \in MemoryLoads /\ memories \in Seq(MemoryRows)
  /\ memoryWork \in [MemoryWriters -> [left : Seq(MemoryWork), row : Nat]]
  /\ \A w \in MemoryWriters :
       memoryWork[w].row # 0 =>
         memoryWork[w].row \in 1 .. Len(memories) /\ HasJob(w) /\ (MemoryJob(w).op = "archive" \/ ~Guarded(w))
  /\ SecretsAreKeptOut

\* A turn that is set up holds the list of the conversation; a list is dropped by the last to leave.
NotesInv ==
  /\ noteLists \in Seq(Seq(Nat)) /\ notes \in 0 .. Len(noteLists) /\ userSaid \in Nat
  /\ tabs \in 0 .. MaxTabs /\ watched \in BOOLEAN
  /\ talk \in [at : {"none", "claimed", "running", "noted", "released"}, list : 0 .. Len(noteLists)]
  /\ talk.at \in {"running", "noted"} <=> talk.list # 0
  /\ NotesAreShared
  /\ tabs = 0 /\ talk.at \in {"none", "released"} /\ ~watched => notes = 0

EpisodeInv ==
  /\ summing \in Seq({"check", "ask", "save", "done"}) /\ episode \in 0 .. 1
  /\ \/ summedBy = NotAsked
     \/ summedBy.key = "own" /\ summedBy.base \in {"own", "public"} /\ summedBy.model = "own"
     \/ summedBy.key = "system" /\ summedBy.base \in {"system", "public"}
     \/ summedBy.key = "legacy" /\ summedBy.base = "public"

MemoryInv == MemoryRowsInv /\ NotesInv /\ EpisodeInv

-----------------------------------------------------------------------------
LEMMA MemoryJobDone ==
  ASSUME MemoryRowsInv, NEW w \in MemoryWriters, HasJob(w), JobDone(w)
  PROVE  /\ memoryWork' \in [MemoryWriters -> [left : Seq(MemoryWork), row : Nat]]
         /\ memoryWork'[w].row = 0 /\ \A v \in MemoryWriters \ {w} : memoryWork'[v] = memoryWork[v]
<1> DEFINE L == Seq(MemoryWork)
           new == [left |-> Tail(memoryWork[w].left), row |-> 0]
<1>1. memoryWork \in [MemoryWriters -> [left : L, row : Nat]] /\ memoryWork' = [memoryWork EXCEPT ![w] = new]
  BY DEF MemoryRowsInv, JobDone
<1>2. Tail(memoryWork[w].left) \in L
  BY <1>1 DEF HasJob
<1> HIDE DEF L
<1>3. new \in [left : L, row : Nat] /\ new.row = 0
  BY <1>2
<1> HIDE DEF new
<1>4. /\ memoryWork' \in [MemoryWriters -> [left : L, row : Nat]] /\ memoryWork'[w] = new
      /\ \A v \in MemoryWriters \ {w} : memoryWork'[v] = memoryWork[v]
  BY <1>1, <1>3
<1> QED
  BY <1>3, <1>4 DEF L

\* Rows are added or changed by w, and no secret by the tool.
LEMMA RowsStay ==
  ASSUME MemoryRowsInv, NEW w \in MemoryWriters, UNCHANGED memoryLoad, HasJob(w), JobDone(w),
         memories' \in Seq(MemoryRows), Len(memories) <= Len(memories'), SecretsAreKeptOut'
  PROVE  MemoryRowsInv'
<1>1. /\ memoryWork' \in [MemoryWriters -> [left : Seq(MemoryWork), row : Nat]]
      /\ memoryWork'[w].row = 0 /\ \A v \in MemoryWriters \ {w} : memoryWork'[v] = memoryWork[v]
  BY MemoryJobDone
<1>2. ASSUME NEW v \in MemoryWriters, memoryWork'[v].row # 0
      PROVE  memoryWork'[v].row \in 1 .. Len(memories') /\ HasJob(v)' /\ (MemoryJob(v)'.op = "archive" \/ ~Guarded(v)')
  <2>1. v # w /\ memoryWork'[v] = memoryWork[v]
    BY <1>1, <1>2
  <2>2. memoryWork[v].row \in 1 .. Len(memories) /\ HasJob(v) /\ (MemoryJob(v).op = "archive" \/ ~Guarded(v))
    BY <1>2, <2>1 DEF MemoryRowsInv
  <2>3. Len(memories) \in Nat /\ Len(memories') \in Nat
    BY DEF MemoryRowsInv
  <2> QED
    BY <2>1, <2>2, <2>3 DEF HasJob, MemoryJob, Guarded
<1> QED
  BY <1>1, <1>2 DEF MemoryRowsInv

LEMMA SaveMemoryKeeps ==
  ASSUME MemoryRowsInv, NEW w \in MemoryWriters, SaveMemory(w)
  PROVE  MemoryRowsInv'
<1>1. HasJob(w) /\ JobDone(w) /\ UNCHANGED memoryLoad /\ memories \in Seq(MemoryRows) /\ SecretsAreKeptOut
  BY DEF SaveMemory, NotTalking, MemoryRowsInv
<1>2. MemoryJob(w) \in MemoryWork
  BY <1>1 DEF MemoryRowsInv, HasJob, MemoryJob
<1>3. CASE UNCHANGED memories
  BY <1>1, <1>3, RowsStay DEF SecretsAreKeptOut
<1>4. CASE memories' # memories
  <2> DEFINE row == [place |-> MemoryJob(w).place, tagged |-> MemoryJob(w).tagged,
                     secret |-> MemoryJob(w).secret, by |-> w, archived |-> FALSE]
  <2>1. ~Guarded(w) /\ MemoryJob(w).place # "all" /\ memories' = Append(memories, row)
    BY <1>4 DEF SaveMemory
  <2>2. row \in MemoryRows
    BY <1>2, <2>1 DEF MemoryRows, MemoryWork
  <2>3. row.by = w /\ (w = "tool" => ~row.secret)
    BY <2>1 DEF Guarded
  <2> HIDE DEF row
  <2>4. memories' \in Seq(MemoryRows) /\ Len(memories') = Len(memories) + 1 /\ Len(memories) \in Nat
    BY <1>1, <2>1, <2>2
  <2>5. \A i \in DOMAIN memories' : memories'[i] = IF i \in DOMAIN memories THEN memories[i] ELSE row
    BY <1>1, <2>1, <2>2
  <2>6. SecretsAreKeptOut'
    BY <1>1, <2>3, <2>5 DEF SecretsAreKeptOut
  <2> QED
    BY <1>1, <2>4, <2>6, RowsStay
<1> QED
  BY <1>3, <1>4

LEMMA CheckMemoryKeeps ==
  ASSUME MemoryRowsInv, NEW w \in MemoryWriters, CheckMemory(w)
  PROVE  MemoryRowsInv'
<1>1. HasJob(w) /\ UNCHANGED <<memoryLoad, memories>> /\ memories \in Seq(MemoryRows) /\ SecretsAreKeptOut
      /\ MemoryJob(w).op \in {"update", "archive"}
  BY DEF CheckMemory, NotTalking, MemoryRowsInv
<1>2. MemoryJob(w) \in MemoryWork
  BY <1>1 DEF MemoryRowsInv, HasJob, MemoryJob
<1>3. CASE JobDone(w)
  BY <1>1, <1>3, RowsStay DEF SecretsAreKeptOut
<1>4. CASE ~JobDone(w)
  <2> DEFINE L == Seq(MemoryWork)
             new == [memoryWork[w] EXCEPT !.row = MemoryJob(w).row]
  <2>1. /\ MemoryFound(w) /\ ~(MemoryJob(w).op = "update" /\ Guarded(w)) /\ memoryWork' = [memoryWork EXCEPT ![w] = new]
        /\ memoryWork \in [MemoryWriters -> [left : L, row : Nat]] /\ MemoryJob(w).row \in Nat
    BY <1>2, <1>4 DEF CheckMemory, MemoryRowsInv, MemoryWork
  <2>2. MemoryJob(w).row \in 1 .. Len(memories)
    BY <1>1, <2>1 DEF MemoryFound
  <2> HIDE DEF L
  <2>3. new \in [left : L, row : Nat] /\ new.left = memoryWork[w].left /\ new.row = MemoryJob(w).row
    BY <2>1
  <2> HIDE DEF new
  <2>4. /\ memoryWork' \in [MemoryWriters -> [left : L, row : Nat]] /\ memoryWork'[w] = new
        /\ \A v \in MemoryWriters \ {w} : memoryWork'[v] = memoryWork[v]
    BY <2>1, <2>3
  <2>5. ASSUME NEW v \in MemoryWriters, memoryWork'[v].row # 0
        PROVE  memoryWork'[v].row \in 1 .. Len(memories') /\ HasJob(v)' /\ (MemoryJob(v)'.op = "archive" \/ ~Guarded(v)')
    <3>1. CASE v = w
      BY <1>1, <2>1, <2>2, <2>3, <2>4, <3>1 DEF HasJob, MemoryJob, Guarded
    <3>2. CASE v # w
      BY <1>1, <2>4, <2>5, <3>2 DEF HasJob, MemoryJob, Guarded, MemoryRowsInv
    <3> QED
      BY <3>1, <3>2
  <2>6. SecretsAreKeptOut'
    BY <1>1 DEF SecretsAreKeptOut
  <2>7. memoryWork' \in [MemoryWriters -> [left : Seq(MemoryWork), row : Nat]]
    BY <2>4 DEF L
  <2>8. memoryLoad' \in MemoryLoads /\ memories' \in Seq(MemoryRows)
    BY <1>1 DEF MemoryRowsInv
  <2> QED
    BY <2>5, <2>6, <2>7, <2>8 DEF MemoryRowsInv
<1> QED
  BY <1>3, <1>4

LEMMA WriteMemoryKeeps ==
  ASSUME MemoryRowsInv, NEW w \in MemoryWriters, WriteMemory(w)
  PROVE  MemoryRowsInv'
<1> DEFINE k == memoryWork[w].row
           new == IF MemoryJob(w).op = "archive" THEN [memories[k] EXCEPT !.archived = TRUE]
                  ELSE [memories[k] EXCEPT !.secret = MemoryJob(w).secret, !.tagged = MemoryJob(w).tagged, !.by = w]
<1>1. /\ HasJob(w) /\ JobDone(w) /\ UNCHANGED memoryLoad /\ memories \in Seq(MemoryRows) /\ SecretsAreKeptOut
      /\ k \in 1 .. Len(memories) /\ (MemoryJob(w).op = "archive" \/ ~Guarded(w))
      /\ memories' = [memories EXCEPT ![k] = new]
  BY DEF WriteMemory, NotTalking, MemoryRowsInv
<1>2. MemoryJob(w) \in MemoryWork
  BY <1>1 DEF MemoryRowsInv, HasJob, MemoryJob
<1> HIDE DEF k
<1>3. memories[k] \in MemoryRows
  BY <1>1
<1>4. new \in MemoryRows
  BY <1>2, <1>3 DEF MemoryRows, MemoryWork
<1>5. new.by = "tool" => ~new.secret
  <2>1. CASE MemoryJob(w).op = "archive"
    BY <1>1, <1>3, <2>1 DEF MemoryRows, SecretsAreKeptOut
  <2>2. CASE MemoryJob(w).op # "archive"
    BY <1>1, <1>3, <2>2 DEF MemoryRows, Guarded
  <2> QED
    BY <2>1, <2>2
<1> HIDE DEF new
<1>6. memories' \in Seq(MemoryRows) /\ Len(memories') = Len(memories) /\ Len(memories) \in Nat
  BY <1>1, <1>4
<1>7. \A i \in DOMAIN memories' : i \in DOMAIN memories /\ memories'[i] = IF i = k THEN new ELSE memories[i]
  BY <1>1, <1>4
<1>8. SecretsAreKeptOut'
  BY <1>1, <1>5, <1>7 DEF SecretsAreKeptOut
<1> QED
  BY <1>1, <1>6, <1>8, RowsStay

LEMMA RecallKeeps ==
  ASSUME MemoryRowsInv, NEW w \in MemoryWriters, Recall(w)
  PROVE  MemoryRowsInv'
<1>1. HasJob(w) /\ JobDone(w) /\ UNCHANGED <<memoryLoad, memories>>
  BY DEF Recall, NotTalking
<1>2. memories' \in Seq(MemoryRows) /\ Len(memories) <= Len(memories') /\ SecretsAreKeptOut'
  BY <1>1 DEF MemoryRowsInv, SecretsAreKeptOut
<1> QED
  BY <1>1, <1>2, RowsStay

LEMMA MemoryRowsRest ==
  ASSUME MemoryRowsInv, UNCHANGED <<memoryLoad, memories, memoryWork>>
  PROVE  MemoryRowsInv'
BY DEF MemoryRowsInv, HasJob, MemoryJob, Guarded, SecretsAreKeptOut

-----------------------------------------------------------------------------
\* What a list taken for a turn, or for a reader, is.
LEMMA TakenNotes ==
  ASSUME NotesInv, TakeNotes
  PROVE  /\ noteLists' \in Seq(Seq(Nat)) /\ notes' = HeldList /\ HeldList \in 1 .. Len(noteLists')
         /\ Len(noteLists) <= Len(noteLists') /\ Len(noteLists) \in Nat /\ Len(noteLists') \in Nat
         /\ notes # 0 => notes' = notes
         /\ \A n \in DOMAIN noteLists' : Len(noteLists'[n]) <= MaxNotes
<1> USE MemoryAssumption
<1> DEFINE N == Seq(Nat)
<1>1. /\ noteLists \in Seq(N) /\ notes \in 0 .. Len(noteLists) /\ Len(noteLists) \in Nat /\ MaxNotes \in Nat
      /\ \A n \in DOMAIN noteLists : Len(noteLists[n]) <= MaxNotes
  BY DEF NotesInv, NotesAreShared
<1>2. <<>> \in N /\ Len(<<>>) = 0
  OBVIOUS
<1> HIDE DEF N
<1>3. CASE notes # 0
  BY <1>1, <1>3 DEF TakeNotes, HeldList, N
<1>4. CASE notes = 0
  <2>1. notes' = Len(noteLists) + 1 /\ noteLists' = Append(noteLists, <<>>)
    BY <1>4 DEF TakeNotes
  <2>2. noteLists' \in Seq(N) /\ Len(noteLists') = Len(noteLists) + 1
    BY <1>1, <1>2, <2>1
  <2>3. \A n \in DOMAIN noteLists' : noteLists'[n] = IF n \in DOMAIN noteLists THEN noteLists[n] ELSE <<>>
    BY <1>1, <1>2, <2>1
  <2>4. \A n \in DOMAIN noteLists' : Len(noteLists'[n]) <= MaxNotes
    BY <1>1, <1>2, <2>3
  <2> QED
    BY <1>1, <1>4, <2>1, <2>2, <2>4 DEF HeldList, N
<1> QED
  BY <1>3, <1>4

TalkSteps == {"none", "claimed", "running", "noted", "released"}

\* The steps that leave the lists alone.
LEMMA ListsStay ==
  ASSUME NotesInv, UNCHANGED noteLists, notes' \in {0, notes}, userSaid' \in Nat, tabs' \in 0 .. MaxTabs, watched' \in BOOLEAN,
         talk'.at \in TalkSteps, talk' = [at |-> talk'.at, list |-> talk'.list],
         talk'.list \in {0, talk.list}, talk'.at \in {"running", "noted"} <=> talk'.list # 0,
         talk'.list # 0 => notes' = notes,
         tabs' = 0 /\ talk'.at \in {"none", "released"} /\ ~watched' => notes' = 0
  PROVE  NotesInv'
<1>1. /\ noteLists \in Seq(Seq(Nat)) /\ notes \in 0 .. Len(noteLists) /\ talk.list \in 0 .. Len(noteLists)
      /\ talk.list # 0 => talk.list = notes
      /\ \A n \in DOMAIN noteLists : Len(noteLists[n]) <= MaxNotes
  BY DEF NotesInv, NotesAreShared
<1>2. notes' \in 0 .. Len(noteLists) /\ talk'.list \in 0 .. Len(noteLists)
  BY <1>1
<1>3. talk' \in [at : TalkSteps, list : 0 .. Len(noteLists)]
  BY <1>2
<1>4. NotesAreShared'
  BY <1>1 DEF NotesAreShared
<1>5. noteLists' \in Seq(Seq(Nat)) /\ notes' \in 0 .. Len(noteLists')
  BY <1>1, <1>2
<1>6. talk' \in [at : {"none", "claimed", "running", "noted", "released"}, list : 0 .. Len(noteLists')]
  BY <1>3 DEF TalkSteps
<1> QED
  BY <1>4, <1>5, <1>6 DEF NotesInv

LEMMA TalkIs ==
  ASSUME NotesInv
  PROVE  /\ talk = [at |-> talk.at, list |-> talk.list] /\ talk.at \in TalkSteps /\ tabs \in Nat /\ MaxTabs \in Nat
         /\ noteLists \in Seq(Seq(Nat))
  BY MemoryAssumption DEF NotesInv, TalkSteps

LEMMA TabsKeep ==
  ASSUME NotesInv, OpenTab \/ CloseTab \/ EvictTab
  PROVE  NotesInv'
<1>1. /\ talk = [at |-> talk.at, list |-> talk.list] /\ talk.at \in TalkSteps /\ UNCHANGED <<noteLists, talk, userSaid>>
      /\ userSaid \in Nat /\ watched \in BOOLEAN /\ tabs \in 0 .. MaxTabs /\ MaxTabs \in Nat
      /\ talk.at \in {"running", "noted"} <=> talk.list # 0
      /\ tabs = 0 /\ talk.at \in {"none", "released"} /\ ~watched => notes = 0
  BY TalkIs DEF NotesInv, OpenTab, CloseTab, EvictTab
<1>2. tabs' \in 0 .. MaxTabs /\ watched' \in BOOLEAN
  <2>1. tabs' \in 0 .. MaxTabs
    BY <1>1 DEF OpenTab, CloseTab, EvictTab
  <2>2. watched' \in BOOLEAN
    BY <1>1 DEF OpenTab, CloseTab, EvictTab
  <2> QED
    BY <2>1, <2>2
<1>3. notes' \in {0, notes} /\ (talk.list # 0 => notes' = notes)
  BY <1>1 DEF OpenTab, CloseTab, EvictTab, Talking
<1>4. tabs' = 0 /\ talk.at \in {"none", "released"} /\ ~watched' => notes' = 0
  <2>1. CASE OpenTab
    BY <1>1, <2>1 DEF OpenTab
  <2>2. CASE EvictTab
    BY <2>2 DEF EvictTab
  <2>3. CASE CloseTab
    <3>1. SUFFICES ASSUME tabs' = 0, talk.at \in {"none", "released"}, ~watched'
                   PROVE  notes' = 0
      OBVIOUS
    <3>2. talk.at # "released"
      BY <2>3, <3>1 DEF CloseTab
    <3>3. tabs = 1 /\ ~Talking
      BY <1>1, <2>3, <3>1, <3>2 DEF CloseTab, Talking
    <3> QED
      BY <2>3, <3>3 DEF CloseTab
  <2> QED
    BY <2>1, <2>2, <2>3
<1> QED
  BY <1>1, <1>2, <1>3, <1>4, ListsStay

LEMMA BeginTalkKeeps ==
  ASSUME NotesInv, BeginTalk
  PROVE  NotesInv'
<1>1. /\ tabs > 0 /\ ~Talking /\ talk' = [at |-> "claimed", list |-> 0] /\ userSaid' = userSaid + 1
      /\ UNCHANGED <<notes, noteLists, tabs, watched>> /\ userSaid \in Nat /\ watched \in BOOLEAN /\ tabs \in 0 .. MaxTabs
  BY DEF BeginTalk, NotesInv
<1> QED
  BY <1>1, ListsStay DEF TalkSteps

LEMMA SetUpTalkKeeps ==
  ASSUME NotesInv, SetUpTalk
  PROVE  NotesInv'
<1>1. /\ TakeNotes /\ talk' = [at |-> "running", list |-> HeldList] /\ UNCHANGED <<tabs, watched, userSaid>>
      /\ userSaid \in Nat /\ watched \in BOOLEAN /\ tabs \in 0 .. MaxTabs
  BY DEF SetUpTalk, NotesInv
<1>2. /\ noteLists' \in Seq(Seq(Nat)) /\ notes' = HeldList /\ HeldList \in 1 .. Len(noteLists')
      /\ Len(noteLists') \in Nat /\ \A n \in DOMAIN noteLists' : Len(noteLists'[n]) <= MaxNotes
  BY <1>1, TakenNotes
<1>3. talk' \in [at : {"none", "claimed", "running", "noted", "released"}, list : 0 .. Len(noteLists')]
  BY <1>1, <1>2
<1>4. NotesAreShared'
  BY <1>1, <1>2 DEF NotesAreShared
<1>5. talk'.at = "running" /\ talk'.list # 0 /\ notes' \in 0 .. Len(noteLists')
  BY <1>1, <1>2
<1> QED
  BY <1>1, <1>2, <1>3, <1>4, <1>5 DEF NotesInv

LEMMA NoteDownKeeps ==
  ASSUME NotesInv, NoteDown
  PROVE  NotesInv'
<1> USE MemoryAssumption
<1> DEFINE old == noteLists[talk.list]
           new == Append(IF Len(old) >= MaxNotes THEN Tail(old) ELSE old, userSaid)
           N == Seq(Nat)
<1>1. /\ talk.at = "running" /\ noteLists' = [noteLists EXCEPT ![talk.list] = new] /\ talk' = [talk EXCEPT !.at = "noted"]
      /\ UNCHANGED <<notes, tabs, watched, userSaid>> /\ userSaid \in Nat /\ watched \in BOOLEAN /\ tabs \in 0 .. MaxTabs
      /\ MaxNotes \in Nat \ {0}
  BY DEF NoteDown, NotesInv
<1>2. /\ noteLists \in Seq(N) /\ talk.list \in 1 .. Len(noteLists) /\ notes \in 0 .. Len(noteLists) /\ talk.list = notes
      /\ Len(noteLists) \in Nat /\ \A n \in DOMAIN noteLists : Len(noteLists[n]) <= MaxNotes
  BY <1>1 DEF NotesInv, NotesAreShared
<1>3. new \in N /\ Len(new) <= MaxNotes
  <2>1. old \in Seq(Nat) /\ Len(old) <= MaxNotes /\ Len(old) \in Nat
    BY <1>2
  <2> HIDE DEF old
  <2>2. CASE Len(old) >= MaxNotes
    <3>1. old # <<>>
      BY <1>1, <2>1, <2>2
    <3>2. Tail(old) \in Seq(Nat) /\ Len(Tail(old)) = Len(old) - 1
      BY <2>1, <3>1
    <3>3. new = Append(Tail(old), userSaid)
      BY <2>2
    <3>4. Append(Tail(old), userSaid) \in Seq(Nat) /\ Len(Append(Tail(old), userSaid)) = Len(Tail(old)) + 1
      BY <1>1, <3>2
    <3> HIDE DEF new
    <3> QED
      BY <1>1, <2>1, <3>2, <3>3, <3>4
  <2>3. CASE ~(Len(old) >= MaxNotes)
    <3>1. new = Append(old, userSaid)
      BY <2>3
    <3> QED
      BY <1>1, <2>1, <2>3, <3>1
  <2> QED
    BY <2>2, <2>3
<1> HIDE DEF new, N
<1>4. /\ noteLists' \in Seq(N) /\ Len(noteLists') = Len(noteLists)
      /\ \A n \in DOMAIN noteLists' : n \in DOMAIN noteLists /\ noteLists'[n] = IF n = talk.list THEN new ELSE noteLists[n]
  BY <1>1, <1>2, <1>3
<1>5. talk = [at |-> talk.at, list |-> talk.list]
  BY TalkIs
<1>6. talk' = [at |-> "noted", list |-> talk.list]
  BY <1>1, <1>5
<1>7. NotesAreShared'
  BY <1>1, <1>2, <1>3, <1>4, <1>6 DEF NotesAreShared
<1>8. talk' \in [at : {"none", "claimed", "running", "noted", "released"}, list : 0 .. Len(noteLists')]
  BY <1>2, <1>4, <1>6
<1>9. noteLists' \in Seq(Seq(Nat)) /\ notes' \in 0 .. Len(noteLists') /\ talk'.at = "noted" /\ talk'.list # 0
  BY <1>1, <1>2, <1>4, <1>6 DEF N
<1> QED
  BY <1>1, <1>7, <1>8, <1>9 DEF NotesInv

LEMMA EndTalkKeeps ==
  ASSUME NotesInv, EndTalk \/ ReleaseTalk
  PROVE  NotesInv'
<1>1. /\ talk'.at \in TalkSteps /\ talk' = [at |-> talk'.at, list |-> talk'.list] /\ talk'.list = 0
      /\ talk'.at \notin {"running", "noted"} /\ UNCHANGED <<noteLists, tabs, watched, userSaid>>
      /\ notes' \in {0, notes}
  BY DEF EndTalk, ReleaseTalk, TalkSteps, NoTalk
<1>2. /\ userSaid \in Nat /\ watched \in BOOLEAN /\ tabs \in 0 .. MaxTabs
      /\ tabs = 0 /\ talk.at \in {"none", "released"} /\ ~watched => notes = 0
  BY DEF NotesInv
<1>3. tabs' = 0 /\ talk'.at \in {"none", "released"} /\ ~watched' => notes' = 0
  BY <1>1, <1>2 DEF EndTalk, ReleaseTalk
<1> QED
  BY <1>1, <1>2, <1>3, ListsStay

LEMMA ReadNotesKeeps ==
  ASSUME NotesInv, ReadNotes
  PROVE  NotesInv'
<1>1. /\ TakeNotes /\ UNCHANGED <<talk, tabs, userSaid>> /\ watched' = TRUE
      /\ userSaid \in Nat /\ tabs \in 0 .. MaxTabs /\ talk.at \in {"running", "noted"} <=> talk.list # 0
      /\ talk.list # 0 => talk.list = notes
  BY DEF ReadNotes, NotesInv, NotesAreShared
<1>2. /\ noteLists' \in Seq(Seq(Nat)) /\ notes' = HeldList /\ HeldList \in 1 .. Len(noteLists')
      /\ Len(noteLists) <= Len(noteLists') /\ Len(noteLists) \in Nat /\ Len(noteLists') \in Nat
      /\ notes # 0 => notes' = notes
      /\ \A n \in DOMAIN noteLists' : Len(noteLists'[n]) <= MaxNotes
  BY <1>1, TakenNotes
<1>3. talk \in [at : TalkSteps, list : 0 .. Len(noteLists)] /\ notes \in 0 .. Len(noteLists)
  BY DEF NotesInv, TalkSteps
<1>4. talk' \in [at : TalkSteps, list : 0 .. Len(noteLists')]
  BY <1>1, <1>2, <1>3
<1>5. NotesAreShared'
  BY <1>1, <1>2, <1>3 DEF NotesAreShared
<1>6. notes' \in 0 .. Len(noteLists')
  BY <1>2
<1> QED
  BY <1>1, <1>2, <1>4, <1>5, <1>6 DEF NotesInv, TalkSteps

LEMMA NotesRest ==
  ASSUME NotesInv, UNCHANGED <<noteLists, notes, userSaid, tabs, watched, talk>>
  PROVE  NotesInv'
BY DEF NotesInv, NotesAreShared

-----------------------------------------------------------------------------
LEMMA CloseTabSums ==
  ASSUME EpisodeInv, CloseTab
  PROVE  EpisodeInv'
<1> DEFINE E == {"check", "ask", "save", "done"}
<1>1. summing \in Seq(E) /\ "check" \in E
  BY DEF EpisodeInv
<1>2. summing' \in {summing, Append(summing, "check")} /\ UNCHANGED <<episode, summedBy>>
  BY DEF CloseTab, NotWriting
<1>3. summing' \in Seq(E)
  BY <1>1, <1>2
<1> QED
  BY <1>2, <1>3 DEF EpisodeInv

LEMMA EpisodeStepKeeps ==
  ASSUME EpisodeInv, NEW g \in DOMAIN summing, BeginEpisode(g) \/ Summarise(g) \/ SaveEpisode(g)
  PROVE  EpisodeInv'
<1> DEFINE E == {"check", "ask", "save", "done"}
<1>1. summing \in Seq(E) /\ episode \in 0 .. 1
  BY DEF EpisodeInv
<1>2. PICK s \in E : summing' = [summing EXCEPT ![g] = s]
  <2>1. "ask" \in E /\ "save" \in E /\ "done" \in E
    OBVIOUS
  <2> HIDE DEF E
  <2>2. CASE BeginEpisode(g)
    BY <2>1, <2>2 DEF BeginEpisode, SumTo
  <2>3. CASE Summarise(g)
    BY <2>1, <2>3 DEF Summarise, SumTo
  <2>4. CASE SaveEpisode(g)
    BY <2>1, <2>4 DEF SaveEpisode, SumTo
  <2> QED
    BY <2>2, <2>3, <2>4
<1>3. summing' \in Seq(E)
  BY <1>1, <1>2
<1>4. episode' \in 0 .. 1
  BY <1>1 DEF BeginEpisode, Summarise, SaveEpisode
<1>5. summedBy' = summedBy \/ summedBy' \in SummaryModel
  BY DEF BeginEpisode, Summarise, SaveEpisode
<1>6. \A k \in SummaryModel :
        \/ k.key = "own" /\ k.base \in {"own", "public"} /\ k.model = "own"
        \/ k.key = "system" /\ k.base \in {"system", "public"}
        \/ k.key = "legacy" /\ k.base = "public"
  BY DEF SummaryModel
<1> QED
  BY <1>3, <1>4, <1>5, <1>6 DEF EpisodeInv

LEMMA EpisodeRests ==
  ASSUME EpisodeInv, UNCHANGED <<summing, episode, summedBy>>
  PROVE  EpisodeInv'
BY DEF EpisodeInv

LEMMA MemoryStepKeeps == MemoryInv /\ [MemoryNext]_memoryVars => MemoryInv'
<1> SUFFICES ASSUME MemoryRowsInv, NotesInv, EpisodeInv, [MemoryNext]_memoryVars
             PROVE  MemoryRowsInv' /\ NotesInv' /\ EpisodeInv'
  BY DEF MemoryInv
<1>1. ASSUME NEW w \in MemoryWriters, SaveMemory(w) \/ CheckMemory(w) \/ WriteMemory(w) \/ Recall(w)
      PROVE  MemoryRowsInv' /\ NotesInv' /\ EpisodeInv'
  <2>1. UNCHANGED <<noteLists, notes, userSaid, tabs, watched, talk>> /\ UNCHANGED <<summing, episode, summedBy>>
    BY <1>1 DEF SaveMemory, CheckMemory, WriteMemory, Recall, NotTalking
  <2> QED
    BY <1>1, <2>1, SaveMemoryKeeps, CheckMemoryKeeps, WriteMemoryKeeps, RecallKeeps, NotesRest, EpisodeRests
<1>2. CASE OpenTab \/ CloseTab \/ EvictTab
  <2>1. UNCHANGED <<memoryLoad, memories, memoryWork>> /\ (CloseTab \/ UNCHANGED <<summing, episode, summedBy>>)
    BY <1>2 DEF OpenTab, CloseTab, EvictTab, NotWriting
  <2> QED
    BY <1>2, <2>1, TabsKeep, MemoryRowsRest, CloseTabSums, EpisodeRests
<1>3. CASE BeginTalk \/ SetUpTalk \/ NoteDown \/ EndTalk \/ ReleaseTalk \/ ReadNotes
  <2>1. UNCHANGED <<memoryLoad, memories, memoryWork>> /\ UNCHANGED <<summing, episode, summedBy>>
    BY <1>3 DEF BeginTalk, SetUpTalk, NoteDown, EndTalk, ReleaseTalk, ReadNotes, NotWriting
  <2> QED
    BY <1>3, <2>1, BeginTalkKeeps, SetUpTalkKeeps, NoteDownKeeps, EndTalkKeeps, ReadNotesKeeps, MemoryRowsRest, EpisodeRests
<1>4. ASSUME NEW g \in DOMAIN summing, BeginEpisode(g) \/ Summarise(g) \/ SaveEpisode(g)
      PROVE  MemoryRowsInv' /\ NotesInv' /\ EpisodeInv'
  <2>1. UNCHANGED <<memoryLoad, memories, memoryWork>> /\ UNCHANGED <<noteLists, notes, userSaid, tabs, watched, talk>>
    BY <1>4 DEF BeginEpisode, Summarise, SaveEpisode, Summing
  <2> QED
    BY <1>4, <2>1, EpisodeStepKeeps, MemoryRowsRest, NotesRest
<1>5. CASE UNCHANGED memoryVars
  BY <1>5, MemoryRowsRest, NotesRest, EpisodeRests DEF memoryVars
<1> QED
  BY <1>1, <1>2, <1>3, <1>4, <1>5 DEF MemoryNext

LEMMA MemoryInitKeeps == MemoryInit => MemoryInv
<1> SUFFICES ASSUME MemoryInit
             PROVE  MemoryInv
  OBVIOUS
<1> USE MemoryAssumption DEF MemoryInit
<1>1. MemoryRowsInv
  <2>1. memoryLoad.tool \in Seq(MemoryWork) /\ memoryLoad.page \in Seq(MemoryWork)
    OBVIOUS
  <2>2. memoryWork \in [MemoryWriters -> [left : Seq(MemoryWork), row : Nat]]
    BY <2>1
  <2>3. \A w \in MemoryWriters : memoryWork[w].row = 0
    OBVIOUS
  <2>4. memories \in Seq(MemoryRows) /\ DOMAIN memories = {}
    OBVIOUS
  <2> QED
    BY <2>2, <2>3, <2>4 DEF MemoryRowsInv, SecretsAreKeptOut
<1>2. NotesInv
  <2>1. noteLists \in Seq(Seq(Nat)) /\ Len(noteLists) = 0 /\ DOMAIN noteLists = {}
    OBVIOUS
  <2>2. talk = [at |-> "none", list |-> 0]
    BY DEF NoTalk
  <2>3. notes \in 0 .. Len(noteLists) /\ userSaid \in Nat /\ tabs \in 0 .. MaxTabs
    BY <2>1
  <2>4. talk \in [at : {"none", "claimed", "running", "noted", "released"}, list : 0 .. Len(noteLists)]
    BY <2>1, <2>2
  <2>5. NotesAreShared
    BY <2>1, <2>2 DEF NotesAreShared
  <2>6. watched \in BOOLEAN
    OBVIOUS
  <2>7. tabs = 0 /\ notes = 0 /\ ~(talk.at \in {"running", "noted"}) /\ talk.list = 0
    BY <2>2
  <2> QED
    BY <2>1, <2>3, <2>4, <2>5, <2>6, <2>7 DEF NotesInv
<1>3. EpisodeInv
  <2>1. summing \in Seq({"check", "ask", "save", "done"})
    OBVIOUS
  <2> QED
    BY <2>1 DEF EpisodeInv
<1> QED
  BY <1>1, <1>2, <1>3 DEF MemoryInv

LEMMA MemoriesAreSound ==
  ASSUME MemoryInv
  PROVE  SecretsAreKeptOut /\ NotesAreShared /\ NotesEnd /\ EpisodeIsOne /\ KeysStayHome
<1>1. SecretsAreKeptOut /\ NotesAreShared
  BY DEF MemoryInv, MemoryRowsInv, NotesInv
<1>2. NotesEnd
  BY DEF MemoryInv, NotesInv, NotesEnd, Talking
<1>3. EpisodeIsOne /\ KeysStayHome
  BY DEF MemoryInv, EpisodeInv, EpisodeIsOne, KeysStayHome, NotAsked
<1> QED
  BY <1>1, <1>2, <1>3

-----------------------------------------------------------------------------
(***************************************************************************)
(* Runs of specs (SpecRuns)                                                *)
(***************************************************************************)
BeforeRun == {"idle", "find", "stamp", "adopt", "clean", "insert"}

\* What the rows of requests, runs and directories are functions of.
SpecShapes ==
  /\ specLoad \in SpecLoads
  /\ specAt = [c \in SpecCalls |-> specAt[c]] /\ anchorOf = [c \in SpecCalls |-> anchorOf[c]]
  /\ filesOf \in [SpecCalls -> SpecCalls \cup {Nobody}] /\ reports \subseteq SpecCalls /\ overlapped \in BOOLEAN
  /\ specRows = [c \in SpecCalls |-> specRows[c]]
  /\ \A c \in SpecCalls :
       specRows[c] = [status |-> specRows[c].status, by |-> specRows[c].by, result |-> specRows[c].result,
                      gallery |-> specRows[c].gallery]

AnchorInv ==
  /\ \A c \in SpecCalls : Ran(c) <=> specAt[c] \notin BeforeRun \cup {"refused"}
  /\ \A c \in SpecCalls : Ran(c) => anchorOf[c] \in anchors

\* Until two first requests overlap one of them makes the anchor, and nobody else another.
OneAnchorInv ==
  ~overlapped =>
    /\ \A c, d \in SpecCalls : {specAt[c], specAt[d]} \subseteq {"stamp", "adopt"} => c = d
    /\ \A c \in SpecCalls : specAt[c] # "clean"
    /\ \/ /\ anchors = {}
          /\ \A c \in SpecCalls : ~Ran(c) /\ specAt[c] \in {"idle", "refused", "find", "stamp", "adopt"}
          /\ (\A c \in SpecCalls : specAt[c] # "adopt") => stamps = <<>>
          /\ \A c \in SpecCalls : specAt[c] = "adopt" => stamps = <<c>>
       \/ \E a \in SpecCalls :
            /\ anchors = {a} /\ stamps = <<a>>
            /\ \A c \in SpecCalls : /\ specAt[c] \notin {"stamp", "adopt"}
                                    /\ Ran(c) \/ specAt[c] = "insert" => anchorOf[c] = a

FilesInv == \A c \in SpecCalls : filesOf[c] \in {c, Nobody} /\ (c \in reports => filesOf[c] = c)

\* A result that is read from a report counts what the run reported.
Reported(c, r) ==
  /\ r.total = TestsOf(c) /\ r.listed = AtMost(Len(specLoad[c].specs), MaxTests)
  /\ r.failures = AtMost(BadRows(c), MaxFailed)
  /\ r.truncated = (Len(specLoad[c].specs) > MaxTests \/ BadRows(c) > MaxFailed)
OwnResult(c, r) == r.of \in {c, "none"} /\ (r.source = "json" => Reported(c, r))
ResultInv == \A c \in SpecCalls : \A r : r = specRows[c].result => OwnResult(c, r)

SpecInv == SpecShapes /\ AnchorInv /\ OneAnchorInv /\ FilesInv /\ ResultInv /\ StoppedIsNotPassed

-----------------------------------------------------------------------------
(***************************************************************************)
(* What is read from a report or a log.                                    *)
(***************************************************************************)
LEMMA CollectedIsOwn ==
  ASSUME FilesInv, NEW c \in SpecCalls, NEW whole \in BOOLEAN, NEW v
  PROVE  /\ OwnResult(c, Collected(c, whole))
         /\ OwnResult(c, [Collected(c, whole) EXCEPT !.status = v]) /\ [Collected(c, whole) EXCEPT !.status = v].status = v
<1> DEFINE R == Collected(c, whole)
<1>1. CASE c \in reports
  <2>1. R = FromReport(c)
    BY <1>1 DEF FilesInv, Collected, RunDir
  <2>2. /\ R.of = c /\ R.source = "json" /\ R.total = TestsOf(c) /\ R.listed = AtMost(Len(specLoad[c].specs), MaxTests)
        /\ R.failures = AtMost(BadRows(c), MaxFailed)
        /\ R.truncated = (Len(specLoad[c].specs) > MaxTests \/ BadRows(c) > MaxFailed)
    BY <2>1 DEF FromReport
  <2>3. LET x == [R EXCEPT !.status = v] IN
        /\ x.of = R.of /\ x.source = R.source /\ x.total = R.total /\ x.listed = R.listed /\ x.failures = R.failures
        /\ x.truncated = R.truncated /\ x.status = v
    BY <2>1 DEF FromReport
  <2> QED
    BY <2>2, <2>3 DEF OwnResult, Reported
<1>2. CASE c \notin reports
  <2>1. R = FromLog(c, whole)
    BY <1>2 DEF Collected, RunDir
  <2>2. R.of = c /\ R.source = "log"
    BY <2>1 DEF FromLog
  <2>3. LET x == [R EXCEPT !.status = v] IN x.of = R.of /\ x.source = R.source /\ x.status = v
    BY <2>1 DEF FromLog
  <2> QED
    BY <2>2, <2>3 DEF OwnResult
<1> QED
  BY <1>1, <1>2

LEMMA OwnStays ==
  ASSUME UNCHANGED specLoad, NEW c, NEW r
  PROVE  OwnResult(c, r) <=> OwnResult(c, r)'
<1>1. TestsOf(c) = TestsOf(c)'
  BY DEF TestsOf, OfOutcome
<1>2. BadRows(c) = BadRows(c)'
  BY DEF BadRows, RowOf, Bad
<1> QED
  BY <1>1, <1>2 DEF OwnResult, Reported

-----------------------------------------------------------------------------
(***************************************************************************)
(* The steps of an executor: they leave the anchors alone.                 *)
(***************************************************************************)
Executing == {"spawn", "prepare", "preflight", "start", "suite", "written", "late", "settle", "prune", "remove", "over"}

\* A step of an executor that writes the row of its run.
LEMMA RowKeeps ==
  ASSUME SpecInv, NEW c \in SpecCalls, NEW s \in Executing, specAt[c] \in Executing, SpecGoes(c, s),
         NEW row, RowTo(c, row), UNCHANGED <<executing, filesOf, reports>>,
         row = [status |-> row.status, by |-> row.by, result |-> row.result, gallery |-> row.gallery],
         row.status # "none", OwnResult(c, row.result),
         row.by = "platform" => row.result.status \in {"none", "failed", "timed_out"}
  PROVE  SpecInv'
<1>1. UNCHANGED <<specLoad, stamps, anchors, anchorOf, overlapped, filesOf, reports>>
  BY DEF executing, anchorVars
<1>2. /\ specAt' = [d \in SpecCalls |-> specAt'[d]] /\ specAt'[c] = s
      /\ \A d \in SpecCalls : d # c => specAt'[d] = specAt[d]
  BY DEF SpecGoes, SpecInv, SpecShapes
<1>3. /\ specRows' = [d \in SpecCalls |-> specRows'[d]] /\ specRows'[c] = row
      /\ \A d \in SpecCalls : d # c => specRows'[d] = specRows[d]
  BY DEF RowTo, SpecInv, SpecShapes
<1>4. \A d \in SpecCalls : Ran(d) <=> Ran(d)'
  BY <1>3 DEF Ran, SpecInv, AnchorInv, Executing, BeforeRun
<1>5. SpecShapes'
  BY <1>1, <1>2, <1>3 DEF SpecInv, SpecShapes
<1>6. AnchorInv'
  BY <1>1, <1>2, <1>4 DEF SpecInv, AnchorInv, Executing, BeforeRun
<1>7. OneAnchorInv'
  BY <1>1, <1>2, <1>4 DEF SpecInv, OneAnchorInv, Executing
<1>8. FilesInv'
  BY <1>1 DEF SpecInv, FilesInv
<1>9. ResultInv'
  <2> SUFFICES ASSUME NEW d \in SpecCalls, NEW r, r = specRows'[d].result
               PROVE  OwnResult(d, r)'
    BY DEF ResultInv
  <2>1. OwnResult(d, r)
    BY <1>3 DEF SpecInv, ResultInv
  <2> QED
    BY <1>1, <2>1, OwnStays
<1>10. StoppedIsNotPassed'
  BY <1>3 DEF SpecInv, StoppedIsNotPassed
<1> QED
  BY <1>5, <1>6, <1>7, <1>8, <1>9, <1>10 DEF SpecInv

\* A step of an executor that leaves the rows alone and may write or remove files.
LEMMA FilesKeep ==
  ASSUME SpecInv, NEW c \in SpecCalls, NEW s \in Executing, specAt[c] \in Executing, SpecGoes(c, s),
         UNCHANGED <<executing, specRows>>, filesOf' \in [SpecCalls -> SpecCalls \cup {Nobody}],
         reports' \subseteq SpecCalls, FilesInv'
  PROVE  SpecInv'
<1>1. UNCHANGED <<specLoad, stamps, anchors, anchorOf, overlapped, specRows>>
  BY DEF executing, anchorVars
<1>2. /\ specAt' = [d \in SpecCalls |-> specAt'[d]] /\ specAt'[c] = s
      /\ \A d \in SpecCalls : d # c => specAt'[d] = specAt[d]
  BY DEF SpecGoes, SpecInv, SpecShapes
<1>4. \A d \in SpecCalls : Ran(d) <=> Ran(d)'
  BY <1>1 DEF Ran
<1>5. SpecShapes'
  BY <1>1, <1>2 DEF SpecInv, SpecShapes
<1>6. AnchorInv'
  BY <1>1, <1>2, <1>4 DEF SpecInv, AnchorInv, Executing, BeforeRun
<1>7. OneAnchorInv'
  BY <1>1, <1>2, <1>4 DEF SpecInv, OneAnchorInv, Executing
<1>9. ResultInv'
  <2> SUFFICES ASSUME NEW d \in SpecCalls, NEW r, r = specRows'[d].result
               PROVE  OwnResult(d, r)'
    BY DEF ResultInv
  <2>1. OwnResult(d, r)
    BY <1>1 DEF SpecInv, ResultInv
  <2> QED
    BY <1>1, <2>1, OwnStays
<1>10. StoppedIsNotPassed'
  BY <1>1 DEF SpecInv, StoppedIsNotPassed
<1> QED
  BY <1>5, <1>6, <1>7, <1>9, <1>10 DEF SpecInv

\* The row that the platform or the suite closes.
LEMMA ClosedKeeps ==
  ASSUME SpecInv, NEW c \in SpecCalls, NEW s \in Executing, specAt[c] \in Executing, SpecGoes(c, s),
         NEW by, NEW status, status # "none", NEW result, NEW gallery, Closed(c, by, status, result, gallery),
         UNCHANGED <<executing, filesOf, reports>>, OwnResult(c, result),
         by = "platform" => result.status \in {"none", "failed", "timed_out"}
  PROVE  SpecInv'
<1> DEFINE row == [status |-> status, by |-> by, result |-> result, gallery |-> gallery]
<1>1. /\ row = [status |-> row.status, by |-> row.by, result |-> row.result, gallery |-> row.gallery]
      /\ row.status = status /\ row.by = by /\ row.result = result
  OBVIOUS
<1>2. RowTo(c, row)
  BY DEF Closed
<1> HIDE DEF row
<1> QED
  BY <1>1, <1>2, RowKeeps

LEMMA NothingIsOwn ==
  ASSUME NEW c
  PROVE  OwnResult(c, NoResult) /\ NoResult.status = "none"
BY DEF OwnResult, NoResult

LEMMA FailKeeps ==
  ASSUME SpecInv, NEW c \in SpecCalls, NEW judged \in {"failed", "timed_out"}, specAt[c] \in Executing,
         NEW s \in Executing, SpecGoes(c, s),
         Closed(c, "platform", "failed", [Collected(c, FALSE) EXCEPT !.status = judged], Gallery(c)),
         UNCHANGED <<executing, filesOf, reports>>
  PROVE  SpecInv'
<1> DEFINE R == [Collected(c, FALSE) EXCEPT !.status = judged]
<1>1. OwnResult(c, R) /\ R.status \in {"none", "failed", "timed_out"}
  BY CollectedIsOwn DEF SpecInv
<1>2. Closed(c, "platform", "failed", R, Gallery(c))
  OBVIOUS
<1> HIDE DEF R
<1> QED
  BY <1>1, <1>2, ClosedKeeps

LEMMA ExecutorKeeps ==
  ASSUME SpecInv, NEW c \in SpecCalls,
         \/ FailToSpawn(c) \/ BeginSpec(c) \/ RefusePackage(c) \/ PrepareSpec(c) \/ Preflight(c)
         \/ FailToBegin(c) \/ StartSuite(c) \/ WriteFiles(c) \/ EndSuite(c) \/ TimeOut(c) \/ SettleSpec(c)
         \/ CancelSpec(c) \/ ListDirs(c) \/ RemoveDirs(c)
  PROVE  SpecInv'
<1>1. CASE FailToSpawn(c)
  <2>1. specAt[c] \in Executing /\ SpecGoes(c, "over") /\ UNCHANGED <<executing, filesOf, reports>>
        /\ Closed(c, "platform", "failed", NoResult, <<>>)
    BY <1>1 DEF FailToSpawn, Executing, dirVars
  <2> QED
    BY <2>1, ClosedKeeps, NothingIsOwn DEF Executing
<1>2. CASE BeginSpec(c)
  <2> DEFINE row == [specRows[c] EXCEPT !.status = "running"]
  <2>1. specAt[c] \in Executing /\ SpecGoes(c, "prepare") /\ UNCHANGED <<executing, filesOf, reports>> /\ RowTo(c, row)
    BY <1>2 DEF BeginSpec, Executing, dirVars
  <2>2. /\ row = [status |-> row.status, by |-> row.by, result |-> row.result, gallery |-> row.gallery]
        /\ row.status = "running" /\ row.by = specRows[c].by /\ row.result = specRows[c].result
    BY DEF SpecInv, SpecShapes
  <2>3. /\ OwnResult(c, row.result)
        /\ row.by = "platform" => row.result.status \in {"none", "failed", "timed_out"}
    BY <2>2 DEF SpecInv, ResultInv, StoppedIsNotPassed
  <2> HIDE DEF row
  <2> QED
    BY <2>1, <2>2, <2>3, RowKeeps DEF Executing
<1>3. CASE RefusePackage(c)
  <2>1. specAt[c] \in Executing /\ Fail(c, "failed") /\ UNCHANGED <<executing, filesOf, reports>>
    BY <1>3 DEF RefusePackage, Executing, dirVars
  <2> QED
    BY <2>1, FailKeeps DEF Fail, Executing
<1>4. CASE PrepareSpec(c)
  <2>1. specAt[c] \in Executing /\ SpecGoes(c, "preflight") /\ UNCHANGED <<executing, specRows, filesOf, reports>>
    BY <1>4 DEF PrepareSpec, Executing
  <2>2. FilesInv' /\ filesOf' \in [SpecCalls -> SpecCalls \cup {Nobody}] /\ reports' \subseteq SpecCalls
    BY <2>1 DEF SpecInv, SpecShapes, FilesInv
  <2> QED
    BY <2>1, <2>2, FilesKeep DEF Executing
<1>5. CASE Preflight(c)
  <2>1. specAt[c] \in Executing /\ UNCHANGED <<executing, filesOf, reports>>
    BY <1>5 DEF Preflight, Executing, dirVars
  <2>2. Fail(c, "failed") \/ Fail(c, "timed_out") \/ (SpecGoes(c, "start") /\ UNCHANGED specRows)
    <3>1. CASE Meets(c) \in {"noDeps", "noTarget"}
      BY <1>5, <3>1 DEF Preflight
    <3>2. CASE Meets(c) = "slowBrowser"
      BY <1>5, <3>2 DEF Preflight
    <3>3. CASE Meets(c) \notin {"noDeps", "noTarget", "slowBrowser"}
      BY <1>5, <3>3 DEF Preflight
    <3> QED
      BY <3>1, <3>2, <3>3
  <2>3. CASE Fail(c, "failed")
    BY <2>1, <2>3, FailKeeps DEF Fail, Executing
  <2>4. CASE Fail(c, "timed_out")
    BY <2>1, <2>4, FailKeeps DEF Fail, Executing
  <2>5. CASE SpecGoes(c, "start") /\ UNCHANGED specRows
    <3>1. FilesInv' /\ filesOf' \in [SpecCalls -> SpecCalls \cup {Nobody}] /\ reports' \subseteq SpecCalls
      BY <2>1 DEF SpecInv, SpecShapes, FilesInv
    <3> QED
      BY <2>1, <2>5, <3>1, FilesKeep DEF Executing
  <2> QED
    BY <2>2, <2>3, <2>4, <2>5
<1>6. CASE FailToBegin(c)
  <2>1. /\ specAt[c] \in Executing /\ SpecGoes(c, "prune") /\ UNCHANGED <<executing, filesOf, reports>>
        /\ Closed(c, "platform", "failed", [Collected(c, FALSE) EXCEPT !.status = "failed"], Gallery(c))
    BY <1>6 DEF FailToBegin, Executing, dirVars
  <2> QED
    BY <2>1, FailKeeps DEF Executing
<1>7. CASE StartSuite(c) \/ ListDirs(c)
  <2>0. PICK s \in Executing : SpecGoes(c, s)
    BY <1>7 DEF StartSuite, ListDirs, Executing
  <2>1. /\ specAt[c] \in Executing
        /\ UNCHANGED <<executing, specRows, filesOf, reports>>
    BY <1>7 DEF StartSuite, ListDirs, Executing, dirVars
  <2>2. FilesInv' /\ filesOf' \in [SpecCalls -> SpecCalls \cup {Nobody}] /\ reports' \subseteq SpecCalls
    BY <2>1 DEF SpecInv, SpecShapes, FilesInv
  <2> QED
    BY <2>0, <2>1, <2>2, FilesKeep
<1>8. CASE WriteFiles(c)
  <2>1. /\ specAt[c] \in Executing /\ SpecGoes(c, "written") /\ UNCHANGED <<executing, specRows>>
        /\ filesOf' = [filesOf EXCEPT ![c] = c] /\ reports' = reports \ {c}
    BY <1>8 DEF WriteFiles, Executing, RunDir
  <2>2. FilesInv' /\ filesOf' \in [SpecCalls -> SpecCalls \cup {Nobody}] /\ reports' \subseteq SpecCalls
    BY <2>1 DEF SpecInv, SpecShapes, FilesInv
  <2> QED
    BY <2>1, <2>2, FilesKeep DEF Executing
<1>9. CASE EndSuite(c)
  <2>0. PICK s \in Executing : SpecGoes(c, s)
    BY <1>9 DEF EndSuite, Executing
  <2>1. /\ specAt[c] \in Executing
        /\ UNCHANGED <<executing, specRows, filesOf>>
        /\ reports' \subseteq reports \cup {c} /\ (reports' # reports => filesOf[c] = c)
    BY <1>9 DEF EndSuite, Executing, RunDir
  <2>2. FilesInv' /\ filesOf' \in [SpecCalls -> SpecCalls \cup {Nobody}] /\ reports' \subseteq SpecCalls
    BY <2>1 DEF SpecInv, SpecShapes, FilesInv
  <2> QED
    BY <2>0, <2>1, <2>2, FilesKeep
<1>10. CASE TimeOut(c)
  <2>1. specAt[c] \in Executing /\ Fail(c, "timed_out") /\ UNCHANGED <<executing, filesOf, reports>>
    BY <1>10 DEF TimeOut, Executing, dirVars
  <2> QED
    BY <2>1, FailKeeps DEF Fail, Executing
<1>11. CASE SettleSpec(c)
  <2> DEFINE R == Collected(c, TRUE)
             judged == IF specLoad[c].ends = "zero" THEN "completed" ELSE "failed"
  <2>1. /\ specAt[c] \in Executing /\ SpecGoes(c, "prune") /\ UNCHANGED <<executing, filesOf, reports>>
        /\ Closed(c, "suite", judged, R, Gallery(c)) /\ judged # "none"
    BY <1>11 DEF SettleSpec, Executing, dirVars
  <2>2. OwnResult(c, R)
    BY CollectedIsOwn DEF SpecInv
  <2> HIDE DEF R, judged
  <2> QED
    BY <2>1, <2>2, ClosedKeeps DEF Executing
<1>12. CASE CancelSpec(c)
  <2>1. /\ specAt[c] \in Executing /\ SpecGoes(c, "over") /\ UNCHANGED <<executing, filesOf, reports>>
        /\ \/ Closed(c, "shutdown", "failed", NoResult, <<>>)
           \/ Closed(c, "shutdown", "failed", Collected(c, TRUE), Gallery(c))
    BY <1>12 DEF CancelSpec, Executing, dirVars
  <2>2. OwnResult(c, Collected(c, TRUE)) /\ OwnResult(c, NoResult)
    BY CollectedIsOwn, NothingIsOwn DEF SpecInv
  <2> QED
    BY <2>1, <2>2, ClosedKeeps DEF Executing
<1>13. CASE RemoveDirs(c)
  <2>1. /\ specAt[c] \in Executing /\ SpecGoes(c, "over") /\ UNCHANGED <<executing, specRows>>
        /\ filesOf' = [d \in SpecCalls |-> IF d \in toPrune[c] THEN Nobody ELSE filesOf[d]]
        /\ reports' = reports \ toPrune[c]
    BY <1>13 DEF RemoveDirs, Executing
  <2>2. FilesInv' /\ filesOf' \in [SpecCalls -> SpecCalls \cup {Nobody}] /\ reports' \subseteq SpecCalls
    BY <2>1 DEF SpecInv, SpecShapes, FilesInv
  <2> QED
    BY <2>1, <2>2, FilesKeep DEF Executing
<1> QED
  BY <1>1, <1>2, <1>3, <1>4, <1>5, <1>6, <1>7, <1>8, <1>9, <1>10, <1>11, <1>12, <1>13

-----------------------------------------------------------------------------
(***************************************************************************)
(* The steps of a request, before its run begins.                          *)
(***************************************************************************)
\* What a request does before its row leaves everything else of the invariant.
LEMMA RequestKeeps ==
  ASSUME SpecInv, UNCHANGED <<specLoad, filesOf, reports>>, NEW c \in SpecCalls, NEW s, SpecGoes(c, s),
         anchorOf' = [d \in SpecCalls |-> anchorOf'[d]], overlapped' \in BOOLEAN,
         \/ UNCHANGED specRows
         \/ RowTo(c, [NoSpecRow EXCEPT !.status = "pending"])
  PROVE  /\ SpecShapes' /\ FilesInv' /\ ResultInv' /\ StoppedIsNotPassed'
         /\ specAt'[c] = s /\ \A d \in SpecCalls : d # c => /\ specAt'[d] = specAt[d] /\ specRows'[d] = specRows[d]
                                                        /\ (Ran(d) <=> Ran(d)')
<1>1. /\ specAt' = [d \in SpecCalls |-> specAt'[d]] /\ specAt'[c] = s
      /\ \A d \in SpecCalls : d # c => specAt'[d] = specAt[d]
  BY DEF SpecGoes, SpecInv, SpecShapes
<1> DEFINE new == specRows'[c]
<1>2. /\ specRows' = [d \in SpecCalls |-> specRows'[d]]
      /\ \A d \in SpecCalls : d # c => specRows'[d] = specRows[d]
  BY DEF RowTo, SpecInv, SpecShapes
<1>3. /\ new = [status |-> new.status, by |-> new.by, result |-> new.result, gallery |-> new.gallery]
      /\ OwnResult(c, new.result)
      /\ new.by = "platform" => new.result.status \in {"none", "failed", "timed_out"}
  <2>1. CASE UNCHANGED specRows
    BY <2>1 DEF SpecInv, SpecShapes, ResultInv, StoppedIsNotPassed
  <2>2. CASE RowTo(c, [NoSpecRow EXCEPT !.status = "pending"])
    <3>1. new = [status |-> "pending", by |-> "nobody", result |-> NoResult, gallery |-> <<>>]
      BY <2>2 DEF RowTo, NoSpecRow, SpecInv, SpecShapes
    <3> QED
      BY <3>1, NothingIsOwn
  <2> QED
    BY <2>1, <2>2
<1>4. SpecShapes'
  BY <1>1, <1>2, <1>3 DEF SpecInv, SpecShapes
<1>5. FilesInv'
  BY DEF SpecInv, FilesInv
<1>6. ResultInv'
  <2> SUFFICES ASSUME NEW d \in SpecCalls, NEW r, r = specRows'[d].result
               PROVE  OwnResult(d, r)'
    BY DEF ResultInv
  <2>1. OwnResult(d, r)
    BY <1>2, <1>3 DEF SpecInv, ResultInv
  <2> QED
    BY <2>1, OwnStays
<1>7. StoppedIsNotPassed'
  BY <1>2, <1>3 DEF SpecInv, StoppedIsNotPassed
<1>8. \A d \in SpecCalls : d # c => (Ran(d) <=> Ran(d)')
  BY <1>2 DEF Ran
<1> QED
  BY <1>1, <1>2, <1>4, <1>5, <1>6, <1>7, <1>8

LEMMA AskKeeps ==
  ASSUME SpecInv, NEW c \in SpecCalls, AskSpec(c)
  PROVE  SpecInv'
<1>1. PICK s \in {"refused", "find"} : SpecGoes(c, s)
  BY DEF AskSpec
<1>2. /\ specAt[c] = "idle" /\ UNCHANGED <<specLoad, filesOf, reports, stamps, anchors, anchorOf, overlapped, specRows>>
      /\ overlapped' \in BOOLEAN /\ anchorOf' = [d \in SpecCalls |-> anchorOf'[d]]
  BY DEF AskSpec, anchorVars, dirVars, SpecInv, SpecShapes
<1>3. /\ SpecShapes' /\ FilesInv' /\ ResultInv' /\ StoppedIsNotPassed'
      /\ specAt'[c] = s /\ \A d \in SpecCalls : d # c => specAt'[d] = specAt[d]
  BY <1>1, <1>2, RequestKeeps
<1>4. \A d \in SpecCalls : Ran(d) <=> Ran(d)'
  BY <1>2 DEF Ran
<1>5. AnchorInv'
  BY <1>1, <1>2, <1>3, <1>4 DEF SpecInv, AnchorInv, BeforeRun
<1>6. OneAnchorInv'
  BY <1>1, <1>2, <1>3, <1>4 DEF SpecInv, OneAnchorInv
<1> QED
  BY <1>3, <1>5, <1>6 DEF SpecInv

\* Without an overlap one anchor is made, and it is the earliest.
LEMMA EarliestIsIt ==
  ASSUME NEW a, stamps = <<a>>, anchors = {a}
  PROVE  Earliest = a /\ Stale = {}
<1>1. Earliest = a
  BY DEF Earliest
<1> QED
  BY <1>1 DEF Stale

LEMMA FindKeeps ==
  ASSUME SpecInv, NEW c \in SpecCalls, FindAnchor(c)
  PROVE  SpecInv'
<1>1. PICK s \in {"stamp", "insert", "clean"} : SpecGoes(c, s)
  BY DEF FindAnchor
<1>2. /\ specAt[c] = "find" /\ UNCHANGED <<specLoad, filesOf, reports, stamps, anchors, specRows>>
      /\ overlapped' \in BOOLEAN /\ anchorOf' = [d \in SpecCalls |-> anchorOf'[d]]
      /\ \A d \in SpecCalls : d # c => anchorOf'[d] = anchorOf[d]
  BY DEF FindAnchor, dirVars, SpecInv, SpecShapes
<1>3. /\ SpecShapes' /\ FilesInv' /\ ResultInv' /\ StoppedIsNotPassed'
      /\ specAt'[c] = s /\ \A d \in SpecCalls : d # c => specAt'[d] = specAt[d]
  BY <1>1, <1>2, RequestKeeps
<1>4. \A d \in SpecCalls : Ran(d) <=> Ran(d)'
  BY <1>2 DEF Ran
<1>5. ~Ran(c)
  BY <1>2 DEF SpecInv, AnchorInv, BeforeRun
<1>6. AnchorInv'
  BY <1>1, <1>2, <1>3, <1>4, <1>5 DEF SpecInv, AnchorInv, BeforeRun
<1>7. OneAnchorInv'
  <2> SUFFICES ASSUME ~overlapped'
               PROVE  OneAnchorInv'
    BY DEF OneAnchorInv
  <2>1. CASE anchors = {}
    <3>1. /\ SpecGoes(c, "stamp") /\ UNCHANGED anchorOf
          /\ ~overlapped /\ \A d \in SpecCalls : specAt[d] \notin {"stamp", "adopt"}
      BY <2>1 DEF FindAnchor
    <3>2. specAt'[c] = "stamp"
      BY <3>1 DEF SpecGoes, SpecInv, SpecShapes
    <3>3. /\ stamps = <<>> /\ \A d \in SpecCalls : ~Ran(d) /\ specAt[d] \in {"idle", "refused", "find"}
      BY <2>1, <3>1 DEF SpecInv, OneAnchorInv
    <3> QED
      BY <1>2, <1>3, <1>4, <2>1, <3>2, <3>3 DEF OneAnchorInv
  <2>2. CASE anchors # {}
    <3>0. ~overlapped
      BY <2>2 DEF FindAnchor
    <3>1. PICK a \in SpecCalls :
            /\ anchors = {a} /\ stamps = <<a>>
            /\ \A d \in SpecCalls : /\ specAt[d] \notin {"stamp", "adopt"}
                                    /\ Ran(d) \/ specAt[d] = "insert" => anchorOf[d] = a
      BY <2>2, <3>0 DEF SpecInv, OneAnchorInv
    <3>2. Earliest = a /\ Stale = {}
      BY <3>1, EarliestIsIt
    <3>3. SpecGoes(c, "insert") /\ anchorOf'[c] = a
      BY <2>2, <3>2 DEF FindAnchor, SpecInv, SpecShapes
    <3>4. specAt'[c] = "insert"
      BY <3>3 DEF SpecGoes, SpecInv, SpecShapes
    <3>5. \A d \in SpecCalls : specAt[d] # "clean"
      BY <3>0 DEF SpecInv, OneAnchorInv
    <3> QED
      BY <1>2, <1>3, <1>4, <3>1, <3>3, <3>4, <3>5 DEF OneAnchorInv
  <2> QED
    BY <2>1, <2>2
<1> QED
  BY <1>3, <1>6, <1>7 DEF SpecInv

LEMMA StampKeeps ==
  ASSUME SpecInv, NEW c \in SpecCalls, StampAnchor(c)
  PROVE  SpecInv'
<1>1. SpecGoes(c, "adopt") /\ stamps' = Append(stamps, c)
  BY DEF StampAnchor
<1>2. /\ specAt[c] = "stamp" /\ UNCHANGED <<specLoad, filesOf, reports, anchors, anchorOf, overlapped, specRows>>
      /\ overlapped' \in BOOLEAN /\ anchorOf' = [d \in SpecCalls |-> anchorOf'[d]]
  BY DEF StampAnchor, dirVars, SpecInv, SpecShapes
<1>3. /\ SpecShapes' /\ FilesInv' /\ ResultInv' /\ StoppedIsNotPassed'
      /\ specAt'[c] = "adopt" /\ \A d \in SpecCalls : d # c => specAt'[d] = specAt[d]
  BY <1>1, <1>2, RequestKeeps
<1>4. \A d \in SpecCalls : Ran(d) <=> Ran(d)'
  BY <1>2 DEF Ran
<1>6. AnchorInv'
  BY <1>2, <1>3, <1>4 DEF SpecInv, AnchorInv, BeforeRun
<1>7. ASSUME ~overlapped PROVE OneAnchorInv'
  <2>1. /\ \A d \in SpecCalls : d # c => specAt[d] \notin {"stamp", "adopt"}
        /\ \A d \in SpecCalls : ~Ran(d) /\ specAt[d] \in {"idle", "refused", "find", "stamp", "adopt"}
        /\ anchors = {} /\ stamps = <<>>
    BY <1>2, <1>7 DEF SpecInv, OneAnchorInv
  <2>2. stamps' = <<c>>
    BY <1>1, <2>1
  <2>3. \A d \in SpecCalls : /\ specAt'[d] = "adopt" <=> d = c
                             /\ specAt'[d] # "stamp"
                             /\ specAt'[d] \in {"idle", "refused", "find", "stamp", "adopt"}
    BY <1>3, <2>1
  <2> QED
    BY <1>2, <1>4, <2>1, <2>2, <2>3 DEF OneAnchorInv
<1>8. overlapped' = overlapped
  BY <1>2
<1>9. OneAnchorInv'
  BY <1>7, <1>8 DEF OneAnchorInv
<1> QED
  BY <1>3, <1>6, <1>9 DEF SpecInv

LEMMA AdoptKeeps ==
  ASSUME SpecInv, NEW c \in SpecCalls, AdoptAnchor(c)
  PROVE  SpecInv'
<1>1. SpecGoes(c, "insert") /\ anchors' = anchors \cup {c}
  BY DEF AdoptAnchor
<1>2. /\ specAt[c] = "adopt" /\ UNCHANGED <<specLoad, filesOf, reports, stamps, overlapped, specRows>>
      /\ overlapped' \in BOOLEAN /\ anchorOf' = [d \in SpecCalls |-> anchorOf'[d]] /\ anchorOf'[c] = c
      /\ \A d \in SpecCalls : d # c => anchorOf'[d] = anchorOf[d]
  BY DEF AdoptAnchor, dirVars, SpecInv, SpecShapes
<1>3. /\ SpecShapes' /\ FilesInv' /\ ResultInv' /\ StoppedIsNotPassed'
      /\ specAt'[c] = "insert" /\ \A d \in SpecCalls : d # c => specAt'[d] = specAt[d]
  BY <1>1, <1>2, RequestKeeps
<1>4. \A d \in SpecCalls : Ran(d) <=> Ran(d)'
  BY <1>2 DEF Ran
<1>6. AnchorInv'
  BY <1>1, <1>2, <1>3, <1>4 DEF SpecInv, AnchorInv, BeforeRun
<1>7. ASSUME ~overlapped PROVE OneAnchorInv'
  <2>1. /\ \A d \in SpecCalls : d # c => specAt[d] \notin {"stamp", "adopt"}
        /\ \A d \in SpecCalls : ~Ran(d) /\ specAt[d] \in {"idle", "refused", "find", "stamp", "adopt"}
        /\ anchors = {} /\ stamps = <<c>>
    BY <1>2, <1>7 DEF SpecInv, OneAnchorInv
  <2>2. anchors' = {c} /\ stamps' = <<c>>
    BY <1>1, <1>2, <2>1
  <2>3. \A d \in SpecCalls : /\ specAt'[d] = "insert" <=> d = c
                             /\ specAt'[d] \notin {"stamp", "adopt", "clean"} /\ ~Ran(d)'
    BY <1>3, <1>4, <2>1
  <2> QED
    BY <1>2, <2>2, <2>3 DEF OneAnchorInv
<1>8. overlapped' = overlapped
  BY <1>2
<1>9. OneAnchorInv'
  BY <1>7, <1>8 DEF OneAnchorInv
<1> QED
  BY <1>3, <1>6, <1>9 DEF SpecInv

LEMMA CleanKeeps ==
  ASSUME SpecInv, NEW c \in SpecCalls, CleanAnchors(c)
  PROVE  SpecInv'
<1>1. PICK s \in {"refused", "insert"} : SpecGoes(c, s)
  BY DEF CleanAnchors
<1>2. /\ specAt[c] = "clean" /\ UNCHANGED <<specLoad, filesOf, reports, stamps, anchorOf, overlapped, specRows>>
      /\ overlapped' \in BOOLEAN /\ anchorOf' = [d \in SpecCalls |-> anchorOf'[d]]
  BY DEF CleanAnchors, dirVars, SpecInv, SpecShapes
<1>3. /\ SpecShapes' /\ FilesInv' /\ ResultInv' /\ StoppedIsNotPassed'
      /\ specAt'[c] = s /\ \A d \in SpecCalls : d # c => specAt'[d] = specAt[d]
  BY <1>1, <1>2, RequestKeeps
<1>4. \A d \in SpecCalls : Ran(d) <=> Ran(d)'
  BY <1>2 DEF Ran
<1>5. \A d \in SpecCalls : Ran(d) => anchorOf[d] \in anchors'
  <2>1. anchors \cap Anchoring \subseteq anchors'
    BY DEF CleanAnchors
  <2> QED
    BY <2>1 DEF Anchoring, SpecInv, AnchorInv
<1>6. AnchorInv'
  BY <1>1, <1>2, <1>3, <1>4, <1>5 DEF SpecInv, AnchorInv, BeforeRun
<1>7. overlapped'
  BY <1>2 DEF SpecInv, OneAnchorInv
<1> QED
  BY <1>3, <1>6, <1>7 DEF SpecInv, OneAnchorInv

LEMMA InsertKeeps ==
  ASSUME SpecInv, NEW c \in SpecCalls, InsertRun(c)
  PROVE  SpecInv'
<1>1. PICK s \in {"refused", "spawn"} : SpecGoes(c, s)
  BY DEF InsertRun
<1>2. /\ specAt[c] = "insert" /\ UNCHANGED <<specLoad, filesOf, reports, stamps, anchors, anchorOf, overlapped>>
      /\ overlapped' \in BOOLEAN /\ anchorOf' = [d \in SpecCalls |-> anchorOf'[d]]
  BY DEF InsertRun, dirVars, anchorVars, SpecInv, SpecShapes
<1>3. UNCHANGED specRows \/ RowTo(c, [NoSpecRow EXCEPT !.status = "pending"])
  BY DEF InsertRun
<1>4. /\ SpecShapes' /\ FilesInv' /\ ResultInv' /\ StoppedIsNotPassed'
      /\ specAt'[c] = s
      /\ \A d \in SpecCalls : d # c => specAt'[d] = specAt[d] /\ (Ran(d) <=> Ran(d)')
  BY <1>1, <1>2, <1>3, RequestKeeps
<1>5. ~Ran(c)
  BY <1>2 DEF SpecInv, AnchorInv, BeforeRun
<1>6. \/ specAt'[c] = "refused" /\ ~Ran(c)'
      \/ specAt'[c] = "spawn" /\ Ran(c)' /\ anchorOf[c] \in anchors
  <2>1. CASE anchorOf[c] \notin anchors
    <3>1. SpecGoes(c, "refused") /\ UNCHANGED specRows
      BY <2>1 DEF InsertRun
    <3> QED
      BY <1>5, <3>1 DEF SpecGoes, SpecInv, SpecShapes, Ran
  <2>2. CASE anchorOf[c] \in anchors
    <3>1. SpecGoes(c, "spawn") /\ RowTo(c, [NoSpecRow EXCEPT !.status = "pending"])
      BY <2>2 DEF InsertRun
    <3>2. specAt'[c] = "spawn"
      BY <3>1 DEF SpecGoes, SpecInv, SpecShapes
    <3>3. Ran(c)'
      BY <3>1 DEF RowTo, Ran, NoSpecRow, SpecInv, SpecShapes
    <3> QED
      BY <2>2, <3>2, <3>3
  <2> QED
    BY <2>1, <2>2
<1>7. AnchorInv'
  BY <1>2, <1>4, <1>6 DEF SpecInv, AnchorInv, BeforeRun
<1>8. OneAnchorInv'
  <2>1. CASE overlapped
    BY <1>2, <2>1 DEF OneAnchorInv
  <2>2. CASE ~overlapped
    <3>1. PICK a \in SpecCalls :
            /\ anchors = {a} /\ stamps = <<a>>
            /\ \A d \in SpecCalls : /\ specAt[d] \notin {"stamp", "adopt"}
                                    /\ Ran(d) \/ specAt[d] = "insert" => anchorOf[d] = a
      BY <1>2, <2>2 DEF SpecInv, OneAnchorInv
    <3>2. \A d \in SpecCalls : /\ specAt'[d] \notin {"stamp", "adopt", "clean"}
                               /\ Ran(d)' \/ specAt'[d] = "insert" => anchorOf[d] = a
      BY <1>2, <1>4, <1>6, <2>2, <3>1 DEF SpecInv, OneAnchorInv
    <3> QED
      BY <1>2, <3>1, <3>2 DEF OneAnchorInv
  <2> QED
    BY <2>1, <2>2
<1> QED
  BY <1>4, <1>7, <1>8 DEF SpecInv

\* A page that is opened, and a step that leaves everything.
LEMMA LookingKeeps ==
  ASSUME SpecInv, UNCHANGED <<specLoad, specAt, stamps, anchors, anchorOf, overlapped, specRows, filesOf, reports>>
  PROVE  SpecInv'
<1>1. SpecShapes' /\ FilesInv' /\ StoppedIsNotPassed'
  BY DEF SpecInv, SpecShapes, FilesInv, StoppedIsNotPassed
<1>2. \A d \in SpecCalls : Ran(d) <=> Ran(d)'
  BY DEF Ran
<1>3. AnchorInv' /\ OneAnchorInv'
  BY <1>2 DEF SpecInv, AnchorInv, OneAnchorInv
<1>4. ResultInv'
  BY OwnStays DEF SpecInv, ResultInv
<1> QED
  BY <1>1, <1>3, <1>4 DEF SpecInv

LEMMA SpecInitKeeps ==
  ASSUME SpecInit
  PROVE  SpecInv
<1>1. /\ specLoad \in SpecLoads /\ specAt = [c \in SpecCalls |-> "idle"] /\ anchors = {} /\ stamps = <<>>
      /\ overlapped = FALSE /\ anchorOf = [c \in SpecCalls |-> Nobody] /\ reports = {}
      /\ specRows = [c \in SpecCalls |-> NoSpecRow] /\ filesOf = [c \in SpecCalls |-> Nobody]
  BY DEF SpecInit
<1>2. \A c \in SpecCalls : /\ specRows[c] = NoSpecRow /\ ~Ran(c)
                           /\ specRows[c].by = "nobody" /\ specRows[c].result = NoResult
  BY <1>1 DEF NoSpecRow, Ran
<1>3. SpecShapes
  BY <1>1, <1>2 DEF SpecShapes, NoSpecRow
<1>4. AnchorInv /\ OneAnchorInv /\ FilesInv
  BY <1>1, <1>2 DEF AnchorInv, OneAnchorInv, FilesInv, BeforeRun
<1>5. ResultInv /\ StoppedIsNotPassed
  BY <1>2, NothingIsOwn DEF ResultInv, StoppedIsNotPassed
<1> QED
  BY <1>3, <1>4, <1>5 DEF SpecInv

LEMMA SpecStepKeeps ==
  ASSUME SpecInv, [SpecNext]_specVars
  PROVE  SpecInv'
<1>1. CASE UNCHANGED specVars
  BY <1>1, LookingKeeps DEF specVars
<1>2. CASE SpecNext
  <2>1. PICK c \in SpecCalls :
          \/ AskSpec(c) \/ FindAnchor(c) \/ StampAnchor(c) \/ AdoptAnchor(c) \/ CleanAnchors(c) \/ InsertRun(c)
          \/ FailToSpawn(c) \/ BeginSpec(c) \/ RefusePackage(c) \/ PrepareSpec(c) \/ Preflight(c) \/ FailToBegin(c)
          \/ StartSuite(c) \/ WriteFiles(c)
          \/ EndSuite(c) \/ TimeOut(c) \/ SettleSpec(c) \/ CancelSpec(c) \/ ListDirs(c) \/ RemoveDirs(c) \/ OpenPage(c)
    BY <1>2 DEF SpecNext
  <2>2. CASE OpenPage(c)
    BY <2>2, LookingKeeps DEF OpenPage, executing, anchorVars
  <2> QED
    BY <2>1, <2>2, AskKeeps, FindKeeps, StampKeeps, AdoptKeeps, CleanKeeps, InsertKeeps, ExecutorKeeps
<1> QED
  BY <1>1, <1>2

-----------------------------------------------------------------------------
(***************************************************************************)
(* Counting: a spec that ran in one project has one outcome.               *)
(***************************************************************************)
At(specs, o) == {i \in DOMAIN specs : specs[i][1] = o}

LEMMA CountedOnce ==
  ASSUME NEW c \in SpecCalls, specLoad \in SpecLoads, \A i \in DOMAIN specLoad[c].specs : Len(specLoad[c].specs[i]) = 1
  PROVE  /\ TestsOf(c) = Len(specLoad[c].specs)
         /\ BadRows(c) = OfOutcome(c, "failed") + OfOutcome(c, "flaky")
<1> DEFINE S == specLoad[c].specs
           n == Len(S)
<1>1. S \in Seq(Seq(Outcomes))
  BY SpecAssumption DEF Meetings
<1>2. n \in Nat /\ DOMAIN S = 1 .. n /\ \A i \in 1 .. n : DOMAIN S[i] = {1} /\ S[i][1] \in Outcomes /\ RowOf(S[i]) = S[i][1]
  <2>1. n \in Nat /\ DOMAIN S = 1 .. n
    BY <1>1
  <2>2. ASSUME NEW i \in 1 .. n PROVE DOMAIN S[i] = {1} /\ S[i][1] \in Outcomes /\ RowOf(S[i]) = S[i][1]
    <3>1. S[i] \in Seq(Outcomes) /\ Len(S[i]) = 1
      BY <1>1, <2>1
    <3> QED
      BY <3>1 DEF RowOf
  <2> QED
    BY <2>1, <2>2
<1>3. IsFiniteSet(1 .. n) /\ Cardinality(1 .. n) = n
  <2>1. 1 \in Int /\ n \in Int
    BY <1>2
  <2>2. IsFiniteSet(1 .. n) /\ Cardinality(1 .. n) = IF 1 > n THEN 0 ELSE n - 1 + 1
    BY <2>1, FS_Interval
  <2> QED
    BY <1>2, <2>2
<1>4. ASSUME NEW o PROVE /\ At(S, o) \subseteq 1 .. n /\ IsFiniteSet(At(S, o))
                         /\ Cardinality(At(S, o)) \in Nat /\ OfOutcome(c, o) = Cardinality(At(S, o))
  <2>1. At(S, o) \subseteq 1 .. n
    BY <1>2 DEF At
  <2>2. IsFiniteSet(At(S, o)) /\ Cardinality(At(S, o)) \in Nat
    BY <1>3, <2>1, FS_Subset, FS_CardinalityType
  <2> DEFINE P == {p \in (DOMAIN S) \X (1 .. 2) : p[2] \in DOMAIN S[p[1]] /\ S[p[1]][p[2]] = o}
             f == [i \in At(S, o) |-> <<i, 1>>]
  <2>3. OfOutcome(c, o) = Cardinality(P)
    BY DEF OfOutcome
  <2>4. \A i \in At(S, o) : <<i, 1>> \in P
    BY <1>2 DEF At
  <2>5. \A p \in P : p[1] \in At(S, o) /\ p = <<p[1], 1>>
    BY <1>2 DEF At
  <2>6. f \in [At(S, o) -> P] /\ IsInjective(f)
    BY <2>4 DEF IsInjective
  <2>7. \A p \in P : \E i \in At(S, o) : f[i] = p
    BY <2>5
  <2>8. f \in Bijection(At(S, o), P)
    BY <2>6, <2>7 DEF Bijection, Injection, Surjection
  <2>9. Cardinality(P) = Cardinality(At(S, o))
    BY <2>2, <2>8, FS_Bijection DEF ExistsBijection
  <2> QED
    BY <2>1, <2>2, <2>3, <2>9
<1> HIDE DEF S, n
<1>5. ASSUME NEW A \in SUBSET (1 .. n), NEW B \in SUBSET (1 .. n), A \cap B = {}
      PROVE  Cardinality(A \cup B) = Cardinality(A) + Cardinality(B)
  <2>1. IsFiniteSet(A) /\ IsFiniteSet(B) /\ Cardinality(A) \in Nat /\ Cardinality(B) \in Nat
    BY <1>3, FS_Subset, FS_CardinalityType
  <2>2. Cardinality(A \cup B) = Cardinality(A) + Cardinality(B) - Cardinality(A \cap B)
    BY <2>1, FS_Union
  <2>3. Cardinality(A \cap B) = 0
    <3>1. Cardinality({}) = 0
      BY FS_EmptySet
    <3> QED
      BY <1>5, <3>1
  <2> QED
    BY <2>1, <2>2, <2>3
<1>6. \A o, q : o # q => At(S, o) \cap At(S, q) = {}
  BY DEF At
<1>7. BadRows(c) = OfOutcome(c, "failed") + OfOutcome(c, "flaky")
  <2>1. {i \in DOMAIN S : Bad(RowOf(S[i]))} = At(S, "failed") \cup At(S, "flaky")
    BY <1>2 DEF At, Bad
  <2>2. BadRows(c) = Cardinality(At(S, "failed") \cup At(S, "flaky"))
    BY <2>1 DEF BadRows, S
  <2> QED
    BY <1>4, <1>5, <1>6, <2>2
<1>8. TestsOf(c) = n
  <2>1. At(S, "passed") \cup At(S, "failed") \cup At(S, "flaky") \cup At(S, "skipped") = 1 .. n
    BY <1>2 DEF At, Outcomes
  <2>2. Cardinality(At(S, "passed") \cup At(S, "failed")) = OfOutcome(c, "passed") + OfOutcome(c, "failed")
    BY <1>4, <1>5, <1>6
  <2>3. Cardinality((At(S, "passed") \cup At(S, "failed")) \cup At(S, "flaky"))
          = OfOutcome(c, "passed") + OfOutcome(c, "failed") + OfOutcome(c, "flaky")
    <3> DEFINE A == At(S, "passed") \cup At(S, "failed")
               B == At(S, "flaky")
    <3>1. A \cap B = {} /\ A \in SUBSET (1 .. n) /\ B \in SUBSET (1 .. n)
      BY <1>4, <1>6
    <3>2. Cardinality(A) = OfOutcome(c, "passed") + OfOutcome(c, "failed") /\ Cardinality(B) = OfOutcome(c, "flaky")
      BY <1>4, <2>2
    <3> HIDE DEF A, B
    <3>3. Cardinality(A \cup B) = OfOutcome(c, "passed") + OfOutcome(c, "failed") + OfOutcome(c, "flaky")
      BY <1>5, <3>1, <3>2
    <3> QED
      BY <3>3 DEF A, B
  <2>4. Cardinality((At(S, "passed") \cup At(S, "failed") \cup At(S, "flaky")) \cup At(S, "skipped"))
          = OfOutcome(c, "passed") + OfOutcome(c, "failed") + OfOutcome(c, "flaky") + OfOutcome(c, "skipped")
    <3> DEFINE A == At(S, "passed") \cup At(S, "failed") \cup At(S, "flaky")
               B == At(S, "skipped")
    <3>1. A \cap B = {} /\ A \in SUBSET (1 .. n) /\ B \in SUBSET (1 .. n)
      BY <1>4, <1>6
    <3>2. /\ Cardinality(A) = OfOutcome(c, "passed") + OfOutcome(c, "failed") + OfOutcome(c, "flaky")
          /\ Cardinality(B) = OfOutcome(c, "skipped")
      BY <1>4, <2>3
    <3> HIDE DEF A, B
    <3>3. Cardinality(A \cup B)
            = OfOutcome(c, "passed") + OfOutcome(c, "failed") + OfOutcome(c, "flaky") + OfOutcome(c, "skipped")
      BY <1>5, <3>1, <3>2
    <3> QED
      BY <3>3 DEF A, B
  <2> QED
    BY <1>3, <2>1, <2>4 DEF TestsOf
<1> QED
  BY <1>7, <1>8 DEF S, n

LEMMA SpecsAreSound ==
  ASSUME SpecInv
  PROVE  OneAnchor /\ ResultIsOwn /\ StoppedIsNotPassed /\ FailuresAreNamed
<1>1. OneAnchor
  <2>1. \A c \in SpecCalls : Ran(c) => anchorOf[c] \in anchors
    BY DEF SpecInv, AnchorInv
  <2>2. ASSUME ~overlapped, NEW c \in SpecCalls, Ran(c) PROVE anchorOf[c] = Earliest
    <3>1. PICK a \in SpecCalls : anchors = {a} /\ stamps = <<a>> /\ anchorOf[c] = a
      BY <2>2 DEF SpecInv, OneAnchorInv
    <3> QED
      BY <3>1, EarliestIsIt
  <2> QED
    BY <2>1, <2>2 DEF OneAnchor
<1>2. ResultIsOwn
  BY DEF SpecInv, ResultInv, OwnResult, ResultIsOwn
<1>3. FailuresAreNamed
  <2> SUFFICES ASSUME NEW c \in SpecCalls, NEW r, r = specRows[c].result, r.source = "json", ~r.truncated,
                      \A i \in DOMAIN specLoad[c].specs : Len(specLoad[c].specs[i]) = 1
               PROVE  r.listed = r.total /\ r.failures = OfOutcome(c, "failed") + OfOutcome(c, "flaky")
    BY DEF FailuresAreNamed
  <2>1. Reported(c, r)
    BY DEF SpecInv, ResultInv, OwnResult
  <2>2. TestsOf(c) = Len(specLoad[c].specs) /\ BadRows(c) = OfOutcome(c, "failed") + OfOutcome(c, "flaky")
    BY CountedOnce DEF SpecInv, SpecShapes
  <2>3. specLoad[c].specs \in Seq(Seq(Outcomes))
    BY SpecAssumption DEF SpecInv, SpecShapes, Meetings
  <2>4. IsFiniteSet(DOMAIN specLoad[c].specs) /\ Len(specLoad[c].specs) \in Nat
    BY <2>3, FS_Interval
  <2>5. BadRows(c) \in Nat
    BY <2>4, FS_Subset, FS_CardinalityType DEF BadRows
  <2> DEFINE n == Len(specLoad[c].specs)
             b == BadRows(c)
  <2>6. /\ r.total = n /\ r.listed = AtMost(n, MaxTests) /\ r.failures = AtMost(b, MaxFailed)
        /\ r.truncated = (n > MaxTests \/ b > MaxFailed)
    BY <2>1, <2>2 DEF Reported
  <2> HIDE DEF n, b
  <2>7. ~(n > MaxTests \/ b > MaxFailed)
    BY <2>6
  <2>8. n \in Nat /\ b \in Nat
    BY <2>4, <2>5 DEF n, b
  <2>9. AtMost(n, MaxTests) = n /\ AtMost(b, MaxFailed) = b
    BY <2>7, <2>8, SpecAssumption DEF AtMost
  <2>10. b = OfOutcome(c, "failed") + OfOutcome(c, "flaky")
    BY <2>2 DEF b
  <2> QED
    BY <2>6, <2>9, <2>10
<1> QED
  BY <1>1, <1>2, <1>3 DEF SpecInv

-----------------------------------------------------------------------------
(***************************************************************************)
(* Clones and graphs (GitRepos)                                            *)
(***************************************************************************)
Branches == {"main", "feature"}
CloneCommands == {"absent", "clone", "rename", "ask", "delete", "graph", "graphIfMoved", "build"}
Graphing == {"graph", "graphIfMoved", "build"}

\* What is a record or a function of what.
TreeShape ==
  /\ repo = [there |-> repo.there, whole |-> repo.whole, head |-> repo.head, branches |-> repo.branches,
             dirty |-> repo.dirty, staged |-> repo.staged, merging |-> repo.merging]
  /\ repo.there \in BOOLEAN /\ repo.head \in Branches /\ repo.staged \subseteq {"f", "g"} /\ repo.dirty \subseteq {"f", "g"}
  /\ repo.branches = [b \in Branches |-> repo.branches[b]] /\ remote = [b \in Branches |-> remote[b]]
  /\ staging \subseteq GitTasks /\ mishaps \in 0 .. MaxMishaps
BuildShape ==
  /\ graphBuild = [b \in Builders |-> graphBuild[b]]
  /\ \A b \in Builders : graphBuild[b] = [at |-> graphBuild[b].at, listed |-> graphBuild[b].listed,
                                          head |-> graphBuild[b].head, content |-> graphBuild[b].content,
                                          force |-> graphBuild[b].force]
  /\ worker = [at |-> worker.at, rerun |-> worker.rerun] /\ wanted = [asked |-> wanted.asked, head |-> wanted.head]
  /\ worker.at \in {"none", "begun", "building", "returned"} /\ worker.rerun \in BOOLEAN

\* An operation is at one of its commands, and what is left of a task is the end of its workload.
OpRecord(r) ==
  /\ r = [left |-> r.left, next |-> r.next, seen |-> r.seen] /\ r.left \in Seq(Ops) /\ r.next \in Nat
  /\ r.next # 0 => r.left # <<>> /\ r.next \in 1 .. Len(Series(r.left[1]))
OpInv ==
  /\ load \in GitLoads /\ op = [t \in GitTasks |-> op[t]]
  /\ \A t \in GitTasks : \A r : r = op[t] => OpRecord(r)
  /\ \A t \in GitTasks : \A i \in DOMAIN op[t].left : \E j \in DOMAIN load.ops[t] : load.ops[t][j] = op[t].left[i]

\* A tree that is there has the branch it is on, and main, unless a removal failed midway.
RemovalTried == <<"remove", "removed">> \in results \/ RemovalFailed
TreeInv ==
  /\ remote["main"] # {}
  /\ repo.there /\ repo.whole => HeadOf(repo) # {} /\ repo.branches["main"] # {}
  /\ repo.there => repo.whole \/ RemovalFailed
  /\ \A t \in staging : \/ op[t].next \in {2, 3} /\ op[t].left[1] = "clone"
                        \/ Abandoned

\* A commit is in a branch until somebody removes the tree, and was selected by its only committer.
CommitInv ==
  /\ \/ RemovalTried
     \/ /\ commits # {} => repo.there
        /\ \A c \in commits : \E b \in Branches : c.by \in repo.branches[b]
  /\ Alone => /\ \A c \in commits : c.files # {} /\ c.files \subseteq Selected(c.by)
              /\ \A t \in GitTasks : op[t].next # 0 /\ Current(t) = "commit" => repo.staged \subseteq Selected(t)

\* A builder belongs to an operation that waits for it, or to the background task.
BuilderInv ==
  /\ \A t \in GitTasks : graphBuild[t].at # "none" => op[t].next # 0 /\ Current(t) \in Graphing
  /\ worker.at = "building" <=> graphBuild["worker"].at # "none"
  /\ \A b, c \in Builders : Busy(b) /\ Busy(c) => b = c

\* What is read of a tree that is its head, and no other, is in the graph of that head.
GraphInv ==
  ~mixedCommit =>
    /\ graph.there => graph.content = graph.head
    /\ \A b \in Builders : graphBuild[b].at \in {"manifest", "write"} => graphBuild[b].content = graphBuild[b].head

\* A graph that is asked for is there, or a build that is still to come reads the head it is asked for.
Fresh(b) == graphBuild[b].at \in {"list", "head"} \/ graphBuild[b].head = wanted.head
Pending ==
  \/ \E b \in Builders : graphBuild[b].at = "lock" \/ (Busy(b) /\ Fresh(b))
  \/ worker.at = "begun"
  \/ worker.rerun /\ worker.at \in {"building", "returned"}
Served == graph.there /\ graph.head = wanted.head /\ \A b \in Builders : Busy(b) => Fresh(b)
WantedInv == wanted.asked => repo.there /\ HeadOf(repo) = wanted.head /\ (Pending \/ Served)

GitInv == TreeShape /\ BuildShape /\ OpInv /\ TreeInv /\ CommitInv /\ BuilderInv /\ GraphInv /\ WantedInv

-----------------------------------------------------------------------------
(***************************************************************************)
(* The commands of an operation.                                           *)
(***************************************************************************)
LEMMA CommandOf ==
  ASSUME NEW o \in Ops, NEW n \in 1 .. Len(Series(o)), NEW c, c = Series(o)[n]
  PROVE  /\ c \in GitCommands \cup CloneCommands /\ n + 1 # 0
         /\ c \notin {"commit", "push", "delete", "graph", "graphIfMoved", "build"} => n + 1 \in 1 .. Len(Series(o))
         /\ c \in {"absent", "clone", "rename"} => o = "clone"
         /\ c = "absent" => n = 1
         /\ c = "clone" => n = 2
         /\ c = "rename" => n = 3
         /\ o = "clone" /\ n = 2 => c = "clone"
         /\ o = "clone" /\ n = 3 => c = "rename"
         /\ c \in {"ask", "delete"} => o = "remove"
         /\ c \in {"unrelated", "add", "exceeds", "commit"} => o = "commit"
         /\ c = "exceeds" => n = 3
         /\ c = "commit" => n = 4
         /\ o = "commit" => c \in {"unrelated", "add", "exceeds", "commit"}
         /\ o = "commit" /\ n = 3 => c = "exceeds"
<1>1. CASE o = "clone"
  <2>1. Series(o) = <<"absent", "clone", "rename", "graph">>
    BY <1>1 DEF Series
  <2>2. n \in {1, 2, 3, 4} /\ Len(Series(o)) = 4
    BY <2>1
  <2>3. n = 1 => c = "absent"
    BY <2>1
  <2>4. n = 2 => c = "clone"
    BY <2>1
  <2>5. n = 3 => c = "rename"
    BY <2>1
  <2>6. n = 4 => c = "graph"
    BY <2>1
  <2>7. c \in {"absent", "clone", "rename", "graph"} /\ (c # "graph" => n < 4)
    BY <2>2, <2>3, <2>4, <2>5, <2>6
  <2>8. n + 1 # 0 /\ (c # "graph" => n + 1 \in 1 .. Len(Series(o)))
    BY <2>2, <2>7
  <2> QED
    BY <1>1, <2>2, <2>3, <2>4, <2>5, <2>6, <2>7, <2>8 DEF GitCommands, CloneCommands
<1>2. CASE o = "pull"
  <2>1. Series(o) = <<"clean", "read", "pull", "graphIfMoved">>
    BY <1>2 DEF Series
  <2>2. n \in {1, 2, 3, 4} /\ Len(Series(o)) = 4
    BY <2>1
  <2>3. n = 1 => c = "clean"
    BY <2>1
  <2>4. n = 2 => c = "read"
    BY <2>1
  <2>5. n = 3 => c = "pull"
    BY <2>1
  <2>6. n = 4 => c = "graphIfMoved"
    BY <2>1
  <2>7. c \in {"clean", "read", "pull", "graphIfMoved"} /\ (c # "graphIfMoved" => n < 4)
    BY <2>2, <2>3, <2>4, <2>5, <2>6
  <2>8. n + 1 # 0 /\ (c # "graphIfMoved" => n + 1 \in 1 .. Len(Series(o)))
    BY <2>2, <2>7
  <2> QED
    BY <1>2, <2>2, <2>3, <2>4, <2>5, <2>6, <2>7, <2>8 DEF GitCommands, CloneCommands
<1>3. CASE o = "checkoutMain"
  <2>1. Series(o) = <<"clean", "checkoutMain", "graph">>
    BY <1>3 DEF Series
  <2>2. n \in {1, 2, 3} /\ Len(Series(o)) = 3
    BY <2>1
  <2>3. n = 1 => c = "clean"
    BY <2>1
  <2>4. n = 2 => c = "checkoutMain"
    BY <2>1
  <2>5. n = 3 => c = "graph"
    BY <2>1
  <2>6. c \in {"clean", "checkoutMain", "graph"} /\ (c # "graph" => n < 3)
    BY <2>2, <2>3, <2>4, <2>5
  <2>7. n + 1 # 0 /\ (c # "graph" => n + 1 \in 1 .. Len(Series(o)))
    BY <2>2, <2>6
  <2> QED
    BY <1>3, <2>2, <2>3, <2>4, <2>5, <2>6, <2>7 DEF GitCommands, CloneCommands
<1>4. CASE o = "checkoutFeature"
  <2>1. Series(o) = <<"clean", "checkoutFeature", "graph">>
    BY <1>4 DEF Series
  <2>2. n \in {1, 2, 3} /\ Len(Series(o)) = 3
    BY <2>1
  <2>3. n = 1 => c = "clean"
    BY <2>1
  <2>4. n = 2 => c = "checkoutFeature"
    BY <2>1
  <2>5. n = 3 => c = "graph"
    BY <2>1
  <2>6. c \in {"clean", "checkoutFeature", "graph"} /\ (c # "graph" => n < 3)
    BY <2>2, <2>3, <2>4, <2>5
  <2>7. n + 1 # 0 /\ (c # "graph" => n + 1 \in 1 .. Len(Series(o)))
    BY <2>2, <2>6
  <2> QED
    BY <1>4, <2>2, <2>3, <2>4, <2>5, <2>6, <2>7 DEF GitCommands, CloneCommands
<1>5. CASE o = "prepare"
  <2>1. Series(o) = <<"clean", "fetch", "checkoutMain", "pullMain", "feature", "mergeMain", "graph">>
    BY <1>5 DEF Series
  <2>2. n \in {1, 2, 3, 4, 5, 6, 7} /\ Len(Series(o)) = 7
    BY <2>1
  <2>3. n = 1 => c = "clean"
    BY <2>1
  <2>4. n = 2 => c = "fetch"
    BY <2>1
  <2>5. n = 3 => c = "checkoutMain"
    BY <2>1
  <2>6. n = 4 => c = "pullMain"
    BY <2>1
  <2>7. n = 5 => c = "feature"
    BY <2>1
  <2>8. n = 6 => c = "mergeMain"
    BY <2>1
  <2>9. n = 7 => c = "graph"
    BY <2>1
  <2>10. c \in {"clean", "fetch", "checkoutMain", "pullMain", "feature", "mergeMain", "graph"} /\ (c # "graph" => n < 7)
    BY <2>2, <2>3, <2>4, <2>5, <2>6, <2>7, <2>8, <2>9
  <2>11. n + 1 # 0 /\ (c # "graph" => n + 1 \in 1 .. Len(Series(o)))
    BY <2>2, <2>10
  <2> QED
    BY <1>5, <2>2, <2>3, <2>4, <2>5, <2>6, <2>7, <2>8, <2>9, <2>10, <2>11 DEF GitCommands, CloneCommands
<1>6. CASE o = "sync"
  <2>1. Series(o) = <<"clean", "fetch", "checkoutFeature", "mergeOrigin", "mergeFeature", "graph">>
    BY <1>6 DEF Series
  <2>2. n \in {1, 2, 3, 4, 5, 6} /\ Len(Series(o)) = 6
    BY <2>1
  <2>3. n = 1 => c = "clean"
    BY <2>1
  <2>4. n = 2 => c = "fetch"
    BY <2>1
  <2>5. n = 3 => c = "checkoutFeature"
    BY <2>1
  <2>6. n = 4 => c = "mergeOrigin"
    BY <2>1
  <2>7. n = 5 => c = "mergeFeature"
    BY <2>1
  <2>8. n = 6 => c = "graph"
    BY <2>1
  <2>9. c \in {"clean", "fetch", "checkoutFeature", "mergeOrigin", "mergeFeature", "graph"} /\ (c # "graph" => n < 6)
    BY <2>2, <2>3, <2>4, <2>5, <2>6, <2>7, <2>8
  <2>10. n + 1 # 0 /\ (c # "graph" => n + 1 \in 1 .. Len(Series(o)))
    BY <2>2, <2>9
  <2> QED
    BY <1>6, <2>2, <2>3, <2>4, <2>5, <2>6, <2>7, <2>8, <2>9, <2>10 DEF GitCommands, CloneCommands
<1>7. CASE o = "commit"
  <2>1. Series(o) = <<"unrelated", "add", "exceeds", "commit">>
    BY <1>7 DEF Series
  <2>2. n \in {1, 2, 3, 4} /\ Len(Series(o)) = 4
    BY <2>1
  <2>3. n = 1 => c = "unrelated"
    BY <2>1
  <2>4. n = 2 => c = "add"
    BY <2>1
  <2>5. n = 3 => c = "exceeds"
    BY <2>1
  <2>6. n = 4 => c = "commit"
    BY <2>1
  <2>7. c \in {"unrelated", "add", "exceeds", "commit"} /\ (c # "commit" => n < 4)
    BY <2>2, <2>3, <2>4, <2>5, <2>6
  <2>8. n + 1 # 0 /\ (c # "commit" => n + 1 \in 1 .. Len(Series(o)))
    BY <2>2, <2>7
  <2> QED
    BY <1>7, <2>2, <2>3, <2>4, <2>5, <2>6, <2>7, <2>8 DEF GitCommands, CloneCommands
<1>8. CASE o = "push"
  <2>1. Series(o) = <<"push">>
    BY <1>8 DEF Series
  <2>2. n \in {1} /\ Len(Series(o)) = 1
    BY <2>1
  <2>3. n = 1 => c = "push"
    BY <2>1
  <2>4. c \in {"push"} /\ (c # "push" => n < 1)
    BY <2>2, <2>3
  <2>5. n + 1 # 0 /\ (c # "push" => n + 1 \in 1 .. Len(Series(o)))
    BY <2>2, <2>4
  <2> QED
    BY <1>8, <2>2, <2>3, <2>4, <2>5 DEF GitCommands, CloneCommands
<1>9. CASE o = "remove"
  <2>1. Series(o) = <<"ask", "delete">>
    BY <1>9 DEF Series
  <2>2. n \in {1, 2} /\ Len(Series(o)) = 2
    BY <2>1
  <2>3. n = 1 => c = "ask"
    BY <2>1
  <2>4. n = 2 => c = "delete"
    BY <2>1
  <2>5. c \in {"ask", "delete"} /\ (c # "delete" => n < 2)
    BY <2>2, <2>3, <2>4
  <2>6. n + 1 # 0 /\ (c # "delete" => n + 1 \in 1 .. Len(Series(o)))
    BY <2>2, <2>5
  <2> QED
    BY <1>9, <2>2, <2>3, <2>4, <2>5, <2>6 DEF GitCommands, CloneCommands
<1>10. CASE o = "build"
  <2>1. Series(o) = <<"build">>
    BY <1>10 DEF Series
  <2>2. n \in {1} /\ Len(Series(o)) = 1
    BY <2>1
  <2>3. n = 1 => c = "build"
    BY <2>1
  <2>4. c \in {"build"} /\ (c # "build" => n < 1)
    BY <2>2, <2>3
  <2>5. n + 1 # 0 /\ (c # "build" => n + 1 \in 1 .. Len(Series(o)))
    BY <2>2, <2>4
  <2> QED
    BY <1>10, <2>2, <2>3, <2>4, <2>5 DEF GitCommands, CloneCommands
<1> QED
  BY <1>1, <1>2, <1>3, <1>4, <1>5, <1>6, <1>7, <1>8, <1>9, <1>10 DEF Ops

\* The command of a task, by the place of its operation.
LEMMA CurrentOf ==
  ASSUME OpInv, NEW t \in GitTasks, op[t].next # 0
  PROVE  /\ op[t].left \in Seq(Ops) /\ op[t].left # <<>> /\ op[t].left[1] \in Ops
         /\ op[t].next \in 1 .. Len(Series(op[t].left[1])) /\ Current(t) = Series(op[t].left[1])[op[t].next]
         /\ \E j \in DOMAIN load.ops[t] : load.ops[t][j] = op[t].left[1]
<1>1. OpRecord(op[t])
  BY DEF OpInv
<1>2. op[t].left \in Seq(Ops) /\ op[t].left # <<>> /\ op[t].next \in 1 .. Len(Series(op[t].left[1]))
  BY <1>1 DEF OpRecord
<1>3. op[t].left[1] \in Ops /\ 1 \in DOMAIN op[t].left
  BY <1>2
<1> QED
  BY <1>2, <1>3 DEF OpInv, Current

\* The same of the command a task is at.
LEMMA CurrentIs ==
  ASSUME OpInv, NEW t \in GitTasks, op[t].next # 0
  PROVE  /\ Current(t) \in GitCommands \cup CloneCommands /\ op[t].next + 1 # 0
         /\ Current(t) \notin {"commit", "push", "delete", "graph", "graphIfMoved", "build"} => op[t].next + 1 \in 1 .. Len(Series(op[t].left[1]))
         /\ Current(t) \in {"absent", "clone", "rename"} => op[t].left[1] = "clone"
         /\ Current(t) = "absent" => op[t].next = 1
         /\ Current(t) = "clone" => op[t].next = 2
         /\ Current(t) = "rename" => op[t].next = 3
         /\ op[t].left[1] = "clone" /\ op[t].next = 2 => Current(t) = "clone"
         /\ op[t].left[1] = "clone" /\ op[t].next = 3 => Current(t) = "rename"
         /\ Current(t) \in {"ask", "delete"} => op[t].left[1] = "remove"
         /\ Current(t) \in {"unrelated", "add", "exceeds", "commit"} => op[t].left[1] = "commit"
         /\ Current(t) = "exceeds" => op[t].next = 3
         /\ Current(t) = "commit" => op[t].next = 4
         /\ op[t].left[1] = "commit" => Current(t) \in {"unrelated", "add", "exceeds", "commit"}
         /\ op[t].left[1] = "commit" /\ op[t].next = 3 => Current(t) = "exceeds"
<1> DEFINE o == op[t].left[1]
           n == op[t].next
           c == Current(t)
<1>1. o \in Ops /\ n \in 1 .. Len(Series(o)) /\ c = Series(o)[n]
  BY CurrentOf
<1> HIDE DEF o, n, c
<1> QED
  BY <1>1, CommandOf DEF o, n, c

\* Only an operation that commits comes to its commit.
LEMMA NextIs ==
  ASSUME NEW o \in Ops, NEW n, n \in 1 .. Len(Series(o)), Series(o)[n] = "commit"
  PROVE  o = "commit" /\ n = 4
<1> DEFINE c == Series(o)[n]
<1>1. c = Series(o)[n] /\ c = "commit"
  OBVIOUS
<1> HIDE DEF c
<1> QED
  BY <1>1, CommandOf

\* Only the operation of t moves.
LEMMA OpMoves ==
  ASSUME OpInv, UNCHANGED load, NEW t \in GitTasks, NEW new, op' = [op EXCEPT ![t] = new], OpRecord(new),
         \A i \in DOMAIN new.left : \E j \in DOMAIN load.ops[t] : load.ops[t][j] = new.left[i]
  PROVE  /\ OpInv' /\ op'[t] = new
         /\ \A u \in GitTasks : u # t => op'[u] = op[u] /\ Current(u)' = Current(u)
<1>1. /\ op' = [u \in GitTasks |-> op'[u]] /\ op'[t] = new
      /\ \A u \in GitTasks : u # t => op'[u] = op[u]
  BY DEF OpInv
<1>2. OpInv'
  <2>1. \A u \in GitTasks : \A r : r = op'[u] => OpRecord(r)
    BY <1>1 DEF OpInv
  <2>2. \A u \in GitTasks : \A i \in DOMAIN op'[u].left : \E j \in DOMAIN load.ops[u] : load.ops[u][j] = op'[u].left[i]
    BY <1>1 DEF OpInv
  <2> QED
    BY <1>1, <2>1, <2>2 DEF OpInv
<1>3. \A u \in GitTasks : u # t => Current(u)' = Current(u)
  BY <1>1 DEF Current
<1> QED
  BY <1>1, <1>2, <1>3

LEMMA Continues ==
  ASSUME OpInv, UNCHANGED load, NEW t \in GitTasks, op[t].next # 0, NEW seen, Continue(t, seen),
         Current(t) \notin {"commit", "push", "delete", "graph", "graphIfMoved", "build"}
  PROVE  /\ OpInv' /\ op'[t].next = op[t].next + 1 /\ op'[t].left = op[t].left
         /\ Current(t)' = Series(op[t].left[1])[op[t].next + 1]
         /\ \A u \in GitTasks : u # t => op'[u] = op[u] /\ Current(u)' = Current(u)
<1> DEFINE new == [left |-> op[t].left, next |-> op[t].next + 1, seen |-> seen]
<1>1. op[t] = [left |-> op[t].left, next |-> op[t].next, seen |-> op[t].seen]
  BY DEF OpInv, OpRecord
<1>2. op' = [op EXCEPT ![t] = new]
  <2>1. op'[t] = new /\ \A u \in GitTasks : u # t => op'[u] = op[u]
    BY <1>1 DEF Continue, OpInv
  <2>2. op' = [u \in GitTasks |-> op'[u]]
    BY DEF Continue, OpInv
  <2> QED
    BY <2>1, <2>2 DEF OpInv
<1>3. OpRecord(new)
  <2>1. op[t].next + 1 \in 1 .. Len(Series(op[t].left[1]))
    BY CurrentIs
  <2> QED
    BY <2>1, CurrentOf DEF OpRecord
<1>4. \A i \in DOMAIN new.left : \E j \in DOMAIN load.ops[t] : load.ops[t][j] = new.left[i]
  BY DEF OpInv
<1>5. new.left = op[t].left /\ new.next = op[t].next + 1
  OBVIOUS
<1> HIDE DEF new
<1>6. /\ OpInv' /\ op'[t] = new
      /\ \A u \in GitTasks : u # t => op'[u] = op[u] /\ Current(u)' = Current(u)
  BY <1>2, <1>3, <1>4, OpMoves
<1> QED
  BY <1>5, <1>6 DEF Current

LEMMA FinishesGit ==
  ASSUME OpInv, UNCHANGED load, NEW t \in GitTasks, op[t].next # 0, NEW how, FinishGit(t, how)
  PROVE  /\ OpInv' /\ op'[t].next = 0 /\ results' = results \cup {<<op[t].left[1], how>>}
         /\ \A u \in GitTasks : u # t => op'[u] = op[u] /\ Current(u)' = Current(u)
<1> DEFINE new == [left |-> Tail(op[t].left), next |-> 0, seen |-> {}]
<1>2. op' = [op EXCEPT ![t] = new]
  BY DEF FinishGit, OpInv
<1>3. OpRecord(new)
  BY CurrentOf DEF OpRecord
<1>4. \A i \in DOMAIN new.left : \E j \in DOMAIN load.ops[t] : load.ops[t][j] = new.left[i]
  <2>1. \A i \in DOMAIN Tail(op[t].left) : i + 1 \in DOMAIN op[t].left /\ Tail(op[t].left)[i] = op[t].left[i + 1]
    BY CurrentOf
  <2> QED
    BY <2>1 DEF OpInv
<1>5. new.next = 0
  OBVIOUS
<1> HIDE DEF new
<1>6. /\ OpInv' /\ op'[t] = new
      /\ \A u \in GitTasks : u # t => op'[u] = op[u] /\ Current(u)' = Current(u)
  BY <1>2, <1>3, <1>4, OpMoves
<1> QED
  BY <1>5, <1>6 DEF FinishGit

-----------------------------------------------------------------------------
(***************************************************************************)
(* What git does with a tree: branches grow, it stays whole.               *)
(***************************************************************************)
GrownTo(r) ==
  /\ r = [there |-> r.there, whole |-> r.whole, head |-> r.head, branches |-> r.branches,
          dirty |-> r.dirty, staged |-> r.staged, merging |-> r.merging]
  /\ r.there = repo.there /\ r.whole = repo.whole /\ r.head \in Branches
  /\ r.branches = [b \in Branches |-> r.branches[b]] /\ \A b \in Branches : repo.branches[b] \subseteq r.branches[b]
  /\ HeadOf(r) # {}

LEMMA OnBranchGrows ==
  ASSUME TreeShape, NEW b \in Branches, NEW changes, repo.branches[b] \subseteq changes, changes # {}
  PROVE  LET r == OnBranch(b, changes) IN
         /\ GrownTo(r) /\ r.staged = repo.staged /\ r.dirty = repo.dirty /\ HeadOf(r) = changes
<1> DEFINE r == OnBranch(b, changes)
           bs == [repo.branches EXCEPT ![b] = changes]
<1>1. /\ bs = [d \in Branches |-> bs[d]] /\ bs[b] = changes /\ \A d \in Branches : repo.branches[d] \subseteq bs[d]
  BY DEF TreeShape
<1>2. r = [there |-> repo.there, whole |-> repo.whole, head |-> b, branches |-> bs,
           dirty |-> repo.dirty, staged |-> repo.staged, merging |-> repo.merging]
  <2> DEFINE one == [repo EXCEPT !.head = b]
  <2>1. one = [there |-> repo.there, whole |-> repo.whole, head |-> b, branches |-> repo.branches,
               dirty |-> repo.dirty, staged |-> repo.staged, merging |-> repo.merging]
    BY DEF TreeShape
  <2>3. one.branches = repo.branches
    BY <2>1
  <2>4. r = [one EXCEPT !.branches = bs]
    BY <2>3 DEF OnBranch
  <2> HIDE DEF one, bs, r
  <2>2. [one EXCEPT !.branches = bs] = [there |-> repo.there, whole |-> repo.whole, head |-> b, branches |-> bs,
                 dirty |-> repo.dirty, staged |-> repo.staged, merging |-> repo.merging]
    BY <2>1
  <2> QED
    BY <2>2, <2>4
<1> HIDE DEF bs, r
<1>3. /\ r = [there |-> r.there, whole |-> r.whole, head |-> r.head, branches |-> r.branches,
              dirty |-> r.dirty, staged |-> r.staged, merging |-> r.merging]
      /\ r.there = repo.there /\ r.whole = repo.whole /\ r.head = b /\ r.branches = bs
      /\ r.dirty = repo.dirty /\ r.staged = repo.staged
  BY <1>2
<1>4. HeadOf(r) = changes
  BY <1>1, <1>3 DEF HeadOf
<1>5. GrownTo(r)
  BY <1>1, <1>3, <1>4 DEF GrownTo
<1> QED
  BY <1>3, <1>4, <1>5 DEF r

\* A command that is done, with what it may have done.
GitDid(t) ==
  /\ GrownTo(repo') /\ repo'.dirty \subseteq {"f", "g"}
  /\ \/ repo'.staged = repo.staged
     \/ Current(t) = "commit" /\ repo'.staged = {}
     \/ Current(t) = "add" /\ repo'.staged \subseteq {"f", "g"}
  /\ remote' = [b \in Branches |-> remote'[b]] /\ remote["main"] \subseteq remote'["main"]
  /\ \/ commits' = commits
     \/ /\ Current(t) = "commit" /\ repo.staged # {} /\ \E b \in Branches : t \in repo'.branches[b]
        /\ commits' = commits \cup {[by |-> t, files |-> repo.staged]}
  /\ \/ \E how : FinishGit(t, how)
     \/ /\ results' = results /\ Current(t) \notin {"commit", "push", "delete", "graph", "graphIfMoved", "build"}
        /\ Current(t) = "exceeds" => repo.staged \subseteq Selected(t)
        /\ \E seen : Continue(t, seen)

LEMMA RefusedDid ==
  ASSUME TreeShape, HeadOf(repo) # {}, NEW t, NEW how, GitRefused(t, how)
  PROVE  GitDid(t)
<1>1. FinishGit(t, how) /\ UNCHANGED <<repo, remote, commits>>
  BY DEF GitRefused
<1>2. GrownTo(repo)
  BY DEF GrownTo, TreeShape
<1>3. GrownTo(repo')
  BY <1>1, <1>2
<1> QED
  BY <1>1, <1>3 DEF GitDid, TreeShape

LEMMA SucceedsDid ==
  ASSUME TreeShape, NEW t, NEW new, Succeeds(t, new), GrownTo(new), new.dirty \subseteq {"f", "g"},
         new.staged = repo.staged \/ (Current(t) = "add" /\ new.staged \subseteq {"f", "g"}),
         Current(t) \notin {"commit", "push", "delete", "graph", "graphIfMoved", "build"},
         Current(t) = "exceeds" => repo.staged \subseteq Selected(t)
  PROVE  GitDid(t)
<1>1. Continue(t, op[t].seen) /\ repo' = new /\ UNCHANGED <<remote, results, commits>>
  BY DEF Succeeds
<1>2. GrownTo(repo')
  BY <1>1
<1> QED
  BY <1>1, <1>2 DEF GitDid, TreeShape

NotLast == {"clean", "read", "fetch", "pull", "pullMain", "checkoutMain", "checkoutFeature", "feature", "mergeMain",
            "mergeOrigin", "mergeFeature"}

LEMMA GrownIsDone ==
  ASSUME TreeShape, HeadOf(repo) # {}, NEW t, Current(t) \in NotLast,
         NEW b \in Branches, NEW changes, repo.branches[b] \subseteq changes, changes # {},
         Succeeds(t, OnBranch(b, changes))
  PROVE  GitDid(t)
<1>1. LET r == OnBranch(b, changes) IN GrownTo(r) /\ r.staged = repo.staged /\ r.dirty = repo.dirty
  BY OnBranchGrows
<1>2. repo.dirty \subseteq {"f", "g"}
  BY DEF TreeShape
<1> DEFINE r == OnBranch(b, changes)
<1>3. GrownTo(r) /\ r.staged = repo.staged /\ r.dirty \subseteq {"f", "g"} /\ Succeeds(t, r)
  BY <1>1, <1>2
<1> HIDE DEF r
<1> QED
  BY <1>3, SucceedsDid DEF NotLast

LEMMA SameIsDone ==
  ASSUME TreeShape, HeadOf(repo) # {}, NEW t, Succeeds(t, repo),
         Current(t) \notin {"commit", "push", "delete", "graph", "graphIfMoved", "build"},
         Current(t) = "exceeds" => repo.staged \subseteq Selected(t)
  PROVE  GitDid(t)
<1>1. GrownTo(repo)
  BY DEF GrownTo, TreeShape
<1>2. repo.dirty \subseteq {"f", "g"}
  BY DEF TreeShape
<1> QED
  BY <1>1, <1>2, SucceedsDid

LEMMA MergesDid ==
  ASSUME TreeShape, HeadOf(repo) # {}, NEW t, Current(t) \in NotLast, NEW theirs, Merges(t, theirs)
  PROVE  GitDid(t)
<1>1. CASE theirs = {} /\ Succeeds(t, repo)
  BY <1>1, SameIsDone DEF NotLast
<1>2. CASE repo.merging /\ GitRefused(t, "error")
  BY <1>2, RefusedDid
<1>3. CASE Succeeds(t, OnBranch(repo.head, HeadOf(repo) \cup theirs))
  <2>1. repo.head \in Branches /\ repo.branches[repo.head] \subseteq HeadOf(repo) \cup theirs
        /\ HeadOf(repo) \cup theirs # {}
    BY DEF TreeShape, HeadOf
  <2> QED
    BY <1>3, <2>1, GrownIsDone
<1>4. CASE repo' = [repo EXCEPT !.merging = TRUE] /\ FinishGit(t, "conflict") /\ UNCHANGED <<remote, commits>>
  <2> DEFINE r == [repo EXCEPT !.merging = TRUE]
  <2>1. r = [there |-> repo.there, whole |-> repo.whole, head |-> repo.head, branches |-> repo.branches,
             dirty |-> repo.dirty, staged |-> repo.staged, merging |-> TRUE]
    <3>1. \A v : [repo EXCEPT !.merging = v] =
            [there |-> repo.there, whole |-> repo.whole, head |-> repo.head, branches |-> repo.branches,
             dirty |-> repo.dirty, staged |-> repo.staged, merging |-> v]
      BY DEF TreeShape
    <3> QED
      BY <3>1
  <2> HIDE DEF r
  <2>2. /\ r = [there |-> r.there, whole |-> r.whole, head |-> r.head, branches |-> r.branches,
                dirty |-> r.dirty, staged |-> r.staged, merging |-> r.merging]
        /\ r.there = repo.there /\ r.whole = repo.whole /\ r.head = repo.head /\ r.branches = repo.branches
        /\ r.dirty = repo.dirty /\ r.staged = repo.staged
    BY <2>1
  <2>3. GrownTo(r)
    BY <2>2 DEF GrownTo, TreeShape, HeadOf
  <2>4. GrownTo(repo') /\ repo'.dirty = repo.dirty /\ repo'.staged = repo.staged
    BY <1>4, <2>2, <2>3 DEF r
  <2> QED
    BY <1>4, <2>4 DEF GitDid, TreeShape
<1> QED
  BY <1>1, <1>2, <1>3, <1>4 DEF Merges

LEMMA PullsDid ==
  ASSUME TreeShape, HeadOf(repo) # {}, NEW t, Current(t) \in NotLast, NEW b, PullsFrom(t, b)
  PROVE  GitDid(t)
<1>1. CASE GitRefused(t, "error")
  BY <1>1, RefusedDid
<1>2. CASE /\ ~Diverged(HeadOf(repo), remote[b])
           /\ Succeeds(t, OnBranch(repo.head, FastForward(HeadOf(repo), remote[b])))
  <2>1. repo.head \in Branches /\ repo.branches[repo.head] \subseteq FastForward(HeadOf(repo), remote[b])
        /\ FastForward(HeadOf(repo), remote[b]) # {}
    BY <1>2 DEF TreeShape, HeadOf, FastForward, Diverged
  <2> QED
    BY <1>2, <2>1, GrownIsDone
<1> QED
  BY <1>1, <1>2 DEF PullsFrom

LEMMA SwitchedDid ==
  ASSUME TreeShape, HeadOf(repo) # {}, NEW t, Current(t) \in NotLast, NEW b \in Branches, Switchable(b),
         Succeeds(t, Switched(b))
  PROVE  GitDid(t)
<1> DEFINE changes == IF repo.branches[b] # {} THEN repo.branches[b] ELSE remote[b]
<1>1. repo.branches[b] \subseteq changes /\ changes # {} /\ Succeeds(t, OnBranch(b, changes))
  BY DEF Switchable, Switched
<1> HIDE DEF changes
<1> QED
  BY <1>1, GrownIsDone

LEMMA CommitsDid ==
  ASSUME TreeShape, HeadOf(repo) # {}, NEW t, Current(t) = "commit", Commits(t)
  PROVE  GitDid(t)
<1>1. CASE GitRefused(t, "error")
  BY <1>1, RefusedDid
<1>2. CASE /\ repo.staged # {} /\ repo' = [OnBranch(repo.head, HeadOf(repo) \cup {t}) EXCEPT !.staged = {}]
           /\ commits' = commits \cup {[by |-> t, files |-> repo.staged]}
           /\ FinishGit(t, "committed") /\ UNCHANGED remote
  <2> DEFINE r == OnBranch(repo.head, HeadOf(repo) \cup {t})
             new == [r EXCEPT !.staged = {}]
  <2>1. /\ GrownTo(r) /\ r.dirty = repo.dirty /\ HeadOf(r) = HeadOf(repo) \cup {t}
    <3>1. repo.head \in Branches /\ repo.branches[repo.head] \subseteq HeadOf(repo) \cup {t} /\ HeadOf(repo) \cup {t} # {}
      BY DEF TreeShape, HeadOf
    <3> QED
      BY <3>1, OnBranchGrows
  <2>2. repo' = new
    BY <1>2
  <2> HIDE DEF r
  <2>3. new = [there |-> r.there, whole |-> r.whole, head |-> r.head, branches |-> r.branches,
               dirty |-> r.dirty, staged |-> {}, merging |-> r.merging]
    BY <2>1 DEF GrownTo
  <2> HIDE DEF new
  <2>4. /\ new = [there |-> new.there, whole |-> new.whole, head |-> new.head, branches |-> new.branches,
                  dirty |-> new.dirty, staged |-> new.staged, merging |-> new.merging]
        /\ new.there = r.there /\ new.whole = r.whole /\ new.head = r.head /\ new.branches = r.branches
        /\ new.dirty = r.dirty /\ new.staged = {}
    BY <2>3
  <2>5. GrownTo(new)
    BY <2>1, <2>4 DEF GrownTo, HeadOf
  <2>6. \E b \in Branches : t \in new.branches[b]
    <3>1. new.head \in Branches /\ t \in new.branches[new.head]
      BY <2>1, <2>4, <2>5 DEF GrownTo, HeadOf
    <3> QED
      BY <3>1
  <2>7. GrownTo(repo') /\ repo'.dirty = repo.dirty /\ repo'.staged = {} /\ \E b \in Branches : t \in repo'.branches[b]
    BY <2>1, <2>2, <2>4, <2>5, <2>6
  <2> QED
    BY <1>2, <2>7 DEF GitDid, TreeShape
<1> QED
  BY <1>1, <1>2 DEF Commits

LEMMA GitDoes ==
  ASSUME TreeShape, HeadOf(repo) # {}, repo.branches["main"] # {}, NEW t, Current(t) \in GitCommands, Git(t)
  PROVE  GitDid(t)
<1>1. CASE Current(t) \in {"clean", "fetch"}
  <2>1. Succeeds(t, repo) \/ GitRefused(t, "dirty")
    BY <1>1 DEF Git
  <2> QED
    BY <1>1, <2>1, SameIsDone, RefusedDid
<1>2. CASE Current(t) = "read"
  <2>1. Continue(t, HeadOf(repo)) /\ UNCHANGED <<repo, remote, results, commits>>
    BY <1>2 DEF Git
  <2>2. GrownTo(repo)
    BY DEF GrownTo, TreeShape
  <2>3. GrownTo(repo')
    BY <2>1, <2>2
  <2> QED
    BY <1>2, <2>1, <2>3 DEF GitDid, TreeShape
<1>3. CASE Current(t) \in {"pull", "pullMain"}
  <2>1. PullsFrom(t, repo.head) \/ PullsFrom(t, "main")
    BY <1>3 DEF Git
  <2> QED
    BY <1>3, <2>1, PullsDid DEF NotLast
<1>4. CASE Current(t) \in {"checkoutMain", "checkoutFeature"}
  <2>1. \/ GitRefused(t, "error")
        \/ \E b \in Branches : Switchable(b) /\ Succeeds(t, Switched(b))
    BY <1>4 DEF Git, Branches
  <2> QED
    BY <1>4, <2>1, RefusedDid, SwitchedDid DEF NotLast
<1>5. CASE Current(t) = "feature"
  <2>1. CASE repo.merging
    BY <1>5, <2>1, RefusedDid DEF Git
  <2>2. CASE ~repo.merging /\ Switchable("feature")
    BY <1>5, <2>2, SwitchedDid DEF Git, NotLast, Branches
  <2>3. CASE ~repo.merging /\ ~Switchable("feature")
    <3>1. Succeeds(t, OnBranch("feature", repo.branches["main"])) /\ repo.branches["feature"] = {}
      BY <1>5, <2>3 DEF Git, Switchable
    <3> QED
      BY <1>5, <3>1, GrownIsDone DEF NotLast, Branches
  <2> QED
    BY <2>1, <2>2, <2>3
<1>6. CASE Current(t) \in {"mergeMain", "mergeOrigin", "mergeFeature"}
  <2>1. \E theirs : Merges(t, theirs)
    BY <1>6 DEF Git
  <2> QED
    BY <1>6, <2>1, MergesDid DEF NotLast
<1>7. CASE Current(t) \in {"unrelated", "exceeds"}
  <2>1. \/ GitRefused(t, "unrelated") \/ GitRefused(t, "nothing")
        \/ Exceeding(t) = {} /\ Succeeds(t, repo)
    BY <1>7 DEF Git
  <2>2. Exceeding(t) = {} => repo.staged \subseteq Selected(t)
    BY DEF Exceeding
  <2> QED
    BY <1>7, <2>1, <2>2, SameIsDone, RefusedDid
<1>8. CASE Current(t) = "add"
  <2> DEFINE st == repo.staged \cup (repo.dirty \cap Selected(t))
             di == repo.dirty \ Selected(t)
             new == [repo EXCEPT !.staged = st, !.dirty = di]
  <2>1. Succeeds(t, new)
    BY <1>8 DEF Git
  <2>2. st \subseteq {"f", "g"} /\ di \subseteq {"f", "g"}
    BY DEF TreeShape
  <2> HIDE DEF st, di
  <2>3. new = [there |-> repo.there, whole |-> repo.whole, head |-> repo.head, branches |-> repo.branches,
               dirty |-> di, staged |-> st, merging |-> repo.merging]
    <3> DEFINE one == [repo EXCEPT !.staged = st]
    <3>1. one = [there |-> repo.there, whole |-> repo.whole, head |-> repo.head, branches |-> repo.branches,
                 dirty |-> repo.dirty, staged |-> st, merging |-> repo.merging]
      BY DEF TreeShape
    <3>2. new = [one EXCEPT !.dirty = di]
      OBVIOUS
    <3> HIDE DEF one, new
    <3>3. [one EXCEPT !.dirty = di]
            = [there |-> repo.there, whole |-> repo.whole, head |-> repo.head, branches |-> repo.branches,
               dirty |-> di, staged |-> st, merging |-> repo.merging]
      BY <3>1
    <3> QED
      BY <3>2, <3>3
  <2> HIDE DEF new
  <2>4. /\ new = [there |-> new.there, whole |-> new.whole, head |-> new.head, branches |-> new.branches,
                  dirty |-> new.dirty, staged |-> new.staged, merging |-> new.merging]
        /\ new.there = repo.there /\ new.whole = repo.whole /\ new.head = repo.head /\ new.branches = repo.branches
        /\ new.dirty = di /\ new.staged = st
    BY <2>3
  <2>5. GrownTo(new)
    BY <2>4 DEF GrownTo, TreeShape, HeadOf
  <2> QED
    BY <1>8, <2>1, <2>2, <2>4, <2>5, SucceedsDid
<1>9. CASE Current(t) = "commit"
  <2>1. Commits(t)
    BY <1>9 DEF Git
  <2> QED
    BY <1>9, <2>1, CommitsDid
<1>10. CASE Current(t) = "push"
  <2>1. CASE GitRefused(t, "rejected")
    BY <2>1, RefusedDid
  <2>2. CASE /\ remote[repo.head] \subseteq HeadOf(repo) /\ remote' = [remote EXCEPT ![repo.head] = HeadOf(repo)]
             /\ FinishGit(t, "pushed") /\ UNCHANGED <<repo, commits>>
    <3>1. GrownTo(repo)
      BY DEF GrownTo, TreeShape
    <3>2. GrownTo(repo')
      BY <2>2, <3>1
    <3>3. remote' = [b \in Branches |-> remote'[b]] /\ remote["main"] \subseteq remote'["main"]
      BY <2>2 DEF TreeShape, Branches
    <3> QED
      BY <2>2, <3>2, <3>3 DEF GitDid, TreeShape
  <2> QED
    BY <1>10, <2>1, <2>2 DEF Git
<1> QED
  BY <1>1, <1>2, <1>3, <1>4, <1>5, <1>6, <1>7, <1>8, <1>9, <1>10 DEF GitCommands

-----------------------------------------------------------------------------
(***************************************************************************)
(* What a step keeps that leaves a part of the state alone.                *)
(***************************************************************************)
\* Builders go on as they were, unless the graph is no longer asked for.
LEMMA BuildersStay ==
  ASSUME GitInv, UNCHANGED <<graphBuild, worker, graph, mixedCommit>>,
         \A u \in GitTasks : graphBuild[u].at # "none" => op'[u] = op[u] /\ Current(u)' = Current(u),
         wanted' = wanted \/ wanted' = [wanted EXCEPT !.asked = FALSE],
         wanted'.asked => wanted' = wanted /\ repo'.there = repo.there /\ HeadOf(repo') = HeadOf(repo)
  PROVE  BuildShape' /\ BuilderInv' /\ GraphInv' /\ WantedInv'
<1>1. wanted' = [asked |-> wanted'.asked, head |-> wanted'.head]
  <2>1. CASE wanted' = wanted
    BY <2>1 DEF GitInv, BuildShape
  <2>2. CASE wanted' = [wanted EXCEPT !.asked = FALSE]
    <3>1. \A v : [wanted EXCEPT !.asked = v] = [asked |-> v, head |-> wanted.head]
      BY DEF GitInv, BuildShape
    <3>2. \A w, v, h : w = [asked |-> v, head |-> h] => w = [asked |-> w.asked, head |-> w.head]
      OBVIOUS
    <3>3. \E v : wanted' = [wanted EXCEPT !.asked = v]
      BY <2>2, Zenon
    <3> QED
      BY <3>1, <3>2, <3>3
  <2> QED
    BY <2>1, <2>2
<1>2. BuildShape'
  BY <1>1 DEF GitInv, BuildShape
<1>3. BuilderInv'
  BY DEF GitInv, BuilderInv, Busy
<1>4. GraphInv'
  BY DEF GitInv, GraphInv
<1>5. WantedInv'
  <2> SUFFICES ASSUME wanted'.asked
               PROVE  WantedInv'
    BY DEF WantedInv
  <2>1. wanted' = wanted /\ repo'.there = repo.there /\ HeadOf(repo') = HeadOf(repo)
    OBVIOUS
  <2>2. repo'.there /\ HeadOf(repo') = wanted'.head /\ (Pending \/ Served)
    BY <2>1 DEF GitInv, WantedInv
  <2>3. (Pending \/ Served)'
    BY <2>1, <2>2 DEF Pending, Served, Fresh, Busy
  <2> QED
    BY <2>2, <2>3 DEF WantedInv
<1> QED
  BY <1>2, <1>3, <1>4, <1>5

LEMMA ResultsStay ==
  ASSUME results \subseteq results'
  PROVE  (Abandoned => Abandoned') /\ (RemovalTried => RemovalTried') /\ (RemovalFailed => RemovalFailed')
BY DEF Abandoned, RemovalTried, RemovalFailed

\* The only committer of a workload.
LEMMA AloneIsOne ==
  ASSUME Alone, NEW t \in GitTasks, NEW u \in GitTasks, \E i \in DOMAIN load.ops[t] : load.ops[t][i] = "commit",
         \E i \in DOMAIN load.ops[u] : load.ops[u][i] = "commit"
  PROVE  t = u
<1> DEFINE S == {x \in GitTasks : "commit" \in {load.ops[x][i] : i \in DOMAIN load.ops[x]}}
<1>1. t \in S /\ u \in S /\ S \subseteq GitTasks /\ Cardinality(S) <= 1
  BY DEF Alone
<1> HIDE DEF S
<1>2. IsFiniteSet(S) /\ Cardinality(S) \in Nat
  BY <1>1, FS_Subset, FS_CardinalityType, GitAssumption
<1>3. Cardinality(S) = 0 => S = {}
  BY <1>2, FS_EmptySet
<1>4. Cardinality(S) = 1
  BY <1>1, <1>2, <1>3
<1>5. \E x : S = {x}
  BY <1>2, <1>4, FS_Singleton
<1> QED
  BY <1>1, <1>5

LEMMA CommitsStay ==
  ASSUME GitInv, UNCHANGED <<load, commits>>, results \subseteq results',
         \/ repo'.there = repo.there /\ repo'.branches = repo.branches
         \/ repo'.there /\ ~repo.there
         \/ RemovalTried',
         repo'.staged = repo.staged \/ repo'.staged = {},
         \A u \in GitTasks : op'[u].next # 0 /\ Current(u)' = "commit" => op[u].next # 0 /\ Current(u) = "commit"
  PROVE  CommitInv'
<1>1. \/ RemovalTried'
      \/ /\ commits' # {} => repo'.there
         /\ \A c \in commits' : \E b \in Branches : c.by \in repo'.branches[b]
  <2>1. CASE RemovalTried'
    BY <2>1
  <2>2. CASE ~RemovalTried'
    <3>1. /\ commits # {} => repo.there
          /\ \A c \in commits : \E b \in Branches : c.by \in repo.branches[b]
      BY <2>2, ResultsStay DEF GitInv, CommitInv
    <3> QED
      BY <2>2, <3>1
  <2> QED
    BY <2>1, <2>2
<1>2. Alone' <=> Alone
  BY DEF Alone
<1>3. \A u : Selected(u)' = Selected(u)
  BY DEF Selected
<1>4. Alone => \A c \in commits' : c.files # {} /\ c.files \subseteq Selected(c.by)
  BY DEF GitInv, CommitInv
<1>5. Alone => \A u \in GitTasks : op'[u].next # 0 /\ Current(u)' = "commit" => repo'.staged \subseteq Selected(u)
  BY DEF GitInv, CommitInv
<1>6. Alone' => \A c \in commits' : c.files # {} /\ c.files \subseteq Selected(c.by)'
  BY <1>2, <1>4 DEF Selected
<1>7. Alone' => \A u \in GitTasks : op'[u].next # 0 /\ Current(u)' = "commit" => repo'.staged \subseteq Selected(u)'
  BY <1>2, <1>3, <1>5
<1> QED
  BY <1>1, <1>6, <1>7 DEF CommitInv

\* The operation of t ends, or is to have another command, before it commits.
LEMMA StagingStays ==
  ASSUME GitInv, staging' \subseteq staging, results \subseteq results',
         \A u \in staging' : \/ op'[u] = op[u] \/ op[u].next = 0 \/ Abandoned'
                             \/ Current(u) \notin {"clone", "rename"}
                             \/ op'[u].next = 3 /\ op'[u].left = op[u].left
  PROVE  \A u \in staging' : \/ op'[u].next \in {2, 3} /\ op'[u].left[1] = "clone"
                             \/ Abandoned'
<1> SUFFICES ASSUME NEW u \in staging', ~Abandoned'
             PROVE  op'[u].next \in {2, 3} /\ op'[u].left[1] = "clone"
  OBVIOUS
<1>1. u \in GitTasks /\ op[u].next \in {2, 3} /\ op[u].left[1] = "clone"
  BY ResultsStay DEF GitInv, TreeInv, TreeShape
<1>2. Current(u) \in {"clone", "rename"}
  <2>1. "clone" \in Ops /\ op[u].next \in 1 .. Len(Series("clone")) /\ Current(u) = Series("clone")[op[u].next]
    BY <1>1, CurrentOf DEF GitInv
  <2> QED
    BY <1>1, CurrentIs DEF GitInv
<1> QED
  BY <1>1, <1>2

-----------------------------------------------------------------------------
(***************************************************************************)
(* The steps.                                                              *)
(***************************************************************************)
LEMMA SeriesBegin ==
  ASSUME NEW o \in Ops
  PROVE  1 \in 1 .. Len(Series(o)) /\ Series(o)[1] # "commit"
<1>1. CASE o = "clone"
  BY <1>1 DEF Series
<1>2. CASE o = "pull"
  BY <1>2 DEF Series
<1>3. CASE o \in {"checkoutMain", "checkoutFeature"}
  BY <1>3 DEF Series
<1>4. CASE o = "prepare"
  BY <1>4 DEF Series
<1>5. CASE o = "sync"
  BY <1>5 DEF Series
<1>6. CASE o = "commit"
  BY <1>6 DEF Series
<1>7. CASE o = "push"
  BY <1>7 DEF Series
<1>8. CASE o = "remove"
  BY <1>8 DEF Series
<1>9. CASE o = "build"
  BY <1>9 DEF Series
<1> QED
  BY <1>1, <1>2, <1>3, <1>4, <1>5, <1>6, <1>7, <1>8, <1>9 DEF Ops

LEMMA BeginKeeps ==
  ASSUME GitInv, NEW t \in GitTasks, BeginGit(t)
  PROVE  GitInv'
<1>1. /\ op[t].left # <<>> /\ op[t].next = 0 /\ op' = [op EXCEPT ![t].next = 1]
      /\ UNCHANGED <<load, remote, staging, results, commits, graphBuild, graph, worker, wanted, mixedCommit, mishaps>>
  BY DEF BeginGit
<1> DEFINE new == [left |-> op[t].left, next |-> 1, seen |-> op[t].seen]
<1>2. OpRecord(op[t])
  BY DEF GitInv, OpInv
<1>3. op[t].left \in Seq(Ops) /\ op[t].left[1] \in Ops
  BY <1>1, <1>2 DEF OpRecord
<1>4. op' = [op EXCEPT ![t] = new]
  <2>1. op'[t] = new /\ \A u \in GitTasks : u # t => op'[u] = op[u]
    BY <1>1, <1>2 DEF OpRecord, GitInv, OpInv
  <2>2. op' = [u \in GitTasks |-> op'[u]]
    BY <1>1 DEF GitInv, OpInv
  <2> QED
    BY <2>1, <2>2 DEF GitInv, OpInv
<1>5. OpRecord(new)
  BY <1>1, <1>3, SeriesBegin DEF OpRecord
<1>6. \A i \in DOMAIN new.left : \E j \in DOMAIN load.ops[t] : load.ops[t][j] = new.left[i]
  BY DEF GitInv, OpInv
<1>7. new.left = op[t].left /\ new.next = 1
  OBVIOUS
<1> HIDE DEF new
<1>8. OpInv /\ UNCHANGED load
  BY <1>1 DEF GitInv
<1>9. /\ OpInv' /\ op'[t] = new
      /\ \A u \in GitTasks : u # t => op'[u] = op[u] /\ Current(u)' = Current(u)
  BY <1>4, <1>5, <1>6, <1>8, OpMoves
<1>10. Current(t)' # "commit"
  BY <1>3, <1>7, <1>9, SeriesBegin DEF Current
<1>11. /\ repo' = [there |-> repo'.there, whole |-> repo'.whole, head |-> repo'.head, branches |-> repo'.branches,
                   dirty |-> repo'.dirty, staged |-> repo'.staged, merging |-> repo'.merging]
       /\ repo'.there = repo.there /\ repo'.whole = repo.whole /\ repo'.head = repo.head
       /\ repo'.branches = repo.branches /\ repo'.staged = repo.staged /\ repo'.dirty \subseteq {"f", "g"}
  <2>1. repo' = repo \/ repo' = [repo EXCEPT !.dirty = repo.dirty \cup Selected(t)]
    BY DEF BeginGit
  <2>2. CASE repo' = repo
    BY <2>2 DEF GitInv, TreeShape
  <2>3. CASE repo' = [repo EXCEPT !.dirty = repo.dirty \cup Selected(t)]
    <3>1. Selected(t) \subseteq {"f", "g"}
      BY GitAssumption DEF Selected, GitInv, OpInv
    <3> DEFINE di == repo.dirty \cup Selected(t)
    <3>2. di \subseteq {"f", "g"}
      BY <3>1 DEF GitInv, TreeShape
    <3>3. repo' = [repo EXCEPT !.dirty = di]
      BY <2>3
    <3> HIDE DEF di
    <3>4. repo' = [there |-> repo.there, whole |-> repo.whole, head |-> repo.head, branches |-> repo.branches,
                   dirty |-> di, staged |-> repo.staged, merging |-> repo.merging]
      BY <3>3 DEF GitInv, TreeShape
    <3> QED
      BY <3>2, <3>4
  <2> QED
    BY <2>1, <2>2, <2>3
<1>12. HeadOf(repo') = HeadOf(repo)
  BY <1>11 DEF HeadOf
<1>13. TreeShape'
  BY <1>1, <1>11 DEF GitInv, TreeShape
<1>14. TreeInv'
  <2>1. \A u \in staging' : \/ op'[u].next \in {2, 3} /\ op'[u].left[1] = "clone"
                            \/ Abandoned'
    <3>1. \A u \in staging' : op'[u] = op[u] \/ op[u].next = 0
      BY <1>1, <1>9 DEF GitInv, TreeShape
    <3> QED
      BY <1>1, <3>1, StagingStays
  <2> QED
    BY <1>1, <1>11, <1>12, <2>1, ResultsStay DEF GitInv, TreeInv
<1>15. CommitInv'
  <2>1. \A u \in GitTasks : op'[u].next # 0 /\ Current(u)' = "commit" => op[u].next # 0 /\ Current(u) = "commit"
    BY <1>9, <1>10
  <2> QED
    BY <1>1, <1>11, <2>1, CommitsStay
<1>16. BuildShape' /\ BuilderInv' /\ GraphInv' /\ WantedInv'
  <2>1. graphBuild[t].at = "none"
    BY <1>1 DEF GitInv, BuilderInv
  <2>2. \A u \in GitTasks : graphBuild[u].at # "none" => op'[u] = op[u] /\ Current(u)' = Current(u)
    BY <1>9, <2>1
  <2> QED
    BY <1>1, <1>11, <1>12, <2>2, BuildersStay
<1> QED
  BY <1>9, <1>13, <1>14, <1>15, <1>16 DEF GitInv

\* A git command, whatever it does.
LEMMA DidKeeps ==
  ASSUME GitInv, NEW t \in GitTasks, op[t].next # 0, Current(t) \in GitCommands, repo.there, repo.whole, GitDid(t),
         UNCHANGED <<load, staging, graphBuild, graph, worker, mixedCommit>>, mishaps' \in 0 .. MaxMishaps,
         wanted' = IF HeadOf(repo') = HeadOf(repo) THEN wanted ELSE [wanted EXCEPT !.asked = FALSE]
  PROVE  GitInv'
<1>1. /\ OpInv' /\ results \subseteq results'
      /\ \A u \in GitTasks : u # t => op'[u] = op[u] /\ Current(u)' = Current(u)
      /\ op'[t].next # 0 => /\ op'[t].next = op[t].next + 1 /\ op'[t].left = op[t].left
                           /\ Current(t)' = Series(op[t].left[1])[op[t].next + 1]
                           /\ Current(t) \notin {"commit", "push", "delete", "graph", "graphIfMoved", "build"}
                           /\ (Current(t) = "exceeds" => repo.staged \subseteq Selected(t))
  <2>1. CASE \E how : FinishGit(t, how)
    BY <2>1, FinishesGit DEF GitInv
  <2>2. CASE /\ results' = results /\ Current(t) \notin {"commit", "push", "delete", "graph", "graphIfMoved", "build"}
             /\ Current(t) = "exceeds" => repo.staged \subseteq Selected(t)
             /\ \E seen : Continue(t, seen)
    BY <2>2, Continues DEF GitInv
  <2> QED
    BY <2>1, <2>2 DEF GitDid
<1>2. GrownTo(repo') /\ repo'.dirty \subseteq {"f", "g"} /\ repo'.staged \subseteq {"f", "g"}
      /\ remote' = [b \in Branches |-> remote'[b]] /\ remote["main"] \subseteq remote'["main"]
  BY DEF GitDid, GitInv, TreeShape
<1>3. TreeShape'
  BY <1>2 DEF GrownTo, GitInv, TreeShape
<1>4. TreeInv'
  <2>1. \A u \in staging' : \/ op'[u].next \in {2, 3} /\ op'[u].left[1] = "clone"
                            \/ Abandoned'
    <3>1. \A u \in staging' : op'[u] = op[u] \/ Current(u) \notin {"clone", "rename"}
      BY <1>1 DEF GitInv, TreeShape, GitCommands
    <3> QED
      BY <1>1, <3>1, StagingStays
  <2>2. repo'.there /\ repo'.whole /\ HeadOf(repo') # {} /\ repo'.branches["main"] # {} /\ remote'["main"] # {}
    BY <1>2 DEF GrownTo, GitInv, TreeInv, Branches
  <2> QED
    BY <2>1, <2>2 DEF TreeInv
<1>5. CommitInv'
  <2>1. \/ RemovalTried'
        \/ /\ commits' # {} => repo'.there
           /\ \A c \in commits' : \E b \in Branches : c.by \in repo'.branches[b]
    <3> SUFFICES ASSUME ~RemovalTried'
                 PROVE  \A c \in commits' : \E b \in Branches : c.by \in repo'.branches[b]
      BY <1>2 DEF GrownTo
    <3>1. \A c \in commits : \E b \in Branches : c.by \in repo.branches[b]
      BY <1>1, ResultsStay DEF GitInv, CommitInv
    <3>2. \A c \in commits : \E b \in Branches : c.by \in repo'.branches[b]
      BY <1>2, <3>1 DEF GrownTo
    <3>3. commits' = commits \/ (/\ \E b \in Branches : t \in repo'.branches[b]
                                 /\ commits' = commits \cup {[by |-> t, files |-> repo.staged]})
      BY DEF GitDid
    <3> QED
      BY <3>2, <3>3
  <2>2. Alone' <=> Alone
    BY DEF Alone
  <2>3. \A u : Selected(u)' = Selected(u)
    BY DEF Selected
  <2>4. Current(t) \in {"unrelated", "add", "exceeds", "commit"} => \E i \in DOMAIN load.ops[t] : load.ops[t][i] = "commit"
    BY CurrentOf, CurrentIs DEF GitInv
  <2>5. ASSUME Alone PROVE \A c \in commits' : c.files # {} /\ c.files \subseteq Selected(c.by)
    <3>1. \A c \in commits : c.files # {} /\ c.files \subseteq Selected(c.by)
      BY <2>5 DEF GitInv, CommitInv
    <3>2. Current(t) = "commit" => repo.staged \subseteq Selected(t)
      BY <2>5 DEF GitInv, CommitInv
    <3>3. commits' = commits \/ (Current(t) = "commit" /\ repo.staged # {}
                                  /\ commits' = commits \cup {[by |-> t, files |-> repo.staged]})
      BY DEF GitDid
    <3> QED
      BY <3>1, <3>2, <3>3
  <2>6. ASSUME Alone, NEW u \in GitTasks, op'[u].next # 0, Current(u)' = "commit"
        PROVE  repo'.staged \subseteq Selected(u)
    <3>1. CASE u = t
      <4>1. Current(t)' = Series(op[t].left[1])[op[t].next + 1] /\ op[t].left[1] \in Ops
            /\ op'[t].next = op[t].next + 1 /\ op'[t].left = op[t].left
        BY <1>1, <2>6, <3>1, CurrentOf DEF GitInv
      <4>2. op[t].next + 1 \in 1 .. Len(Series(op[t].left[1])) /\ op[t].next \in Nat
        <5>1. Current(t) \notin {"commit", "push", "delete", "graph", "graphIfMoved", "build"}
          BY <1>1, <2>6, <3>1
        <5> QED
          BY <5>1, CurrentOf, CurrentIs DEF GitInv
      <4>3. op[t].next + 1 = 4 /\ op[t].left[1] = "commit"
        BY <2>6, <3>1, <4>1, <4>2, NextIs
      <4>4. op[t].next = 3
        BY <4>2, <4>3
      <4>5. Current(t) = "exceeds"
        <5>1. op[t].next \in 1 .. Len(Series(op[t].left[1])) /\ Current(t) = Series(op[t].left[1])[op[t].next]
          BY CurrentOf DEF GitInv
        <5> QED
          BY <4>3, <4>4, CurrentIs DEF GitInv
      <4>6. repo'.staged = repo.staged /\ repo.staged \subseteq Selected(t)
        BY <1>1, <2>6, <3>1, <4>5 DEF GitDid
      <4> QED
        BY <3>1, <4>6
    <3>2. CASE u # t
      <4>1. op[u].next # 0 /\ Current(u) = "commit"
        BY <1>1, <2>6, <3>2
      <4>2. repo.staged \subseteq Selected(u)
        BY <2>6, <4>1 DEF GitInv, CommitInv
      <4>3. \E i \in DOMAIN load.ops[u] : load.ops[u][i] = "commit"
        <5>1. op[u].left[1] = "commit"
          BY <4>1, CurrentIs DEF GitInv
        <5> QED
          BY <4>1, <5>1, CurrentOf DEF GitInv
      <4>4. Current(t) \notin {"add", "commit"}
        BY <2>4, <2>6, <3>2, <4>3, AloneIsOne
      <4>5. repo'.staged = repo.staged
        BY <4>4 DEF GitDid
      <4> QED
        BY <4>2, <4>5
    <3> QED
      BY <3>1, <3>2
  <2>7. Alone' => \A c \in commits' : c.files # {} /\ c.files \subseteq Selected(c.by)'
    BY <2>2, <2>5 DEF Selected
  <2>8. Alone' => \A u \in GitTasks : op'[u].next # 0 /\ Current(u)' = "commit" => repo'.staged \subseteq Selected(u)'
    BY <2>2, <2>3, <2>6
  <2> QED
    BY <2>1, <2>7, <2>8 DEF CommitInv
<1>6. BuildShape' /\ BuilderInv' /\ GraphInv' /\ WantedInv'
  <2>1. graphBuild[t].at = "none"
    BY DEF GitInv, BuilderInv, Graphing, GitCommands
  <2>2. \A u \in GitTasks : graphBuild[u].at # "none" => op'[u] = op[u] /\ Current(u)' = Current(u)
    BY <1>1, <2>1
  <2>3. wanted' = wanted \/ wanted' = [wanted EXCEPT !.asked = FALSE]
    OBVIOUS
  <2>4. wanted'.asked => wanted' = wanted /\ repo'.there = repo.there /\ HeadOf(repo') = HeadOf(repo)
    <3>1. repo'.there = repo.there
      BY <1>2 DEF GrownTo
    <3>2. CASE HeadOf(repo') = HeadOf(repo)
      BY <3>1, <3>2
    <3>3. CASE HeadOf(repo') # HeadOf(repo)
      <4>1. wanted' = [wanted EXCEPT !.asked = FALSE]
        BY <3>3
      <4>2. ~wanted'.asked
        BY <4>1 DEF GitInv, BuildShape
      <4> QED
        BY <4>2
    <3> QED
      BY <3>2, <3>3
  <2> QED
    BY <2>2, <2>3, <2>4, BuildersStay
<1> QED
  BY <1>1, <1>3, <1>4, <1>5, <1>6 DEF GitInv

\* An operation ends that has built nothing.
LEMMA EndKeeps ==
  ASSUME GitInv, NEW t \in GitTasks, op[t].next # 0, Current(t) \notin Graphing, NEW how, FinishGit(t, how),
         UNCHANGED <<load, repo, remote, commits, graphBuild, graph, worker, wanted, mixedCommit>>,
         staging' \subseteq staging, mishaps' \in 0 .. MaxMishaps,
         t \in staging' => Current(t) \notin {"clone", "rename"} \/ how = "uncleaned"
  PROVE  GitInv'
<1>1. /\ OpInv' /\ op'[t].next = 0 /\ results' = results \cup {<<op[t].left[1], how>>}
      /\ results \subseteq results'
      /\ \A u \in GitTasks : u # t => op'[u] = op[u] /\ Current(u)' = Current(u)
  BY FinishesGit DEF GitInv
<1>2. TreeShape'
  BY DEF GitInv, TreeShape
<1>3. HeadOf(repo') = HeadOf(repo)
  BY DEF HeadOf
<1>4. TreeInv'
  <2>1. \A u \in staging' : \/ op'[u].next \in {2, 3} /\ op'[u].left[1] = "clone"
                            \/ Abandoned'
    <3>1. Current(t) \in {"clone", "rename"} /\ how = "uncleaned" => Abandoned'
      BY <1>1, CurrentIs DEF GitInv, Abandoned
    <3>2. \A u \in staging' : op'[u] = op[u] \/ Current(u) \notin {"clone", "rename"} \/ Abandoned'
      BY <1>1, <3>1 DEF GitInv, TreeShape
    <3> QED
      BY <1>1, <3>2, StagingStays
  <2> QED
    BY <1>1, <1>3, <2>1, ResultsStay DEF GitInv, TreeInv
<1>5. CommitInv'
  <2>1. \A u \in GitTasks : op'[u].next # 0 /\ Current(u)' = "commit" => op[u].next # 0 /\ Current(u) = "commit"
    BY <1>1
  <2> QED
    BY <1>1, <2>1, CommitsStay
<1>6. BuildShape' /\ BuilderInv' /\ GraphInv' /\ WantedInv'
  <2>1. \A u \in GitTasks : graphBuild[u].at # "none" => op'[u] = op[u] /\ Current(u)' = Current(u)
    BY <1>1 DEF GitInv, BuilderInv
  <2> QED
    BY <1>3, <2>1, BuildersStay
<1> QED
  BY <1>1, <1>2, <1>4, <1>5, <1>6 DEF GitInv

\* An operation goes on that leaves the tree alone.
LEMMA GoesOnKeeps ==
  ASSUME GitInv, NEW t \in GitTasks, op[t].next # 0, Current(t) \in {"absent", "clone", "ask"}, NEW seen,
         Continue(t, seen), UNCHANGED <<load, repo, remote, results, commits, graphBuild, graph, worker, wanted,
                                        mixedCommit, mishaps>>,
         staging' = staging \/ (Current(t) = "absent" /\ staging' = staging \cup {t})
  PROVE  GitInv'
<1>1. /\ OpInv' /\ op'[t].next = op[t].next + 1 /\ op'[t].left = op[t].left
      /\ Current(t)' = Series(op[t].left[1])[op[t].next + 1]
      /\ \A u \in GitTasks : u # t => op'[u] = op[u] /\ Current(u)' = Current(u)
  BY Continues DEF GitInv
<1>2. TreeShape'
  BY DEF GitInv, TreeShape
<1>3. HeadOf(repo') = HeadOf(repo)
  BY DEF HeadOf
<1>4. /\ op[t].left[1] \in Ops /\ op[t].next \in 1 .. Len(Series(op[t].left[1]))
      /\ Current(t) = Series(op[t].left[1])[op[t].next] /\ op[t].next \in Nat
  BY CurrentOf DEF GitInv
<1>5. /\ Current(t) = "absent" => op[t].left[1] = "clone" /\ op[t].next = 1
      /\ Current(t) = "clone" => op[t].left[1] = "clone" /\ op[t].next = 2
  BY CurrentIs DEF GitInv
<1>6. TreeInv'
  <2>1. ASSUME NEW u \in staging'
        PROVE  (op'[u].next \in {2, 3} /\ op'[u].left[1] = "clone") \/ Abandoned'
    <3>1. CASE u # t
      BY <1>1, <2>1, <3>1, ResultsStay DEF GitInv, TreeInv, TreeShape
    <3>2. CASE u = t /\ Current(t) \in {"absent", "clone"}
      BY <1>1, <1>5, <3>2
    <3>3. CASE u = t /\ Current(t) = "ask"
      <4>1. op[t].left[1] = "remove"
        BY <3>3, CurrentIs DEF GitInv
      <4> QED
        BY <2>1, <3>3, <4>1, ResultsStay DEF GitInv, TreeInv
    <3> QED
      BY <3>1, <3>2, <3>3
  <2> QED
    BY <1>3, <2>1, ResultsStay DEF GitInv, TreeInv
<1>7. CommitInv'
  <2>1. Current(t)' # "commit"
    <3>1. op[t].next + 1 \in 1 .. Len(Series(op[t].left[1]))
      BY CurrentIs DEF GitInv
    <3>2. Current(t)' = "commit" => op[t].left[1] = "commit"
      BY <1>1, <1>4, <3>1, NextIs
    <3>3. op[t].left[1] = "commit" => Current(t) \in {"unrelated", "add", "exceeds", "commit"}
      BY CurrentIs DEF GitInv
    <3> QED
      BY <3>2, <3>3
  <2>2. \A u \in GitTasks : op'[u].next # 0 /\ Current(u)' = "commit" => op[u].next # 0 /\ Current(u) = "commit"
    BY <1>1, <2>1
  <2> QED
    BY <2>2, CommitsStay
<1>8. BuildShape' /\ BuilderInv' /\ GraphInv' /\ WantedInv'
  <2>1. \A u \in GitTasks : graphBuild[u].at # "none" => op'[u] = op[u] /\ Current(u)' = Current(u)
    BY <1>1 DEF GitInv, BuilderInv, Graphing
  <2> QED
    BY <1>3, <2>1, BuildersStay
<1> QED
  BY <1>1, <1>2, <1>6, <1>7, <1>8 DEF GitInv

LEMMA MishapIsBounded ==
  ASSUME TreeShape, GitMishap \/ UNCHANGED mishaps
  PROVE  mishaps' \in 0 .. MaxMishaps
BY GitAssumption DEF TreeShape, GitMishap

LEMMA CommandKeeps ==
  ASSUME GitInv, NEW t \in GitTasks, RunGit(t) \/ GitFails(t) \/ CloneStep(t) \/ AskGit(t)
  PROVE  GitInv'
<1> USE DEF Graphing
<1>1. CASE RunGit(t)
  <2>1. /\ op[t].next # 0 /\ Current(t) \in GitCommands /\ UNCHANGED <<load, staging, graphBuild, graph, worker, mixedCommit>>
        /\ wanted' = IF HeadOf(repo') = HeadOf(repo) THEN wanted ELSE [wanted EXCEPT !.asked = FALSE]
        /\ mishaps' \in 0 .. MaxMishaps
    BY <1>1 DEF RunGit, GitInv, TreeShape
  <2>2. CASE repo.there /\ repo.whole
    <3>1. repo.whole /\ HeadOf(repo) # {} /\ repo.branches["main"] # {} /\ TreeShape
      BY <2>2 DEF GitInv, TreeInv
    <3>2. Git(t)
      BY <1>1, <2>2, <3>1 DEF RunGit
    <3>3. GitDid(t)
      BY <2>1, <3>1, <3>2, GitDoes
    <3> QED
      BY <2>1, <2>2, <3>3, DidKeeps
  <2>3. CASE ~(repo.there /\ repo.whole)
    <3>1. GitRefused(t, "error")
      BY <1>1, <2>3 DEF RunGit
    <3>2. FinishGit(t, "error") /\ UNCHANGED <<repo, remote, commits>> /\ wanted' = wanted
      BY <2>1, <3>1 DEF GitRefused
    <3> QED
      BY <2>1, <3>2, EndKeeps DEF GitCommands
  <2> QED
    BY <2>2, <2>3
<1>2. CASE GitFails(t)
  <2>1. /\ op[t].next # 0 /\ Current(t) \in GitCommands /\ GitMishap /\ FinishGit(t, "error")
        /\ UNCHANGED <<load, repo, remote, commits, graphBuild, graph, worker, wanted, mixedCommit, staging>>
    BY <1>2 DEF GitFails, GitRefused
  <2>2. mishaps' \in 0 .. MaxMishaps
    BY <2>1, MishapIsBounded DEF GitInv
  <2> QED
    BY <2>1, <2>2, EndKeeps DEF GitCommands
<1>3. CASE CloneStep(t)
  <2>1. op[t].next # 0 /\ UNCHANGED <<load, remote, commits, graphBuild, graph, worker, wanted, mixedCommit, repo>>
    BY <1>3 DEF CloneStep, Stays
  <2>2. \/ /\ Current(t) = "absent" /\ UNCHANGED mishaps
           /\ \/ (\E how : FinishGit(t, how)) /\ UNCHANGED staging
              \/ Continue(t, {}) /\ staging' = staging \cup {t} /\ UNCHANGED results
        \/ Current(t) = "clone" /\ Continue(t, {}) /\ UNCHANGED <<staging, results, mishaps>>
        \/ Current(t) = "clone" /\ GitMishap /\ staging' = staging \ {t} /\ FinishGit(t, "error")
        \/ Current(t) = "clone" /\ GitMishap /\ UNCHANGED staging /\ FinishGit(t, "uncleaned")
    BY <1>3 DEF CloneStep, CleansUp
  <2>3. mishaps' \in 0 .. MaxMishaps
    BY <2>2, MishapIsBounded DEF GitInv
  <2> QED
    BY <2>1, <2>2, <2>3, EndKeeps, GoesOnKeeps
<1>4. CASE AskGit(t)
  <2>1. /\ op[t].next # 0 /\ Current(t) = "ask"
        /\ UNCHANGED <<load, repo, remote, staging, commits, graphBuild, graph, worker, wanted, mixedCommit, mishaps>>
        /\ (Continue(t, {"confirm"}) /\ UNCHANGED results) \/ FinishGit(t, "cancelled")
    BY <1>4 DEF AskGit
  <2>2. mishaps' \in 0 .. MaxMishaps
    BY <2>1, MishapIsBounded DEF GitInv
  <2> QED
    BY <2>1, <2>2, EndKeeps, GoesOnKeeps
<1> QED
  BY <1>1, <1>2, <1>3, <1>4

\* A tree appears when a clone is renamed, and goes when somebody removes it.
LEMMA RenameKeeps ==
  ASSUME GitInv, NEW t \in GitTasks, Rename(t)
  PROVE  GitInv'
<1>1. /\ op[t].next # 0 /\ Current(t) = "rename"
      /\ UNCHANGED <<load, remote, commits, graphBuild, graph, worker, wanted, mixedCommit>>
  BY DEF Rename, Stays
<1>2. mishaps' \in 0 .. MaxMishaps
  <2>1. GitMishap \/ UNCHANGED mishaps
    BY DEF Rename
  <2> QED
    BY <2>1, MishapIsBounded DEF GitInv
<1>3. CASE \E how : /\ FinishGit(t, how) /\ UNCHANGED repo
                    /\ staging' = staging \ {t} \/ (staging' = staging /\ how = "uncleaned")
  <2>1. PICK how : /\ FinishGit(t, how) /\ UNCHANGED repo
                   /\ staging' = staging \ {t} \/ (staging' = staging /\ how = "uncleaned")
    BY <1>3
  <2>2. staging' \subseteq staging /\ (t \in staging' => how = "uncleaned") /\ Current(t) \notin Graphing
    BY <1>1, <2>1 DEF Graphing
  <2> QED
    BY <1>1, <1>2, <2>1, <2>2, EndKeeps
<1>4. CASE /\ ~repo.there /\ repo' = Cloned(remote) /\ Continue(t, {}) /\ staging' = staging \ {t}
           /\ UNCHANGED <<results, mishaps>>
  <2>1. repo' = Cloned(remote) /\ Continue(t, {}) /\ UNCHANGED results
    BY <1>4
  <2>2. /\ OpInv' /\ op'[t].next = op[t].next + 1 /\ op'[t].left = op[t].left
        /\ Current(t)' = Series(op[t].left[1])[op[t].next + 1]
        /\ \A u \in GitTasks : u # t => op'[u] = op[u] /\ Current(u)' = Current(u)
    BY <1>1, <2>1, Continues DEF GitInv
  <2>3. /\ repo' = [there |-> TRUE, whole |-> TRUE, head |-> "main", branches |-> repo'.branches,
                    dirty |-> {}, staged |-> {}, merging |-> FALSE]
        /\ repo'.branches = [b \in Branches |-> repo'.branches[b]] /\ repo'.branches["main"] = remote["main"]
    BY <2>1 DEF Cloned, NoRepo, Branches
  <2>4. /\ repo' = [there |-> repo'.there, whole |-> repo'.whole, head |-> repo'.head, branches |-> repo'.branches,
                    dirty |-> repo'.dirty, staged |-> repo'.staged, merging |-> repo'.merging]
        /\ repo'.there = TRUE /\ repo'.whole = TRUE /\ repo'.head = "main" /\ repo'.staged = {} /\ repo'.dirty = {}
    BY <2>3
  <2>5. HeadOf(repo') # {}
    BY <2>3, <2>4 DEF HeadOf, GitInv, TreeInv
  <2>6. TreeShape'
    BY <1>1, <1>2, <1>4, <2>3, <2>4 DEF GitInv, TreeShape, Branches
  <2>7. TreeInv'
    <3>1. \A u \in staging' : \/ op'[u].next \in {2, 3} /\ op'[u].left[1] = "clone"
                              \/ Abandoned'
      <4>1. \A u \in staging' : op'[u] = op[u]
        BY <1>1, <1>4, <2>2 DEF GitInv, TreeShape
      <4> QED
        BY <1>1, <1>4, <2>1, <4>1, StagingStays
    <3> QED
      BY <1>1, <2>3, <2>4, <2>5, <3>1 DEF GitInv, TreeInv
  <2>8. CommitInv'
    <3>1. Current(t)' # "commit"
      <4>1. op[t].left[1] \in Ops /\ op[t].left[1] # "commit"
        BY <1>1, CurrentOf, CurrentIs DEF GitInv
      <4>2. op[t].next + 1 \in 1 .. Len(Series(op[t].left[1]))
        BY <1>1, CurrentIs DEF GitInv
      <4> QED
        BY <2>2, <4>1, <4>2, NextIs
    <3>2. \A u \in GitTasks : op'[u].next # 0 /\ Current(u)' = "commit" => op[u].next # 0 /\ Current(u) = "commit"
      BY <2>2, <3>1
    <3> QED
      BY <1>1, <1>4, <2>1, <2>4, <3>2, CommitsStay
  <2>9. BuildShape' /\ BuilderInv' /\ GraphInv' /\ WantedInv'
    <3>1. \A u \in GitTasks : graphBuild[u].at # "none" => op'[u] = op[u] /\ Current(u)' = Current(u)
      BY <1>1, <2>2 DEF GitInv, BuilderInv, Graphing
    <3>2. ~wanted'.asked
      BY <1>1, <1>4 DEF GitInv, WantedInv
    <3> QED
      BY <1>1, <3>1, <3>2, BuildersStay
  <2> QED
    BY <2>2, <2>6, <2>7, <2>8, <2>9 DEF GitInv
<1> QED
  BY <1>3, <1>4 DEF Rename, CleansUp

\* What is left of a tree that was to be removed.
LEMMA LeftOfTree ==
  ASSUME TreeShape, NEW r, r \in {NoRepo, repo} \cup HalfDeleted
  PROVE  /\ r = [there |-> r.there, whole |-> r.whole, head |-> r.head, branches |-> r.branches,
                 dirty |-> r.dirty, staged |-> r.staged, merging |-> r.merging]
         /\ r.there \in BOOLEAN /\ r.head \in Branches /\ r.staged \subseteq {"f", "g"} /\ r.dirty \subseteq {"f", "g"}
         /\ r.branches = [b \in Branches |-> r.branches[b]] /\ (r.staged = repo.staged \/ r.staged = {})
         /\ r.there /\ r.whole => repo.there /\ repo.whole /\ HeadOf(r) = HeadOf(repo) /\ r.branches = repo.branches
<1> DEFINE bare == [b \in Branches |-> {}]
           Empty(v) == [there |-> v, whole |-> FALSE, head |-> "main", branches |-> bare,
                        dirty |-> {}, staged |-> {}, merging |-> FALSE]
<1>1. NoRepo = Empty(FALSE) /\ Wreck = Empty(TRUE)
  <2>1. NoRepo = Empty(FALSE)
    BY DEF NoRepo, Branches
  <2> DEFINE none == NoRepo
  <2>2. Wreck = [none EXCEPT !.there = TRUE] /\ none = Empty(FALSE)
    BY <2>1 DEF Wreck
  <2> HIDE DEF bare, none
  <2>3. none.there = FALSE /\ none = [there |-> none.there, whole |-> none.whole, head |-> none.head, branches |-> none.branches,
                  dirty |-> none.dirty, staged |-> none.staged, merging |-> none.merging]
    BY <2>2
  <2>4. \A v : [none EXCEPT !.there = v] = [there |-> v, whole |-> none.whole, head |-> none.head, branches |-> none.branches,
                  dirty |-> none.dirty, staged |-> none.staged, merging |-> none.merging]
    BY <2>3
  <2>5. none.whole = FALSE /\ none.head = "main" /\ none.branches = bare /\ none.dirty = {} /\ none.staged = {}
        /\ none.merging = FALSE
    BY <2>2
  <2>6. [none EXCEPT !.there = TRUE] = [there |-> TRUE, whole |-> none.whole, head |-> none.head,
           branches |-> none.branches, dirty |-> none.dirty, staged |-> none.staged, merging |-> none.merging]
    BY <2>4, Zenon
  <2> QED
    BY <2>1, <2>2, <2>5, <2>6
<1>2. CASE r = NoRepo \/ r = Wreck
  <2>1. \E v \in BOOLEAN : r = Empty(v)
    BY <1>1, <1>2
  <2>2. PICK v \in BOOLEAN : r = Empty(v)
    BY <2>1
  <2>3. r.there = v /\ ~r.whole /\ r.head = "main" /\ r.branches = [b \in Branches |-> {}] /\ r.dirty = {}
        /\ r.staged = {} /\ r.merging = FALSE
    BY <2>2
  <2> QED
    BY <2>2, <2>3 DEF Branches
<1>3. CASE r = repo
  BY <1>3 DEF TreeShape
<1>4. CASE \E lost \in SUBSET {"f", "g"} : r = [repo EXCEPT !.dirty = repo.dirty \cup lost]
  <2>1. PICK lost \in SUBSET {"f", "g"} : r = [repo EXCEPT !.dirty = repo.dirty \cup lost]
    BY <1>4
  <2> DEFINE di == repo.dirty \cup lost
  <2>2. di \subseteq {"f", "g"} /\ r = [repo EXCEPT !.dirty = di]
    BY <2>1 DEF TreeShape
  <2> HIDE DEF di
  <2>3. r = [there |-> repo.there, whole |-> repo.whole, head |-> repo.head, branches |-> repo.branches,
             dirty |-> di, staged |-> repo.staged, merging |-> repo.merging]
    BY <2>2 DEF TreeShape
  <2> QED
    BY <2>2, <2>3 DEF TreeShape, HeadOf
<1> QED
  BY <1>2, <1>3, <1>4 DEF HalfDeleted

LEMMA DeleteKeeps ==
  ASSUME GitInv, NEW t \in GitTasks, Delete(t)
  PROVE  GitInv'
<1>1. /\ op[t].next # 0 /\ Current(t) = "delete" /\ graph' \in {graph, NoGraph}
      /\ wanted' = [asked |-> FALSE, head |-> {}]
      /\ UNCHANGED <<load, remote, staging, commits, graphBuild, worker, mixedCommit>>
  BY DEF Delete
<1>2. /\ repo' \in {NoRepo, repo} \cup HalfDeleted
      /\ \E how : FinishGit(t, how) /\ (how = "remove_failed" \/ (how = "removed" /\ repo' = NoRepo))
  BY DEF Delete
<1>3. mishaps' \in 0 .. MaxMishaps
  <2>1. GitMishap \/ UNCHANGED mishaps
    BY DEF Delete
  <2> QED
    BY <2>1, MishapIsBounded DEF GitInv
<1>4. PICK how : FinishGit(t, how) /\ (how = "remove_failed" \/ (how = "removed" /\ repo' = NoRepo))
  BY <1>2
<1>5. /\ OpInv' /\ op'[t].next = 0 /\ results' = results \cup {<<op[t].left[1], how>>}
      /\ \A u \in GitTasks : u # t => op'[u] = op[u] /\ Current(u)' = Current(u)
  BY <1>1, <1>4, FinishesGit DEF GitInv
<1>6. /\ RemovalTried' /\ results \subseteq results'
      /\ how = "remove_failed" => RemovalFailed'
  BY <1>1, <1>4, <1>5, CurrentIs DEF GitInv, RemovalTried, RemovalFailed
<1>7. /\ repo' = [there |-> repo'.there, whole |-> repo'.whole, head |-> repo'.head, branches |-> repo'.branches,
                  dirty |-> repo'.dirty, staged |-> repo'.staged, merging |-> repo'.merging]
      /\ repo'.there \in BOOLEAN /\ repo'.head \in Branches /\ repo'.staged \subseteq {"f", "g"}
      /\ repo'.dirty \subseteq {"f", "g"}
      /\ repo'.branches = [b \in Branches |-> repo'.branches[b]] /\ (repo'.staged = repo.staged \/ repo'.staged = {})
      /\ repo'.there /\ repo'.whole => /\ repo.there /\ repo.whole /\ HeadOf(repo') = HeadOf(repo)
                                      /\ repo'.branches = repo.branches
  BY <1>2, LeftOfTree DEF GitInv
<1>8. TreeShape'
  BY <1>1, <1>3, <1>7 DEF GitInv, TreeShape
<1>9. TreeInv'
  <2>1. \A u \in staging' : (op'[u].next \in {2, 3} /\ op'[u].left[1] = "clone") \/ Abandoned'
    <3>1. \A u \in staging' : op'[u] = op[u] \/ Current(u) \notin {"clone", "rename"}
      BY <1>1, <1>5 DEF GitInv, TreeShape
    <3> QED
      BY <1>1, <1>6, <3>1, StagingStays
  <2>2. repo'.there => RemovalFailed'
    BY <1>4, <1>6 DEF NoRepo
  <2> QED
    BY <1>1, <1>7, <2>1, <2>2 DEF GitInv, TreeInv
<1>10. CommitInv'
  <2>1. \A u \in GitTasks : op'[u].next # 0 /\ Current(u)' = "commit" => op[u].next # 0 /\ Current(u) = "commit"
    BY <1>5
  <2> QED
    BY <1>1, <1>6, <1>7, <2>1, CommitsStay
<1>11. wanted' = [asked |-> wanted'.asked, head |-> wanted'.head] /\ wanted'.asked = FALSE /\ ~NoGraph.there
  BY <1>1 DEF NoGraph
<1>12. BuildShape'
  BY <1>1, <1>11 DEF GitInv, BuildShape
<1>13. BuilderInv'
  <2>1. \A u \in GitTasks : graphBuild[u].at # "none" => op'[u] = op[u] /\ Current(u)' = Current(u)
    BY <1>1, <1>5 DEF GitInv, BuilderInv, Graphing
  <2> QED
    BY <1>1, <2>1 DEF GitInv, BuilderInv, Busy
<1>14. GraphInv' /\ WantedInv'
  BY <1>1, <1>11 DEF GitInv, GraphInv, WantedInv
<1> QED
  BY <1>5, <1>8, <1>9, <1>10, <1>12, <1>13, <1>14 DEF GitInv

-----------------------------------------------------------------------------
(***************************************************************************)
(* Graphs.                                                                 *)
(***************************************************************************)
\* A step of a builder, or of the origin, leaves the operations and the tree as they are.
LEMMA TreeStays ==
  ASSUME GitInv, UNCHANGED <<load, repo, remote, staging, commits, op, results>>, mishaps' \in 0 .. MaxMishaps
  PROVE  TreeShape' /\ OpInv' /\ TreeInv' /\ CommitInv'
<1>1. TreeShape'
  BY DEF GitInv, TreeShape
<1>2. OpInv'
  BY DEF GitInv, OpInv
<1>3. TreeInv'
  BY ResultsStay DEF GitInv, TreeInv, HeadOf
<1>4. CommitInv'
  <2>1. \A u \in GitTasks : op'[u].next # 0 /\ Current(u)' = "commit" => op[u].next # 0 /\ Current(u) = "commit"
    BY DEF Current
  <2> QED
    BY <2>1, CommitsStay
<1> QED
  BY <1>1, <1>2, <1>3, <1>4

\* So does the end of an operation.
LEMMA TreeStaysAtEnd ==
  ASSUME GitInv, NEW t \in GitTasks, op[t].next # 0, NEW how, FinishGit(t, how),
         UNCHANGED <<load, repo, remote, staging, commits>>, mishaps' \in 0 .. MaxMishaps,
         how = "cancelled" \/ Current(t) \notin {"clone", "rename"}
  PROVE  /\ TreeShape' /\ OpInv' /\ TreeInv' /\ CommitInv' /\ op'[t].next = 0
         /\ \A u \in GitTasks : u # t => op'[u] = op[u] /\ Current(u)' = Current(u)
<1>1. /\ OpInv' /\ op'[t].next = 0 /\ results' = results \cup {<<op[t].left[1], how>>}
      /\ \A u \in GitTasks : u # t => op'[u] = op[u] /\ Current(u)' = Current(u)
  BY FinishesGit DEF GitInv
<1>2. TreeShape'
  BY DEF GitInv, TreeShape
<1>3. TreeInv'
  <2>1. Current(t) \in {"clone", "rename"} => Abandoned'
    <3>1. Current(t) \in {"clone", "rename"} => op[t].left[1] = "clone" /\ how = "cancelled"
      BY CurrentIs DEF GitInv
    <3> QED
      BY <1>1, <3>1 DEF Abandoned
  <2>2. \A u \in staging' : op'[u] = op[u] \/ Current(u) \notin {"clone", "rename"} \/ Abandoned'
    BY <1>1, <2>1 DEF GitInv, TreeShape
  <2>3. \A u \in staging' : \/ op'[u].next \in {2, 3} /\ op'[u].left[1] = "clone"
                            \/ Abandoned'
    BY <1>1, <2>2, StagingStays
  <2> QED
    BY <1>1, <2>3, ResultsStay DEF GitInv, TreeInv, HeadOf
<1>4. CommitInv'
  <2>1. \A u \in GitTasks : op'[u].next # 0 /\ Current(u)' = "commit" => op[u].next # 0 /\ Current(u) = "commit"
    BY <1>1
  <2> QED
    BY <1>1, <2>1, CommitsStay
<1> QED
  BY <1>1, <1>2, <1>3, <1>4

BuildRecord(r) == r = [at |-> r.at, listed |-> r.listed, head |-> r.head, content |-> r.content, force |-> r.force]

\* Only the builder b moves.
LEMMA OneBuilderMoves ==
  ASSUME BuildShape, NEW b \in Builders, NEW new, graphBuild' = [graphBuild EXCEPT ![b] = new], BuildRecord(new)
  PROVE  /\ graphBuild'[b] = new /\ \A c \in Builders : c # b => graphBuild'[c] = graphBuild[c]
         /\ graphBuild' = [c \in Builders |-> graphBuild'[c]]
         /\ \A c \in Builders : BuildRecord(graphBuild'[c])
<1>1. /\ graphBuild'[b] = new /\ \A c \in Builders : c # b => graphBuild'[c] = graphBuild[c]
      /\ graphBuild' = [c \in Builders |-> graphBuild'[c]]
  BY DEF BuildShape
<1>2. \A c \in Builders : BuildRecord(graphBuild'[c])
  <2>1. \A c \in Builders : BuildRecord(graphBuild[c])
    BY DEF BuildShape, BuildRecord
  <2> QED
    BY <1>1, <2>1
<1> QED
  BY <1>1, <1>2

LEMMA ShapeOfBuilds ==
  ASSUME BuildShape, NEW b \in Builders, NEW new, graphBuild' = [graphBuild EXCEPT ![b] = new], BuildRecord(new),
         NEW a, NEW h, wanted' = [asked |-> a, head |-> h],
         NEW w \in {"none", "begun", "building", "returned"}, NEW r \in BOOLEAN, worker' = [at |-> w, rerun |-> r]
  PROVE  BuildShape'
<1>1. /\ graphBuild' = [c \in Builders |-> graphBuild'[c]]
      /\ \A c \in Builders : BuildRecord(graphBuild'[c])
  BY OneBuilderMoves
<1>2. /\ worker' = [at |-> worker'.at, rerun |-> worker'.rerun] /\ wanted' = [asked |-> wanted'.asked, head |-> wanted'.head]
      /\ worker'.at = w /\ worker'.rerun = r
  OBVIOUS
<1> QED
  BY <1>1, <1>2 DEF BuildShape, BuildRecord

LEMMA BuilderGoes ==
  ASSUME GitInv, NEW b \in Builders, NEW new, graphBuild' = [graphBuild EXCEPT ![b] = new], BuildRecord(new),
         new.at \in {"list", "head", "compare", "read", "manifest", "write"}, graphBuild[b].at # "none",
         Busy(b) \/ \A c \in Builders : ~Busy(c),
         UNCHANGED <<load, repo, remote, staging, op, results, commits, worker, wanted, graph, mishaps>>,
         ~mixedCommit' => ~mixedCommit /\ (new.at \in {"manifest", "write"} => new.content = new.head),
         \/ new.at \in {"list", "head"} \/ new.head = HeadOf(repo)
         \/ Busy(b) /\ graphBuild[b].at \notin {"list", "head"} /\ new.head = graphBuild[b].head
  PROVE  GitInv'
<1>1. graphBuild'[b] = new /\ \A c \in Builders : c # b => graphBuild'[c] = graphBuild[c]
  BY OneBuilderMoves DEF GitInv
<1>2. BuildShape'
  BY ShapeOfBuilds DEF GitInv, BuildShape
<1>3. mishaps' \in 0 .. MaxMishaps
  BY DEF GitInv, TreeShape
<1>4. /\ \A c \in Builders : c # b => Busy(c)' = Busy(c) /\ Fresh(c)' = Fresh(c)
      /\ Busy(b)' /\ \A c \in Builders : c # b => ~Busy(c)
  <2>1. \A c \in Builders : c # b => Busy(c)' = Busy(c) /\ Fresh(c)' = Fresh(c)
    BY <1>1 DEF Busy, Fresh
  <2>2. Busy(b)'
    BY <1>1 DEF Busy
  <2>3. \A c \in Builders : c # b => ~Busy(c)
    BY DEF GitInv, BuilderInv
  <2> QED
    BY <2>1, <2>2, <2>3
<1>5. BuilderInv'
  <2>1. \A t \in GitTasks : graphBuild'[t].at # "none" => op'[t].next # 0 /\ Current(t)' \in Graphing
    BY <1>1 DEF GitInv, BuilderInv, Current, Builders
  <2>2. worker'.at = "building" <=> graphBuild'["worker"].at # "none"
    BY <1>1 DEF GitInv, BuilderInv, Builders
  <2>3. \A c, d \in Builders : Busy(c)' /\ Busy(d)' => c = d
    BY <1>4
  <2> QED
    BY <2>1, <2>2, <2>3 DEF BuilderInv
<1>6. GraphInv'
  BY <1>1 DEF GitInv, GraphInv
<1>7. WantedInv'
  <2> SUFFICES ASSUME wanted.asked
               PROVE  repo.there /\ HeadOf(repo) = wanted.head /\ (Pending \/ Served)'
    BY DEF WantedInv, HeadOf
  <2>1. repo.there /\ HeadOf(repo) = wanted.head /\ (Pending \/ Served)
    BY DEF GitInv, WantedInv
  <2>2. CASE new.at \in {"list", "head"} \/ new.head = HeadOf(repo)
    <3>1. Busy(b)' /\ Fresh(b)'
      BY <1>1, <1>4, <2>1, <2>2 DEF Fresh
    <3> QED
      BY <2>1, <3>1 DEF Pending
  <2>3. CASE Busy(b) /\ graphBuild[b].at \notin {"list", "head"} /\ new.head = graphBuild[b].head
    <3>1. Fresh(b) => Fresh(b)'
      BY <1>1, <2>3 DEF Fresh
    <3>2. \A c \in Builders : graphBuild[c].at = "lock" => graphBuild'[c].at = "lock"
      BY <1>1, <2>3 DEF Busy
    <3>3. Pending => Pending'
      BY <1>4, <3>1, <3>2 DEF Pending
    <3>4. Served => Served'
      BY <1>4, <2>3, <3>1 DEF Served
    <3> QED
      BY <2>1, <3>3, <3>4
  <2> QED
    BY <2>2, <2>3
<1>8. TreeShape' /\ OpInv' /\ TreeInv' /\ CommitInv'
  BY <1>3, TreeStays
<1> QED
  BY <1>2, <1>5, <1>6, <1>7, <1>8 DEF GitInv

\* A build ends: the next one is that of the worker's flag, or the operation that waited is over.
LEMMA BuildOver ==
  ASSUME GitInv, NEW b \in Builders, Busy(b), BuildEnds(b),
         UNCHANGED <<load, repo, remote, staging, commits>>, mishaps' \in 0 .. MaxMishaps,
         \/ /\ UNCHANGED wanted /\ graph'.there /\ graph'.head = graphBuild[b].head
            /\ graphBuild[b].at \notin {"list", "head"}
         \/ wanted' = [asked |-> FALSE, head |-> wanted.head],
         ~mixedCommit' => ~mixedCommit /\ (graph'.there => graph'.content = graph'.head)
  PROVE  GitInv'
<1>1. graphBuild' = [graphBuild EXCEPT ![b] = NoBuild] /\ BuildRecord(NoBuild)
  BY DEF BuildEnds, NoBuild, BuildRecord
<1>2. graphBuild'[b] = NoBuild /\ \A c \in Builders : c # b => graphBuild'[c] = graphBuild[c]
  BY <1>1, OneBuilderMoves DEF GitInv
<1>3. NoBuild.at = "none" /\ graphBuild[b].at # "none" /\ graphBuild[b].at # "lock"
  BY DEF NoBuild, Busy
<1>4. \E a, h : wanted' = [asked |-> a, head |-> h]
  BY DEF GitInv, BuildShape
<1>5. \A c \in Builders : ~Busy(c)'
  <2>1. \A c \in Builders : c # b => ~Busy(c)
    BY DEF GitInv, BuilderInv
  <2> QED
    BY <1>2, <1>3, <2>1 DEF Busy
<1>6. GraphInv'
  BY <1>2, <1>3 DEF GitInv, GraphInv
<1>7. CASE b = "worker"
  <2>1. /\ worker' = [worker EXCEPT !.at = IF worker.rerun THEN "begun" ELSE "returned"]
        /\ UNCHANGED <<op, results>>
    BY <1>7 DEF BuildEnds
  <2>2. \E w \in {"none", "begun", "building", "returned"}, r \in BOOLEAN : worker' = [at |-> w, rerun |-> r] /\ w # "building"
    BY <2>1 DEF GitInv, BuildShape
  <2>3. worker'.at # "building" /\ worker'.rerun = worker.rerun /\ (worker.rerun => worker'.at = "begun")
    BY <2>1 DEF GitInv, BuildShape
  <2>4. BuildShape'
    <3>1. PICK w \in {"none", "begun", "building", "returned"}, r \in BOOLEAN : worker' = [at |-> w, rerun |-> r]
      BY <2>2
    <3> QED
      BY <1>1, <1>4, <3>1, ShapeOfBuilds DEF GitInv
  <2>5. TreeShape' /\ OpInv' /\ TreeInv' /\ CommitInv'
    BY <2>1, TreeStays
  <2>6. BuilderInv'
    <3>1. \A t \in GitTasks : graphBuild'[t].at # "none" => op'[t].next # 0 /\ Current(t)' \in Graphing
      BY <1>2, <1>3, <1>7, <2>1 DEF GitInv, BuilderInv, Current, Builders
    <3>2. worker'.at = "building" <=> graphBuild'["worker"].at # "none"
      BY <1>2, <1>3, <1>7, <2>3
    <3> QED
      BY <1>5, <3>1, <3>2 DEF BuilderInv
  <2>7. WantedInv'
    <3> SUFFICES ASSUME wanted'.asked
                 PROVE  repo.there /\ HeadOf(repo) = wanted.head /\ wanted' = wanted /\ (Pending' \/ Served')
      BY DEF WantedInv, HeadOf
    <3>1. /\ wanted' = wanted /\ graph'.there /\ graph'.head = graphBuild[b].head
          /\ graphBuild[b].at \notin {"list", "head"}
      OBVIOUS
    <3>2. repo.there /\ HeadOf(repo) = wanted.head /\ (Pending \/ Served)
      BY <3>1 DEF GitInv, WantedInv
    <3>3. CASE worker.rerun
      BY <2>3, <3>1, <3>2, <3>3 DEF Pending
    <3>4. CASE \E c \in Builders : graphBuild[c].at = "lock"
      <4>1. PICK c \in Builders : graphBuild[c].at = "lock"
        BY <3>4
      <4>2. graphBuild'[c].at = "lock"
        BY <1>2, <1>3, <4>1
      <4> QED
        BY <3>1, <3>2, <4>2 DEF Pending
    <3>5. CASE ~worker.rerun /\ ~\E c \in Builders : graphBuild[c].at = "lock"
      <4>1. worker.at = "building"
        BY <1>3, <1>7 DEF GitInv, BuilderInv
      <4>2. (\E c \in Builders : Busy(c) /\ Fresh(c)) \/ Served
        BY <3>2, <3>5, <4>1 DEF Pending
      <4>3. Fresh(b)
        BY <4>2 DEF Served, GitInv, BuilderInv
      <4>4. Served'
        BY <1>5, <3>1, <4>3 DEF Served, Fresh
      <4> QED
        BY <3>1, <3>2, <4>4
    <3> QED
      BY <3>3, <3>4, <3>5
  <2> QED
    BY <1>6, <2>4, <2>5, <2>6, <2>7 DEF GitInv
<1>8. CASE b # "worker"
  <2>1. b \in GitTasks /\ FinishGit(b, "built") /\ UNCHANGED worker
    BY <1>8 DEF BuildEnds, Builders
  <2>2. op[b].next # 0 /\ Current(b) \in Graphing
    BY <1>3, <2>1 DEF GitInv, BuilderInv
  <2>3. /\ TreeShape' /\ OpInv' /\ TreeInv' /\ CommitInv' /\ op'[b].next = 0
        /\ \A u \in GitTasks : u # b => op'[u] = op[u] /\ Current(u)' = Current(u)
    BY <2>1, <2>2, TreeStaysAtEnd DEF Graphing
  <2>4. BuildShape'
    <3>1. \E w \in {"none", "begun", "building", "returned"}, r \in BOOLEAN : worker' = [at |-> w, rerun |-> r]
      BY <2>1 DEF GitInv, BuildShape
    <3>2. PICK w \in {"none", "begun", "building", "returned"}, r \in BOOLEAN : worker' = [at |-> w, rerun |-> r]
      BY <3>1
    <3> QED
      BY <1>1, <1>4, <3>2, ShapeOfBuilds DEF GitInv
  <2>5. BuilderInv'
    <3>1. \A t \in GitTasks : graphBuild'[t].at # "none" => op'[t].next # 0 /\ Current(t)' \in Graphing
      BY <1>2, <1>3, <2>3 DEF GitInv, BuilderInv, Builders
    <3>2. worker'.at = "building" <=> graphBuild'["worker"].at # "none"
      BY <1>2, <1>8, <2>1 DEF GitInv, BuilderInv, Builders
    <3> QED
      BY <1>5, <3>1, <3>2 DEF BuilderInv
  <2>6. WantedInv'
    <3> SUFFICES ASSUME wanted'.asked
                 PROVE  repo.there /\ HeadOf(repo) = wanted.head /\ wanted' = wanted /\ (Pending' \/ Served')
      BY DEF WantedInv, HeadOf
    <3>1. /\ wanted' = wanted /\ graph'.there /\ graph'.head = graphBuild[b].head
          /\ graphBuild[b].at \notin {"list", "head"}
      OBVIOUS
    <3>2. repo.there /\ HeadOf(repo) = wanted.head /\ (Pending \/ Served)
      BY <3>1 DEF GitInv, WantedInv
    <3>3. CASE worker.at = "begun" \/ (worker.rerun /\ worker.at \in {"building", "returned"})
      BY <2>1, <3>1, <3>2, <3>3 DEF Pending
    <3>4. CASE \E c \in Builders : graphBuild[c].at = "lock"
      <4>1. PICK c \in Builders : graphBuild[c].at = "lock"
        BY <3>4
      <4>2. graphBuild'[c].at = "lock"
        BY <1>2, <1>3, <4>1
      <4> QED
        BY <3>1, <3>2, <4>2 DEF Pending
    <3>5. CASE /\ ~(worker.at = "begun" \/ (worker.rerun /\ worker.at \in {"building", "returned"}))
               /\ ~\E c \in Builders : graphBuild[c].at = "lock"
      <4>1. (\E c \in Builders : Busy(c) /\ Fresh(c)) \/ Served
        BY <3>2, <3>5 DEF Pending
      <4>2. Fresh(b)
        BY <4>1 DEF Served, GitInv, BuilderInv
      <4>3. Served'
        BY <1>5, <3>1, <4>2 DEF Served, Fresh
      <4> QED
        BY <3>1, <3>2, <4>3
    <3> QED
      BY <3>3, <3>4, <3>5
  <2> QED
    BY <1>6, <2>3, <2>4, <2>5, <2>6 DEF GitInv
<1> QED
  BY <1>7, <1>8

\* What is read, compared or written is that of the builder that has the lock.
LEMMA BuildStepKeeps ==
  ASSUME GitInv, NEW b \in Builders, BuildStep(b)
  PROVE  GitInv'
<1> DEFINE s == graphBuild[b]
           Moved(new) == graphBuild' = [graphBuild EXCEPT ![b] = new]
<1>1. BuildRecord(s) /\ mishaps' \in 0 .. MaxMishaps
  BY DEF BuildStep, GitInv, BuildShape, BuildRecord, TreeShape
<1>2. UNCHANGED <<load, repo, remote, staging, commits, wanted, mishaps>>
  BY DEF BuildStep
<1>3. \A n : /\ OpAt(b, n) => Moved([s EXCEPT !.at = n])
             /\ [s EXCEPT !.at = n] = [at |-> n, listed |-> s.listed, head |-> s.head, content |-> s.content, force |-> s.force]
  BY <1>1 DEF OpAt, BuildRecord, GitInv, BuildShape
<1>4. CASE /\ s.at = "lock" /\ \A c \in Builders : ~Busy(c)
           /\ OpAt(b, "list") /\ UNCHANGED <<graph, manifest, mixedCommit, op, results, worker>>
  <2> DEFINE new == [at |-> "list", listed |-> s.listed, head |-> s.head, content |-> s.content, force |-> s.force]
  <2>1. Moved(new)
    BY <1>3, <1>4
  <2>2. BuildRecord(new) /\ new.at = "list"
    BY DEF BuildRecord
  <2> HIDE DEF new
  <2> QED
    BY <1>2, <1>4, <2>1, <2>2, BuilderGoes
<1>5. CASE /\ s.at = "list" /\ graphBuild' = [graphBuild EXCEPT ![b] = [@ EXCEPT !.at = "head", !.listed = HeadOf(repo)]]
           /\ UNCHANGED <<graph, manifest, mixedCommit, op, results, worker>>
  <2> DEFINE new == [at |-> "head", listed |-> HeadOf(repo), head |-> s.head, content |-> s.content, force |-> s.force]
  <2>5. [s EXCEPT !.at = "head", !.listed = HeadOf(repo)] = new
    <3>1. \A q : q = [s EXCEPT !.at = "head"] => q = [at |-> "head", listed |-> s.listed, head |-> s.head, content |-> s.content, force |-> s.force]
      BY <1>3
    <3>2. \A q : q = [at |-> "head", listed |-> s.listed, head |-> s.head, content |-> s.content, force |-> s.force] => [q EXCEPT !.listed = HeadOf(repo)] = new
      OBVIOUS
    <3>3. [s EXCEPT !.at = "head", !.listed = HeadOf(repo)] = [[s EXCEPT !.at = "head"] EXCEPT !.listed = HeadOf(repo)]
      OBVIOUS
    <3> QED
      BY <3>1, <3>2, <3>3, Zenon
  <2>1. Moved(new)
    BY <1>5, <2>5
  <2>2. BuildRecord(new) /\ new.at = "head"
    BY DEF BuildRecord
  <2> HIDE DEF new
  <2>3. Busy(b)
    BY <1>5 DEF Busy
  <2> QED
    BY <1>2, <1>5, <2>1, <2>2, <2>3, BuilderGoes
<1>6. CASE /\ s.at = "head" /\ graphBuild' = [graphBuild EXCEPT ![b] = [@ EXCEPT !.at = "compare", !.head = HeadOf(repo)]]
           /\ UNCHANGED <<graph, manifest, mixedCommit, op, results, worker>>
  <2> DEFINE new == [at |-> "compare", listed |-> s.listed, head |-> HeadOf(repo), content |-> s.content, force |-> s.force]
  <2>5. [s EXCEPT !.at = "compare", !.head = HeadOf(repo)] = new
    <3>1. \A q : q = [s EXCEPT !.at = "compare"] => q = [at |-> "compare", listed |-> s.listed, head |-> s.head, content |-> s.content, force |-> s.force]
      BY <1>3
    <3>2. \A q : q = [at |-> "compare", listed |-> s.listed, head |-> s.head, content |-> s.content, force |-> s.force] => [q EXCEPT !.head = HeadOf(repo)] = new
      OBVIOUS
    <3>3. [s EXCEPT !.at = "compare", !.head = HeadOf(repo)] = [[s EXCEPT !.at = "compare"] EXCEPT !.head = HeadOf(repo)]
      OBVIOUS
    <3> QED
      BY <3>1, <3>2, <3>3, Zenon
  <2>1. Moved(new)
    BY <1>6, <2>5
  <2>2. BuildRecord(new) /\ new.at = "compare" /\ new.head = HeadOf(repo)
    BY DEF BuildRecord
  <2> HIDE DEF new
  <2>3. Busy(b)
    BY <1>6 DEF Busy
  <2> QED
    BY <1>2, <1>6, <2>1, <2>2, <2>3, BuilderGoes
<1>7. CASE /\ s.at = "compare" /\ UNCHANGED <<graph, manifest, mixedCommit>>
           /\ IF ~s.force /\ s.head # {} /\ graph.there /\ manifest.there /\ graph.head = s.head
                 /\ s.listed \subseteq manifest.content
              THEN BuildEnds(b) ELSE OpAt(b, "read") /\ UNCHANGED <<op, results, worker>>
  <2>1. Busy(b)
    BY <1>7 DEF Busy
  <2>2. CASE graph.there /\ graph.head = s.head /\ BuildEnds(b)
    <3>1. ~mixedCommit => (graph.there => graph.content = graph.head)
      BY DEF GitInv, GraphInv
    <3> QED
      BY <1>1, <1>2, <1>7, <2>1, <2>2, <3>1, BuildOver
  <2>3. CASE OpAt(b, "read") /\ UNCHANGED <<op, results, worker>>
    <3> DEFINE new == [at |-> "read", listed |-> s.listed, head |-> s.head, content |-> s.content, force |-> s.force]
    <3>1. Moved(new)
      BY <1>3, <2>3
    <3>2. BuildRecord(new) /\ new.at = "read" /\ new.head = s.head
      BY DEF BuildRecord
    <3> HIDE DEF new
    <3> QED
      BY <1>2, <1>7, <2>1, <2>3, <3>1, <3>2, BuilderGoes
  <2> QED
    BY <1>7, <2>2, <2>3
<1>8. CASE /\ s.at = "read"
           /\ graphBuild' = [graphBuild EXCEPT ![b] = [@ EXCEPT !.at = "manifest", !.content = s.listed \cap HeadOf(repo)]]
           /\ mixedCommit' = (mixedCommit \/ s.listed # s.head \/ HeadOf(repo) # s.head)
           /\ UNCHANGED <<graph, manifest, op, results, worker>>
  <2> DEFINE new == [at |-> "manifest", listed |-> s.listed, head |-> s.head, content |-> s.listed \cap HeadOf(repo), force |-> s.force]
  <2>5. [s EXCEPT !.at = "manifest", !.content = s.listed \cap HeadOf(repo)] = new
    <3>1. \A q : q = [s EXCEPT !.at = "manifest"] => q = [at |-> "manifest", listed |-> s.listed, head |-> s.head, content |-> s.content, force |-> s.force]
      BY <1>3
    <3>2. \A q : q = [at |-> "manifest", listed |-> s.listed, head |-> s.head, content |-> s.content, force |-> s.force] => [q EXCEPT !.content = s.listed \cap HeadOf(repo)] = new
      OBVIOUS
    <3>3. [s EXCEPT !.at = "manifest", !.content = s.listed \cap HeadOf(repo)] = [[s EXCEPT !.at = "manifest"] EXCEPT !.content = s.listed \cap HeadOf(repo)]
      OBVIOUS
    <3> QED
      BY <3>1, <3>2, <3>3, Zenon
  <2>1. Moved(new)
    BY <1>8, <2>5
  <2>2. BuildRecord(new) /\ new.at = "manifest" /\ new.head = s.head /\ new.content = s.listed \cap HeadOf(repo)
    BY DEF BuildRecord
  <2> HIDE DEF new
  <2>3. Busy(b)
    BY <1>8 DEF Busy
  <2>4. ~mixedCommit' => ~mixedCommit /\ new.content = new.head
    BY <1>8, <2>2
  <2> QED
    BY <1>2, <1>8, <2>1, <2>2, <2>3, <2>4, BuilderGoes
<1>9. CASE /\ s.at = "manifest" /\ OpAt(b, "write") /\ UNCHANGED <<graph, mixedCommit, op, results, worker>>
  <2> DEFINE new == [at |-> "write", listed |-> s.listed, head |-> s.head, content |-> s.content, force |-> s.force]
  <2>1. Moved(new)
    BY <1>3, <1>9
  <2>2. BuildRecord(new) /\ new.at = "write" /\ new.head = s.head /\ new.content = s.content
    BY DEF BuildRecord
  <2> HIDE DEF new
  <2>3. Busy(b)
    BY <1>9 DEF Busy
  <2>4. ~mixedCommit' => ~mixedCommit /\ new.content = new.head
    BY <1>9, <2>2 DEF GitInv, GraphInv
  <2> QED
    BY <1>2, <1>9, <2>1, <2>2, <2>3, <2>4, BuilderGoes
<1>10. CASE /\ s.at = "write" /\ graph' = [there |-> TRUE, head |-> s.head, content |-> s.content]
            /\ BuildEnds(b) /\ UNCHANGED <<manifest, mixedCommit>>
  <2>1. Busy(b)
    BY <1>10 DEF Busy
  <2>2. graph'.there /\ graph'.head = s.head /\ graph'.content = s.content
    BY <1>10
  <2>3. ~mixedCommit => s.content = s.head
    BY <1>10 DEF GitInv, GraphInv
  <2> QED
    BY <1>1, <1>2, <1>10, <2>1, <2>2, <2>3, BuildOver
<1> QED
  BY <1>4, <1>5, <1>6, <1>7, <1>8, <1>9, <1>10 DEF BuildStep

\* A request that is no longer vouched for.
LEMMA GraphUnasked ==
  ASSUME BuildShape, wanted' = [wanted EXCEPT !.asked = FALSE]
  PROVE  wanted' = [asked |-> FALSE, head |-> wanted.head]
<1>1. \A v : [wanted EXCEPT !.asked = v] = [asked |-> v, head |-> wanted.head]
  BY DEF BuildShape
<1> QED
  BY <1>1, Zenon

LEMMA BuildFailsKeeps ==
  ASSUME GitInv, NEW b \in Builders, BuildFails(b)
  PROVE  GitInv'
<1>1. /\ Busy(b) /\ BuildEnds(b) /\ (GitMishap \/ UNCHANGED mishaps)
      /\ UNCHANGED <<load, repo, remote, staging, commits, graph, mixedCommit>>
  BY DEF BuildFails
<1>2. wanted' = [asked |-> FALSE, head |-> wanted.head]
  BY GraphUnasked DEF BuildFails, GitInv
<1>3. mishaps' \in 0 .. MaxMishaps
  BY <1>1, MishapIsBounded DEF GitInv
<1>4. ~mixedCommit => (graph.there => graph.content = graph.head)
  BY DEF GitInv, GraphInv
<1> QED
  BY <1>1, <1>2, <1>3, <1>4, BuildOver

\* A builder comes to its lock, or is stopped.
LEMMA Starts ==
  ASSUME BuildShape, NEW b \in Builders, NEW force, GitStarts(b, force)
  PROVE  /\ \E new : BuildRecord(new) /\ graphBuild' = [graphBuild EXCEPT ![b] = new]
         /\ graphBuild'[b].at = "lock" /\ \A c \in Builders : c # b => graphBuild'[c] = graphBuild[c]
<1> DEFINE new == [at |-> "lock", listed |-> {}, head |-> {}, content |-> {}, force |-> force]
<1>1. [NoBuild EXCEPT !.at = "lock", !.force = force] = new
  <2>1. \E f : [NoBuild EXCEPT !.at = "lock"] = [at |-> "lock", listed |-> {}, head |-> {}, content |-> {}, force |-> f]
    <3>1. \A f, q : q = [at |-> "none", listed |-> {}, head |-> {}, content |-> {}, force |-> f]
                     => [q EXCEPT !.at = "lock"] = [at |-> "lock", listed |-> {}, head |-> {}, content |-> {}, force |-> f]
      OBVIOUS
    <3>2. \E f : NoBuild = [at |-> "none", listed |-> {}, head |-> {}, content |-> {}, force |-> f]
      BY Zenon DEF NoBuild
    <3> QED
      BY <3>1, <3>2, Zenon
  <2>2. \A q, f : q = [at |-> "lock", listed |-> {}, head |-> {}, content |-> {}, force |-> f] => [q EXCEPT !.force = force] = new
    OBVIOUS
  <2>3. [NoBuild EXCEPT !.at = "lock", !.force = force] = [[NoBuild EXCEPT !.at = "lock"] EXCEPT !.force = force]
    OBVIOUS
  <2> QED
    BY <2>1, <2>2, <2>3, Zenon
<1>2. graphBuild' = [graphBuild EXCEPT ![b] = new]
  BY <1>1 DEF GitStarts
<1>3. BuildRecord(new) /\ new.at = "lock"
  BY DEF BuildRecord
<1> HIDE DEF new
<1>4. graphBuild'[b] = new /\ \A c \in Builders : c # b => graphBuild'[c] = graphBuild[c]
  BY <1>2, <1>3, OneBuilderMoves
<1> QED
  BY <1>2, <1>3, <1>4

\* The background task as a record.
LEMMA WorkerIs ==
  ASSUME BuildShape
  PROVE  /\ \E w \in {"none", "begun", "building", "returned"}, r \in BOOLEAN : worker = [at |-> w, rerun |-> r]
         /\ \E a, h : wanted = [asked |-> a, head |-> h]
         /\ \A v : [worker EXCEPT !.rerun = v] = [at |-> worker.at, rerun |-> v]
BY DEF BuildShape

\* The turn waits for the build of a small clone.
LEMMA WaitsKeeps ==
  ASSUME GitInv, NEW t \in GitTasks, op[t].next # 0, graphBuild[t].at = "none", Current(t) \in Graphing, NEW force,
         repo.there, GitAsked, GitStarts(t, force),
         UNCHANGED <<load, repo, remote, staging, op, results, commits, worker, graph, mixedCommit, mishaps>>
  PROVE  GitInv'
<1>1. t \in Builders /\ t # "worker"
  BY GitAssumption DEF Builders
<1>2. graphBuild'[t].at = "lock" /\ \A c \in Builders : c # t => graphBuild'[c] = graphBuild[c]
  BY <1>1, Starts DEF GitInv
<1>3. BuildShape'
  <2>1. PICK new : BuildRecord(new) /\ graphBuild' = [graphBuild EXCEPT ![t] = new]
    BY <1>1, Starts DEF GitInv
  <2>2. PICK w \in {"none", "begun", "building", "returned"}, r \in BOOLEAN : worker = [at |-> w, rerun |-> r]
    BY WorkerIs DEF GitInv
  <2> QED
    BY <1>1, <2>1, <2>2, ShapeOfBuilds DEF GitInv, GitAsked
<1>4. mishaps' \in 0 .. MaxMishaps
  BY DEF GitInv, TreeShape
<1>5. TreeShape' /\ OpInv' /\ TreeInv' /\ CommitInv'
  BY <1>4, TreeStays
<1>6. \A c \in Builders : Busy(c)' <=> Busy(c)
  BY <1>2 DEF Busy
<1>7. BuilderInv'
  <2>1. \A u \in GitTasks : graphBuild'[u].at # "none" => op'[u].next # 0 /\ Current(u)' \in Graphing
    BY <1>2 DEF GitInv, BuilderInv, Current, Builders
  <2>2. worker'.at = "building" <=> graphBuild'["worker"].at # "none"
    BY <1>1, <1>2 DEF GitInv, BuilderInv, Builders
  <2> QED
    BY <1>6, <2>1, <2>2 DEF GitInv, BuilderInv
<1>8. GraphInv'
  BY <1>2 DEF GitInv, GraphInv
<1>9. WantedInv'
  <2>1. Pending'
    BY <1>1, <1>2 DEF Pending
  <2>2. wanted'.head = HeadOf(repo)
    BY DEF GitAsked
  <2> QED
    BY <2>1, <2>2 DEF WantedInv, HeadOf
<1> QED
  BY <1>3, <1>5, <1>7, <1>8, <1>9 DEF GitInv

\* The background task is begun for a large one, or runs once more.
LEMMA EnqueueKeeps ==
  ASSUME GitInv, NEW t \in GitTasks, op[t].next # 0, graphBuild[t].at = "none", Current(t) \in Graphing,
         repo.there, GitAsked, EnqueueBuild, FinishGit(t, "queued"),
         UNCHANGED <<load, repo, remote, staging, commits, graphBuild, graph, mixedCommit, mishaps>>
  PROVE  GitInv'
<1>1. mishaps' \in 0 .. MaxMishaps
  BY DEF GitInv, TreeShape
<1>2. /\ TreeShape' /\ OpInv' /\ TreeInv' /\ CommitInv'
      /\ \A u \in GitTasks : u # t => op'[u] = op[u] /\ Current(u)' = Current(u)
  BY <1>1, TreeStaysAtEnd DEF Graphing
<1>3. \E w \in {"none", "begun", "building", "returned"}, r \in BOOLEAN :
        /\ worker' = [at |-> w, rerun |-> r] /\ (w = "building" <=> worker.at = "building")
        /\ w = "begun" \/ (r /\ w \in {"building", "returned"})
  <2>1. CASE worker.at = "none"
    <3>1. worker' = [at |-> "begun", rerun |-> FALSE]
      BY <2>1 DEF EnqueueBuild
    <3>2. \E r \in BOOLEAN : worker' = [at |-> "begun", rerun |-> r]
      BY <3>1, Zenon
    <3> QED
      BY <2>1, <3>2
  <2>2. CASE worker.at # "none"
    <3>1. worker' = [worker EXCEPT !.rerun = TRUE]
      BY <2>2 DEF EnqueueBuild
    <3>2. \E v : v = TRUE /\ worker' = [worker EXCEPT !.rerun = v]
      BY <3>1, Zenon
    <3>3. PICK v : v = TRUE /\ worker' = [worker EXCEPT !.rerun = v]
      BY <3>2
    <3>4. worker' = [at |-> worker.at, rerun |-> v]
      BY <3>3, WorkerIs DEF GitInv
    <3>5. worker.at \in {"begun", "building", "returned"} /\ v \in BOOLEAN
      BY <2>2, <3>3 DEF GitInv, BuildShape
    <3> QED
      BY <3>3, <3>4, <3>5
  <2> QED
    BY <2>1, <2>2
<1>4. PICK w \in {"none", "begun", "building", "returned"}, r \in BOOLEAN :
        /\ worker' = [at |-> w, rerun |-> r] /\ (w = "building" <=> worker.at = "building")
        /\ w = "begun" \/ (r /\ w \in {"building", "returned"})
  BY <1>3
<1>5. worker'.at = w /\ worker'.rerun = r /\ wanted'.head = HeadOf(repo)
      /\ wanted' = [asked |-> wanted'.asked, head |-> wanted'.head] /\ worker' = [at |-> worker'.at, rerun |-> worker'.rerun]
  BY <1>4 DEF GitAsked
<1>6. BuildShape'
  BY <1>5 DEF GitInv, BuildShape
<1>7. BuilderInv'
  <2>1. \A u \in GitTasks : graphBuild'[u].at # "none" => op'[u].next # 0 /\ Current(u)' \in Graphing
    BY <1>2 DEF GitInv, BuilderInv
  <2>2. worker'.at = "building" <=> graphBuild'["worker"].at # "none"
    BY <1>4, <1>5 DEF GitInv, BuilderInv
  <2> QED
    BY <2>1, <2>2 DEF GitInv, BuilderInv, Busy
<1>8. GraphInv'
  BY DEF GitInv, GraphInv
<1>9. WantedInv'
  BY <1>4, <1>5 DEF WantedInv, Pending, HeadOf
<1> QED
  BY <1>2, <1>6, <1>7, <1>8, <1>9 DEF GitInv

\* No graph is to be built.
LEMMA AsksNothingKeeps ==
  ASSUME GitInv, NEW t \in GitTasks, op[t].next # 0, graphBuild[t].at = "none", Current(t) \in Graphing, NEW how,
         FinishGit(t, how), UNCHANGED <<load, repo, remote, staging, commits, graphBuild, worker, wanted, graph, mixedCommit, mishaps>>
  PROVE  GitInv'
<1>1. mishaps' \in 0 .. MaxMishaps
  BY DEF GitInv, TreeShape
<1>2. /\ TreeShape' /\ OpInv' /\ TreeInv' /\ CommitInv'
      /\ \A u \in GitTasks : u # t => op'[u] = op[u] /\ Current(u)' = Current(u)
  BY <1>1, TreeStaysAtEnd DEF Graphing
<1>3. HeadOf(repo') = HeadOf(repo)
  BY DEF HeadOf
<1>4. \A u \in GitTasks : graphBuild[u].at # "none" => op'[u] = op[u] /\ Current(u)' = Current(u)
  BY <1>2
<1>5. BuildShape' /\ BuilderInv' /\ GraphInv' /\ WantedInv'
  BY <1>3, <1>4, BuildersStay
<1> QED
  BY <1>2, <1>5 DEF GitInv

LEMMA AskGraphKeeps ==
  ASSUME GitInv, NEW t \in GitTasks, AskGraph(t)
  PROVE  GitInv'
<1>1. /\ op[t].next # 0 /\ graphBuild[t].at = "none" /\ Current(t) \in Graphing
      /\ UNCHANGED <<load, repo, remote, staging, commits, graph, mixedCommit, mishaps>>
  BY DEF AskGraph, Graphing
<1>2. \/ (\E how : FinishGit(t, how)) /\ UNCHANGED <<graphBuild, worker, wanted>>
      \/ repo.there /\ GitAsked /\ EnqueueBuild /\ FinishGit(t, "queued") /\ UNCHANGED graphBuild
      \/ repo.there /\ GitAsked /\ (\E force : GitStarts(t, force)) /\ UNCHANGED <<worker, op, results>>
  BY Zenon DEF AskGraph
<1> QED
  BY <1>1, <1>2, AsksNothingKeeps, EnqueueKeeps, WaitsKeeps

LEMMA WorkerKeeps ==
  ASSUME GitInv, WorkerBegins \/ WorkerDone
  PROVE  GitInv'
<1>1. UNCHANGED <<load, repo, remote, staging, op, results, commits, graph, wanted, mixedCommit, mishaps>>
  BY DEF WorkerBegins, WorkerDone
<1>2. mishaps' \in 0 .. MaxMishaps
  BY <1>1 DEF GitInv, TreeShape
<1>3. TreeShape' /\ OpInv' /\ TreeInv' /\ CommitInv'
  BY <1>1, <1>2, TreeStays
<1>4. "worker" \in Builders
  BY DEF Builders
<1>5. CASE WorkerBegins
  <2>1. worker.at = "begun" /\ worker' = [at |-> "building", rerun |-> FALSE] /\ GitStarts("worker", FALSE)
    BY <1>5 DEF WorkerBegins
  <2>2. worker'.at = "building"
    BY <2>1
  <2>3. graphBuild["worker"].at = "none"
    BY <2>1 DEF GitInv, BuilderInv
  <2>4. graphBuild'["worker"].at = "lock" /\ \A c \in Builders : c # "worker" => graphBuild'[c] = graphBuild[c]
    BY <1>4, <2>1, Starts DEF GitInv
  <2>5. BuildShape'
    <3>1. PICK new : BuildRecord(new) /\ graphBuild' = [graphBuild EXCEPT !["worker"] = new]
      BY <1>4, <2>1, Starts DEF GitInv
    <3>2. \E a, h : wanted' = [asked |-> a, head |-> h]
      BY <1>1 DEF GitInv, BuildShape
    <3>3. \E r \in BOOLEAN : worker' = [at |-> "building", rerun |-> r]
      BY <2>1, Zenon
    <3>4. "building" \in {"none", "begun", "building", "returned"}
      OBVIOUS
    <3> QED
      BY <1>4, <3>1, <3>2, <3>3, <3>4, ShapeOfBuilds DEF GitInv
  <2>6. \A c \in Builders : Busy(c)' <=> Busy(c)
    BY <2>3, <2>4 DEF Busy
  <2>7. BuilderInv'
    <3>1. \A u \in GitTasks : graphBuild'[u].at # "none" => op'[u].next # 0 /\ Current(u)' \in Graphing
      BY <1>1, <2>4, GitAssumption DEF GitInv, BuilderInv, Current, Builders
    <3> QED
      BY <2>2, <2>4, <2>6, <3>1 DEF GitInv, BuilderInv
  <2>8. GraphInv'
    BY <1>1, <2>4 DEF GitInv, GraphInv
  <2>9. WantedInv'
    BY <1>1, <1>4, <2>4 DEF GitInv, WantedInv, HeadOf, Pending
  <2> QED
    BY <1>3, <2>5, <2>7, <2>8, <2>9 DEF GitInv
<1>6. CASE WorkerDone
  <2>1. /\ worker.at = "returned" /\ UNCHANGED graphBuild
        /\ worker' = IF worker.rerun THEN [at |-> "begun", rerun |-> FALSE] ELSE [at |-> "none", rerun |-> FALSE]
    BY <1>6 DEF WorkerDone
  <2>2. \E w \in {"none", "begun"}, r \in BOOLEAN : worker' = [at |-> w, rerun |-> r] /\ (worker.rerun => w = "begun")
    BY <2>1, Zenon
  <2>3. PICK w \in {"none", "begun"}, r \in BOOLEAN : worker' = [at |-> w, rerun |-> r] /\ (worker.rerun => w = "begun")
    BY <2>2
  <2>4. worker'.at = w /\ worker'.rerun = r /\ worker' = [at |-> worker'.at, rerun |-> worker'.rerun]
    BY <2>3
  <2>5. BuildShape'
    BY <1>1, <2>1, <2>4 DEF GitInv, BuildShape
  <2>6. BuilderInv'
    BY <1>1, <2>1, <2>4 DEF GitInv, BuilderInv, Busy, Current
  <2>7. GraphInv'
    BY <1>1, <2>1 DEF GitInv, GraphInv
  <2>8. WantedInv'
    <3> SUFFICES ASSUME wanted.asked
                 PROVE  repo.there /\ HeadOf(repo) = wanted.head /\ (Pending' \/ Served')
      BY <1>1 DEF WantedInv, HeadOf
    <3>1. repo.there /\ HeadOf(repo) = wanted.head /\ (Pending \/ Served)
      BY DEF GitInv, WantedInv
    <3>2. Pending => Pending'
      BY <1>1, <2>1, <2>3, <2>4 DEF Pending, Fresh, Busy
    <3>3. Served => Served'
      BY <1>1, <2>1 DEF Served, Fresh, Busy
    <3> QED
      BY <3>1, <3>2, <3>3
  <2> QED
    BY <1>3, <2>5, <2>6, <2>7, <2>8 DEF GitInv
<1> QED
  BY <1>5, <1>6

\* A caller is cancelled: its build is lost.
LEMMA CancelKeeps ==
  ASSUME GitInv, NEW t \in GitTasks, CancelOp(t)
  PROVE  GitInv'
<1>1. /\ op[t].next # 0 /\ GitMishap /\ FinishGit(t, "cancelled") /\ graphBuild' = [graphBuild EXCEPT ![t] = NoBuild]
      /\ wanted' = IF graphBuild[t].at # "none" THEN [wanted EXCEPT !.asked = FALSE] ELSE wanted
      /\ UNCHANGED <<load, repo, remote, staging, commits, graph, worker, mixedCommit>>
  BY DEF CancelOp
<1>2. t \in Builders /\ t # "worker"
  BY GitAssumption DEF Builders
<1>3. mishaps' \in 0 .. MaxMishaps
  BY <1>1, MishapIsBounded DEF GitInv
<1>4. /\ TreeShape' /\ OpInv' /\ TreeInv' /\ CommitInv' /\ op'[t].next = 0
      /\ \A u \in GitTasks : u # t => op'[u] = op[u] /\ Current(u)' = Current(u)
  BY <1>1, <1>3, TreeStaysAtEnd
<1>5. BuildRecord(NoBuild) /\ NoBuild.at = "none"
  BY DEF NoBuild, BuildRecord
<1>6. graphBuild'[t] = NoBuild /\ \A c \in Builders : c # t => graphBuild'[c] = graphBuild[c]
  BY <1>1, <1>2, <1>5, OneBuilderMoves DEF GitInv
<1>7. wanted' = [asked |-> FALSE, head |-> wanted.head] \/ (wanted' = wanted /\ graphBuild[t].at = "none")
  BY <1>1, GraphUnasked DEF GitInv
<1>8. BuildShape'
  <2>1. \E a, h : wanted' = [asked |-> a, head |-> h]
    <3>1. CASE wanted' = wanted
      BY <3>1, WorkerIs DEF GitInv
    <3>2. CASE wanted' = [asked |-> FALSE, head |-> wanted.head]
      BY <3>2, Zenon
    <3> QED
      BY <1>7, <3>1, <3>2
  <2>2. PICK w \in {"none", "begun", "building", "returned"}, r \in BOOLEAN : worker = [at |-> w, rerun |-> r]
    BY WorkerIs DEF GitInv
  <2> QED
    BY <1>1, <1>2, <1>5, <2>1, <2>2, ShapeOfBuilds DEF GitInv
<1>9. \A c \in Builders : Busy(c)' => c # t /\ Busy(c)
  BY <1>5, <1>6 DEF Busy
<1>10. BuilderInv'
  <2>1. \A u \in GitTasks : graphBuild'[u].at # "none" => op'[u].next # 0 /\ Current(u)' \in Graphing
    BY <1>4, <1>5, <1>6 DEF GitInv, BuilderInv, Builders
  <2>2. worker'.at = "building" <=> graphBuild'["worker"].at # "none"
    BY <1>1, <1>2, <1>6 DEF GitInv, BuilderInv, Builders
  <2> QED
    BY <1>9, <2>1, <2>2 DEF GitInv, BuilderInv
<1>11. GraphInv'
  BY <1>1, <1>5, <1>6 DEF GitInv, GraphInv
<1>12. WantedInv'
  <2>1. CASE wanted' = [asked |-> FALSE, head |-> wanted.head]
    BY <2>1 DEF WantedInv
  <2>2. CASE wanted' = wanted /\ graphBuild[t].at = "none"
    <3>1. \A c \in Builders : c # t => (Fresh(c)' <=> Fresh(c)) /\ (Busy(c)' <=> Busy(c))
      BY <1>6, <2>2 DEF Fresh, Busy
    <3>2. ~Busy(t) /\ ~Busy(t)' /\ graphBuild[t].at # "lock"
      BY <1>2, <1>9, <2>2 DEF Busy
    <3>3. Pending => Pending'
      BY <1>1, <1>6, <3>1, <3>2 DEF Pending
    <3>4. Served => Served'
      BY <1>1, <2>2, <3>1, <3>2 DEF Served
    <3> QED
      BY <1>1, <2>2, <3>3, <3>4 DEF GitInv, WantedInv, HeadOf
  <2> QED
    BY <1>7, <2>1, <2>2
<1> QED
  BY <1>4, <1>8, <1>10, <1>11, <1>12 DEF GitInv

\* The thread of a cancelled build writes what it has read; somebody pushes.
LEMMA OutsideKeeps ==
  ASSUME GitInv, OthersPush \/ (\E s \in late : WriteLate(s)) \/ UNCHANGED gitVars
  PROVE  GitInv'
<1>1. CASE OthersPush
  <2>1. /\ remote' = [remote EXCEPT !["main"] = @ \cup {"m2"}]
        /\ UNCHANGED <<load, repo, staging, op, results, commits, graphBuild, graph, worker, wanted, mixedCommit, mishaps>>
    BY <1>1 DEF OthersPush
  <2>2. remote' = [b \in Branches |-> remote'[b]] /\ remote'["main"] # {}
    BY <2>1 DEF GitInv, TreeShape, Branches
  <2>3. TreeShape'
    BY <2>1, <2>2 DEF GitInv, TreeShape
  <2>4. OpInv'
    BY <2>1 DEF GitInv, OpInv
  <2>5. TreeInv'
    BY <2>1, <2>2, ResultsStay DEF GitInv, TreeInv, HeadOf
  <2>6. CommitInv'
    <3>1. \A u \in GitTasks : op'[u].next # 0 /\ Current(u)' = "commit" => op[u].next # 0 /\ Current(u) = "commit"
      BY <2>1 DEF Current
    <3> QED
      BY <2>1, <3>1, CommitsStay
  <2>7. BuildShape' /\ BuilderInv' /\ GraphInv' /\ WantedInv'
    <3>1. \A u \in GitTasks : Current(u)' = Current(u)
      BY <2>1 DEF Current
    <3>2. HeadOf(repo') = HeadOf(repo)
      BY <2>1 DEF HeadOf
    <3> QED
      BY <2>1, <3>1, <3>2, BuildersStay
  <2> QED
    BY <2>3, <2>4, <2>5, <2>6, <2>7 DEF GitInv
<1>2. CASE \E s \in late : WriteLate(s)
  <2>1. /\ mixedCommit' = TRUE /\ wanted' = [wanted EXCEPT !.asked = FALSE]
        /\ UNCHANGED <<load, repo, remote, staging, op, results, commits, graphBuild, worker, mishaps>>
    BY <1>2 DEF WriteLate
  <2>2. wanted' = [asked |-> FALSE, head |-> wanted.head]
    BY <2>1, GraphUnasked DEF GitInv
  <2>3. mishaps' \in 0 .. MaxMishaps
    BY <2>1 DEF GitInv, TreeShape
  <2>4. TreeShape' /\ OpInv' /\ TreeInv' /\ CommitInv'
    BY <2>1, <2>3, TreeStays
  <2>5. BuildShape'
    <3>1. wanted' = [asked |-> wanted'.asked, head |-> wanted'.head]
      BY <2>2
    <3> QED
      BY <2>1, <3>1 DEF GitInv, BuildShape
  <2>6. BuilderInv'
    BY <2>1 DEF GitInv, BuilderInv, Busy, Current
  <2>7. GraphInv' /\ WantedInv'
    BY <2>1, <2>2 DEF GraphInv, WantedInv
  <2> QED
    BY <2>4, <2>5, <2>6, <2>7 DEF GitInv
<1>3. CASE UNCHANGED gitVars
  <2>1. UNCHANGED <<load, repo, remote, staging, op, results, commits, graphBuild, graph, worker, wanted, mixedCommit, mishaps>>
    BY <1>3 DEF gitVars
  <2>2. mishaps' \in 0 .. MaxMishaps
    BY <2>1 DEF GitInv, TreeShape
  <2>3. TreeShape' /\ OpInv' /\ TreeInv' /\ CommitInv'
    BY <2>1, <2>2, TreeStays
  <2>4. \A u \in GitTasks : Current(u)' = Current(u)
    BY <2>1 DEF Current
  <2>5. HeadOf(repo') = HeadOf(repo)
    BY <2>1 DEF HeadOf
  <2>6. BuildShape' /\ BuilderInv' /\ GraphInv' /\ WantedInv'
    BY <2>1, <2>4, <2>5, BuildersStay
  <2> QED
    BY <2>3, <2>6 DEF GitInv
<1> QED
  BY <1>1, <1>2, <1>3

LEMMA GitStepKeeps ==
  ASSUME GitInv, [GitNext]_gitVars
  PROVE  GitInv'
<1>1. CASE \E t \in GitTasks : BeginGit(t) \/ RunGit(t) \/ GitFails(t) \/ CloneStep(t) \/ Rename(t) \/ AskGit(t) \/ Delete(t)
  BY <1>1, BeginKeeps, CommandKeeps, RenameKeeps, DeleteKeeps
<1>2. CASE \E t \in GitTasks : AskGraph(t) \/ CancelOp(t)
  BY <1>2, AskGraphKeeps, CancelKeeps
<1>3. CASE \E b \in Builders : BuildStep(b) \/ BuildFails(b)
  BY <1>3, BuildStepKeeps, BuildFailsKeeps
<1>4. CASE WorkerBegins \/ WorkerDone
  BY <1>4, WorkerKeeps
<1>5. CASE OthersPush \/ (\E s \in late : WriteLate(s)) \/ UNCHANGED gitVars
  BY <1>5, OutsideKeeps
<1> QED
  BY <1>1, <1>2, <1>3, <1>4, <1>5 DEF GitNext

\* A fresh clone.
LEMMA ClonedIs ==
  ASSUME NEW origin, NEW r, r = Cloned(origin)
  PROVE  /\ r = [there |-> TRUE, whole |-> TRUE, head |-> "main", branches |-> r.branches,
                 dirty |-> {}, staged |-> {}, merging |-> FALSE]
         /\ r.branches = [b \in Branches |-> r.branches[b]] /\ r.branches["main"] = origin["main"]
BY DEF Cloned, NoRepo, Branches

LEMMA GitInitKeeps ==
  ASSUME GitInit
  PROVE  GitInv
<1>1. /\ load \in GitLoads /\ staging = {} /\ results = {} /\ commits = {} /\ mishaps = 0
      /\ op = [t \in GitTasks |-> [left |-> load.ops[t], next |-> 0, seen |-> {}]]
      /\ graphBuild = [b \in Builders |-> NoBuild]
  BY DEF GitInit
<1>2. load.ops \in [GitTasks -> Seq(Ops)] /\ load.staged \subseteq {"f", "g"}
  BY <1>1, GitAssumption
<1>3. remote = [b \in Branches |-> remote[b]] /\ remote["main"] # {}
  <2>1. NoRepo.branches = [b \in Branches |-> {}]
    BY DEF NoRepo, Branches
  <2> QED
    BY <2>1 DEF GitInit, Branches
<1>4. NoRepo = [there |-> NoRepo.there, whole |-> NoRepo.whole, head |-> "main", branches |-> [b \in Branches |-> {}],
                dirty |-> {}, staged |-> {}, merging |-> NoRepo.merging] /\ ~NoRepo.there /\ NoRepo.there \in BOOLEAN
  BY DEF NoRepo, Branches
<1>5. /\ repo = [there |-> repo.there, whole |-> repo.whole, head |-> repo.head, branches |-> repo.branches,
                 dirty |-> repo.dirty, staged |-> repo.staged, merging |-> repo.merging]
      /\ repo.there \in BOOLEAN /\ repo.head \in Branches /\ repo.staged \subseteq {"f", "g"} /\ repo.dirty \subseteq {"f", "g"}
      /\ repo.branches = [b \in Branches |-> repo.branches[b]]
      /\ repo.there => repo.whole /\ HeadOf(repo) # {} /\ repo.branches["main"] # {}
  <2>1. CASE load.cloned
    <3> DEFINE r == Cloned(remote)
    <3>1. /\ r = [there |-> TRUE, whole |-> TRUE, head |-> "main", branches |-> r.branches,
                  dirty |-> {}, staged |-> {}, merging |-> FALSE]
          /\ r.branches = [b \in Branches |-> r.branches[b]] /\ r.branches["main"] = remote["main"]
      BY ClonedIs
    <3>2. repo = [r EXCEPT !.staged = load.staged]
      BY <2>1 DEF GitInit
    <3> HIDE DEF r
    <3>3. /\ repo = [there |-> repo.there, whole |-> repo.whole, head |-> repo.head, branches |-> repo.branches,
                     dirty |-> repo.dirty, staged |-> repo.staged, merging |-> repo.merging]
          /\ repo.there = TRUE /\ repo.whole = TRUE /\ repo.head = "main" /\ repo.dirty = {} /\ repo.staged = load.staged
          /\ repo.branches = r.branches
      BY <3>1, <3>2
    <3>4. repo.branches = [b \in Branches |-> repo.branches[b]] /\ repo.branches["main"] = remote["main"]
      BY <3>1, <3>3
    <3> QED
      BY <1>2, <1>3, <3>3, <3>4 DEF Branches, HeadOf
  <2>2. CASE ~load.cloned
    <3>1. repo = NoRepo
      BY <2>2 DEF GitInit
    <3> QED
      BY <1>4, <3>1 DEF Branches
  <2> QED
    BY <2>1, <2>2
<1>6. TreeShape
  BY <1>1, <1>3, <1>5, GitAssumption DEF TreeShape
<1>7. \A t \in GitTasks : op[t] = [left |-> load.ops[t], next |-> 0, seen |-> {}]
  BY <1>1
<1>8. OpInv
  <2>1. \A t \in GitTasks : \A r : r = op[t] => OpRecord(r)
    <3> SUFFICES ASSUME NEW t \in GitTasks, NEW r, r = op[t]
                 PROVE  OpRecord(r)
      OBVIOUS
    <3>1. load.ops[t] \in Seq(Ops)
      BY <1>2
    <3>2. \A l : r = [left |-> l, next |-> 0, seen |-> {}] /\ l \in Seq(Ops) => OpRecord(r)
      BY DEF OpRecord
    <3>3. r = [left |-> load.ops[t], next |-> 0, seen |-> {}]
      BY <1>7
    <3> QED
      BY <3>1, <3>2, <3>3, Zenon
  <2>2. \A t \in GitTasks : op[t].left = load.ops[t]
    <3>1. \A r, l : r = [left |-> l, next |-> 0, seen |-> {}] => r.left = l
      OBVIOUS
    <3> QED
      BY <1>7, <3>1, Zenon
  <2>3. op = [t \in GitTasks |-> op[t]]
    BY <1>1
  <2> QED
    BY <1>1, <2>1, <2>2, <2>3 DEF OpInv
<1>9. TreeInv
  BY <1>1, <1>3, <1>5 DEF TreeInv
<1>10. CommitInv
  BY <1>1, <1>7 DEF CommitInv
<1>11. \A b \in Builders : graphBuild[b] = NoBuild /\ graphBuild[b].at = "none"
  BY <1>1 DEF NoBuild
<1>12. BuildShape
  <2>1. NoBuild = [at |-> NoBuild.at, listed |-> NoBuild.listed, head |-> NoBuild.head, content |-> NoBuild.content, force |-> NoBuild.force]
    BY DEF NoBuild
  <2>2. worker = [at |-> worker.at, rerun |-> worker.rerun] /\ worker.at = "none" /\ worker.rerun \in BOOLEAN
    BY DEF GitInit
  <2>3. wanted = [asked |-> wanted.asked, head |-> wanted.head]
    BY DEF GitInit
  <2>4. graphBuild = [b \in Builders |-> graphBuild[b]]
    BY <1>1
  <2> QED
    BY <1>11, <2>1, <2>2, <2>3, <2>4 DEF BuildShape
<1>13. BuilderInv
  BY <1>11 DEF BuilderInv, Busy, Builders, GitInit
<1>14. GraphInv
  BY <1>11 DEF GraphInv, GitInit, NoGraph
<1>15. WantedInv
  BY DEF WantedInv, GitInit
<1> QED
  BY <1>6, <1>8, <1>9, <1>10, <1>12, <1>13, <1>14, <1>15 DEF GitInv

\* What the invariant says of the tree, of the commits and of the graph.
LEMMA GitIsSound ==
  ASSUME GitInv
  PROVE  GitTypeOK /\ WorkIsKept /\ CloneIsWhole /\ CommitHoldsSelection /\ OneBuild /\ GraphIsCurrent
<1>1. GitTypeOK
  BY DEF GitTypeOK, GitInv, TreeShape, OpInv, BuildShape, Branches
<1>2. WorkIsKept
  BY DEF WorkIsKept, GitInv, CommitInv, Branches, RemovalTried
<1>3. CloneIsWhole
  <2>1. \A t \in staging : (op[t].next # 0 /\ op[t].left[1] = "clone") \/ Abandoned
    BY DEF GitInv, TreeInv
  <2> QED
    BY <2>1 DEF CloneIsWhole, GitInv, TreeInv
<1>4. CommitHoldsSelection
  BY DEF CommitHoldsSelection, GitInv, CommitInv
<1>5. OneBuild
  <2> DEFINE S == {b \in Builders : Busy(b)}
  <2>1. S = {} \/ \E b : S = {b}
    BY DEF GitInv, BuilderInv
  <2> HIDE DEF S
  <2>2. Cardinality(S) <= 1
    <3>1. CASE S = {}
      BY <3>1, FS_EmptySet
    <3>2. CASE \E b : S = {b}
      <4>1. PICK b : S = {b}
        BY <3>2
      <4>2. Cardinality({b}) = 1
        BY FS_Singleton
      <4> QED
        BY <4>1, <4>2
    <3> QED
      BY <2>1, <3>1, <3>2
  <2> QED
    BY <2>2 DEF OneBuild, S
<1>6. GraphIsCurrent
  <2> SUFFICES ASSUME Quiet, wanted.asked
               PROVE  /\ repo.there /\ HeadOf(repo) = wanted.head
                      /\ graph.there /\ graph.head = wanted.head /\ (mixedCommit \/ graph.content = wanted.head)
    BY DEF GraphIsCurrent
  <2>1. repo.there /\ HeadOf(repo) = wanted.head /\ (Pending \/ Served)
    BY DEF GitInv, WantedInv
  <2>2. ~Pending
    BY DEF Quiet, Pending, Busy
  <2>3. graph.there /\ graph.head = wanted.head
    BY <2>1, <2>2 DEF Served
  <2>4. mixedCommit \/ graph.content = graph.head
    BY <2>3 DEF GitInv, GraphInv
  <2> QED
    BY <2>1, <2>3, <2>4
<1> QED
  BY <1>1, <1>2, <1>3, <1>4, <1>5, <1>6

-----------------------------------------------------------------------------
(***************************************************************************)
(* Knowledge of a project (KnowledgeBase)                                  *)
(***************************************************************************)
\* What is loaded is a function of the detail files, within the budget.
BudgetInv ==
  /\ context = [offered |-> context.offered, loaded |-> context.loaded]
  /\ context.loaded = [s \in Details |-> context.loaded[s]]
  /\ BudgetIsKept

LEMMA DetailsAreFinite == IsFiniteSet(Details)
<1>1. IsFiniteSet({"c"})
  BY FS_Singleton
<1>2. IsFiniteSet({"c"} \cup {"d"})
  BY <1>1, FS_AddElement
<1>3. Details = {"c"} \cup {"d"}
  BY DEF Details
<1> QED
  BY <1>2, <1>3

LEMMA HeldIsFinite == IsFiniteSet(HeldFiles) /\ Cardinality(HeldFiles) \in Nat
<1>1. IsFiniteSet(Details)
  BY DetailsAreFinite
<1>2. HeldFiles \subseteq Details
  BY DEF HeldFiles
<1>3. IsFiniteSet(HeldFiles)
  BY <1>1, <1>2, FS_Subset
<1> QED
  BY <1>3, FS_CardinalityType

\* Fewer files, or one more where there is room, are within the budget.
LEMMA BudgetGoesOn ==
  ASSUME BudgetInv, context' = [offered |-> context'.offered, loaded |-> context'.loaded],
         context'.loaded = [s \in Details |-> context'.loaded[s]],
         \/ HeldFiles' \subseteq HeldFiles
         \/ WithinBudget /\ \E s : HeldFiles' \subseteq HeldFiles \cup {s}
  PROVE  BudgetInv'
<1>1. IsFiniteSet(HeldFiles) /\ Cardinality(HeldFiles) \in Nat /\ MaxLoaded \in Nat
  BY HeldIsFinite, KnowledgeAssumption
<1>2. CASE HeldFiles' \subseteq HeldFiles
  <2>1. Cardinality(HeldFiles') <= Cardinality(HeldFiles) /\ Cardinality(HeldFiles') \in Nat
    BY <1>1, <1>2, FS_Subset, FS_CardinalityType
  <2>2. Cardinality(HeldFiles') <= MaxLoaded
    BY <1>1, <2>1 DEF BudgetInv, BudgetIsKept
  <2> QED
    BY <2>2 DEF BudgetInv, BudgetIsKept
<1>3. CASE WithinBudget /\ \E s : HeldFiles' \subseteq HeldFiles \cup {s}
  <2>1. PICK s : HeldFiles' \subseteq HeldFiles \cup {s}
    BY <1>3
  <2>2. IsFiniteSet(HeldFiles \cup {s}) /\ Cardinality(HeldFiles \cup {s}) <= Cardinality(HeldFiles) + 1
        /\ Cardinality(HeldFiles \cup {s}) \in Nat
    <3>1. /\ IsFiniteSet(HeldFiles \cup {s})
          /\ Cardinality(HeldFiles \cup {s}) = Cardinality(HeldFiles) \/ Cardinality(HeldFiles \cup {s}) = Cardinality(HeldFiles) + 1
      BY <1>1, FS_AddElement
    <3> QED
      BY <1>1, <3>1
  <2>3. Cardinality(HeldFiles') <= Cardinality(HeldFiles \cup {s}) /\ Cardinality(HeldFiles') \in Nat
    BY <2>1, <2>2, FS_Subset, FS_CardinalityType
  <2>4. Cardinality(HeldFiles') <= MaxLoaded
    BY <1>1, <1>3, <2>2, <2>3 DEF WithinBudget
  <2> QED
    BY <2>4 DEF BudgetInv, BudgetIsKept
<1> QED
  BY <1>2, <1>3

LEMMA BudgetInitKeeps ==
  ASSUME KnowledgeInit
  PROVE  BudgetInv
<1>1. context = [offered |-> {"d"}, loaded |-> [s \in Details |-> 0]]
  BY DEF KnowledgeInit
<1>2. HeldFiles = {}
  BY <1>1 DEF HeldFiles
<1>3. Cardinality(HeldFiles) <= MaxLoaded
  BY <1>2, FS_EmptySet, KnowledgeAssumption
<1> QED
  BY <1>1, <1>3 DEF BudgetInv, BudgetIsKept

\* A step sets, drops or adds one file.
LEMMA OneFileChanges ==
  ASSUME BudgetInv, NEW s, NEW v, NEW o,
         \/ context' = [context EXCEPT !.loaded[s] = v]
         \/ context' = [offered |-> o, loaded |-> [context.loaded EXCEPT ![s] = v]]
  PROVE  /\ context' = [offered |-> context'.offered, loaded |-> context'.loaded]
         /\ context'.loaded = [t \in Details |-> context'.loaded[t]]
         /\ \A t \in Details : t # s => context'.loaded[t] = context.loaded[t]
         /\ s \in Details => context'.loaded[s] = v
<1> DEFINE new == [context.loaded EXCEPT ![s] = v]
<1>1. /\ new = [t \in Details |-> new[t]] /\ \A t \in Details : t # s => new[t] = context.loaded[t]
      /\ s \in Details => new[s] = v
  BY DEF BudgetInv
<1>2. \E q : context' = [offered |-> q, loaded |-> new]
  <2>1. ASSUME context' = [context EXCEPT !.loaded[s] = v]
        PROVE  context' = [offered |-> context.offered, loaded |-> new]
    BY <2>1 DEF BudgetInv
  <2> QED
    BY <2>1
<1> HIDE DEF new
<1> QED
  BY <1>1, <1>2

LEMMA BudgetStepKeeps ==
  ASSUME BudgetInv, [KnowledgeNext]_knowledgeVars
  PROVE  BudgetInv'
<1>0. ASSUME UNCHANGED context
      PROVE  BudgetInv'
  BY <1>0 DEF BudgetInv, BudgetIsKept, HeldFiles
<1>1. ASSUME NEW s, NEW v, NEW o,
             \/ context' = [context EXCEPT !.loaded[s] = v]
             \/ context' = [offered |-> o, loaded |-> [context.loaded EXCEPT ![s] = v]],
             s \in Details => v = 0 \/ context.loaded[s] # 0 \/ WithinBudget
      PROVE  BudgetInv'
  <2>1. /\ context' = [offered |-> context'.offered, loaded |-> context'.loaded]
        /\ context'.loaded = [t \in Details |-> context'.loaded[t]]
        /\ \A t \in Details : t # s => context'.loaded[t] = context.loaded[t]
        /\ s \in Details => context'.loaded[s] = v
    BY <1>1, OneFileChanges
  <2>2. \/ HeldFiles' \subseteq HeldFiles
        \/ WithinBudget /\ HeldFiles' \subseteq HeldFiles \cup {s}
    BY <1>1, <2>1 DEF HeldFiles
  <2> QED
    BY <2>1, <2>2, BudgetGoesOn
<1>2. ASSUME NEW a \in Doers, WriteTold(a)
      PROVE  BudgetInv'
  <2> DEFINE s == About(a)
             v == work[a].seen[s]
  <2>1. \/ context' = context
        \/ context.loaded[s] # 0 /\ context' = [context EXCEPT !.loaded[s] = v]
        \/ context' = [context EXCEPT !.offered = @ \cup {s}]
    BY <1>2 DEF WriteTold
  <2>2. CASE context' = [context EXCEPT !.offered = @ \cup {s}]
    <3>1. context' = [offered |-> context.offered \cup {s}, loaded |-> context.loaded]
      <4> HIDE DEF s
      <4> QED
        BY <2>2 DEF BudgetInv
    <3>2. HeldFiles' = HeldFiles
      BY <3>1 DEF HeldFiles
    <3> QED
      BY <3>1, <3>2, BudgetGoesOn DEF BudgetInv
  <2> QED
    BY <1>0, <1>1, <2>1, <2>2
<1>3. ASSUME NEW a \in Doers, ForgetFile(a)
      PROVE  BudgetInv'
  <2>1. \/ context' = context
        \/ context' = [offered |-> context.offered \ {About(a)}, loaded |-> [context.loaded EXCEPT ![About(a)] = 0]]
    BY <1>3 DEF ForgetFile
  <2> QED
    BY <1>0, <1>1, <2>1
<1>4. ASSUME NEW a \in Doers, TakeLoad(a)
      PROVE  BudgetInv'
  <2> DEFINE s == About(a)
             v == IF context.loaded[s] # 0 THEN context.loaded[s] ELSE file[s]
  <2>1. \/ context' = context
        \/ WithinBudget /\ context' = [offered |-> context.offered \ {s}, loaded |-> [context.loaded EXCEPT ![s] = v]]
    BY <1>4 DEF TakeLoad, HasRoom
  <2> QED
    BY <1>0, <1>1, <2>1
<1>5. ASSUME NEW a \in Doers, Unload(a)
      PROVE  BudgetInv'
  <2>1. context' = context \/ context' = [context EXCEPT !.loaded[About(a)] = 0]
    BY <1>5 DEF Unload
  <2> QED
    BY <1>0, <1>1, <2>1
<1>6. ASSUME NEW a \in Doers, RefreshEntry(a)
      PROVE  BudgetInv'
  <2>1. \/ context' = context
        \/ context.loaded[About(a)] # 0 /\ context' = [context EXCEPT !.loaded[About(a)] = file[About(a)]]
    BY <1>6 DEF RefreshEntry
  <2> QED
    BY <1>0, <1>1, <2>1
<1>7. CASE BuildRestore
  <2> DEFINE held == {s \in LoadedByEvents : file[s] # 0}
  <2>1. PICK kept \in SUBSET held :
          /\ Cardinality(kept) <= MaxLoaded
          /\ context' = [offered |-> Offered(kept), loaded |-> [s \in Details |-> IF s \in kept THEN file[s] ELSE 0]]
    BY <1>7 DEF BuildRestore
  <2>2. /\ context' = [offered |-> context'.offered, loaded |-> context'.loaded]
        /\ context'.loaded = [s \in Details |-> context'.loaded[s]]
        /\ HeldFiles' \subseteq kept
    BY <2>1 DEF HeldFiles
  <2>3. IsFiniteSet(kept)
    <3>1. IsFiniteSet(Details)
      BY DetailsAreFinite
    <3>2. kept \subseteq Details
      BY DEF LoadedByEvents
    <3> QED
      BY <3>1, <3>2, FS_Subset
  <2>4. Cardinality(HeldFiles') <= Cardinality(kept) /\ Cardinality(HeldFiles') \in Nat /\ Cardinality(kept) \in Nat
    BY <2>2, <2>3, FS_Subset, FS_CardinalityType
  <2>5. Cardinality(HeldFiles') <= MaxLoaded
    BY <2>1, <2>4, KnowledgeAssumption
  <2> QED
    BY <2>2, <2>5 DEF BudgetInv, BudgetIsKept
<1>8. CASE UNCHANGED knowledgeVars
  BY <1>0, <1>8 DEF knowledgeVars
<1>9. ASSUME NEW a \in Doers,
             \/ BeginWork(a) \/ WriteFile(a) \/ SyncParent(a) \/ ParentRow(a) \/ ReadForIndex(a) \/ IndexRow(a)
             \/ Unlink(a) \/ DropRow(a) \/ Purge(a) \/ RemoveOutside(a) \/ ReadOld(a) \/ SaveBody(a)
             \/ CopyTemplate(a) \/ ScanDirectory(a) \/ IndexAll(a) \/ EvictAfterIndex(a)
             \/ CheckLoad(a) \/ RecordEvent(a)
      PROVE  UNCHANGED context
  BY <1>9 DEF BeginWork, WriteFile, SyncParent, ParentRow, ReadForIndex, IndexRow, Unlink, DropRow, Purge, RemoveOutside,
       ReadOld, SaveBody, CopyTemplate, ScanDirectory, IndexAll, EvictAfterIndex, CheckLoad, RecordEvent, contextVars
<1>10. CASE BuildScan \/ BuildRows \/ BuildStore
  BY <1>0, <1>10 DEF BuildScan, BuildRows, BuildStore
<1> QED
  BY <1>0, <1>2, <1>3, <1>4, <1>5, <1>6, <1>7, <1>8, <1>9, <1>10 DEF KnowledgeNext

-----------------------------------------------------------------------------
(***************************************************************************)
(* The cache, and what a turn is offered.                                  *)
(***************************************************************************)
\* Who changed rows and has yet to evict the cache, or to leave them in doubt.
Evicting == {"told", "forget", "evict"}

StepsInv == work = [a \in Doers |-> work[a]] /\ \A a \in Doers : "at" \in DOMAIN work[a]
CacheInv ==
  /\ contextBuild = [at |-> contextBuild.at, onDisk |-> contextBuild.onDisk, indexed |-> contextBuild.indexed]
  /\ contextBuild.at = "store" /\ "build" \notin mixedRow => contextBuild.indexed = CachedRows
  /\ rowCache # {} /\ doubt = {} => rowCache = CachedRows \/ \E a \in Doers : StepOf(a) \in Evicting

\* What a turn that nobody crosses has found on the disk is still there.
OfferInv ==
  /\ contextBuild.at # "none" /\ "build" \notin mixedRow => contextBuild.onDisk = {s \in Details : file[s] # 0}
  /\ NothingVanishes

RowsInv == fileRows = [s \in Slugs |-> fileRows[s]]

KnowInv == BudgetInv /\ StepsInv /\ RowsInv /\ CacheInv /\ OfferInv

DoerSteps(a) ==
  \/ BeginWork(a) \/ WriteFile(a) \/ SyncParent(a) \/ ParentRow(a) \/ ReadForIndex(a) \/ IndexRow(a) \/ WriteTold(a)
  \/ Unlink(a) \/ DropRow(a) \/ ForgetFile(a) \/ Purge(a) \/ RemoveOutside(a)
  \/ ReadOld(a) \/ SaveBody(a) \/ CopyTemplate(a) \/ ScanDirectory(a) \/ IndexAll(a) \/ EvictAfterIndex(a)
  \/ CheckLoad(a) \/ TakeLoad(a) \/ Unload(a) \/ RecordEvent(a) \/ RefreshEntry(a)

StepsOf(s, a) == s = [b \in Doers |-> s[b]] /\ (\A b \in Doers : "at" \in DOMAIN s[b]) /\ \A b \in Doers : b # a => s[b] = work[b]

LEMMA OneGoes ==
  ASSUME NEW a \in Doers, NEW s, StepsOf(s, a), NEW r, "at" \in DOMAIN r
  PROVE  StepsOf([s EXCEPT ![a] = r], a)
<1> DEFINE t == [s EXCEPT ![a] = r]
<1>1. t = [b \in Doers |-> t[b]] /\ t[a] = r /\ \A b \in Doers : b # a => t[b] = s[b]
  BY DEF StepsOf
<1> HIDE DEF t
<1>2. StepsOf(t, a)
  BY <1>1 DEF StepsOf
<1> QED
  BY <1>2 DEF t

LEMMA FieldGoes ==
  ASSUME NEW a \in Doers, NEW s, StepsOf(s, a), NEW v
  PROVE  /\ StepsOf([s EXCEPT ![a].at = v], a) /\ [s EXCEPT ![a].at = v][a].at = v
         /\ StepsOf([s EXCEPT ![a].ok = v], a) /\ StepsOf([s EXCEPT ![a].list = v], a)
         /\ StepsOf([s EXCEPT ![a].synced = v], a) /\ StepsOf([s EXCEPT ![a].seen = v], a)
<1> DEFINE q == s[a]
<1>1. "at" \in DOMAIN q
  BY DEF StepsOf
<1>2. /\ "at" \in DOMAIN [q EXCEPT !.at = v] /\ [q EXCEPT !.at = v].at = v
      /\ "at" \in DOMAIN [q EXCEPT !.ok = v] /\ "at" \in DOMAIN [q EXCEPT !.list = v]
      /\ "at" \in DOMAIN [q EXCEPT !.synced = v] /\ "at" \in DOMAIN [q EXCEPT !.seen = v]
  <2> HIDE DEF q
  <2> QED
    BY <1>1
<1>3. /\ StepsOf([s EXCEPT ![a] = [q EXCEPT !.at = v]], a)
      /\ StepsOf([s EXCEPT ![a] = [q EXCEPT !.ok = v]], a) /\ StepsOf([s EXCEPT ![a] = [q EXCEPT !.list = v]], a)
      /\ StepsOf([s EXCEPT ![a] = [q EXCEPT !.synced = v]], a) /\ StepsOf([s EXCEPT ![a] = [q EXCEPT !.seen = v]], a)
  <2> HIDE DEF q
  <2> QED
    BY <1>2, OneGoes
<1>4. /\ [s EXCEPT ![a].at = v] = [s EXCEPT ![a] = [q EXCEPT !.at = v]]
      /\ [s EXCEPT ![a].ok = v] = [s EXCEPT ![a] = [q EXCEPT !.ok = v]]
      /\ [s EXCEPT ![a].list = v] = [s EXCEPT ![a] = [q EXCEPT !.list = v]]
      /\ [s EXCEPT ![a].synced = v] = [s EXCEPT ![a] = [q EXCEPT !.synced = v]]
      /\ [s EXCEPT ![a].seen = v] = [s EXCEPT ![a] = [q EXCEPT !.seen = v]]
  OBVIOUS
<1>5. [s EXCEPT ![a] = [q EXCEPT !.at = v]][a].at = v
  <2>1. a \in DOMAIN s
    BY DEF StepsOf
  <2> HIDE DEF q
  <2> QED
    BY <1>2, <2>1
<1> QED
  BY <1>3, <1>4, <1>5, Zenon

\* A doer changes its own step only.
LEMMA WorkGoes ==
  ASSUME StepsInv, NEW a \in Doers, DoerSteps(a)
  PROVE  StepsInv' /\ \A b \in Doers : b # a => work'[b] = work[b]
<1>1. StepsOf(work, a)
  BY DEF StepsInv, StepsOf
<1>2. ASSUME StepsOf(work', a)
      PROVE  StepsInv' /\ \A b \in Doers : b # a => work'[b] = work[b]
  BY <1>2 DEF StepsOf, StepsInv
<1>3. \A x : StepsOf([work EXCEPT ![a] = Resting(x)], a)
  <2> SUFFICES ASSUME NEW x
               PROVE  StepsOf([work EXCEPT ![a] = Resting(x)], a)
    OBVIOUS
  <2>1. "at" \in DOMAIN Resting(x)
    BY DEF Resting
  <2> QED
    BY <1>1, <2>1, OneGoes
<1>4. \A x : StepsOf([work EXCEPT ![a].at = x], a)
  BY <1>1, FieldGoes
<1>5. /\ \A x, y : StepsOf([work EXCEPT ![a].at = x, ![a].ok = y], a)
      /\ \A x, y : StepsOf([work EXCEPT ![a].at = x, ![a].list = y], a)
      /\ \A x, y : StepsOf([work EXCEPT ![a].at = x, ![a].synced = y], a)
  <2> SUFFICES ASSUME NEW x, NEW y
               PROVE  /\ StepsOf([work EXCEPT ![a].at = x, ![a].ok = y], a)
                      /\ StepsOf([work EXCEPT ![a].at = x, ![a].list = y], a)
                      /\ StepsOf([work EXCEPT ![a].at = x, ![a].synced = y], a)
    OBVIOUS
  <2> DEFINE s == [work EXCEPT ![a].at = x]
  <2>1. /\ [work EXCEPT ![a].at = x, ![a].ok = y] = [s EXCEPT ![a].ok = y]
        /\ [work EXCEPT ![a].at = x, ![a].list = y] = [s EXCEPT ![a].list = y]
        /\ [work EXCEPT ![a].at = x, ![a].synced = y] = [s EXCEPT ![a].synced = y]
    OBVIOUS
  <2>2. StepsOf(s, a)
    BY <1>4
  <2> HIDE DEF s
  <2>3. StepsOf([s EXCEPT ![a].ok = y], a) /\ StepsOf([s EXCEPT ![a].list = y], a) /\ StepsOf([s EXCEPT ![a].synced = y], a)
    BY <2>2, FieldGoes
  <2> QED
    BY <2>1, <2>3, Zenon
<1>6. \A x, p, y, z, k : /\ StepsOf([work EXCEPT ![a].at = x, ![a].seen[k] = p, ![a].list = y, ![a].synced = z], a)
                         /\ StepsOf([work EXCEPT ![a].at = x, ![a].ok = z, ![a].seen[k] = p, ![a].list = y], a)
                         /\ StepsOf([work EXCEPT ![a].at = x, ![a].seen = p, ![a].list = y], a)
  <2> SUFFICES ASSUME NEW x, NEW p, NEW y, NEW z, NEW k
               PROVE  /\ StepsOf([work EXCEPT ![a].at = x, ![a].seen[k] = p, ![a].list = y, ![a].synced = z], a)
                      /\ StepsOf([work EXCEPT ![a].at = x, ![a].ok = z, ![a].seen[k] = p, ![a].list = y], a)
                      /\ StepsOf([work EXCEPT ![a].at = x, ![a].seen = p, ![a].list = y], a)
    OBVIOUS
  <2>1. \A s, v : StepsOf(s, a) => /\ StepsOf([s EXCEPT ![a].seen[k] = v], a) /\ StepsOf([s EXCEPT ![a].seen = v], a)
                                   /\ StepsOf([s EXCEPT ![a].list = v], a) /\ StepsOf([s EXCEPT ![a].synced = v], a)
    <3> SUFFICES ASSUME NEW s, NEW v, StepsOf(s, a)
                 PROVE  /\ StepsOf([s EXCEPT ![a].seen[k] = v], a) /\ StepsOf([s EXCEPT ![a].seen = v], a)
                        /\ StepsOf([s EXCEPT ![a].list = v], a) /\ StepsOf([s EXCEPT ![a].synced = v], a)
      OBVIOUS
    <3>1. \A w : StepsOf([s EXCEPT ![a].seen = w], a) /\ StepsOf([s EXCEPT ![a].list = w], a) /\ StepsOf([s EXCEPT ![a].synced = w], a)
      BY FieldGoes
    <3>2. \A w : w = [s[a].seen EXCEPT ![k] = v] => [s EXCEPT ![a].seen[k] = v] = [s EXCEPT ![a].seen = w]
      OBVIOUS
    <3> QED
      BY <3>1, <3>2, Zenon
  <2> DEFINE s1 == [work EXCEPT ![a].at = x]
             s2 == [s1 EXCEPT ![a].seen[k] = p]
             s3 == [s2 EXCEPT ![a].list = y]
             t1 == [work EXCEPT ![a].at = x, ![a].ok = z]
             t2 == [t1 EXCEPT ![a].seen[k] = p]
             u2 == [s1 EXCEPT ![a].seen = p]
  <2>2. /\ [work EXCEPT ![a].at = x, ![a].seen[k] = p, ![a].list = y, ![a].synced = z] = [s3 EXCEPT ![a].synced = z]
        /\ [work EXCEPT ![a].at = x, ![a].ok = z, ![a].seen[k] = p, ![a].list = y] = [t2 EXCEPT ![a].list = y]
        /\ [work EXCEPT ![a].at = x, ![a].seen = p, ![a].list = y] = [u2 EXCEPT ![a].list = y]
    OBVIOUS
  <2>3. StepsOf(s1, a) /\ StepsOf(t1, a)
    BY <1>4, <1>5, Zenon
  <2>4. StepsOf(s2, a) /\ StepsOf(t2, a) /\ StepsOf(u2, a)
    BY <2>1, <2>3, Zenon
  <2>5. StepsOf(s3, a)
    BY <2>1, <2>4, Zenon
  <2> HIDE DEF s3, t2, u2
  <2> QED
    BY <2>1, <2>2, <2>4, <2>5, Zenon
<1> DEFINE A1(x) == [work EXCEPT ![a].at = x]
           A2(x) == [work EXCEPT ![a] = Resting(x)]
           B1(x, y) == [work EXCEPT ![a].at = x, ![a].ok = y]
           B2(x, y) == [work EXCEPT ![a].at = x, ![a].list = y]
           B3(x, y) == [work EXCEPT ![a].at = x, ![a].synced = y]
           C1(x, p, y, z, k) == [work EXCEPT ![a].at = x, ![a].seen[k] = p, ![a].list = y, ![a].synced = z]
           C2(x, p, y, z, k) == [work EXCEPT ![a].at = x, ![a].ok = z, ![a].seen[k] = p, ![a].list = y]
           C3(x, p, y) == [work EXCEPT ![a].at = x, ![a].seen = p, ![a].list = y]
<1>7. /\ \A x : StepsOf(A1(x), a) /\ StepsOf(A2(x), a)
      /\ \A x, y : StepsOf(B1(x, y), a) /\ StepsOf(B2(x, y), a) /\ StepsOf(B3(x, y), a)
      /\ \A x, p, y, z, k : StepsOf(C1(x, p, y, z, k), a) /\ StepsOf(C2(x, p, y, z, k), a) /\ StepsOf(C3(x, p, y), a)
  <2>1. \A x : StepsOf(A1(x), a) /\ StepsOf(A2(x), a)
    BY <1>3, <1>4
  <2>2. \A x, y : StepsOf(B1(x, y), a) /\ StepsOf(B2(x, y), a) /\ StepsOf(B3(x, y), a)
    BY <1>5
  <2>3. ASSUME NEW x, NEW p, NEW y, NEW z, NEW k
        PROVE  StepsOf(C1(x, p, y, z, k), a) /\ StepsOf(C2(x, p, y, z, k), a) /\ StepsOf(C3(x, p, y), a)
    BY <1>6, Zenon
  <2> QED
    BY <2>1, <2>2, <2>3
<1>8. \/ \E x : work' = A1(x) \/ work' = A2(x)
      \/ \E x, y : work' = B1(x, y) \/ work' = B2(x, y) \/ work' = B3(x, y)
      \/ \E x, p, y, z, k : work' = C1(x, p, y, z, k) \/ work' = C2(x, p, y, z, k) \/ work' = C3(x, p, y)
  <2>1. CASE BeginWork(a) \/ WriteFile(a) \/ IndexAll(a) \/ Purge(a) \/ RemoveOutside(a) \/ EvictAfterIndex(a)
            \/ RecordEvent(a) \/ RefreshEntry(a) \/ WriteTold(a) \/ ForgetFile(a) \/ CopyTemplate(a) \/ Unload(a) \/ TakeLoad(a)
    <3>1. \E x : work' = A1(x) \/ work' = A2(x)
      BY <2>1, Zenon DEF BeginWork, WriteFile, IndexAll, Moves, Purge, RemoveOutside, EvictAfterIndex, RecordEvent,
         RefreshEntry, WriteTold, ForgetFile, Ends, CopyTemplate, Unload, TakeLoad
    <3> QED
      BY <3>1, Zenon
  <2>2. CASE ParentRow(a) \/ IndexRow(a) \/ DropRow(a) \/ SaveBody(a) \/ Unlink(a) \/ CheckLoad(a) \/ ReadOld(a)
    <3>1. CASE ParentRow(a) \/ IndexRow(a) \/ DropRow(a)
      <4>1. (\E x : work' = A1(x)) \/ \E x : work' = B1(x, FALSE)
        BY <3>1, Zenon DEF ParentRow, IndexRow, DropRow, Moves
      <4> HIDE DEF A1, B1
      <4> QED
        BY <4>1, Zenon
    <3>2. CASE SaveBody(a)
      <4>1. work' = B1(IF fileRows[About(a)] = NoRow THEN "told" ELSE "read", fileRows[About(a)] # NoRow)
        BY <3>2, Zenon DEF SaveBody
      <4> HIDE DEF B1
      <4> QED
        BY <4>1, Zenon
    <3>3. CASE Unlink(a)
      <4>1. work' = B3("unsync", file[About(a)] # 0)
        BY <3>3, Zenon DEF Unlink
      <4> HIDE DEF B3
      <4> QED
        BY <4>1, Zenon
    <3>4. CASE CheckLoad(a)
      <4>1. work' = A2(Tail(work[a].left)) \/ work' = B1("take", WithinBudget)
        BY <3>4 DEF CheckLoad
      <4> HIDE DEF A2, B1
      <4> QED
        BY <4>1, Zenon
    <3>5. CASE ReadOld(a)
      <4>1. work' = A2(Tail(work[a].left)) \/ work' = B2("save", listed)
        BY <3>5 DEF ReadOld
      <4> HIDE DEF A2, B2
      <4> QED
        BY <4>1, Zenon
    <3> QED
      BY <2>2, <3>1, <3>2, <3>3, <3>4, <3>5, Zenon
  <2>3. CASE ScanDirectory(a)
    <3>1. work' = C3("rows", file, listed)
      BY <2>3, Zenon DEF ScanDirectory
    <3> QED
      BY <3>1, Zenon
  <2>4. CASE SyncParent(a)
    <3>1. \/ work' = C1("parent", stamp + 1, StepOf(a) = "sync", TRUE, "p")
          \/ work' = B3(IF StepOf(a) = "sync" THEN "read" ELSE "row", FALSE)
      BY <2>4 DEF SyncParent
    <3> HIDE DEF B3, C1
    <3>2. \/ \E y, z : work' = C1("parent", stamp + 1, y, z, "p")
          \/ \E x, y : work' = B3(x, y)
      BY <3>1
    <3> QED
      BY <3>2, Zenon
  <2>5. CASE ReadForIndex(a)
    <3>1. work' = C2(IF file[About(a)] = 0 THEN "told" ELSE "index", file[About(a)],
                     IF About(a) = "p" THEN listed ELSE work[a].list, work[a].ok /\ file[About(a)] # 0, About(a))
      BY <2>5 DEF ReadForIndex
    <3> HIDE DEF C2
    <3> QED
      BY <3>1, Zenon
  <2> QED
    BY <2>1, <2>2, <2>3, <2>4, <2>5, Zenon DEF DoerSteps
<1> HIDE DEF A1, A2, B1, B2, B3, C1, C2, C3
<1> QED
  <2>1. StepsOf(work', a)
    BY <1>7, <1>8, Zenon
  <2> QED
    BY <1>2, <2>1, Zenon

\* Rows change before the cache is evicted, and who builds a context is told; the cache is only evicted.
LEMMA RowsGo ==
  ASSUME KnowInv, NEW a \in Doers, DoerSteps(a)
  PROVE  /\ UNCHANGED <<contextBuild, turns>> /\ RowsInv' /\ rowCache' \in {rowCache, {}}
         /\ ("build" \in mixedRow => "build" \in mixedRow')
         /\ CachedRows' = CachedRows \/ "build" \in mixedRow'
         /\ rowCache' # {} /\ doubt' = {} =>
              doubt = {} /\ (StepOf(a)' \in Evicting \/ (CachedRows' = CachedRows /\ StepOf(a) \notin Evicting))
<1>1. "build" \notin Doers /\ a # "build"
  BY KnowledgeAssumption
<1>2. ASSUME NEW s \in Slugs, NEW r, fileRows' = [fileRows EXCEPT ![s] = r]
      PROVE  RowsInv' /\ (s \notin Details => CachedRows' = CachedRows)
  <2>1. RowsInv' /\ \A t \in Slugs : t # s => fileRows'[t] = fileRows[t]
    BY <1>2 DEF KnowInv, RowsInv
  <2>2. s \notin Details => \A t \in Details : fileRows'[t] = fileRows[t]
    BY <2>1 DEF Slugs
  <2> QED
    BY <2>1, <2>2 DEF CachedRows
<1>3. ASSUME UNCHANGED fileRows
      PROVE  RowsInv' /\ CachedRows' = CachedRows
  BY <1>3 DEF KnowInv, RowsInv, CachedRows
<1>4. ASSUME Mixes(a)
      PROVE  "build" \in mixedRow'
  BY <1>1, <1>4 DEF Mixes
<1>5. ASSUME NEW x, Moves(a, x)
      PROVE  StepOf(a)' = x
  <2>1. [work EXCEPT ![a].at = x][a].at = x
    <3>1. StepsOf(work, a)
      BY DEF StepsOf, KnowInv, StepsInv
    <3> QED
      BY <3>1, FieldGoes
  <2> QED
    BY <1>5, <2>1 DEF Moves, StepOf
<1>6. CASE BeginWork(a)
  <2>1. UNCHANGED <<contextBuild, turns, rowCache, fileRows, doubt>> /\ mixedRow' = mixedRow \ {a} /\ StepOf(a) = "none"
    BY <1>6 DEF BeginWork, contextVars, indexVars
  <2> QED
    BY <1>1, <1>3, <2>1 DEF Evicting
<1>7. CASE WriteFile(a) \/ Unlink(a) \/ SaveBody(a)
  <2>1. UNCHANGED <<contextBuild, turns, rowCache, fileRows, doubt>> /\ Mixes(a) /\ StepOf(a) \in {"file", "unlink", "save"}
    BY <1>7 DEF WriteFile, Unlink, SaveBody, contextVars, indexVars
  <2> QED
    BY <1>3, <1>4, <2>1 DEF Evicting
<1>8. CASE SyncParent(a) \/ ReadForIndex(a) \/ ReadOld(a) \/ ScanDirectory(a) \/ CheckLoad(a) \/ TakeLoad(a) \/ Unload(a)
           \/ RecordEvent(a) \/ RefreshEntry(a)
  <2>1. /\ UNCHANGED <<contextBuild, turns, rowCache, fileRows, doubt>> /\ (UNCHANGED mixedRow \/ mixedRow' = mixedRow \cup {"build"} \/ Mixes(a))
        /\ StepOf(a) \in {"sync", "unsync", "read", "old", "scan", "check", "take", "unload", "loaded", "unloaded", "refresh"}
    BY <1>8 DEF SyncParent, ReadForIndex, ReadOld, ScanDirectory, CheckLoad, TakeLoad, Unload, RecordEvent, RefreshEntry,
       contextVars, indexVars, diskVars
  <2> QED
    BY <1>3, <1>4, <2>1 DEF Evicting
<1>9. CASE ParentRow(a)
  <2>1. /\ UNCHANGED <<contextBuild, turns, rowCache, doubt>> /\ StepOf(a) = "parent"
        /\ \/ UNCHANGED <<fileRows, mixedRow>>
           \/ Mixes(a) /\ \E r : fileRows' = [fileRows EXCEPT !["p"] = r]
    BY <1>9 DEF ParentRow, contextVars, RowFrom
  <2>2. "p" \in Slugs /\ "p" \notin Details
    BY DEF Slugs, Details
  <2> QED
    BY <1>2, <1>3, <1>4, <2>1, <2>2 DEF Evicting
<1>10. CASE IndexRow(a) \/ DropRow(a)
  <2>1. /\ UNCHANGED <<contextBuild, turns, rowCache, doubt>> /\ StepOf(a) \in {"index", "row"}
        /\ \/ UNCHANGED <<fileRows, mixedRow>>
           \/ /\ Mixes(a) /\ \E r : fileRows' = [fileRows EXCEPT ![About(a)] = r]
              /\ Moves(a, "told") \/ Moves(a, "forget")
    BY <1>10 DEF IndexRow, DropRow, contextVars, RowFrom
  <2>2. RowsInv'
    BY <1>3, <2>1 DEF KnowInv, RowsInv
  <2> QED
    BY <1>3, <1>4, <1>5, <2>1, <2>2 DEF Evicting
<1>11. CASE WriteTold(a) \/ ForgetFile(a)
  <2>1. /\ UNCHANGED <<contextBuild, turns, fileRows>> /\ Mixes(a) /\ rowCache' \in {rowCache, {}}
        /\ rowCache' # {} => WriteTold(a) /\ ~work[a].ok
    BY <1>11 DEF WriteTold, ForgetFile, Emptied, indexVars
  <2>2. rowCache' # {} => doubt' # {}
    <3> SUFFICES ASSUME rowCache' # {}
                 PROVE  doubt' # {}
      OBVIOUS
    <3>1. doubt' = doubt \cup {About(a), "p", "list"} \cup {}
      BY <2>1 DEF WriteTold, Ends
    <3> QED
      BY <3>1
  <2> QED
    BY <1>3, <1>4, <2>1, <2>2
<1>12. CASE Purge(a)
  <2> DEFINE gone == {s \in Slugs : fileRows[s] # NoRow /\ file[s] = 0}
  <2>1. /\ UNCHANGED <<contextBuild, turns, doubt>> /\ Mixes(a) /\ StepOf(a) = "purge"
        /\ fileRows' = [s \in Slugs |-> IF s \in gone THEN NoRow ELSE fileRows[s]]
        /\ rowCache' = IF gone = {} THEN rowCache ELSE {}
    BY <1>12 DEF Purge, contextVars
  <2>2. RowsInv'
    BY <2>1 DEF RowsInv
  <2>3. CASE gone = {}
    <3>1. fileRows' = fileRows
      BY <2>1, <2>3 DEF KnowInv, RowsInv
    <3> QED
      BY <1>3, <1>4, <2>1, <2>3, <3>1 DEF Evicting
  <2>4. CASE gone # {}
    BY <1>4, <2>1, <2>2, <2>4
  <2> QED
    BY <2>3, <2>4
<1>13. CASE RemoveOutside(a)
  <2>1. UNCHANGED <<contextBuild, turns, rowCache, fileRows>> /\ Mixes(a) /\ doubt' # {}
    BY <1>13 DEF RemoveOutside, contextVars, indexVars
  <2> QED
    BY <1>3, <1>4, <2>1
<1>14. CASE CopyTemplate(a)
  <2>1. /\ UNCHANGED <<contextBuild, turns, fileRows, doubt>> /\ Mixes(a) /\ rowCache' \in {rowCache, {}} /\ StepOf(a) = "copy"
    BY <1>14 DEF CopyTemplate, contextVars, indexVars
  <2> QED
    BY <1>3, <1>4, <2>1 DEF Evicting
<1>15. CASE IndexAll(a)
  <2>1. UNCHANGED <<contextBuild, turns, rowCache, doubt>> /\ Mixes(a) /\ Moves(a, "evict")
    BY <1>15 DEF IndexAll, contextVars, Moves
  <2>2. RowsInv'
    <3> DEFINE new == {s \in Slugs : work[a].seen[s] # 0 /\ fileRows[s] = NoRow}
               idOf == CHOOSE f \in [new -> rowIds + 1 .. rowIds + Cardinality(new)] : \A s, t \in new : s # t => f[s] # f[t]
               row(s) == IF work[a].seen[s] = 0 THEN fileRows[s]
                         ELSE [id |-> IF s \in new THEN idOf[s] ELSE fileRows[s].id,
                               ver |-> work[a].seen[s], listed |-> s = "p" /\ work[a].list]
    <3>1. fileRows' = [s \in Slugs |-> row(s)]
      BY <1>15, Zenon DEF IndexAll
    <3> HIDE DEF row
    <3> QED
      BY <3>1 DEF RowsInv
  <2> QED
    BY <1>4, <1>5, <2>1, <2>2 DEF Evicting
<1>16. CASE EvictAfterIndex(a)
  <2>1. UNCHANGED <<contextBuild, turns, fileRows>> /\ Mixes(a) /\ rowCache' = {}
    BY <1>16 DEF EvictAfterIndex, contextVars, indexVars
  <2> QED
    BY <1>3, <1>4, <2>1
<1> QED
  BY <1>6, <1>7, <1>8, <1>9, <1>10, <1>11, <1>12, <1>13, <1>14, <1>15, <1>16 DEF DoerSteps

\* Until it is crossed, a turn that is being built has found what there is.
LEMMA OfferGoes ==
  ASSUME KnowInv, NEW a \in Doers, DoerSteps(a)
  PROVE  OfferInv'
<1>1. "build" \notin Doers /\ a # "build"
  BY KnowledgeAssumption
<1>2. CASE "build" \in mixedRow'
  BY <1>2 DEF OfferInv, NothingVanishes
<1>3. CASE "build" \notin mixedRow'
  <2>1. UNCHANGED <<contextBuild, turns>> /\ "build" \notin mixedRow
    BY <1>3, RowsGo
  <2>2. ~Mixes(a)
    BY <1>1, <1>3 DEF Mixes
  <2>3. UNCHANGED file
    BY <1>3, <2>2 DEF DoerSteps, BeginWork, WriteFile, SyncParent, ParentRow, ReadForIndex, IndexRow, WriteTold, Unlink, DropRow,
       ForgetFile, Purge, RemoveOutside, ReadOld, SaveBody, CopyTemplate, ScanDirectory, IndexAll, EvictAfterIndex,
       CheckLoad, TakeLoad, Unload, RecordEvent, RefreshEntry, diskVars
  <2>4. \/ UNCHANGED context
        \/ TakeLoad(a) \/ RefreshEntry(a)
    <3>1. ~WriteTold(a) /\ ~ForgetFile(a)
      BY <2>2 DEF WriteTold, ForgetFile
    <3>2. Unload(a) => UNCHANGED context
      BY <1>3 DEF Unload
    <3> QED
      BY <3>1, <3>2 DEF DoerSteps, BeginWork, WriteFile, SyncParent, ParentRow, ReadForIndex, IndexRow, Unlink, DropRow,
       Purge, RemoveOutside, ReadOld, SaveBody, CopyTemplate, ScanDirectory, IndexAll, EvictAfterIndex,
       CheckLoad, RecordEvent, contextVars
  <2>5. contextBuild.at # "none" => contextBuild.onDisk = {s \in Details : file[s] # 0}
    BY <2>1 DEF KnowInv, OfferInv
  <2>6. SUFFICES ASSUME contextBuild.at = "none", turns > 0
                 PROVE  \A s \in Details : /\ file[s] # 0 => s \in context'.offered \/ context'.loaded[s] # 0
                                           /\ context'.loaded[s] \in {0, file[s]}
    BY <2>1, <2>3, <2>5 DEF OfferInv, NothingVanishes
  <2>7. \A s \in Details : /\ file[s] # 0 => s \in context.offered \/ context.loaded[s] # 0
                           /\ context.loaded[s] \in {0, file[s]}
    BY <2>1, <2>6 DEF KnowInv, OfferInv, NothingVanishes
  <2>8. CASE UNCHANGED context
    BY <2>7, <2>8
  <2>9. ASSUME TakeLoad(a), ~UNCHANGED context
        PROVE  \A s \in Details : /\ file[s] # 0 => s \in context'.offered \/ context'.loaded[s] # 0
                                  /\ context'.loaded[s] \in {0, file[s]}
    <3> DEFINE k == About(a)
               v == IF context.loaded[k] # 0 THEN context.loaded[k] ELSE file[k]
    <3>1. file[k] # 0 /\ context' = [offered |-> context.offered \ {k}, loaded |-> [context.loaded EXCEPT ![k] = v]]
      BY <2>9 DEF TakeLoad
    <3>2. /\ \A t \in Details : t # k => context'.loaded[t] = context.loaded[t]
          /\ k \in Details => context'.loaded[k] = v
      BY <3>1, OneFileChanges DEF KnowInv
    <3>3. context'.offered = context.offered \ {k}
      BY <3>1
    <3>4. v # 0
      BY <3>1
    <3> QED
      BY <2>7, <3>2, <3>3, <3>4
  <2>10. ASSUME RefreshEntry(a), ~UNCHANGED context
         PROVE  \A s \in Details : /\ file[s] # 0 => s \in context'.offered \/ context'.loaded[s] # 0
                                   /\ context'.loaded[s] \in {0, file[s]}
    <3> DEFINE k == About(a)
    <3>1. file[k] # 0 /\ context' = [context EXCEPT !.loaded[k] = file[k]]
      BY <2>10 DEF RefreshEntry
    <3>2. /\ \A t \in Details : t # k => context'.loaded[t] = context.loaded[t]
          /\ k \in Details => context'.loaded[k] = file[k]
      BY <3>1, OneFileChanges DEF KnowInv
    <3>3. context'.offered = context.offered
      BY <3>1 DEF KnowInv, BudgetInv
    <3> QED
      BY <2>7, <3>1, <3>2, <3>3
  <2> QED
    BY <2>4, <2>8, <2>9, <2>10
<1> QED
  BY <1>2, <1>3

LEMMA CacheGoes ==
  ASSUME KnowInv, NEW a \in Doers, DoerSteps(a)
  PROVE  CacheInv'
<1>1. /\ UNCHANGED <<contextBuild, turns>> /\ rowCache' \in {rowCache, {}}
      /\ ("build" \in mixedRow => "build" \in mixedRow')
      /\ CachedRows' = CachedRows \/ "build" \in mixedRow'
      /\ rowCache' # {} /\ doubt' = {} =>
           doubt = {} /\ (StepOf(a)' \in Evicting \/ (CachedRows' = CachedRows /\ StepOf(a) \notin Evicting))
  BY RowsGo
<1>2. \A b \in Doers : b # a => StepOf(b)' = StepOf(b)
  BY WorkGoes DEF KnowInv, StepOf
<1>3. contextBuild'.at = "store" /\ "build" \notin mixedRow' => contextBuild'.indexed = CachedRows'
  BY <1>1 DEF KnowInv, CacheInv
<1>4. ASSUME rowCache' # {}, doubt' = {}
      PROVE  rowCache' = CachedRows' \/ \E b \in Doers : StepOf(b)' \in Evicting
  <2>1. rowCache' = rowCache /\ (rowCache = CachedRows \/ \E b \in Doers : StepOf(b) \in Evicting)
    BY <1>1, <1>4 DEF KnowInv, CacheInv
  <2>2. CASE StepOf(a)' \in Evicting
    BY <2>2
  <2>3. CASE CachedRows' = CachedRows /\ StepOf(a) \notin Evicting
    <3>1. CASE rowCache = CachedRows
      BY <2>1, <2>3, <3>1
    <3>2. ASSUME NEW b \in Doers, StepOf(b) \in Evicting
          PROVE  StepOf(b)' \in Evicting
      BY <1>2, <2>3, <3>2
    <3> QED
      BY <2>1, <3>1, <3>2
  <2> QED
    BY <1>1, <1>4, <2>2, <2>3
<1> QED
  BY <1>1, <1>3, <1>4 DEF KnowInv, CacheInv

LEMMA BuildKeeps ==
  ASSUME KnowInv, BuildScan \/ BuildRows \/ BuildStore \/ BuildRestore
  PROVE  StepsInv' /\ RowsInv' /\ CacheInv' /\ OfferInv'
<1>1. UNCHANGED <<work, fileRows, file>> /\ StepsInv' /\ RowsInv' /\ CachedRows' = CachedRows
  <2>1. UNCHANGED <<work, fileRows, file>>
    BY DEF BuildScan, BuildRows, BuildStore, BuildRestore, diskVars, indexVars
  <2> QED
    BY <2>1 DEF KnowInv, StepsInv, RowsInv, CachedRows
<1>2. \A a \in Doers : StepOf(a)' = StepOf(a)
  BY <1>1 DEF StepOf
<1>3. CASE BuildScan
  <2>1. /\ contextBuild' = [at |-> "rows", onDisk |-> {s \in Details : file[s] # 0}, indexed |-> {}]
        /\ UNCHANGED <<rowCache, doubt>>
    BY <1>3 DEF BuildScan
  <2>2. CacheInv'
    BY <1>1, <1>2, <2>1 DEF KnowInv, CacheInv
  <2>3. OfferInv'
    BY <1>1, <2>1 DEF OfferInv, NothingVanishes
  <2> QED
    BY <1>1, <2>2, <2>3
<1>4. CASE BuildRows \/ BuildStore
  <2>1. /\ contextBuild.at \in {"rows", "store"} /\ UNCHANGED mixedRow
        /\ \E x, y : contextBuild' = [at |-> x, onDisk |-> contextBuild.onDisk, indexed |-> y] /\ x \in {"store", "restore"}
                     /\ (x = "store" => y = CachedRows)
    <3>1. contextBuild = [at |-> contextBuild.at, onDisk |-> contextBuild.onDisk, indexed |-> contextBuild.indexed]
      BY DEF KnowInv, CacheInv
    <3>2. CASE BuildRows
      <4> DEFINE x == IF rowCache # {} THEN "restore" ELSE "store"
                 y == IF rowCache # {} THEN rowCache ELSE CachedRows
      <4>1. contextBuild.at = "rows" /\ UNCHANGED mixedRow /\ contextBuild' = [contextBuild EXCEPT !.at = x, !.indexed = y]
        BY <3>2 DEF BuildRows
      <4>2. x \in {"store", "restore"} /\ (x = "store" => y = CachedRows)
        OBVIOUS
      <4> HIDE DEF x, y
      <4>3. contextBuild' = [at |-> x, onDisk |-> contextBuild.onDisk, indexed |-> y]
        BY <3>1, <4>1
      <4> QED
        BY <4>1, <4>2, <4>3
    <3>3. CASE BuildStore
      <4>1. contextBuild.at = "store" /\ UNCHANGED mixedRow /\ contextBuild' = [contextBuild EXCEPT !.at = "restore"]
        BY <3>3 DEF BuildStore
      <4>2. contextBuild' = [at |-> "restore", onDisk |-> contextBuild.onDisk, indexed |-> contextBuild.indexed]
        BY <3>1, <4>1
      <4> QED
        BY <4>1, <4>2
    <3> QED
      BY <1>4, <3>2, <3>3
  <2>2. PICK x, y : /\ contextBuild' = [at |-> x, onDisk |-> contextBuild.onDisk, indexed |-> y] /\ x \in {"store", "restore"}
                    /\ (x = "store" => y = CachedRows)
    BY <2>1
  <2>3. OfferInv'
    BY <1>1, <2>1, <2>2 DEF KnowInv, OfferInv, NothingVanishes
  <2>4. rowCache' # {} /\ doubt' = {} => rowCache' = CachedRows \/ \E a \in Doers : StepOf(a) \in Evicting
    <3>1. CASE BuildRows
      BY <3>1 DEF BuildRows, KnowInv, CacheInv
    <3>2. CASE BuildStore
      <4>1. /\ contextBuild.at = "store" /\ rowCache' = contextBuild.indexed
            /\ doubt' = {} => "build" \notin mixedRow
        BY <3>2 DEF BuildStore
      <4> QED
        BY <4>1 DEF KnowInv, CacheInv
    <3> QED
      BY <1>4, <3>1, <3>2
  <2>5. CacheInv'
    BY <1>1, <1>2, <2>2, <2>4 DEF CacheInv
  <2> QED
    BY <1>1, <2>3, <2>5
<1>5. CASE BuildRestore
  <2>1. /\ contextBuild.at = "restore" /\ contextBuild' = [contextBuild EXCEPT !.at = "none"]
        /\ UNCHANGED <<rowCache, doubt, mixedRow, turns>>
    BY <1>5 DEF BuildRestore
  <2>2. contextBuild' = [at |-> "none", onDisk |-> contextBuild.onDisk, indexed |-> contextBuild.indexed]
    BY <2>1 DEF KnowInv, CacheInv
  <2>3. CacheInv'
    BY <1>1, <1>2, <2>1, <2>2 DEF KnowInv, CacheInv
  <2>4. PICK kept \in SUBSET {s \in LoadedByEvents : file[s] # 0} :
          context' = [offered |-> Offered(kept), loaded |-> [s \in Details |-> IF s \in kept THEN file[s] ELSE 0]]
    BY <1>5 DEF BuildRestore
  <2>5. ASSUME "build" \notin mixedRow, NEW s \in Details
        PROVE  /\ file[s] # 0 => s \in context'.offered \/ context'.loaded[s] # 0
               /\ context'.loaded[s] \in {0, file[s]}
    <3>1. contextBuild.onDisk = {t \in Details : file[t] # 0}
      BY <2>1, <2>5 DEF KnowInv, OfferInv
    <3>2. context'.loaded[s] = IF s \in kept THEN file[s] ELSE 0
      BY <2>4
    <3>3. file[s] # 0 /\ s \notin kept => s \in context'.offered
      BY <2>4, <3>1 DEF Offered
    <3> QED
      BY <3>2, <3>3
  <2>6. OfferInv'
    BY <1>1, <2>1, <2>2, <2>5 DEF OfferInv, NothingVanishes
  <2> QED
    BY <1>1, <2>3, <2>6
<1> QED
  BY <1>3, <1>4, <1>5

LEMMA KnowStepKeeps ==
  ASSUME KnowInv, [KnowledgeNext]_knowledgeVars
  PROVE  KnowInv'
<1>1. BudgetInv'
  BY BudgetStepKeeps DEF KnowInv
<1>2. CASE \E a \in Doers : DoerSteps(a)
  BY <1>1, <1>2, WorkGoes, RowsGo, CacheGoes, OfferGoes DEF KnowInv
<1>3. CASE BuildScan \/ BuildRows \/ BuildStore \/ BuildRestore
  BY <1>1, <1>3, BuildKeeps DEF KnowInv
<1>4. CASE UNCHANGED knowledgeVars
  <2>1. UNCHANGED <<work, fileRows, contextBuild, mixedRow, rowCache, doubt, context, file, turns>>
    BY <1>4 DEF knowledgeVars
  <2>2. StepsInv' /\ RowsInv'
    BY <2>1 DEF KnowInv, StepsInv, RowsInv
  <2>3. CacheInv'
    BY <2>1 DEF KnowInv, CacheInv, CachedRows, StepOf
  <2>4. OfferInv'
    BY <2>1 DEF KnowInv, OfferInv, NothingVanishes
  <2> QED
    BY <1>1, <2>2, <2>3, <2>4 DEF KnowInv
<1> QED
  BY <1>2, <1>3, <1>4 DEF KnowledgeNext, DoerSteps

LEMMA KnowInitKeeps ==
  ASSUME KnowledgeInit
  PROVE  KnowInv
<1>1. BudgetInv
  BY BudgetInitKeeps
<1>2. StepsInv
  <2>1. work = [a \in Doers |-> Resting(kload[a])]
    BY DEF KnowledgeInit
  <2>2. \A a \in Doers : work[a] = Resting(kload[a]) /\ "at" \in DOMAIN Resting(kload[a])
    BY <2>1 DEF Resting
  <2> QED
    BY <2>1, <2>2 DEF StepsInv
<1>3. RowsInv
  <2> DEFINE row(s) == CASE s = "p" -> [id |-> 1, ver |-> 1, listed |-> FALSE]
                         [] s = "d" -> [id |-> 2, ver |-> 1, listed |-> FALSE] [] OTHER -> NoRow
  <2>1. fileRows = [s \in Slugs |-> row(s)]
    BY DEF KnowledgeInit
  <2> HIDE DEF row
  <2> QED
    BY <2>1 DEF RowsInv
<1>4. CacheInv
  BY DEF KnowledgeInit, CacheInv
<1>5. OfferInv
  BY DEF KnowledgeInit, OfferInv, NothingVanishes
<1> QED
  BY <1>1, <1>2, <1>3, <1>4, <1>5 DEF KnowInv

LEMMA KnowledgeIsSound ==
  ASSUME KnowInv
  PROVE  CacheIsCurrent /\ NothingVanishes /\ BudgetIsKept
<1>1. CacheIsCurrent
  BY DEF KnowInv, CacheInv, CacheIsCurrent, KnowledgeAtRest, Evicting
<1> QED
  BY <1>1 DEF KnowInv, OfferInv, BudgetInv

-----------------------------------------------------------------------------
(***************************************************************************)
(* The theorems of the parts.                                              *)
(***************************************************************************)
\* A skill has the text of the commit its user confirmed, with files of that commit alone beside it,
\* unless its install was crossed or its clone damaged; and a fetch that nobody crosses repairs what
\* a killed clone left (the skill_source tool).
THEOREM SkillsStayAsConfirmed ==
  SkillInit /\ [][SkillNext]_skillVars => [](SkillTypeOK /\ SkillIsAsConfirmed /\ FetchHeals)
<1>1. SkillInv => SkillTypeOK /\ SkillIsAsConfirmed /\ FetchHeals
  BY SkillsAreSound
<1> QED
  BY <1>1, SkillInitKeeps, SkillStepKeeps, PTL

\* Nothing secret is remembered, the notes of a conversation are shared by its turns and end with its
\* last tab, it has one episode, and a key goes only to the endpoint it was given for (memory_rw, the
\* page of memories, generate_episodic_summary).
THEOREM MemoriesStayKept ==
  MemoryInit /\ [][MemoryNext]_memoryVars
    => [](SecretsAreKeptOut /\ NotesAreShared /\ NotesEnd /\ EpisodeIsOne /\ KeysStayHome)
<1>1. MemoryInv => SecretsAreKeptOut /\ NotesAreShared /\ NotesEnd /\ EpisodeIsOne /\ KeysStayHome
  BY MemoriesAreSound
<1> QED
  BY <1>1, MemoryInitKeeps, MemoryStepKeeps, PTL

\* Runs hang off one anchor unless two first requests overlapped, a result is that of its own run, one
\* that the platform ended shows no verdict of its log, and failures are named (script_runner).
THEOREM SpecResultsStayOwn ==
  SpecInit /\ [][SpecNext]_specVars => [](OneAnchor /\ ResultIsOwn /\ StoppedIsNotPassed /\ FailuresAreNamed)
<1>1. SpecInv /\ [SpecNext]_specVars => SpecInv'
  BY SpecStepKeeps
<1>2. SpecInit => SpecInv
  BY SpecInitKeeps
<1>3. SpecInv => OneAnchor /\ ResultIsOwn /\ StoppedIsNotPassed /\ FailuresAreNamed
  BY SpecsAreSound
<1> QED
  BY <1>1, <1>2, <1>3, PTL

\* Whatever tasks do to a clone at the same time, no commit is lost and a clone that is there is whole
\* unless somebody removed it or tried to; a commit holds what its task selected, builds of its graph
\* follow each other, and the graph that is left is that of the HEAD it was last asked for, if HEAD
\* stayed (git tools, the graph's worker).
THEOREM ClonesStayKept ==
  GitInit /\ [][GitNext]_gitVars
    => [](GitTypeOK /\ WorkIsKept /\ CloneIsWhole /\ CommitHoldsSelection /\ OneBuild /\ GraphIsCurrent)
<1>1. GitInv /\ [GitNext]_gitVars => GitInv'
  BY GitStepKeeps
<1>2. GitInit => GitInv
  BY GitInitKeeps
<1>3. GitInv => GitTypeOK /\ WorkIsKept /\ CloneIsWhole /\ CommitHoldsSelection /\ OneBuild /\ GraphIsCurrent
  BY GitIsSound
<1> QED
  BY <1>1, <1>2, <1>3, PTL

\* The cache of knowledge files holds the rows once all is quiet, unless a failure left it in doubt; a
\* turn that nobody crosses is offered every file and holds their present text; and however tasks load
\* at once, the context keeps its budget (knowledge_rw, index_directory, KnowledgeCache).
THEOREM KnowledgeStaysCurrent ==
  KnowledgeInit /\ [][KnowledgeNext]_knowledgeVars => [](CacheIsCurrent /\ NothingVanishes /\ BudgetIsKept)
<1>1. KnowInv /\ [KnowledgeNext]_knowledgeVars => KnowInv'
  BY KnowStepKeeps
<1>2. KnowledgeInit => KnowInv
  BY KnowInitKeeps
<1>3. KnowInv => CacheIsCurrent /\ NothingVanishes /\ BudgetIsKept
  BY KnowledgeIsSound
<1> QED
  BY <1>1, <1>2, <1>3, PTL

LEMMA ToolStutterKeeps ==
  ASSUME ToolInv, UNCHANGED toolVars
  PROVE  ToolInv'
<1>1. EditsInv'
  BY DEF ToolInv, EditsInv, toolVars
<1>2. StageInv'
  BY DEF ToolInv, StageInv, toolVars
<1>3. CallsInv'
  BY DEF ToolInv, CallsInv, toolVars, Wants, Open
<1>4. OutInv'
  BY DEF ToolInv, OutInv, toolVars, PrintedLines, LastOf, MaskLine
<1> QED
  BY <1>1, <1>2, <1>3, <1>4 DEF ToolInv

\* Edits that were accepted, and no others, are in the row; a script calls only tools that it declares
\* and may use, one at a time in their context; nothing works for a run that is over; and its log has
\* neither a secret nor the PIN (script tools, ToolBridge, the runner).
THEOREM ScriptToolsStaySound ==
  ToolInit /\ [][ToolNext]_toolVars
    => [](EditsAreKept /\ CallsAreDeclared /\ ContextIsShared /\ NothingOutlivesScript /\ LogIsMasked)
<1>1. ToolInv /\ [ToolNext]_toolVars => ToolInv'
  BY ToolStepKeeps, ToolStutterKeeps
<1>2. ToolInit => ToolInv
  BY ToolInitKeeps
<1>3. ToolInv => EditsAreKept /\ CallsAreDeclared /\ ContextIsShared /\ NothingOutlivesScript /\ LogIsMasked
  BY ToolsAreSound
<1> QED
  BY <1>1, <1>2, <1>3, PTL
=============================================================================
