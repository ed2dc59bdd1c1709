------------------------ MODULE ConversationRunsProofs ------------------------
(***************************************************************************)
(* Proofs about ConversationRuns, for every number of turns, chunks,       *)
(* deaths and compressions and every set of writes that may fail, unless   *)
(* a theorem says otherwise.                                               *)
(***************************************************************************)
EXTENDS ConversationRunsProps, SequenceTheorems, WellFoundedInduction, TLAPS

Open == {"streaming", "freeze", "persist"}

\* Where run_turn is bounds where its agent and its forwarder are, and what its row says.
StageInv ==
  /\ server # "serving" => main = "idle" /\ cut = 0
  /\ main = "idle" => forward = "none" /\ agent = "none" /\ buf = {}
  /\ main # "idle" => turn \in Turns
  /\ main = "record" => status[turn] = "none"
  /\ main \in {"record", "setup"} =>
       forward = "none" /\ agent = "none" /\ buf = {} /\ status[turn] \in {"none", "running"}
  /\ agent = "none" /\ main # "idle" => main \in {"record", "setup", "caught", "net"} /\ forward = "none"
  /\ main \in {"tail", "net"} => forward \in {"none", "over"}
  /\ forward \notin Open \cup {"finish", "over"} => intended = "none"
  /\ forward \in {"streaming", "freeze"} => intended = "none"
  /\ forward \in {"persist", "finish", "over"} /\ intended # "none" => agent \in {"ending", "ended"}
  /\ forward \in {"persist", "finish"} => agent \in {"ending", "ended"}
  /\ forward \in {"persist", "finish"} /\ status[turn] = "running" => intended # "none"
  /\ forward = "persist" /\ intended # "none" => intended = Outcome
  /\ \A t \in Turns : t > turn => status[t] = "none" /\ cause[t] = "none" /\ snapshot[t] = {}

\* What is going to be recorded, and what is recorded, agree with how the agent ended.
TroubleInv ==
  /\ TroubleIsNotCompleted
  /\ agent = "running" => status[turn] # "completed"
  /\ intended = "completed" => cause[turn] \notin {"stopped", "error"}
  /\ main \in {"record", "setup"} => cause[turn] = "none"

\* After each user message of turn t there is its answer.
Answered(t) ==
  \A i \in DOMAIN history : history[i] = UserRow(t) =>
    \E j \in AssistantRows : i < j /\ history[j].turn = t /\ history[j].flag = "plain"

AnswerInv ==
  /\ \A t \in Turns : status[t] = "completed" => Answered(t)
  /\ intended = "completed" /\ forward \in {"finish", "over"} => Answered(turn)

\* Only the run of the turn under way is running, once the sweep has been there.
RunningInv ==
  server \in {"serving", "recover", "clear"} =>
    \A t \in Turns : status[t] = "running" => t = turn /\ main # "idle"

-----------------------------------------------------------------------------
Said == UNION {history[i].text : i \in AssistantRows}

\* The snapshot of turn t stands in one row of the turn.
Filed(t) == \E j \in AssistantRows : history[j].turn = t /\ snapshot[t] \subseteq history[j].text

\* No answer of the newest turn has been written, but for what was cut short.
Unanswered ==
  \A i, j \in DOMAIN history :
    i < j /\ history[i] = UserRow(turn) /\ history[j].role = "assistant" => history[j].flag = "interrupted"

\* The shape of the history: who answers whom, and whose text a row may hold.
ShapeInv ==
  /\ TextAppearsOnce
  /\ \A i \in DOMAIN history : history[i].turn <= turn /\ history[i].text \subseteq 1..said
  /\ \A j \in AssistantRows : \E i \in DOMAIN history : i < j /\ history[i] = UserRow(history[j].turn)
  /\ \A t \in Turns : t <= turn => \E i \in DOMAIN history : history[i] = UserRow(t)

\* Whose text a run row may hold.
SnapshotInv ==
  /\ \A t \in Turns : snapshot[t] \subseteq 1..said
  /\ \A t \in Turns : Filed(t) \/ snapshot[t] \cap Said = {}
  /\ \A t, u \in Turns : t # u => snapshot[t] \cap snapshot[u] = {}
  /\ \A t \in Turns : t # turn => snapshot[t] \cap buf = {}
  /\ main \in {"record", "setup"} => snapshot[turn] = {}
  /\ forward = "finish" => snapshot[turn] \subseteq Said
  /\ Unanswered \/ (turn \in Turns => snapshot[turn] \subseteq Said)
  /\ turn \notin older /\ (server # "clear" => older = {})

\* What the buffer holds is not written yet, and the run row holds a part of it.
BufferInv ==
  /\ buf \subseteq 1..said
  /\ forward \in Open => buf \cap Said = {} /\ (Filed(turn) \/ snapshot[turn] \subseteq buf)
  /\ main \in {"record", "setup"} \/ forward \in Open => Unanswered

\* Without compressions: who holds which text.
TextInv == ShapeInv /\ SnapshotInv /\ BufferInv /\ compressions = 0 /\ cut = 0

-----------------------------------------------------------------------------
(***************************************************************************)
(* Rows, the newest of a set of turns, and what finish_run does.           *)
(***************************************************************************)
LEMMA RowTypes ==
  /\ \A t \in 0..MaxTurns : UserRow(t) \in Rows
  /\ \A t \in 0..MaxTurns, f \in {"plain", "interrupted", "error"}, x \in SUBSET Chunks :
       AssistantRow(t, f, x) \in Rows
  /\ \A r \in Rows : /\ r.role \in {"user", "assistant"} /\ r.turn \in 0..MaxTurns
                     /\ r.flag \in {"plain", "interrupted", "error"} /\ r.text \subseteq Chunks
<1>1. \A t \in 0..MaxTurns : UserRow(t) \in Rows
  BY DEF UserRow, Rows
<1>2. \A t \in 0..MaxTurns, f \in {"plain", "interrupted", "error"}, x \in SUBSET Chunks :
        AssistantRow(t, f, x) \in Rows
  BY DEF AssistantRow, Rows
<1>. QED
  BY <1>1, <1>2 DEF Rows

\* Which row is a user's message and which an answer.
LEMMA RowFields ==
  /\ \A t : UserRow(t).role = "user" /\ UserRow(t).turn = t /\ UserRow(t).text = {}
            /\ UserRow(t).flag = "plain"
  /\ \A t, f, x : /\ AssistantRow(t, f, x).role = "assistant" /\ AssistantRow(t, f, x).turn = t
                  /\ AssistantRow(t, f, x).flag = f /\ AssistantRow(t, f, x).text = x
  /\ \A t, u : UserRow(t) = UserRow(u) => t = u
  /\ \A t, u, f, x : UserRow(t) # AssistantRow(u, f, x)
<1>1. \A t : UserRow(t).role = "user" /\ UserRow(t).turn = t /\ UserRow(t).text = {}
             /\ UserRow(t).flag = "plain"
  BY DEF UserRow
<1>2. \A t, f, x : /\ AssistantRow(t, f, x).role = "assistant" /\ AssistantRow(t, f, x).turn = t
                   /\ AssistantRow(t, f, x).flag = f /\ AssistantRow(t, f, x).text = x
  BY DEF AssistantRow
<1>. QED
  BY <1>1, <1>2

LEMMA FinalRowType ==
  ASSUME RunsTypeOK, turn \in Turns
  PROVE  /\ Outcome \in Terminal
         /\ FinalRow \in Rows
         /\ FinalRow.role = "assistant" /\ FinalRow.turn = turn /\ FinalRow.text = buf
         /\ Outcome = "completed" => FinalRow.flag = "plain"
<1> DEFINE flag == [interrupted |-> "interrupted", failed |-> "error", completed |-> "plain"]
<1>1. Outcome \in Terminal
  BY DEF Outcome, Terminal
<1>2. flag[Outcome] \in {"plain", "interrupted", "error"} /\ (Outcome = "completed" => flag[Outcome] = "plain")
  BY <1>1 DEF Terminal
<1>3. FinalRow = AssistantRow(turn, flag[Outcome], buf)
  BY DEF FinalRow
<1>4. turn \in 0..MaxTurns /\ buf \in SUBSET Chunks
  BY DEF RunsTypeOK
<1>5. AssistantRow(turn, flag[Outcome], buf) \in Rows
  BY <1>2, <1>4, RowTypes
<1>. QED
  BY <1>1, <1>2, <1>3, <1>5, RowFields

\* A message written at the end of the history.
LEMMA AppendRow ==
  ASSUME history \in Seq(Rows), NEW r \in Rows, history' = Append(history, r)
  PROVE  /\ history' \in Seq(Rows) /\ Len(history') = Len(history) + 1 /\ Len(history) \in Nat
         /\ DOMAIN history = 1..Len(history) /\ DOMAIN history' = 1..(Len(history) + 1)
         /\ \A i \in 1..Len(history) : history'[i] = history[i]
         /\ history'[Len(history) + 1] = r
  BY AppendProperties

\* A nonempty set of turns has a newest one.
LEMMA NewestTurn ==
  ASSUME NEW S \in SUBSET Turns, S # {}
  PROVE  Max(S) \in S /\ \A y \in S : y <= Max(S)
<1> DEFINE T == {MaxTurns - t : t \in S}
<1>1. S \subseteq Nat /\ \A t \in S : t <= MaxTurns /\ MaxTurns \in Nat
  BY RunsAssumption DEF RunsAssumption, Turns
<1>a. \A t \in S : MaxTurns - t \in Nat /\ MaxTurns - t \in T
  BY <1>1
<1>2. T \subseteq Nat /\ T # {}
  BY <1>a
<1>3. PICK x \in T : \A y \in T : ~(<<y, x>> \in OpToRel(<, Nat))
  BY <1>2, NatLessThanWellFounded, WFMin
<1>4. \A y \in T : ~(y < x)
  BY <1>2, <1>3 DEF OpToRel
<1>5. PICK t \in S : x = MaxTurns - t
  OBVIOUS
<1>6. \A y \in S : t >= y
  <2> SUFFICES ASSUME NEW y \in S PROVE t >= y
    OBVIOUS
  <2>1. ~(MaxTurns - y < MaxTurns - t)
    BY <1>a, <1>4, <1>5
  <2>. QED
    BY <1>1, <2>1
<1>7. Max(S) \in S /\ \A y \in S : Max(S) >= y
  BY <1>6 DEF Max
<1>. QED
  BY <1>1, <1>7

\* finish_run writes a running row only, and only the row of the turn under way.
LEMMA FinishEffect ==
  ASSUME RunsTypeOK, turn \in Turns, NEW st, NEW clear \in BOOLEAN, TryFinish(st, clear),
         status[turn] = "running" => st \in Terminal
  PROVE  /\ status' \in [Turns -> {"none", "running"} \cup Terminal]
         /\ snapshot' \in [Turns -> SUBSET Chunks]
         /\ \A t \in Turns : t # turn => status'[t] = status[t] /\ snapshot'[t] = snapshot[t]
         /\ status[turn] # "running" => status'[turn] = status[turn] /\ snapshot'[turn] = snapshot[turn]
         /\ status'[turn] \in {status[turn], st}
         /\ ~clear => snapshot'[turn] = snapshot[turn]
         /\ snapshot'[turn] \in {snapshot[turn], {}}
         /\ "finish" \notin RunFaults => status'[turn] # "running"
<1>1. CASE FinishRun(st, clear)
  BY <1>1 DEF FinishRun, RunsTypeOK, Terminal
<1>2. CASE "finish" \in RunFaults /\ UNCHANGED <<status, snapshot>>
  BY <1>2 DEF RunsTypeOK
<1>. QED
  BY <1>1, <1>2 DEF TryFinish

\* A compression puts the summary in the place of the first rows.
LEMMA CommitEffect ==
  ASSUME RunsTypeOK, CommitCompression
  PROVE  /\ history' \in Seq(Rows) /\ cut \in 1..(Len(history) - 1) /\ Len(history) \in Nat
         /\ Len(history') = 2 + (Len(history) - cut)
         /\ history'[1] = UserRow(0) /\ history'[2] = AssistantRow(0, "plain", {})
         /\ \A i \in 3..Len(history') : history'[i] = history[(i - 2) + cut]
<1> DEFINE rest == SubSeq(history, cut + 1, Len(history))
<1>1. history \in Seq(Rows) /\ Len(history) \in Nat /\ cut \in 1..(Len(history) - 1)
  BY DEF RunsTypeOK, CommitCompression
<1>2. /\ rest \in Seq(Rows) /\ Len(rest) = Len(history) - cut
      /\ \A i \in 1..(Len(history) - cut) : rest[i] = history[i + cut]
  <2>1. \A i \in (cut + 1)..Len(history) : history[i] \in Rows
    BY <1>1
  <2>2. /\ rest \in Seq(Rows)
        /\ Len(rest) = IF cut + 1 <= Len(history) THEN Len(history) - (cut + 1) + 1 ELSE 0
        /\ \A i \in 1..(Len(history) - (cut + 1) + 1) : rest[i] = history[(cut + 1) + i - 1]
    BY <1>1, <2>1, SubSeqProperties
  <2>. QED
    BY <1>1, <2>2
<1>3. UserRow(0) \in Rows /\ AssistantRow(0, "plain", {}) \in Rows
  BY RunsAssumption, RowTypes DEF RunsAssumption
<1>4. /\ SummaryPair \in Seq(Rows) /\ Len(SummaryPair) = 2
      /\ SummaryPair[1] = UserRow(0) /\ SummaryPair[2] = AssistantRow(0, "plain", {})
  BY <1>3 DEF SummaryPair
<1>5. history' = SummaryPair \o rest
  BY DEF CommitCompression
<1>6. /\ history' \in Seq(Rows) /\ Len(history') = 2 + (Len(history) - cut)
      /\ \A i \in 1..(2 + (Len(history) - cut)) :
           history'[i] = IF i <= 2 THEN SummaryPair[i] ELSE rest[i - 2]
  <2>1. /\ SummaryPair \o rest \in Seq(Rows) /\ Len(SummaryPair \o rest) = Len(SummaryPair) + Len(rest)
        /\ \A i \in 1..(Len(SummaryPair) + Len(rest)) : (SummaryPair \o rest)[i] =
             IF i <= Len(SummaryPair) THEN SummaryPair[i] ELSE rest[i - Len(SummaryPair)]
    BY <1>2, <1>4, ConcatProperties
  <2>. QED
    BY <1>2, <1>4, <1>5, <2>1
<1>7. \A i \in 3..Len(history') : history'[i] = history[(i - 2) + cut]
  <2> SUFFICES ASSUME NEW i \in 3..Len(history') PROVE history'[i] = history[(i - 2) + cut]
    OBVIOUS
  <2>1. i \in 1..(2 + (Len(history) - cut)) /\ ~(i <= 2) /\ i - 2 \in 1..(Len(history) - cut)
    BY <1>1, <1>6
  <2>. QED
    BY <1>2, <1>6, <2>1
<1>8. 1 \in 1..(2 + (Len(history) - cut)) /\ 2 \in 1..(2 + (Len(history) - cut))
  BY <1>1
<1>9. history'[1] = UserRow(0) /\ history'[2] = AssistantRow(0, "plain", {})
  BY <1>4, <1>6, <1>8
<1>. QED
  BY <1>1, <1>6, <1>7, <1>9

-----------------------------------------------------------------------------
(***************************************************************************)
(* Types.                                                                  *)
(***************************************************************************)
RunsTypeInv == RunsTypeOK /\ StageInv

LEMMA RunsTypeInit == RunsInit => RunsTypeInv
<1> SUFFICES ASSUME RunsInit PROVE RunsTypeInv
  OBVIOUS
<1>1. history \in Seq(Rows)
  BY DEF RunsInit
<1>2. 0 \in 0..MaxTurns /\ 0 \in 0..MaxChunks /\ 0 \in 0..MaxCrashes /\ 0 \in 0..MaxCompressions
  BY RunsAssumption DEF RunsAssumption
<1>3. RunsTypeOK
  BY <1>1, <1>2 DEF RunsInit, RunsTypeOK, Terminal, Causes
<1>4. StageInv
  BY DEF RunsInit, StageInv, Open
<1>. QED
  BY <1>3, <1>4 DEF RunsTypeInv

LEMMA RunsTypeStep ==
  ASSUME RunsTypeInv, [RunsNext]_runsVars
  PROVE  RunsTypeInv'
<1> USE DEF RunsTypeInv, RunsTypeOK, StageInv, Turns, Open, Serving, Outcome, Terminal
<1>1. CASE BeginTurn
  <2>1. turn' \in Turns /\ turn' = turn + 1 /\ turn \in 0..MaxTurns
    BY <1>1, RunsAssumption DEF BeginTurn, RunsAssumption
  <2>2. /\ history' \in Seq(Rows) /\ Len(history') = Len(history) + 1 /\ Len(history) \in Nat
    BY <1>1, <2>1, AppendRow, RowTypes DEF BeginTurn
  <2>8. RunsTypeOK'
    BY <1>1, <2>1, <2>2 DEF BeginTurn, recordVars, serverVars, agentVars, forwardVars
  <2>9. StageInv'
    BY <1>1, <2>1, <2>2 DEF BeginTurn, recordVars, serverVars, agentVars, forwardVars
  <2>. QED
    BY <2>8, <2>9
<1>2. CASE StartAgent
  BY <1>2 DEF StartAgent, recordVars, serverVars, agentVars, forwardVars
<1>3. CASE AgentFinishes
  BY <1>3 DEF AgentFinishes, recordVars, serverVars, agentVars, forwardVars, EndWith, Causes, Outcome
<1>4. CASE AgentStopped
  BY <1>4 DEF AgentStopped, recordVars, serverVars, agentVars, forwardVars, EndWith, Causes, Outcome
<1>5. CASE AgentBreaks
  BY <1>5 DEF AgentBreaks, recordVars, serverVars, agentVars, forwardVars, EndWith, Causes, Outcome
<1>6. CASE CleanupBreaks
  <2>1. UNCHANGED <<history, status, snapshot, server, older, cut, crashes, compressions, turn, main, agent, cause,
                    forward, buf, intended, said>>
    BY <1>6 DEF CleanupBreaks, recordVars, serverVars, forwardVars
  <2>2. exit' \in {"cancelled", "raised"} /\ aborted' \in {TRUE, aborted}
    BY <1>6 DEF CleanupBreaks
  <2>3. aborted' \in BOOLEAN
    BY <2>2
  <2>8. RunsTypeOK'
    BY <2>1, <2>2, <2>3
  <2>9. StageInv'
    BY <2>1
  <2>. QED
    BY <2>8, <2>9
<1>7. CASE LateStop
  BY <1>7 DEF LateStop, recordVars, serverVars, agentVars, forwardVars
<1>8. CASE AgentReturns
  BY <1>8 DEF AgentReturns, recordVars, serverVars, agentVars, forwardVars
<1>9. CASE Delta
  <2>1. said + 1 \in 0..MaxChunks /\ said + 1 \in Chunks
    BY <1>9, RunsAssumption DEF Delta, RunsAssumption, Chunks
  <2>8. RunsTypeOK'
    BY <1>9, <2>1 DEF Delta, recordVars, serverVars, agentVars, forwardVars
  <2>9. StageInv'
    BY <1>9, <2>1 DEF Delta, recordVars, serverVars, agentVars, forwardVars
  <2>. QED
    BY <2>8, <2>9
<1>10. CASE Boundary
  BY <1>10 DEF Boundary, recordVars, serverVars, agentVars, forwardVars
<1>11. CASE StreamEnd
  BY <1>11, FinalRowType DEF StreamEnd, recordVars, serverVars, agentVars, forwardVars, Terminal, Outcome
<1>12. CASE AwaitAgent
  BY <1>12 DEF AwaitAgent, recordVars, serverVars, agentVars, forwardVars
<1>13. CASE Drained
  BY <1>13 DEF Drained, recordVars, serverVars, agentVars, forwardVars
<1>14. CASE Raise
  BY <1>14 DEF Raise, recordVars, serverVars, agentVars, forwardVars
<1>15. CASE Crash
  <2>1. crashes + 1 \in 0..MaxCrashes
    BY <1>15, RunsAssumption DEF Crash, RunsAssumption
  <2>8. RunsTypeOK'
    BY <1>15, <2>1 DEF Crash, recordVars, serverVars, agentVars, forwardVars, ForgetTurn
  <2>9. StageInv'
    BY <1>15, <2>1 DEF Crash, recordVars, serverVars, agentVars, forwardVars, ForgetTurn
  <2>. QED
    BY <2>8, <2>9
<1>16. CASE Restart
  BY <1>16 DEF Restart, recordVars, serverVars, agentVars, forwardVars
<1>17. CASE Flip
  BY <1>17 DEF Flip, recordVars, serverVars, agentVars, forwardVars, Terminal
<1>18. CASE StartCompression
  <2>1. compressions + 1 \in 0..MaxCompressions /\ Len(history) \in Nat /\ RecentKeep \in Nat
    BY <1>18, RunsAssumption DEF StartCompression, RunsAssumption
  <2>8. RunsTypeOK'
    BY <1>18, <2>1 DEF StartCompression, recordVars, serverVars, agentVars, forwardVars
  <2>9. StageInv'
    BY <1>18, <2>1 DEF StartCompression, recordVars, serverVars, agentVars, forwardVars
  <2>. QED
    BY <2>8, <2>9
<1>19. CASE GiveUpCompression
  BY <1>19 DEF GiveUpCompression, recordVars, serverVars, agentVars, forwardVars
<1>20. CASE ClearOlder
  BY <1>20 DEF ClearOlder, recordVars, serverVars, agentVars, forwardVars
<1>21. CASE CreateRun
  <2>1. turn \in Turns /\ status[turn] = "none"
    BY <1>21 DEF CreateRun
  <2>2. /\ status'[turn] \in {"none", "running"} /\ \A t \in Turns : t # turn => status'[t] = status[t]
        /\ UNCHANGED <<snapshot, cause, turn, cut, server, agent, buf, forward, intended>>
        /\ main' = "setup" /\ main = "record" /\ server = "serving"
    BY <1>21, <2>1 DEF CreateRun, recordVars, serverVars, agentVars, forwardVars
  <2>8. RunsTypeOK'
    BY <1>21, <2>1 DEF CreateRun, recordVars, serverVars, agentVars, forwardVars
  <2>9. StageInv'
    BY <2>1, <2>2
  <2>. QED
    BY <2>8, <2>9
<1>22. CASE PersistFrozen
  BY <1>22, FinalRowType, AppendRow, RowTypes DEF PersistFrozen, recordVars, serverVars, agentVars, forwardVars
<1>23. CASE Persist
  <2>1. /\ Serving /\ forward = "persist" /\ forward' \in {"finish", "over"}
        /\ history' = Append(history, FinalRow) \/ UNCHANGED history
        /\ UNCHANGED <<status, snapshot, server, older, cut, crashes, compressions, turn, main, agent, cause, exit,
                       aborted, buf, intended, said>>
    BY <1>23 DEF Persist, serverVars, agentVars
  <2>2. FinalRow \in Rows
    BY <2>1, FinalRowType
  <2>3. history' \in Seq(Rows) /\ (cut = 0 \/ cut \in 1..(Len(history') - 1))
    BY <2>1, <2>2, AppendRow
  <2>8. RunsTypeOK'
    BY <2>1, <2>3
  <2>9. StageInv'
    BY <2>1
  <2>. QED
    BY <2>8, <2>9
<1>24. CASE Finish
  <2>1. turn \in Turns
    BY <1>24 DEF Finish
  <2>2. TryFinish(intended, TRUE)
    BY <1>24 DEF Finish
  <2>3. status[turn] = "running" => intended \in Terminal
    BY <1>24 DEF Finish
  <2>4. /\ status' \in [Turns -> {"none", "running"} \cup Terminal]
        /\ snapshot' \in [Turns -> SUBSET Chunks]
        /\ \A t \in Turns : t # turn => status'[t] = status[t] /\ snapshot'[t] = snapshot[t]
        /\ status[turn] # "running" => status'[turn] = status[turn]
    BY <2>1, <2>2, <2>3, FinishEffect
  <2>8. RunsTypeOK'
    BY <1>24, <2>1, <2>4 DEF Finish, recordVars, serverVars, agentVars, forwardVars
  <2>9. StageInv'
    BY <1>24, <2>1, <2>4 DEF Finish, recordVars, serverVars, agentVars, forwardVars
  <2>. QED
    BY <2>8, <2>9
<1>25. CASE CancelForward
  <2>1. turn \in Turns
    BY <1>25 DEF CancelForward
  <2>2. /\ history' \in Seq(Rows) /\ (cut = 0 \/ cut \in 1..(Len(history') - 1))
    <3>1. CASE UNCHANGED history
      BY <3>1
    <3>2. CASE history' = Append(history, AssistantRow(turn, "interrupted", buf))
      <4>1. AssistantRow(turn, "interrupted", buf) \in Rows
        BY <2>1, RowTypes
      <4>. QED
        BY <3>2, <4>1, AppendRow
    <3>3. CASE history' = Append(history, FinalRow)
      BY <2>1, <3>3, AppendRow, FinalRowType
    <3>. QED
      BY <1>25, <3>1, <3>2, <3>3 DEF CancelForward, recordVars
  <2>3. /\ status' \in [Turns -> {"none", "running"} \cup Terminal]
        /\ snapshot' \in [Turns -> SUBSET Chunks]
        /\ \A t \in Turns : t # turn => status'[t] = status[t] /\ snapshot'[t] = snapshot[t]
        /\ status[turn] # "running" => status'[turn] = status[turn]
    <3>1. CASE UNCHANGED <<status, snapshot>>
      BY <3>1
    <3>2. CASE forward = "finish" /\ FinishRun(intended, TRUE)
      <4>1. TryFinish(intended, TRUE) /\ (status[turn] = "running" => intended \in Terminal)
        BY <3>2 DEF TryFinish
      <4>. QED
        BY <2>1, <4>1, FinishEffect
    <3>. QED
      BY <1>25, <3>1, <3>2 DEF CancelForward, recordVars
  <2>8. RunsTypeOK'
    BY <1>25, <2>1, <2>2, <2>3 DEF CancelForward, recordVars, serverVars, agentVars, forwardVars
  <2>9. StageInv'
    BY <1>25, <2>1, <2>2, <2>3 DEF CancelForward, recordVars, serverVars, agentVars, forwardVars
  <2>. QED
    BY <2>8, <2>9
<1>26. CASE Attribute
  <2>1. turn \in Turns /\ main # "idle"
    BY <1>26 DEF Attribute
  <2>2. TryFinish(IF exit = "raised" THEN "failed" ELSE "interrupted", FALSE)
    BY <1>26 DEF Attribute
  <2>3. status[turn] = "running" => (IF exit = "raised" THEN "failed" ELSE "interrupted") \in Terminal
    BY <1>26 DEF Attribute
  <2>4. /\ status' \in [Turns -> {"none", "running"} \cup Terminal]
        /\ snapshot' \in [Turns -> SUBSET Chunks]
        /\ \A t \in Turns : t # turn => status'[t] = status[t] /\ snapshot'[t] = snapshot[t]
        /\ status[turn] # "running" => status'[turn] = status[turn]
    BY <2>1, <2>2, <2>3, FinishEffect
  <2>8. RunsTypeOK'
    BY <1>26, <2>1, <2>4 DEF Attribute, recordVars, serverVars, agentVars, forwardVars
  <2>9. StageInv'
    BY <1>26, <2>1, <2>4 DEF Attribute, recordVars, serverVars, agentVars, forwardVars
  <2>. QED
    BY <2>8, <2>9
<1>27. CASE SettleStopped
  <2>1. turn \in Turns
    BY <1>27 DEF SettleStopped
  <2>4. /\ status' \in [Turns -> {"none", "running"} \cup Terminal]
        /\ snapshot' \in [Turns -> SUBSET Chunks]
        /\ \A t \in Turns : t # turn => status'[t] = status[t] /\ snapshot'[t] = snapshot[t]
        /\ status[turn] # "running" => status'[turn] = status[turn]
    <3>1. CASE TryFinish("interrupted", FALSE)
      BY <2>1, <3>1, FinishEffect
    <3>2. CASE UNCHANGED <<status, snapshot>>
      BY <3>2
    <3>. QED
      BY <1>27, <3>1, <3>2 DEF SettleStopped
  <2>8. RunsTypeOK'
    BY <1>27, <2>1, <2>4 DEF SettleStopped, recordVars, serverVars, agentVars, forwardVars
  <2>9. StageInv'
    BY <1>27, <2>1, <2>4 DEF SettleStopped, recordVars, serverVars, agentVars, forwardVars
  <2>. QED
    BY <2>8, <2>9
<1>28. CASE Caught
  <2>1. turn \in Turns
    BY <1>28 DEF Caught
  <2>2. PICK st \in {"interrupted", "failed"} : TryFinish(st, FALSE)
    BY <1>28 DEF Caught
  <2>4. /\ status' \in [Turns -> {"none", "running"} \cup Terminal]
        /\ snapshot' \in [Turns -> SUBSET Chunks]
        /\ \A t \in Turns : t # turn => status'[t] = status[t] /\ snapshot'[t] = snapshot[t]
        /\ status[turn] # "running" => status'[turn] = status[turn]
    BY <2>1, <2>2, FinishEffect
  <2>8. RunsTypeOK'
    BY <1>28, <2>1, <2>4 DEF Caught, recordVars, serverVars, agentVars, forwardVars
  <2>9. StageInv'
    BY <1>28, <2>1, <2>4 DEF Caught, recordVars, serverVars, agentVars, forwardVars
  <2>. QED
    BY <2>8, <2>9
<1>29. CASE SafetyNet
  <2>1. turn \in Turns /\ main # "idle"
    BY <1>29 DEF SafetyNet
  <2>2. TryFinish(IF intended # "none" THEN intended ELSE IF aborted THEN "interrupted" ELSE "failed", FALSE)
    BY <1>29 DEF SafetyNet
  <2>3. status[turn] = "running" => (IF intended # "none" THEN intended ELSE IF aborted THEN "interrupted" ELSE "failed") \in Terminal
    BY <1>29 DEF SafetyNet
  <2>4. /\ status' \in [Turns -> {"none", "running"} \cup Terminal]
        /\ snapshot' \in [Turns -> SUBSET Chunks]
        /\ \A t \in Turns : t # turn => status'[t] = status[t] /\ snapshot'[t] = snapshot[t]
        /\ status[turn] # "running" => status'[turn] = status[turn]
    BY <2>1, <2>2, <2>3, FinishEffect
  <2>8. RunsTypeOK'
    BY <1>29, <2>1, <2>4 DEF SafetyNet, recordVars, serverVars, agentVars, forwardVars, ForgetTurn
  <2>9. StageInv'
    BY <1>29, <2>1, <2>4 DEF SafetyNet, recordVars, serverVars, agentVars, forwardVars, ForgetTurn
  <2>. QED
    BY <2>8, <2>9
<1>30. CASE Recover
  <2>1. /\ history' \in Seq(Rows) /\ snapshot' \in [Turns -> SUBSET Chunks] /\ older' \subseteq Turns
        /\ (cut = 0 \/ cut \in 1..(Len(history') - 1))
        /\ \A t \in Turns : t > turn => snapshot'[t] = {}
    <3>1. CASE Recoverable = {}
      BY <1>30, <3>1 DEF Recover
    <3>2. CASE Recoverable # {}
      <4> DEFINE t == Max(Recoverable)
      <4>0. Recoverable \in SUBSET Turns
        BY DEF Recoverable
      <4>a. t \in Recoverable
        BY <3>2, <4>0, NewestTurn
      <4> HIDE DEF t
      <4>1. Recoverable \in SUBSET Turns /\ t \in Turns /\ snapshot[t] \in SUBSET Chunks
        BY <4>0, <4>a
      <4> USE DEF t
      <4>2. AssistantRow(t, "interrupted", snapshot[t]) \in Rows
        BY <4>1, RowTypes
      <4>3. \/ UNCHANGED history
            \/ history' = Append(history, AssistantRow(t, "interrupted", snapshot[t]))
        BY <1>30, <3>2 DEF Recover
      <4>4. history' \in Seq(Rows) /\ (cut = 0 \/ cut \in 1..(Len(history') - 1))
        BY <4>2, <4>3, AppendRow
      <4>5. snapshot' = [snapshot EXCEPT ![t] = {}] \/ UNCHANGED snapshot
        BY <1>30, <3>2 DEF Recover
      <4>6. older' \subseteq Turns
        BY <1>30, <3>2, <4>1 DEF Recover
      <4>. QED
        BY <4>1, <4>4, <4>5, <4>6
    <3>. QED
      BY <3>1, <3>2
  <2>8. RunsTypeOK'
    BY <1>30, <2>1 DEF Recover, recordVars, serverVars, agentVars, forwardVars
  <2>9. StageInv'
    BY <1>30, <2>1 DEF Recover, recordVars, serverVars, agentVars, forwardVars
  <2>. QED
    BY <2>8, <2>9
<1>31. CASE CommitCompression
  <2>1. history' \in Seq(Rows)
    BY <1>31, CommitEffect
  <2>8. RunsTypeOK'
    BY <1>31, <2>1 DEF CommitCompression, recordVars, serverVars, agentVars, forwardVars
  <2>9. StageInv'
    BY <1>31, <2>1 DEF CommitCompression, recordVars, serverVars, agentVars, forwardVars
  <2>. QED
    BY <2>8, <2>9
<1>32. CASE UNCHANGED runsVars
  BY <1>32 DEF runsVars, recordVars, serverVars, agentVars, forwardVars
<1>. QED
  BY <1>1, <1>2, <1>3, <1>4, <1>5, <1>6, <1>7, <1>8, <1>9, <1>10, <1>11, <1>12, <1>13, <1>14, <1>15, <1>16, <1>17, <1>18, <1>19, <1>20, <1>21, <1>22, <1>23, <1>24, <1>25, <1>26, <1>27, <1>28, <1>29, <1>30, <1>31, <1>32 DEF RunsNext, TurnStep, ForwardStep, AgentStep, SweepStep

LEMMA RunsTypeAlways == RunsSpec => []RunsTypeInv
<1>. QED
  BY RunsTypeInit, RunsTypeStep, PTL DEF RunsSpec

\* Every reachable state is well typed.  What makes it so: a turn is under way
\* whenever its number is used, an outcome is known when it is recorded, and the
\* run that the sweep picks is one of those it read.
THEOREM RunsTypeCorrect == RunsSpec => []RunsTypeOK
<1>1. RunsTypeInv => RunsTypeOK
  BY DEF RunsTypeInv
<1>. QED
  BY <1>1, RunsTypeAlways, PTL

-----------------------------------------------------------------------------
(***************************************************************************)
(* The status of a run.                                                    *)
(***************************************************************************)
\* How finish_run settles the run of the turn under way.
SettledBy(t) ==
  /\ t = turn /\ main # "idle" /\ status[t] = "running" /\ status'[t] \in Terminal
  /\ status'[t] = "completed" => intended = "completed" /\ forward \in {"finish", "over"}

LEMMA FinishSettles ==
  ASSUME RunsTypeInv, main # "idle", NEW st, NEW clear \in BOOLEAN, TryFinish(st, clear),
         status[turn] = "running" => st \in Terminal,
         st = "completed" => intended = "completed" /\ forward \in {"finish", "over"}
  PROVE  \A t \in Turns : status'[t] = status[t] \/ SettledBy(t)
<1>1. turn \in Turns /\ RunsTypeOK
  BY DEF RunsTypeInv, StageInv
<1>2. /\ \A t \in Turns : t # turn => status'[t] = status[t]
      /\ status[turn] # "running" => status'[turn] = status[turn]
      /\ status'[turn] \in {status[turn], st}
  BY <1>1, FinishEffect
<1>. QED
  BY <1>1, <1>2 DEF SettledBy

\* A row goes from nothing to running, and from running to a final status.
LEMMA StatusStep ==
  ASSUME RunsTypeInv, [RunsNext]_runsVars
  PROVE  \A t \in Turns :
           \/ status'[t] = status[t]
           \/ CreateRun /\ t = turn /\ status[t] = "none" /\ status'[t] = "running"
           \/ SettledBy(t)
           \/ Flip /\ status[t] = "running" /\ status'[t] = "interrupted"
<1>1. CASE CreateRun
  <2>1. status[turn] = "none"
    BY <1>1 DEF CreateRun, RunsTypeInv, StageInv
  <2>. QED
    BY <1>1, <2>1 DEF CreateRun, RunsTypeInv, RunsTypeOK
<1>2. CASE Finish
  <2>1. /\ main # "idle" /\ TryFinish(intended, TRUE) /\ forward = "finish"
        /\ status[turn] = "running" => intended \in Terminal
    BY <1>2 DEF Finish, RunsTypeInv, RunsTypeOK, StageInv
  <2>. QED
    BY <2>1, FinishSettles
<1>3. CASE CancelForward
  <2>1. CASE UNCHANGED status
    BY <2>1
  <2>2. CASE forward = "finish" /\ FinishRun(intended, TRUE)
    <3>1. /\ main # "idle" /\ TryFinish(intended, TRUE)
          /\ status[turn] = "running" => intended \in Terminal
      BY <1>3, <2>2 DEF CancelForward, TryFinish, RunsTypeInv, RunsTypeOK, StageInv
    <3>. QED
      BY <2>2, <3>1, FinishSettles
  <2>. QED
    BY <1>3, <2>1, <2>2 DEF CancelForward, recordVars
<1>4. CASE Attribute
  <2>1. /\ main # "idle" /\ TryFinish(IF exit = "raised" THEN "failed" ELSE "interrupted", FALSE)
        /\ (IF exit = "raised" THEN "failed" ELSE "interrupted") \in Terminal
        /\ (IF exit = "raised" THEN "failed" ELSE "interrupted") # "completed"
    BY <1>4 DEF Attribute, Terminal
  <2>. QED
    BY <2>1, FinishSettles
<1>5. CASE SettleStopped
  <2>1. CASE TryFinish("interrupted", FALSE)
    <3>1. main # "idle" /\ "interrupted" \in Terminal
      BY <1>5 DEF SettleStopped, Terminal
    <3>. QED
      BY <2>1, <3>1, FinishSettles
  <2>2. CASE UNCHANGED <<status, snapshot>>
    BY <2>2
  <2>. QED
    BY <1>5, <2>1, <2>2 DEF SettleStopped
<1>6. CASE Caught
  <2>1. PICK st \in {"interrupted", "failed"} : TryFinish(st, FALSE)
    BY <1>6 DEF Caught
  <2>2. main # "idle" /\ st \in Terminal
    BY <1>6 DEF Caught, Terminal
  <2>. QED
    BY <2>1, <2>2, FinishSettles
<1>7. CASE SafetyNet
  <2> DEFINE st == IF intended # "none" THEN intended ELSE IF aborted THEN "interrupted" ELSE "failed"
  <2>1. main # "idle" /\ TryFinish(st, FALSE)
    BY <1>7 DEF SafetyNet
  <2>2. st \in Terminal /\ (st = "completed" => intended = "completed" /\ forward \in {"finish", "over"})
    BY <1>7 DEF SafetyNet, RunsTypeInv, RunsTypeOK, StageInv, Terminal, Open
  <2>. QED
    BY <2>1, <2>2, FinishSettles
<1>8. CASE Flip
  BY <1>8 DEF Flip, RunsTypeInv, RunsTypeOK
<1>9. CASE UNCHANGED status
  BY <1>9
<1>. QED
  BY <1>1, <1>2, <1>3, <1>4, <1>5, <1>6, <1>7, <1>8, <1>9
  DEF RunsNext, TurnStep, ForwardStep, AgentStep, SweepStep, BeginTurn, StartAgent, AwaitAgent, Drained, Raise,
      AgentFinishes, AgentReturns, AgentStopped, AgentBreaks, CleanupBreaks, LateStop, StreamEnd,
      PersistFrozen, Persist, Delta, Boundary, Crash, Restart, Recover, ClearOlder, StartCompression,
      CommitCompression, GiveUpCompression, runsVars, recordVars, serverVars, agentVars, forwardVars

\* A final status is never written again, whoever comes late: the forwarder, the
\* tail of run_turn, its except and finally clauses, or the sweep of the next start.
THEOREM SettledRunsStay == RunsSpec => SettledStaysSettled
<1>1. RunsTypeInv /\ [RunsNext]_runsVars => [\A t \in Turns : status[t] \in Terminal => status'[t] = status[t]]_runsVars
  BY StatusStep DEF SettledBy, Terminal
<1>. QED
  BY <1>1, RunsTypeAlways, PTL DEF RunsSpec, SettledStaysSettled

-----------------------------------------------------------------------------
(***************************************************************************)
(* A stopped or failed turn does not show as completed.                    *)
(***************************************************************************)
\* How a turn's agent ended is noted once, when it ends.
LEMMA CauseStep ==
  ASSUME RunsTypeInv, [RunsNext]_runsVars
  PROVE  \/ UNCHANGED cause
         \/ /\ agent = "running" /\ agent' = "ending" /\ turn \in Turns
            /\ \A t \in Turns : t # turn => cause'[t] = cause[t]
            /\ UNCHANGED <<status, turn, intended, main>>
<1>1. CASE AgentFinishes
  BY <1>1 DEF AgentFinishes, EndWith, RunsTypeInv, RunsTypeOK, StageInv, recordVars, forwardVars
<1>2. CASE AgentStopped
  BY <1>2 DEF AgentStopped, EndWith, RunsTypeInv, RunsTypeOK, StageInv, recordVars, forwardVars
<1>3. CASE AgentBreaks
  BY <1>3 DEF AgentBreaks, EndWith, RunsTypeInv, RunsTypeOK, StageInv, recordVars, forwardVars
<1>4. CASE UNCHANGED cause
  BY <1>4
<1>. QED
  BY <1>1, <1>2, <1>3, <1>4
  DEF RunsNext, TurnStep, ForwardStep, AgentStep, SweepStep, BeginTurn, CreateRun, StartAgent, AwaitAgent,
      Attribute, Drained, SettleStopped, Caught, SafetyNet, Raise, AgentReturns, CleanupBreaks, LateStop,
      StreamEnd, PersistFrozen, Persist, Finish, Delta, Boundary, CancelForward, Crash, Restart, Flip,
      Recover, ClearOlder, StartCompression, CommitCompression, GiveUpCompression, ForgetTurn,
      runsVars, recordVars, serverVars, agentVars, forwardVars

\* An outcome is chosen by the last stream_end and kept until the turn is over.
LEMMA IntendedStep ==
  ASSUME RunsTypeInv, [RunsNext]_runsVars
  PROVE  \/ intended' = "none"
         \/ UNCHANGED <<intended, turn>>
         \/ StreamEnd /\ intended' \in {"none", Outcome}
<1>1. CASE StreamEnd
  BY <1>1 DEF StreamEnd
<1>2. CASE BeginTurn
  BY <1>2 DEF BeginTurn, forwardVars, RunsTypeInv, StageInv, Open
<1>3. CASE CreateRun
  BY <1>3 DEF CreateRun, forwardVars, RunsTypeInv, StageInv, Open
<1>. QED
  BY <1>1, <1>2, <1>3
  DEF RunsNext, TurnStep, ForwardStep, AgentStep, SweepStep, StartAgent, AwaitAgent, AgentFinishes, AgentStopped, AgentBreaks,
      Attribute, Drained, SettleStopped, Caught, SafetyNet, Raise, AgentReturns, CleanupBreaks, LateStop,
      PersistFrozen, Persist, Finish, Delta, Boundary, CancelForward, Crash, Restart, Flip,
      Recover, ClearOlder, StartCompression, CommitCompression, GiveUpCompression, ForgetTurn,
      runsVars, recordVars, serverVars, agentVars, forwardVars

LEMMA TroubleInit == RunsInit => TroubleInv
  BY DEF RunsInit, TroubleInv, TroubleIsNotCompleted, Terminal

LEMMA TroubleStep ==
  ASSUME RunsTypeInv, TroubleInv, [RunsNext]_runsVars
  PROVE  TroubleInv'
<1>1. TroubleIsNotCompleted'
  <2> SUFFICES ASSUME NEW t \in Turns, cause'[t] \in {"stopped", "error"}, status'[t] = "completed"
               PROVE FALSE
    BY DEF TroubleIsNotCompleted
  <2>1. CASE UNCHANGED cause
    <3>1. status[t] # "completed"
      BY <2>1 DEF TroubleInv, TroubleIsNotCompleted
    <3>2. SettledBy(t)
      BY <3>1, StatusStep DEF SettledBy
    <3>. QED
      BY <2>1, <3>2 DEF SettledBy, TroubleInv
  <2>2. CASE t # turn /\ cause'[t] = cause[t] /\ UNCHANGED status
    BY <2>2 DEF TroubleInv, TroubleIsNotCompleted
  <2>3. CASE t = turn /\ agent = "running" /\ UNCHANGED status
    BY <2>3 DEF TroubleInv
  <2>. QED
    BY <2>1, <2>2, <2>3, CauseStep
<1>2. (agent = "running" => status[turn] # "completed")'
  <2> SUFFICES ASSUME agent' = "running" PROVE status'[turn'] # "completed"
    OBVIOUS
  <2>1. CASE StartAgent
    <3>1. status[turn] \in {"none", "running"} /\ UNCHANGED <<status, turn>>
      BY <2>1 DEF StartAgent, recordVars, RunsTypeInv, StageInv
    <3>. QED
      BY <3>1
  <2>2. CASE agent = "running" /\ UNCHANGED turn
    <3>1. turn \in Turns /\ (~SettledBy(turn) \/ status'[turn] # "completed")
      BY <2>2 DEF SettledBy, RunsTypeInv, StageInv, Open
    <3>2. turn \in Turns /\ status[turn] # "completed"
      BY <2>2 DEF TroubleInv, RunsTypeInv, StageInv
    <3>. QED
      BY <2>2, <3>1, <3>2, StatusStep
  <2>3. StartAgent \/ (agent = "running" /\ UNCHANGED turn)
    BY DEF RunsNext, TurnStep, ForwardStep, AgentStep, SweepStep, BeginTurn, CreateRun, AwaitAgent, AgentFinishes,
       AgentStopped, AgentBreaks, EndWith, Attribute, Drained, SettleStopped, Caught, SafetyNet, Raise, AgentReturns,
       CleanupBreaks, LateStop, StreamEnd, PersistFrozen, Persist, Finish, Delta, Boundary, CancelForward, Crash,
       Restart, Flip, Recover, ClearOlder, StartCompression, CommitCompression, GiveUpCompression, ForgetTurn,
       runsVars, recordVars, serverVars, agentVars, forwardVars, RunsTypeInv, StageInv
  <2>. QED
    BY <2>1, <2>2, <2>3
<1>3. (intended = "completed" => cause[turn] \notin {"stopped", "error"})'
  <2>1. CASE StreamEnd /\ intended' \in {"none", Outcome}
    BY <2>1 DEF StreamEnd, Outcome, agentVars
  <2>2. CASE UNCHANGED <<intended, turn, cause>>
    BY <2>2 DEF TroubleInv
  <2>3. CASE UNCHANGED <<intended, turn>> /\ agent = "running"
    BY <2>3 DEF RunsTypeInv, StageInv, Open
  <2>. QED
    BY <2>1, <2>2, <2>3, CauseStep, IntendedStep
<1>4. (main \in {"record", "setup"} => cause[turn] = "none")'
  <2>1. CASE BeginTurn
    BY <2>1, RunsAssumption DEF BeginTurn, agentVars, RunsTypeInv, RunsTypeOK, StageInv, Turns, RunsAssumption
  <2>2. CASE main \in {"record", "setup"} /\ UNCHANGED turn
    <3>1. UNCHANGED cause
      BY <2>2, CauseStep DEF RunsTypeInv, StageInv
    <3>. QED
      BY <2>2, <3>1 DEF TroubleInv
  <2>3. CASE main' \notin {"record", "setup"}
    BY <2>3
  <2>. QED
    BY <2>1, <2>2, <2>3
    DEF RunsNext, TurnStep, ForwardStep, AgentStep, SweepStep, CreateRun, StartAgent, AwaitAgent, AgentFinishes,
       AgentStopped, AgentBreaks, EndWith, Attribute, Drained, SettleStopped, Caught, SafetyNet, Raise, AgentReturns,
       CleanupBreaks, LateStop, StreamEnd, PersistFrozen, Persist, Finish, Delta, Boundary, CancelForward, Crash,
       Restart, Flip, Recover, ClearOlder, StartCompression, CommitCompression, GiveUpCompression, ForgetTurn,
       runsVars, recordVars, serverVars, agentVars, forwardVars
<1>. QED
  BY <1>1, <1>2, <1>3, <1>4 DEF TroubleInv

\* A turn that was stopped, or whose model reported an error, never shows as
\* completed: the outcome is chosen from how the agent ended, and whoever settles
\* the run without it writes interrupted or failed.
THEOREM TroubleStaysVisible == RunsSpec => []TroubleIsNotCompleted
<1>1. TroubleInv => TroubleIsNotCompleted
  BY DEF TroubleInv
<1>. QED
  BY <1>1, TroubleInit, TroubleStep, RunsTypeAlways, PTL DEF RunsSpec

-----------------------------------------------------------------------------
(***************************************************************************)
(* No run is left running.                                                 *)
(***************************************************************************)
LEMMA RunningInit == RunsInit => RunningInv
  BY DEF RunsInit, RunningInv

LEMMA RunningStep ==
  ASSUME RunsTypeInv, RunningInv, [RunsNext]_runsVars, RunFaults \cap {"finish", "sweep"} = {}
  PROVE  RunningInv'
<1> SUFFICES ASSUME server' \in {"serving", "recover", "clear"}, NEW t \in Turns, status'[t] = "running"
             PROVE  t = turn' /\ main' # "idle"
  BY DEF RunningInv
<1>1. CASE Flip
  BY <1>1 DEF Flip, RunsTypeInv, RunsTypeOK
<1>2. CASE CreateRun
  <2>1. /\ UNCHANGED <<turn, server>> /\ main' # "idle"
        /\ status[t] = "running" \/ t = turn
    BY <1>2 DEF CreateRun, serverVars, RunsTypeInv, RunsTypeOK
  <2>. QED
    BY <2>1 DEF RunningInv
<1>3. CASE SafetyNet
  <2> DEFINE st == IF intended # "none" THEN intended ELSE IF aborted THEN "interrupted" ELSE "failed"
  <2>1. /\ turn \in Turns /\ TryFinish(st, FALSE) /\ st \in Terminal /\ UNCHANGED <<turn, server>>
    BY <1>3 DEF SafetyNet, RunsTypeInv, RunsTypeOK, StageInv, Terminal, serverVars
  <2>2. status'[turn] # "running" /\ \A u \in Turns : u # turn => status'[u] = status[u]
    BY <2>1, FinishEffect DEF RunsTypeInv
  <2>. QED
    BY <2>1, <2>2 DEF RunningInv
<1>4. CASE server \in {"serving", "recover", "clear"} /\ status[t] = "running" /\ UNCHANGED turn /\ (main # "idle" => main' # "idle")
  BY <1>4 DEF RunningInv
<1>5. CASE BeginTurn
  BY <1>5 DEF BeginTurn, serverVars, RunningInv
<1>6. CASE ~CreateRun /\ ~Flip /\ ~SafetyNet /\ ~BeginTurn
  <2>1. status[t] = "running"
    BY <1>6, StatusStep DEF SettledBy, Terminal
  <2>2. server \in {"serving", "recover", "clear"} /\ UNCHANGED turn /\ (main # "idle" => main' # "idle")
    BY <1>6
    DEF RunsNext, TurnStep, ForwardStep, AgentStep, SweepStep, StartAgent, AwaitAgent, AgentFinishes,
       AgentStopped, AgentBreaks, EndWith, Attribute, Drained, SettleStopped, Caught, Raise, AgentReturns,
       CleanupBreaks, LateStop, StreamEnd, PersistFrozen, Persist, Finish, Delta, Boundary, CancelForward, Crash,
       Restart, Recover, ClearOlder, StartCompression, CommitCompression, GiveUpCompression, Serving,
       runsVars, recordVars, serverVars, agentVars, forwardVars
  <2>. QED
    BY <1>4, <2>1, <2>2
<1>. QED
  BY <1>1, <1>2, <1>3, <1>5, <1>6

\* Between turns no run of the serving process is left running, if the writes of
\* finish_run and of the start-up sweep do not fail: the finally clause of run_turn
\* settles what no one before it did, the sweep what a dead process left.
THEOREM NothingStaysRunning ==
  RunFaults \cap {"finish", "sweep"} = {} => (RunsSpec => []NothingLeftRunning)
<1> SUFFICES ASSUME RunFaults \cap {"finish", "sweep"} = {} PROVE RunsSpec => []NothingLeftRunning
  OBVIOUS
<1>1. RunningInv => NothingLeftRunning
  BY DEF RunningInv, NothingLeftRunning, Serving
<1>. QED
  BY <1>1, RunningInit, RunningStep, RunsTypeAlways, PTL DEF RunsSpec

-----------------------------------------------------------------------------
(***************************************************************************)
(* A completed run has its answer in the history.                          *)
(***************************************************************************)
\* What a step does to the history.
LEMMA HistoryStep ==
  ASSUME RunsTypeInv, [RunsNext]_runsVars
  PROVE  \/ UNCHANGED history
         \/ /\ turn + 1 \in Turns /\ turn' = turn + 1 /\ history' = Append(history, UserRow(turn + 1))
            /\ main = "idle" /\ main' = "record" /\ status[turn + 1] = "none"
            /\ UNCHANGED <<status, intended, forward>>
         \/ \E t \in Turns, f \in {"plain", "interrupted", "error"}, x \in SUBSET Chunks :
              history' = Append(history, AssistantRow(t, f, x)) /\ UNCHANGED turn
         \/ CommitCompression
<1>1. CASE BeginTurn
  <2>1. turn + 1 \in Turns
    BY <1>1, RunsAssumption DEF BeginTurn, RunsAssumption, RunsTypeInv, RunsTypeOK, Turns
  <2>. QED
    BY <1>1, <2>1 DEF BeginTurn, RunsTypeInv, RunsTypeOK, StageInv, Turns, forwardVars
<1>2. CASE PersistFrozen \/ Persist \/ CancelForward
  <2>1. turn \in Turns /\ buf \in SUBSET Chunks /\ UNCHANGED turn
    BY <1>2 DEF PersistFrozen, Persist, CancelForward, RunsTypeInv, RunsTypeOK, StageInv
  <2>2. \/ UNCHANGED history
        \/ history' = Append(history, AssistantRow(turn, "interrupted", buf))
        \/ history' = Append(history, FinalRow)
    BY <1>2 DEF PersistFrozen, Persist, CancelForward, recordVars
  <2>3. \E f \in {"plain", "interrupted", "error"} : FinalRow = AssistantRow(turn, f, buf)
    <3> DEFINE flag == [interrupted |-> "interrupted", failed |-> "error", completed |-> "plain"]
    <3>1. flag[Outcome] \in {"plain", "interrupted", "error"} /\ FinalRow = AssistantRow(turn, flag[Outcome], buf)
      BY DEF Outcome, FinalRow
    <3>. QED
      BY <3>1
  <2>. QED
    BY <2>1, <2>2, <2>3
<1>3. CASE Recover
  <2>1. CASE Recoverable = {}
    BY <1>3, <2>1 DEF Recover
  <2>2. CASE Recoverable # {}
    <3> DEFINE t == Max(Recoverable)
    <3>1. t \in Turns /\ snapshot[t] \in SUBSET Chunks
      <4>1. Recoverable \in SUBSET Turns
        BY DEF Recoverable
      <4>. QED
        BY <2>2, <4>1, NewestTurn DEF RunsTypeInv, RunsTypeOK
    <3>2. UNCHANGED turn /\ (\/ UNCHANGED history
                             \/ history' = Append(history, AssistantRow(t, "interrupted", snapshot[t])))
      BY <1>3, <2>2 DEF Recover
    <3>. QED
      BY <3>1, <3>2
  <2>. QED
    BY <2>1, <2>2
<1>4. CASE UNCHANGED history
  BY <1>4
<1>. QED
  BY <1>1, <1>2, <1>3, <1>4
  DEF RunsNext, TurnStep, ForwardStep, AgentStep, SweepStep, CreateRun, StartAgent, AwaitAgent, AgentFinishes,
      AgentStopped, AgentBreaks, EndWith, Attribute, Drained, SettleStopped, Caught, SafetyNet, Raise, AgentReturns,
      CleanupBreaks, LateStop, StreamEnd, Finish, Delta, Boundary, Crash, Restart, Flip, ClearOlder,
      StartCompression, GiveUpCompression, runsVars, recordVars, serverVars, agentVars, forwardVars

\* A message that is not the turn's own question leaves the turn answered.
LEMMA AnsweredAfterAppend ==
  ASSUME history \in Seq(Rows), NEW r \in Rows, history' = Append(history, r),
         NEW t \in Turns, r # UserRow(t), Answered(t)
  PROVE  Answered(t)'
<1> SUFFICES ASSUME NEW i \in DOMAIN history', history'[i] = UserRow(t)
             PROVE  \E j \in AssistantRows' : i < j /\ history'[j].turn = t /\ history'[j].flag = "plain"
  BY DEF Answered
<1>1. /\ DOMAIN history = 1..Len(history) /\ DOMAIN history' = 1..(Len(history) + 1) /\ Len(history) \in Nat
      /\ \A k \in 1..Len(history) : history'[k] = history[k]
      /\ history'[Len(history) + 1] = r
  BY AppendRow
<1>2. i \in DOMAIN history /\ history[i] = UserRow(t)
  BY <1>1
<1>3. PICK j \in AssistantRows : i < j /\ history[j].turn = t /\ history[j].flag = "plain"
  BY <1>2 DEF Answered
<1>4. j \in AssistantRows' /\ history'[j] = history[j]
  BY <1>1, <1>3 DEF AssistantRows
<1>. QED
  BY <1>3, <1>4

\* So does a compression: what it deletes lies before what it keeps.
LEMMA AnsweredAfterCommit ==
  ASSUME RunsTypeOK, CommitCompression, NEW t \in Turns, Answered(t)
  PROVE  Answered(t)'
<1> SUFFICES ASSUME NEW i \in DOMAIN history', history'[i] = UserRow(t)
             PROVE  \E j \in AssistantRows' : i < j /\ history'[j].turn = t /\ history'[j].flag = "plain"
  BY DEF Answered
<1>1. /\ history' \in Seq(Rows) /\ cut \in 1..(Len(history) - 1) /\ Len(history) \in Nat
      /\ Len(history') = 2 + (Len(history) - cut)
      /\ history'[1] = UserRow(0) /\ history'[2] = AssistantRow(0, "plain", {})
      /\ \A k \in 3..Len(history') : history'[k] = history[(k - 2) + cut]
  BY CommitEffect
<1>2. DOMAIN history' = 1..Len(history') /\ DOMAIN history = 1..Len(history)
  BY <1>1 DEF RunsTypeOK
<1>3. i \in 3..Len(history')
  <2>1. t # 0
    BY DEF Turns
  <2>2. UserRow(0) # UserRow(t) /\ AssistantRow(0, "plain", {}) # UserRow(t)
    BY <2>1, RowFields
  <2>. QED
    BY <1>1, <1>2, <2>2
<1>4. (i - 2) + cut \in DOMAIN history /\ history[(i - 2) + cut] = UserRow(t)
  BY <1>1, <1>2, <1>3
<1>5. PICK j \in AssistantRows : (i - 2) + cut < j /\ history[j].turn = t /\ history[j].flag = "plain"
  BY <1>4 DEF Answered
<1>6. j \in 1..Len(history)
  BY <1>2, <1>5 DEF AssistantRows
<1> DEFINE k == (j - cut) + 2
<1>7. k \in 3..Len(history') /\ (k - 2) + cut = j /\ i < k
  BY <1>1, <1>3, <1>5, <1>6
<1>8. k \in AssistantRows' /\ history'[k] = history[j]
  BY <1>1, <1>2, <1>5, <1>7 DEF AssistantRows
<1>. QED
  BY <1>5, <1>7, <1>8

LEMMA AnswerInit == RunsInit => AnswerInv
  BY DEF RunsInit, AnswerInv

\* An answered turn stays answered; a turn that begins has no status yet.
LEMMA AnsweredStays ==
  ASSUME RunsTypeInv, [RunsNext]_runsVars, NEW t \in Turns, Answered(t), t <= turn
  PROVE  Answered(t)'
<1>1. CASE UNCHANGED history
  BY <1>1 DEF Answered, AssistantRows
<1>2. CASE turn + 1 \in Turns /\ history' = Append(history, UserRow(turn + 1))
  <2>1. UserRow(turn + 1) \in Rows
    BY <1>2, RowTypes DEF Turns
  <2>2. t # turn + 1
    BY DEF RunsTypeInv, RunsTypeOK, Turns
  <2>. QED
    BY <1>2, <2>1, <2>2, RowFields, AnsweredAfterAppend DEF RunsTypeInv, RunsTypeOK
<1>3. ASSUME NEW u \in Turns, NEW f \in {"plain", "interrupted", "error"}, NEW x \in SUBSET Chunks,
             history' = Append(history, AssistantRow(u, f, x))
      PROVE  Answered(t)'
  <2>1. AssistantRow(u, f, x) \in Rows
    BY RowTypes DEF Turns
  <2>2. AssistantRow(u, f, x) # UserRow(t)
    BY RowFields
  <2>. QED
    BY <1>3, <2>1, <2>2, AnsweredAfterAppend DEF RunsTypeInv, RunsTypeOK
<1>4. CASE CommitCompression
  BY <1>4, AnsweredAfterCommit DEF RunsTypeInv
<1>. QED
  BY <1>1, <1>2, <1>3, <1>4, HistoryStep

\* The final row of a turn that has an answer is that answer.
LEMMA FinalRowAnswers ==
  ASSUME RunsTypeInv, turn \in Turns, history' = Append(history, FinalRow), Outcome = "completed"
  PROVE  \A i \in DOMAIN history' : history'[i] = UserRow(turn) =>
           \E j \in AssistantRows' : i < j /\ history'[j].turn = turn /\ history'[j].flag = "plain"
<1>1. /\ FinalRow \in Rows /\ FinalRow.role = "assistant" /\ FinalRow.turn = turn /\ FinalRow.flag = "plain"
  BY FinalRowType DEF RunsTypeInv
<1>2. /\ DOMAIN history' = 1..(Len(history) + 1) /\ Len(history) \in Nat
      /\ history'[Len(history) + 1] = FinalRow
  BY <1>1, AppendRow DEF RunsTypeInv, RunsTypeOK
<1>3. FinalRow # UserRow(turn)
  BY <1>1, RowFields
<1>4. Len(history) + 1 \in AssistantRows'
  BY <1>1, <1>2 DEF AssistantRows
<1> SUFFICES ASSUME NEW i \in DOMAIN history', history'[i] = UserRow(turn)
             PROVE  i < Len(history) + 1
  BY <1>1, <1>2, <1>4
<1>. QED
  BY <1>2, <1>3

LEMMA AnswerStep ==
  ASSUME RunsTypeInv, AnswerInv, [RunsNext]_runsVars, "persist" \notin RunFaults
  PROVE  AnswerInv'
<1>1. ASSUME NEW t \in Turns, status'[t] = "completed" PROVE (Answered(t))'
  <2>1. Answered(t) /\ t <= turn
    <3>1. CASE status[t] = "completed"
      BY <3>1 DEF AnswerInv, RunsTypeInv, RunsTypeOK, StageInv, Turns
    <3>2. CASE SettledBy(t)
      BY <1>1, <3>2 DEF SettledBy, AnswerInv, RunsTypeInv, RunsTypeOK, Turns
    <3>. QED
      BY <1>1, <3>1, <3>2, StatusStep
  <2>. QED
    BY <2>1, AnsweredStays
<1>2. ASSUME intended' = "completed", forward' \in {"finish", "over"} PROVE (Answered(turn))'
  <2>1. CASE StreamEnd
    BY <1>2, <2>1 DEF StreamEnd, Outcome
  <2>2. CASE ~StreamEnd
    <3>1. UNCHANGED <<intended, turn>> /\ turn \in Turns /\ turn <= turn
      BY <1>2, <2>2, IntendedStep DEF RunsTypeInv, RunsTypeOK, StageInv, Open, Turns
    <3>2. CASE forward \in {"finish", "over"}
      <4>1. PICK u \in Turns : u = turn
        BY <3>1
      <4>2. Answered(u) /\ u <= turn
        BY <1>2, <3>1, <3>2, <4>1 DEF AnswerInv
      <4>3. Answered(u)'
        BY <4>2, AnsweredStays
      <4>. QED
        BY <3>1, <4>1, <4>3 DEF Answered
    <3>3. CASE forward = "persist" /\ history' = Append(history, FinalRow)
      <4>1. Outcome = "completed"
        BY <1>2, <3>1, <3>3 DEF RunsTypeInv, StageInv
      <4>. QED
        BY <3>1, <3>3, <4>1, FinalRowAnswers DEF Answered, AssistantRows
    <3>4. CASE forward \notin {"finish", "over", "persist"}
      BY <1>2, <3>1, <3>4 DEF RunsTypeInv, StageInv, RunsTypeOK, Open
    <3>5. forward = "persist" => history' = Append(history, FinalRow)
      BY <1>2 DEF RunsNext, TurnStep, ForwardStep, AgentStep, SweepStep, BeginTurn, CreateRun, StartAgent, AwaitAgent,
         AgentFinishes, AgentStopped, AgentBreaks, Attribute, Drained, SettleStopped, Caught, SafetyNet, Raise,
         AgentReturns, CleanupBreaks, LateStop, StreamEnd, PersistFrozen, Persist, Finish, Delta, Boundary,
         CancelForward, Crash, Restart, Flip, Recover, ClearOlder, StartCompression, CommitCompression,
         GiveUpCompression, ForgetTurn, runsVars, recordVars, serverVars, agentVars, forwardVars
    <3>. QED
      BY <3>2, <3>3, <3>4, <3>5
  <2>. QED
    BY <2>1, <2>2
<1>. QED
  BY <1>1, <1>2 DEF AnswerInv

\* A completed run has its answer in the history unless a compression has taken
\* the question with it, provided that no write of a message fails: the outcome
\* "completed" is recorded after the final row only, and a compression deletes a
\* prefix, so that it never deletes an answer and keeps the question before it.
THEOREM CompletedStaysAnswered == "persist" \notin RunFaults => (RunsSpec => []CompletedIsAnswered)
<1> SUFFICES ASSUME "persist" \notin RunFaults PROVE RunsSpec => []CompletedIsAnswered
  OBVIOUS
<1>1. AnswerInv => CompletedIsAnswered
  BY DEF AnswerInv, Answered, CompletedIsAnswered, Range, AssistantRows
<1>. QED
  BY <1>1, AnswerInit, AnswerStep, RunsTypeAlways, PTL DEF RunsSpec

-----------------------------------------------------------------------------
(***************************************************************************)
(* Text: without compressions, every chunk is in the buffer, in a run row  *)
(* or in the history, and in the history once.                             *)
(***************************************************************************)
\* A question adds no text.
LEMMA QuestionTexts ==
  ASSUME RunsTypeOK, NEW u \in 0..MaxTurns, history' = Append(history, UserRow(u))
  PROVE  /\ AssistantRows' = AssistantRows /\ Said' = Said
         /\ \A i \in AssistantRows : history'[i] = history[i]
<1>1. /\ DOMAIN history = 1..Len(history) /\ DOMAIN history' = 1..(Len(history) + 1) /\ Len(history) \in Nat
      /\ \A i \in 1..Len(history) : history'[i] = history[i]
      /\ history'[Len(history) + 1] = UserRow(u)
  BY RowTypes, AppendRow DEF RunsTypeOK
<1>2. UserRow(u).role # "assistant"
  BY RowFields
<1>3. AssistantRows' = AssistantRows
  BY <1>1, <1>2 DEF AssistantRows
<1>4. \A i \in AssistantRows : history'[i] = history[i]
  BY <1>1 DEF AssistantRows
<1>5. Said' = Said
  BY <1>3, <1>4 DEF Said
<1>. QED
  BY <1>3, <1>4, <1>5

\* An answer adds its own.
LEMMA AnswerTexts ==
  ASSUME RunsTypeOK, NEW u \in Turns, NEW f \in {"plain", "interrupted", "error"}, NEW x \in SUBSET Chunks,
         history' = Append(history, AssistantRow(u, f, x))
  PROVE  /\ Len(history) + 1 \in Nat /\ Len(history) + 1 \notin AssistantRows
         /\ AssistantRows' = AssistantRows \cup {Len(history) + 1}
         /\ \A i \in AssistantRows : history'[i] = history[i]
         /\ history'[Len(history) + 1] = AssistantRow(u, f, x)
         /\ Said' = Said \cup x
<1>1. /\ DOMAIN history = 1..Len(history) /\ DOMAIN history' = 1..(Len(history) + 1) /\ Len(history) \in Nat
      /\ \A i \in 1..Len(history) : history'[i] = history[i]
      /\ history'[Len(history) + 1] = AssistantRow(u, f, x)
  <2>1. AssistantRow(u, f, x) \in Rows
    BY RowTypes DEF Turns
  <2>. QED
    BY <2>1, AppendRow DEF RunsTypeOK
<1>2. AssistantRow(u, f, x).role = "assistant" /\ AssistantRow(u, f, x).text = x
  BY RowFields
<1>3. AssistantRows' = AssistantRows \cup {Len(history) + 1}
  BY <1>1, <1>2 DEF AssistantRows
<1>4. \A i \in AssistantRows : history'[i] = history[i] /\ i # Len(history) + 1
  BY <1>1 DEF AssistantRows
<1>5. Said' = Said \cup x
  <2>1. \A e : e \in Said <=> \E i \in AssistantRows : e \in history[i].text
    BY DEF Said
  <2>2. \A e : e \in Said' <=> \E i \in AssistantRows' : e \in history'[i].text
    BY DEF Said
  <2>3. history'[Len(history) + 1].text = x /\ \A i \in AssistantRows : history'[i].text = history[i].text
    BY <1>1, <1>2, <1>4
  <2>4. \A e : e \in Said' <=> e \in Said \/ e \in x
    BY <1>3, <2>1, <2>2, <2>3
  <2>. QED
    BY <2>4
<1>6. Len(history) + 1 \notin AssistantRows
  BY <1>4
<1>7. Len(history) + 1 \in Nat
  BY <1>1
<1>8. history'[Len(history) + 1] = AssistantRow(u, f, x)
  BY <1>1
<1>. QED
  BY <1>3, <1>4, <1>5, <1>6, <1>7, <1>8

\* An answer of a turn that has begun, with text that is not in the history yet.
LEMMA ShapeAfterAnswer ==
  ASSUME RunsTypeOK, ShapeInv, NEW u \in Turns, NEW f \in {"plain", "interrupted", "error"}, NEW x \in SUBSET Chunks,
         history' = Append(history, AssistantRow(u, f, x)), UNCHANGED <<turn, said>>,
         u <= turn, x \subseteq 1..said, x \cap Said = {}
  PROVE  ShapeInv'
<1>1. /\ DOMAIN history = 1..Len(history) /\ DOMAIN history' = 1..(Len(history) + 1) /\ Len(history) \in Nat
      /\ \A i \in 1..Len(history) : history'[i] = history[i]
      /\ history'[Len(history) + 1] = AssistantRow(u, f, x)
  <2>1. AssistantRow(u, f, x) \in Rows
    BY RowTypes DEF Turns
  <2>. QED
    BY <2>1, AppendRow DEF RunsTypeOK
<1>2. /\ Len(history) + 1 \notin AssistantRows /\ AssistantRows' = AssistantRows \cup {Len(history) + 1}
      /\ \A i \in AssistantRows : history'[i] = history[i]
  BY AnswerTexts
<1>3. AssistantRow(u, f, x).turn = u /\ AssistantRow(u, f, x).text = x
  BY RowFields
<1>4. \A i \in AssistantRows : history[i].text \subseteq Said
  BY DEF Said
<1>5. TextAppearsOnce'
  <2> DEFINE m == Len(history) + 1
  <2>1. \A i \in AssistantRows : history'[i].text = history[i].text /\ history[i].text \cap x = {}
    BY <1>2, <1>4
  <2>2. history'[m].text = x
    BY <1>1, <1>3
  <2>3. \A i, j \in AssistantRows : i # j => history[i].text \cap history[j].text = {}
    BY DEF ShapeInv, TextAppearsOnce
  <2>4. AssistantRows' = AssistantRows \cup {m}
    BY <1>2
  <2>5. ASSUME NEW i \in AssistantRows', NEW j \in AssistantRows', i # j
        PROVE  history'[i].text \cap history'[j].text = {}
    BY ONLY <2>1, <2>2, <2>3, <2>4, <2>5
  <2>. QED
    BY <2>5 DEF TextAppearsOnce
<1>6. (\A i \in DOMAIN history : history[i].turn <= turn /\ history[i].text \subseteq 1..said)'
  <2> SUFFICES ASSUME NEW i \in DOMAIN history'
               PROVE  history'[i].turn <= turn /\ history'[i].text \subseteq 1..said
    OBVIOUS
  <2>1. CASE i \in 1..Len(history)
    <3>1. history'[i] = history[i] /\ i \in DOMAIN history
      BY <1>1, <2>1
    <3>. QED
      BY <3>1 DEF ShapeInv
  <2>2. CASE i = Len(history) + 1
    BY <1>1, <1>3, <2>2
  <2>. QED
    BY <1>1, <2>1, <2>2
<1>7. (\A j \in AssistantRows : \E i \in DOMAIN history : i < j /\ history[i] = UserRow(history[j].turn))'
  <2> SUFFICES ASSUME NEW j \in AssistantRows'
               PROVE \E i \in DOMAIN history' : i < j /\ history'[i] = UserRow(history'[j].turn)
    OBVIOUS
  <2>1. CASE j \in AssistantRows
    <3>1. PICK i \in DOMAIN history : i < j /\ history[i] = UserRow(history[j].turn)
      BY <2>1 DEF ShapeInv
    <3>2. history'[i] = history[i] /\ i \in DOMAIN history'
      BY <1>1, <3>1
    <3>3. history'[j] = history[j]
      BY <1>2, <2>1
    <3>. QED
      BY <3>1, <3>2, <3>3
  <2>2. CASE j = Len(history) + 1
    <3>1. PICK i \in DOMAIN history : history[i] = UserRow(u)
      BY DEF ShapeInv
    <3>. QED
      BY <1>1, <1>3, <2>2, <3>1
  <2>. QED
    BY <1>2, <2>1, <2>2
<1>8. (\A t \in Turns : t <= turn => \E i \in DOMAIN history : history[i] = UserRow(t))'
  <2> SUFFICES ASSUME NEW t \in Turns, t <= turn PROVE \E i \in DOMAIN history' : history'[i] = UserRow(t)
    OBVIOUS
  <2>1. PICK i \in DOMAIN history : history[i] = UserRow(t)
    BY DEF ShapeInv
  <2>. QED
    BY <1>1, <2>1
<1>. QED
  BY <1>5, <1>6, <1>7, <1>8 DEF ShapeInv

\* The next question.
LEMMA ShapeAfterQuestion ==
  ASSUME RunsTypeOK, ShapeInv, turn + 1 \in Turns, turn' = turn + 1, UNCHANGED said,
         history' = Append(history, UserRow(turn + 1))
  PROVE  ShapeInv'
<1>0. turn \in Nat /\ turn + 1 \in 0..MaxTurns /\ said \in Nat
  BY DEF RunsTypeOK, Turns
<1>1. /\ DOMAIN history = 1..Len(history) /\ DOMAIN history' = 1..(Len(history) + 1) /\ Len(history) \in Nat
      /\ \A i \in 1..Len(history) : history'[i] = history[i]
      /\ history'[Len(history) + 1] = UserRow(turn + 1)
      /\ \A i \in DOMAIN history : history[i].turn \in 0..MaxTurns
  BY <1>0, RowTypes, AppendRow DEF RunsTypeOK
<1>2. AssistantRows' = AssistantRows /\ \A i \in AssistantRows : history'[i] = history[i]
  BY <1>0, QuestionTexts
<1>3. UserRow(turn + 1).turn = turn + 1 /\ UserRow(turn + 1).text = {}
  BY RowFields
<1>5. TextAppearsOnce'
  BY <1>2 DEF ShapeInv, TextAppearsOnce
<1>6. (\A i \in DOMAIN history : history[i].turn <= turn /\ history[i].text \subseteq 1..said)'
  BY <1>0, <1>1, <1>3 DEF ShapeInv
<1>7. (\A j \in AssistantRows : \E i \in DOMAIN history : i < j /\ history[i] = UserRow(history[j].turn))'
  <2> SUFFICES ASSUME NEW j \in AssistantRows'
               PROVE \E i \in DOMAIN history' : i < j /\ history'[i] = UserRow(history'[j].turn)
    OBVIOUS
  <2>1. PICK i \in DOMAIN history : i < j /\ history[i] = UserRow(history[j].turn)
    <3>1. j \in AssistantRows
      BY <1>2
    <3>. QED
      BY <3>1 DEF ShapeInv
  <2>2. history'[i] = history[i] /\ i \in DOMAIN history'
    BY <1>1, <2>1
  <2>3. history'[j] = history[j]
    BY <1>2
  <2>. QED
    BY <2>1, <2>2, <2>3
<1>8. (\A t \in Turns : t <= turn => \E i \in DOMAIN history : history[i] = UserRow(t))'
  <2> SUFFICES ASSUME NEW t \in Turns, t <= turn + 1 PROVE \E i \in DOMAIN history' : history'[i] = UserRow(t)
    OBVIOUS
  <2>1. CASE t = turn + 1
    BY <1>1, <2>1
  <2>2. CASE t <= turn
    <3>1. PICK i \in DOMAIN history : history[i] = UserRow(t)
      BY <2>2 DEF ShapeInv
    <3>. QED
      BY <1>1, <3>1
  <2>. QED
    BY <1>0, <2>1, <2>2 DEF Turns
<1>. QED
  BY <1>5, <1>6, <1>7, <1>8 DEF ShapeInv

\* A snapshot that stands in a row stands there for good.
LEMMA FiledStays ==
  ASSUME NEW t \in Turns, Filed(t), AssistantRows \subseteq AssistantRows',
         \A i \in AssistantRows : history'[i] = history[i], snapshot'[t] \subseteq snapshot[t]
  PROVE  Filed(t)'
<1>1. PICK j \in AssistantRows : history[j].turn = t /\ snapshot[t] \subseteq history[j].text
  BY DEF Filed
<1>2. j \in AssistantRows' /\ history'[j] = history[j]
  BY <1>1
<1>3. history'[j].turn = t /\ snapshot'[t] \subseteq history'[j].text
  BY <1>1, <1>2
<1>. QED
  BY <1>2, <1>3 DEF Filed

\* The history, the run rows and the turn stay, and nothing new is buffered.
LEMMA TextAfterQuiet ==
  ASSUME RunsTypeInv, TextInv, UNCHANGED <<history, snapshot, turn, said, compressions>>, cut' = 0,
         buf' \in {buf, {}}, forward' \in Open => forward \in Open /\ buf' = buf,
         forward' = "finish" => forward = "finish" \/ (forward = "streaming" /\ buf = {}),
         main' \in {"record", "setup"} => main \in {"record", "setup"},
         older' \in {older, {}}, server' # "clear" => older' = {}
  PROVE  TextInv'
<1>1. AssistantRows' = AssistantRows /\ Said' = Said /\ Unanswered' = Unanswered /\ ShapeInv'
  BY DEF AssistantRows, Said, Unanswered, TextInv, ShapeInv, TextAppearsOnce
<1>2. \A t \in Turns : Filed(t)' = Filed(t)
  BY <1>1 DEF Filed
<1>3. turn \in Turns \/ forward = "none"
  BY DEF RunsTypeInv, StageInv
<1>4. (Filed(turn))' = Filed(turn)
  BY <1>1 DEF Filed
<1>5. SnapshotInv'
  <2>1. forward' = "finish" => snapshot[turn] \subseteq Said
    <3>1. CASE forward = "streaming" /\ buf = {}
      <4>1. Filed(turn) \/ snapshot[turn] \subseteq {}
        BY <3>1 DEF TextInv, BufferInv, Open
      <4>. QED
        BY <4>1 DEF Filed, Said
    <3>. QED
      BY <3>1 DEF TextInv, SnapshotInv
  <2>. QED
    BY <1>1, <1>2, <2>1 DEF TextInv, SnapshotInv
<1>6. BufferInv'
  BY <1>1, <1>4 DEF TextInv, BufferInv
<1>. QED
  BY <1>1, <1>5, <1>6 DEF TextInv

\* A question is appended: no text moves.
LEMMA TextAfterQuestion ==
  ASSUME RunsTypeInv, TextInv, BeginTurn
  PROVE  TextInv'
<1>1. /\ turn + 1 \in Turns /\ turn \in Nat /\ turn + 1 \in 0..MaxTurns /\ turn' = turn + 1
      /\ history' = Append(history, UserRow(turn + 1)) /\ RunsTypeOK
      /\ UNCHANGED <<snapshot, said, compressions, cut, buf, forward, older, server>>
      /\ forward = "none" /\ buf = {} /\ server = "serving" /\ older = {}
      /\ \A t \in Turns : t > turn => snapshot[t] = {}
  BY RunsAssumption
  DEF BeginTurn, serverVars, forwardVars, Serving, RunsTypeInv, RunsTypeOK, StageInv, TextInv, SnapshotInv, Turns, RunsAssumption
<1>2. AssistantRows' = AssistantRows /\ Said' = Said /\ \A i \in AssistantRows : history'[i] = history[i]
  BY <1>1, QuestionTexts
<1>3. ShapeInv'
  BY <1>1, ShapeAfterQuestion DEF TextInv
<1>4. Unanswered'
  <2>1. /\ DOMAIN history = 1..Len(history) /\ DOMAIN history' = 1..(Len(history) + 1) /\ Len(history) \in Nat
        /\ \A i \in 1..Len(history) : history'[i] = history[i]
    BY <1>1, RowTypes, AppendRow DEF RunsTypeOK
  <2>2. \A i \in 1..Len(history) : history[i] # UserRow(turn + 1)
    <3>1. \A i \in 1..Len(history) : history[i].turn <= turn /\ history[i].turn \in 0..MaxTurns
      BY <1>1, <2>1, RowTypes DEF TextInv, ShapeInv, RunsTypeOK
    <3>2. \A i \in 1..Len(history) : history[i].turn # turn + 1
      BY <1>1, <3>1
    <3>. QED
      BY <3>2, RowFields
  <2>3. \A i, j \in DOMAIN history' : i < j => history'[i] # UserRow(turn + 1)
    BY <2>1, <2>2
  <2>. QED
    BY <1>1, <2>3 DEF Unanswered
<1>5. \A t \in Turns : Filed(t) => Filed(t)'
  BY <1>1, <1>2 DEF Filed
<1>6. SnapshotInv'
  <2>1. \A t \in Turns : snapshot'[t] \subseteq 1..said'
    BY <1>1 DEF TextInv, SnapshotInv
  <2>2. \A t \in Turns : Filed(t)' \/ snapshot'[t] \cap Said' = {}
    BY <1>1, <1>2, <1>5 DEF TextInv, SnapshotInv
  <2>3. \A t, u \in Turns : t # u => snapshot'[t] \cap snapshot'[u] = {}
    BY <1>1 DEF TextInv, SnapshotInv
  <2>4. snapshot'[turn'] = {}
    <3>1. turn + 1 > turn
      BY <1>1
    <3>. QED
      BY <1>1, <3>1
  <2>5. buf' = {} /\ forward' # "finish" /\ older' = {}
    BY <1>1
  <2>. QED
    BY <1>4, <2>1, <2>2, <2>3, <2>4, <2>5 DEF SnapshotInv
<1>7. BufferInv'
  BY <1>1, <1>4 DEF TextInv, BufferInv, Open
<1>. QED
  BY <1>1, <1>3, <1>6, <1>7 DEF TextInv

\* The agent starts with nothing said.
LEMMA TextAfterStart ==
  ASSUME RunsTypeInv, TextInv, StartAgent
  PROVE  TextInv'
<1>1. /\ UNCHANGED <<history, snapshot, turn, said, compressions, cut, buf, older, server>>
      /\ buf = {} /\ main = "setup" /\ main' = "await" /\ forward' = "streaming"
  BY DEF StartAgent, recordVars, serverVars, RunsTypeInv, StageInv
<1>2. AssistantRows' = AssistantRows /\ Said' = Said /\ Unanswered' = Unanswered /\ ShapeInv' /\ Unanswered
  BY <1>1 DEF AssistantRows, Said, Unanswered, TextInv, ShapeInv, TextAppearsOnce, BufferInv
<1>3. \A t \in Turns : Filed(t)' = Filed(t)
  BY <1>1, <1>2 DEF Filed
<1>4. SnapshotInv'
  BY <1>1, <1>2, <1>3 DEF TextInv, SnapshotInv
<1>5. snapshot[turn] = {}
  BY <1>1 DEF TextInv, SnapshotInv
<1>6. BufferInv'
  BY <1>1, <1>2, <1>5 DEF TextInv, BufferInv
<1>. QED
  BY <1>1, <1>2, <1>4, <1>6 DEF TextInv

\* A chunk is new everywhere.
LEMMA TextAfterDelta ==
  ASSUME RunsTypeInv, TextInv, Delta
  PROVE  TextInv'
<1>1. /\ UNCHANGED <<history, turn, main, compressions, cut, older, server, forward>>
      /\ said \in Nat /\ said' = said + 1 /\ buf' = buf \cup {said + 1} /\ forward = "streaming" /\ turn \in Turns
      /\ main \notin {"record", "setup"}
  BY DEF Delta, serverVars, agentVars, RunsTypeInv, RunsTypeOK, StageInv
<1>2. /\ \A t \in Turns : t # turn => snapshot'[t] = snapshot[t]
      /\ snapshot'[turn] \in {snapshot[turn], buf'}
  BY DEF Delta, RunsTypeInv, RunsTypeOK
<1>3. AssistantRows' = AssistantRows /\ Said' = Said /\ Unanswered' = Unanswered /\ Unanswered
  BY <1>1 DEF AssistantRows, Said, Unanswered, TextInv, BufferInv, Open
<1>4. 1..said \subseteq 1..said' /\ said + 1 \in 1..said' /\ said + 1 \notin 1..said
  BY <1>1
<1>5. ShapeInv'
  BY <1>1, <1>3, <1>4 DEF TextInv, ShapeInv, TextAppearsOnce
<1>6. said + 1 \notin Said
  BY <1>4 DEF Said, AssistantRows, TextInv, ShapeInv
<1>7. \A t \in Turns : t # turn => Filed(t)' = Filed(t)
  BY <1>1, <1>2, <1>3 DEF Filed
<1>8. snapshot'[turn] = snapshot[turn] => (Filed(turn) => (Filed(turn))')
  BY <1>1, <1>3 DEF Filed
<1>9. buf \cap Said = {} /\ buf' \cap Said = {} /\ (Filed(turn) \/ snapshot[turn] \subseteq buf)
  BY <1>1, <1>6 DEF TextInv, BufferInv, Open
<1>10. BufferInv'
  <2>1. (Filed(turn))' \/ snapshot'[turn] \subseteq buf'
    BY <1>1, <1>2, <1>8, <1>9
  <2>2. buf' \subseteq 1..said'
    BY <1>1, <1>4 DEF TextInv, BufferInv
  <2>. QED
    BY <1>1, <1>3, <1>9, <2>1, <2>2 DEF BufferInv
<1>11. SnapshotInv'
  <2>1. (\A t \in Turns : snapshot[t] \subseteq 1..said)'
    BY <1>1, <1>2, <1>4 DEF TextInv, SnapshotInv, BufferInv
  <2>2. (\A t \in Turns : Filed(t) \/ snapshot[t] \cap Said = {})'
    <3> SUFFICES ASSUME NEW t \in Turns PROVE Filed(t)' \/ snapshot'[t] \cap Said = {}
      BY <1>3
    <3>1. CASE t # turn
      BY <1>2, <1>7, <3>1 DEF TextInv, SnapshotInv
    <3>2. CASE t = turn /\ snapshot'[turn] = buf'
      BY <1>9, <3>2
    <3>3. CASE t = turn /\ snapshot'[turn] = snapshot[turn]
      <4>1. Filed(t) \/ snapshot[t] \cap Said = {}
        BY DEF TextInv, SnapshotInv
      <4>2. Filed(t) => Filed(t)'
        BY <1>1, <1>3, <3>3 DEF Filed
      <4>. QED
        BY <3>3, <4>1, <4>2
    <3>. QED
      BY <1>2, <3>1, <3>2, <3>3
  <2>3. \A t \in Turns : t # turn => snapshot[t] \cap buf' = {}
    BY <1>1, <1>4 DEF TextInv, SnapshotInv
  <2>4. (\A t, u \in Turns : t # u => snapshot[t] \cap snapshot[u] = {})'
    <3> SUFFICES ASSUME NEW t \in Turns, NEW u \in Turns, t # u PROVE snapshot'[t] \cap snapshot'[u] = {}
      OBVIOUS
    <3>1. snapshot[t] \cap snapshot[u] = {}
      BY DEF TextInv, SnapshotInv
    <3>. QED
      BY <1>2, <2>3, <3>1
  <2>. QED
    BY <1>1, <1>2, <1>3, <2>1, <2>2, <2>3, <2>4 DEF TextInv, SnapshotInv
<1>. QED
  BY <1>1, <1>5, <1>10, <1>11 DEF TextInv

\* An answer is written: the partial text of an injection, or the final row.
LEMMA TextAfterAnswer ==
  ASSUME RunsTypeInv, TextInv, turn \in Turns, NEW f \in {"plain", "interrupted", "error"},
         history' = Append(history, AssistantRow(turn, f, buf)), forward \in Open,
         UNCHANGED <<snapshot, turn, said, main, compressions, cut, older, server>>,
         \/ forward' = "streaming" /\ f = "interrupted" /\ buf' = {}
         \/ forward' \in {"over", "finish"} /\ buf' = buf
  PROVE  TextInv'
<1>1. buf \in SUBSET Chunks /\ RunsTypeOK /\ turn \in Nat /\ turn <= turn
  BY DEF RunsTypeInv, RunsTypeOK
<1>2. /\ Len(history) + 1 \in Nat /\ Len(history) + 1 \notin AssistantRows
      /\ AssistantRows' = AssistantRows \cup {Len(history) + 1}
      /\ \A i \in AssistantRows : history'[i] = history[i]
      /\ history'[Len(history) + 1] = AssistantRow(turn, f, buf)
      /\ Said' = Said \cup buf
  <2>1. PICK u \in Turns : u = turn
    OBVIOUS
  <2>. QED
    BY <1>1, <2>1, AnswerTexts
<1>3. buf \cap Said = {} /\ (Filed(turn) \/ snapshot[turn] \subseteq buf) /\ Unanswered /\ buf \subseteq 1..said
  BY DEF TextInv, BufferInv
<1>4. ShapeInv'
  <2>1. PICK u \in Turns : u = turn
    OBVIOUS
  <2>. QED
    BY <1>1, <1>3, <2>1, ShapeAfterAnswer DEF TextInv
<1>5. AssistantRow(turn, f, buf).turn = turn /\ AssistantRow(turn, f, buf).text = buf
      /\ AssistantRow(turn, f, buf).flag = f
  BY RowFields
<1>6. \A t \in Turns : Filed(t) => Filed(t)'
  BY <1>2 DEF Filed
<1>7. (Filed(turn))'
  <2>1. CASE snapshot[turn] \subseteq buf
    BY <1>2, <1>5, <2>1 DEF Filed
  <2>2. CASE Filed(turn)
    BY <1>2, <2>2 DEF Filed
  <2>. QED
    BY <1>3, <2>1, <2>2
<1>8. snapshot[turn] \subseteq Said'
  <2>1. \A i \in AssistantRows : history[i].text \subseteq Said
    BY DEF Said
  <2>. QED
    BY <1>2, <1>3, <2>1 DEF Filed
<1>9. main \notin {"record", "setup"}
  BY DEF RunsTypeInv, StageInv, Open
<1>10. \A t \in Turns : Filed(t)' \/ snapshot'[t] \cap Said' = {}
  <2> SUFFICES ASSUME NEW t \in Turns, ~Filed(t)' PROVE snapshot[t] \cap Said' = {}
    OBVIOUS
  <2>1. t # turn
    BY <1>7 DEF Filed
  <2>2. ~Filed(t)
    BY <1>6
  <2>. QED
    BY <1>2, <2>1, <2>2 DEF TextInv, SnapshotInv
<1>11. SnapshotInv'
  BY <1>8, <1>9, <1>10 DEF TextInv, SnapshotInv
<1>12. BufferInv'
  <2>1. CASE forward' = "streaming" /\ f = "interrupted" /\ buf' = {}
    <3>1. Unanswered'
      <4>1. /\ DOMAIN history = 1..Len(history) /\ DOMAIN history' = 1..(Len(history) + 1) /\ Len(history) \in Nat
            /\ \A i \in 1..Len(history) : history'[i] = history[i]
        <5>1. AssistantRow(turn, f, buf) \in Rows
          BY <1>1, RowTypes DEF Turns
        <5>. QED
          BY <1>1, <5>1, AppendRow DEF RunsTypeOK
      <4> SUFFICES ASSUME NEW i \in DOMAIN history', NEW j \in DOMAIN history', i < j,
                          history'[i] = UserRow(turn), history'[j].role = "assistant"
                   PROVE  history'[j].flag = "interrupted"
        BY DEF Unanswered
      <4>2. CASE j = Len(history) + 1
        BY <1>2, <1>5, <2>1, <4>2
      <4>3. CASE j \in 1..Len(history)
        <5>1. i \in DOMAIN history /\ j \in DOMAIN history /\ history'[i] = history[i] /\ history'[j] = history[j]
          BY <4>1, <4>3
        <5>. QED
          BY <1>3, <5>1 DEF Unanswered
      <4>. QED
        BY <4>1, <4>2, <4>3
    <3>. QED
      BY <1>7, <2>1, <3>1 DEF BufferInv
  <2>2. CASE forward' \in {"over", "finish"} /\ buf' = buf
    BY <1>3, <1>9, <2>2 DEF BufferInv, Open
  <2>. QED
    BY <2>1, <2>2
<1>. QED
  BY <1>4, <1>11, <1>12 DEF TextInv

\* finish_run clears the snapshot of a turn whose text is in the history.
LEMMA TextAfterFinish ==
  ASSUME RunsTypeInv, TextInv, turn \in Turns, forward = "finish", forward' = "over", buf' \in {buf, {}},
         UNCHANGED <<history, turn, said, main, compressions, cut, older, server>>,
         \A t \in Turns : t # turn => snapshot'[t] = snapshot[t],
         snapshot'[turn] \in {snapshot[turn], {}}
  PROVE  TextInv'
<1>1. AssistantRows' = AssistantRows /\ Said' = Said /\ Unanswered' = Unanswered /\ ShapeInv'
  BY DEF AssistantRows, Said, Unanswered, TextInv, ShapeInv, TextAppearsOnce
<1>2. \A t \in Turns : snapshot'[t] \subseteq snapshot[t]
  OBVIOUS
<1>3. \A t \in Turns : Filed(t) => Filed(t)'
  BY <1>1, <1>2 DEF Filed
<1>4. main \notin {"record", "setup"}
  BY DEF RunsTypeInv, StageInv
<1>5. SnapshotInv'
  BY <1>1, <1>2, <1>3, <1>4 DEF TextInv, SnapshotInv
<1>6. BufferInv'
  BY <1>4 DEF TextInv, BufferInv, Open
<1>. QED
  BY <1>1, <1>5, <1>6 DEF TextInv

\* The sweep clears the snapshots of runs that are older than the one it recovered.
LEMMA TextAfterClear ==
  ASSUME RunsTypeInv, TextInv, ClearOlder
  PROVE  TextInv'
<1>1. /\ UNCHANGED <<history, turn, said, main, compressions, cut, buf, forward>> /\ older' = {}
      /\ forward = "none" /\ main = "idle"
  BY DEF ClearOlder, forwardVars, RunsTypeInv, StageInv
<1>2. \A t \in Turns : snapshot'[t] \in {snapshot[t], {}}
  BY DEF ClearOlder
<1>3. AssistantRows' = AssistantRows /\ Said' = Said /\ Unanswered' = Unanswered /\ ShapeInv'
  BY <1>1 DEF AssistantRows, Said, Unanswered, TextInv, ShapeInv, TextAppearsOnce
<1>4. \A t \in Turns : snapshot'[t] \subseteq snapshot[t]
  BY <1>2
<1>5. \A t \in Turns : Filed(t) => Filed(t)'
  <2>1. \A i \in AssistantRows : history'[i] = history[i]
    BY <1>1
  <2>. QED
    BY <1>3, <1>4, <2>1, FiledStays
<1>6. SnapshotInv'
  BY <1>1, <1>3, <1>4, <1>5 DEF TextInv, SnapshotInv
<1>7. BufferInv'
  BY <1>1 DEF TextInv, BufferInv, Open
<1>. QED
  BY <1>1, <1>3, <1>6, <1>7 DEF TextInv

\* A snapshot that stands in a row of its turn has landed, so what the sweep adds
\* is not in the history yet.
LEMMA LandedIfFiled ==
  ASSUME TextInv, NEW t \in Turns, Filed(t)
  PROVE  Landed(t)
<1>1. PICK j \in AssistantRows : history[j].turn = t /\ snapshot[t] \subseteq history[j].text
  BY DEF Filed
<1>2. PICK i \in DOMAIN history : i < j /\ history[i] = UserRow(history[j].turn)
  BY DEF TextInv, ShapeInv
<1>. QED
  BY <1>1, <1>2 DEF Landed, AssistantRows

LEMMA TextAfterRecover ==
  ASSUME RunsTypeInv, TextInv, Recover
  PROVE  /\ TextInv'
         /\ turn \in Turns => snapshot[turn] \ snapshot'[turn] \subseteq Said'
<1>1. /\ UNCHANGED <<turn, said, main, compressions, cut, buf, forward>>
      /\ forward = "none" /\ main = "idle" /\ buf = {} /\ older = {}
  BY DEF Recover, forwardVars, RunsTypeInv, StageInv, TextInv, SnapshotInv
<1>2. CASE Recoverable = {}
  <2>1. UNCHANGED <<history, snapshot, older>>
    BY <1>2 DEF Recover
  <2>2. TextInv'
    BY <1>1, <2>1, TextAfterQuiet DEF TextInv, Open
  <2>. QED
    BY <2>1, <2>2
<1>3. CASE Recoverable # {}
  <2>1. PICK t \in Turns : t = Max(Recoverable) /\ t \in Recoverable /\ \A y \in Recoverable : y <= t
    <3>1. Recoverable \in SUBSET Turns
      BY DEF Recoverable
    <3>. QED
      BY <1>3, <3>1, NewestTurn
  <2>2. /\ server' = "clear" /\ older' = Recoverable \ {t}
        /\ \/ /\ snapshot' = [snapshot EXCEPT ![t] = {}]
              /\ history' = IF Landed(t) THEN history
                            ELSE Append(history, AssistantRow(t, "interrupted", snapshot[t]))
           \/ UNCHANGED <<history, snapshot>>
    BY <1>3, <2>1 DEF Recover
  <2>3. turn \notin older'
    <3>1. t <= turn
      BY <2>1 DEF Recoverable, RunsTypeInv, RunsTypeOK, StageInv, Turns
    <3>2. turn \in Recoverable => turn <= t
      BY <2>1
    <3>. QED
      BY <2>2, <3>1, <3>2 DEF RunsTypeInv, RunsTypeOK, Turns
  <2>4. t <= turn /\ snapshot[t] \in SUBSET Chunks /\ snapshot[t] \subseteq 1..said
    <3>1. ~(t > turn)
      BY <2>1 DEF Recoverable, RunsTypeInv, StageInv
    <3>2. t \in Nat /\ turn \in Nat
      BY DEF RunsTypeInv, RunsTypeOK, Turns
    <3>3. snapshot[t] \in SUBSET Chunks /\ snapshot[t] \subseteq 1..said
      BY DEF RunsTypeInv, RunsTypeOK, TextInv, SnapshotInv
    <3>. QED
      BY <3>1, <3>2, <3>3
  <2>5. CASE UNCHANGED <<history, snapshot>>
    <3>1. AssistantRows' = AssistantRows /\ Said' = Said /\ Unanswered' = Unanswered /\ ShapeInv'
      BY <1>1, <2>5 DEF AssistantRows, Said, Unanswered, TextInv, ShapeInv, TextAppearsOnce
    <3>2. \A u \in Turns : Filed(u)' = Filed(u)
      BY <2>5, <3>1 DEF Filed
    <3>3. SnapshotInv'
      BY <1>1, <2>2, <2>3, <2>5, <3>1, <3>2 DEF TextInv, SnapshotInv
    <3>4. BufferInv'
      BY <1>1 DEF TextInv, BufferInv, Open
    <3>. QED
      BY <1>1, <2>5, <3>1, <3>3, <3>4 DEF TextInv
  <2>6. CASE snapshot' = [snapshot EXCEPT ![t] = {}] /\ Landed(t) /\ UNCHANGED history
    <3>1. AssistantRows' = AssistantRows /\ Said' = Said /\ Unanswered' = Unanswered /\ ShapeInv'
      BY <1>1, <2>6 DEF AssistantRows, Said, Unanswered, TextInv, ShapeInv, TextAppearsOnce
    <3>2. \A u \in Turns : snapshot'[u] \in {snapshot[u], {}} /\ (u # t => snapshot'[u] = snapshot[u])
      BY <2>6 DEF RunsTypeInv, RunsTypeOK
    <3>3. \A u \in Turns : Filed(u) => Filed(u)'
      <4>1. \A i \in AssistantRows : history'[i] = history[i]
        BY <2>6
      <4>2. \A u \in Turns : snapshot'[u] \subseteq snapshot[u]
        BY <3>2
      <4>. QED
        BY <3>1, <4>1, <4>2, FiledStays
    <3>4. SnapshotInv'
      BY <1>1, <2>2, <2>3, <3>1, <3>2, <3>3 DEF TextInv, SnapshotInv
    <3>5. BufferInv'
      BY <1>1 DEF TextInv, BufferInv, Open
    <3>6. turn = t => snapshot[turn] \subseteq Said
      <4> SUFFICES ASSUME turn = t PROVE snapshot[turn] \subseteq Said
        OBVIOUS
      <4>1. PICK i \in DOMAIN history, j \in DOMAIN history :
              /\ i < j /\ history[i] = UserRow(t) /\ history[j].role = "assistant"
              /\ history[j].flag # "interrupted" \/ snapshot[t] \subseteq history[j].text
        BY <2>6 DEF Landed
      <4>2. CASE snapshot[t] \subseteq history[j].text
        BY <4>1, <4>2 DEF Said, AssistantRows
      <4>3. CASE history[j].flag # "interrupted"
        <5>1. ~Unanswered
          BY <4>1, <4>3 DEF Unanswered
        <5>. QED
          BY <5>1 DEF TextInv, SnapshotInv
      <4>. QED
        BY <4>1, <4>2, <4>3
    <3>. QED
      BY <1>1, <3>1, <3>2, <3>4, <3>5, <3>6 DEF TextInv
  <2>7. CASE /\ snapshot' = [snapshot EXCEPT ![t] = {}] /\ ~Landed(t)
             /\ history' = Append(history, AssistantRow(t, "interrupted", snapshot[t]))
    <3> DEFINE x == snapshot[t]
    <3>1. x \cap Said = {}
      BY <2>7, LandedIfFiled DEF TextInv, SnapshotInv
    <3>2. /\ Len(history) + 1 \in Nat /\ AssistantRows' = AssistantRows \cup {Len(history) + 1}
          /\ \A i \in AssistantRows : history'[i] = history[i]
          /\ history'[Len(history) + 1] = AssistantRow(t, "interrupted", x)
          /\ Said' = Said \cup x
      BY <2>4, <2>7, AnswerTexts DEF RunsTypeInv
    <3>3. ShapeInv'
      BY <1>1, <2>4, <2>7, <3>1, ShapeAfterAnswer DEF RunsTypeInv, TextInv
    <3>4. \A u \in Turns : snapshot'[u] \in {snapshot[u], {}} /\ (u # t => snapshot'[u] = snapshot[u]) /\ snapshot'[t] = {}
      BY <2>7 DEF RunsTypeInv, RunsTypeOK
    <3>5. \A u \in Turns : Filed(u) => Filed(u)'
      BY <3>2, <3>4 DEF Filed
    <3>6. \A u \in Turns : Filed(u)' \/ snapshot'[u] \cap Said' = {}
      <4> SUFFICES ASSUME NEW u \in Turns, ~Filed(u)' PROVE snapshot'[u] \cap Said' = {}
        OBVIOUS
      <4>1. CASE u = t
        BY <3>4, <4>1
      <4>2. CASE u # t
        BY <3>2, <3>4, <3>5, <4>2 DEF TextInv, SnapshotInv
      <4>. QED
        BY <4>1, <4>2
    <3>7. Unanswered => Unanswered'
      <4>1. /\ DOMAIN history = 1..Len(history) /\ DOMAIN history' = 1..(Len(history) + 1) /\ Len(history) \in Nat
            /\ \A i \in 1..Len(history) : history'[i] = history[i]
        <5>1. AssistantRow(t, "interrupted", x) \in Rows
          BY <2>4, RowTypes DEF Turns
        <5>. QED
          BY <2>7, <5>1, AppendRow DEF RunsTypeInv, RunsTypeOK
      <4>2. AssistantRow(t, "interrupted", x).flag = "interrupted"
        BY RowFields
      <4> SUFFICES ASSUME Unanswered, NEW i \in DOMAIN history', NEW j \in DOMAIN history', i < j,
                          history'[i] = UserRow(turn), history'[j].role = "assistant"
                   PROVE  history'[j].flag = "interrupted"
        BY <1>1 DEF Unanswered
      <4>3. CASE j = Len(history) + 1
        BY <3>2, <4>2, <4>3
      <4>4. CASE j \in 1..Len(history)
        <5>1. i \in DOMAIN history /\ j \in DOMAIN history /\ history'[i] = history[i] /\ history'[j] = history[j]
          BY <4>1, <4>4
        <5>. QED
          BY <5>1 DEF Unanswered
      <4>. QED
        BY <4>1, <4>3, <4>4
    <3>8. SnapshotInv'
      <4>1. Unanswered' \/ (turn' \in Turns => snapshot'[turn'] \subseteq Said')
        BY <1>1, <3>2, <3>4, <3>7 DEF TextInv, SnapshotInv
      <4>. QED
        BY <1>1, <2>2, <2>3, <3>4, <3>6, <4>1 DEF TextInv, SnapshotInv
    <3>9. BufferInv'
      BY <1>1 DEF TextInv, BufferInv, Open
    <3>. QED
      BY <1>1, <3>2, <3>3, <3>4, <3>8, <3>9 DEF TextInv
  <2>. QED
    BY <2>2, <2>5, <2>6, <2>7
<1>. QED
  BY <1>2, <1>3

LEMMA TextInit == RunsInit => TextInv
<1> SUFFICES ASSUME RunsInit PROVE TextInv
  OBVIOUS
<1>1. AssistantRows = {} /\ DOMAIN history = {}
  BY DEF RunsInit, AssistantRows
<1>2. Said = {}
  BY <1>1 DEF Said
<1>. QED
  BY <1>1, <1>2 DEF RunsInit, TextInv, ShapeInv, SnapshotInv, BufferInv, Open, TextAppearsOnce, Unanswered, Turns

\* The text that the run row of the newest turn no longer holds is in the history.
TextIsFiled == \A t \in Turns : t = turn' => snapshot[t] \ snapshot'[t] \subseteq Said'

LEMMA TextStep ==
  ASSUME RunsTypeInv, TextInv, [RunsNext]_runsVars, MaxCompressions = 0
  PROVE  TextInv' /\ TextIsFiled
<1>1. CASE BeginTurn
  BY <1>1, TextAfterQuestion DEF BeginTurn, TextIsFiled
<1>2. CASE StartAgent
  BY <1>2, TextAfterStart DEF StartAgent, recordVars, TextIsFiled
<1>3. CASE Delta
  <2>1. turn \in Turns /\ UNCHANGED <<turn, history>> /\ buf' = buf \cup {said + 1} /\ forward = "streaming"
    BY <1>3 DEF Delta, RunsTypeInv, StageInv
  <2>2. snapshot'[turn] = snapshot[turn] \/ snapshot'[turn] = buf'
    BY <1>3, <2>1 DEF Delta, RunsTypeInv, RunsTypeOK
  <2>3. Filed(turn) \/ snapshot[turn] \subseteq buf
    BY <2>1 DEF TextInv, BufferInv, Open
  <2>4. Said' = Said /\ (Filed(turn) => snapshot[turn] \subseteq Said)
    BY <2>1 DEF Said, AssistantRows, Filed
  <2>5. TextIsFiled
    BY <2>1, <2>2, <2>3, <2>4 DEF TextIsFiled
  <2>. QED
    BY <1>3, <2>5, TextAfterDelta
<1>4. CASE Recover
  <2>1. UNCHANGED turn
    BY <1>4 DEF Recover
  <2>. QED
    BY <1>4, <2>1, TextAfterRecover DEF TextIsFiled
<1>5. CASE ClearOlder
  <2>1. UNCHANGED turn /\ (turn \in Turns => snapshot'[turn] = snapshot[turn])
    <3>1. turn \notin older
      BY DEF TextInv, SnapshotInv
    <3>. QED
      BY <1>5, <3>1 DEF ClearOlder
  <2>. QED
    BY <1>5, <2>1, TextAfterClear DEF TextIsFiled
<1>6. CASE StartCompression \/ CommitCompression
  BY <1>6 DEF StartCompression, CommitCompression, TextInv
<1>7. CASE PersistFrozen \/ Persist \/ CancelForward \/ Finish
  <2>1. /\ turn \in Turns /\ UNCHANGED <<turn, said, main, compressions, cut, older, server>>
        /\ buf' \in {buf, {}} /\ main \notin {"record", "setup"} /\ (server # "clear" => older = {})
    BY <1>7 DEF PersistFrozen, Persist, CancelForward, Finish, serverVars, RunsTypeInv, StageInv, TextInv, SnapshotInv
  <2>2. CASE UNCHANGED <<history, snapshot>> /\ (forward' = "over" \/ (forward' = "streaming" /\ forward = "freeze" /\ buf' = buf))
    <3>1. TextInv'
      BY <2>1, <2>2, TextAfterQuiet DEF TextInv, Open
    <3>. QED
      BY <2>1, <2>2, <3>1 DEF TextIsFiled
  <2>3. CASE /\ \E f \in {"plain", "interrupted", "error"} :
                  /\ history' = Append(history, AssistantRow(turn, f, buf))
                  /\ \/ forward' = "streaming" /\ f = "interrupted" /\ buf' = {}
                     \/ forward' \in {"over", "finish"} /\ buf' = buf
             /\ forward \in Open /\ UNCHANGED snapshot
    <3>1. TextInv'
      BY <2>1, <2>3, TextAfterAnswer
    <3>. QED
      BY <2>1, <2>3, <3>1 DEF TextIsFiled
  <2>4. CASE /\ forward = "finish" /\ forward' = "over" /\ UNCHANGED history
             /\ \A t \in Turns : t # turn => snapshot'[t] = snapshot[t]
             /\ snapshot'[turn] \in {snapshot[turn], {}}
    <3>1. TextInv'
      BY <2>1, <2>4, TextAfterFinish
    <3>2. snapshot[turn] \subseteq Said'
      BY <2>4 DEF TextInv, SnapshotInv, Said, AssistantRows
    <3>. QED
      BY <2>1, <3>1, <3>2 DEF TextIsFiled
  <2>5. \E f \in {"plain", "interrupted", "error"} : FinalRow = AssistantRow(turn, f, buf)
    <3> DEFINE flag == [interrupted |-> "interrupted", failed |-> "error", completed |-> "plain"]
    <3>1. flag[Outcome] \in {"plain", "interrupted", "error"} /\ FinalRow = AssistantRow(turn, flag[Outcome], buf)
      BY DEF Outcome, FinalRow
    <3>. QED
      BY <3>1
  <2>6. ASSUME NEW st, TryFinish(st, TRUE), status[turn] = "running" => st \in Terminal
        PROVE  /\ \A t \in Turns : t # turn => snapshot'[t] = snapshot[t]
               /\ snapshot'[turn] \in {snapshot[turn], {}}
    BY <2>1, <2>6, FinishEffect DEF RunsTypeInv
  <2>7. CASE PersistFrozen
    <3>1. forward = "freeze" /\ forward' = "streaming" /\ UNCHANGED snapshot
      BY <2>7 DEF PersistFrozen
    <3>2. \/ UNCHANGED <<history, buf>>
          \/ history' = Append(history, AssistantRow(turn, "interrupted", buf)) /\ buf' = {}
      BY <2>7 DEF PersistFrozen
    <3>. QED
      BY <2>2, <2>3, <3>1, <3>2 DEF Open
  <2>8. CASE Persist
    <3>1. forward = "persist" /\ UNCHANGED <<snapshot, buf>>
      BY <2>8 DEF Persist
    <3>2. \/ UNCHANGED history /\ forward' = "over"
          \/ history' = Append(history, FinalRow) /\ forward' = "finish"
      BY <2>8 DEF Persist
    <3>. QED
      BY <2>2, <2>3, <2>5, <3>1, <3>2 DEF Open
  <2>9. CASE Finish
    <3>1. /\ forward = "finish" /\ forward' = "over" /\ UNCHANGED history
          /\ TryFinish(intended, TRUE) /\ (status[turn] = "running" => intended \in Terminal)
      BY <2>9 DEF Finish, RunsTypeInv, RunsTypeOK, StageInv
    <3>. QED
      BY <2>4, <2>6, <3>1
  <2>10. CASE CancelForward
    <3>1. CASE UNCHANGED <<history, snapshot>>
      BY <2>2, <2>10, <3>1 DEF CancelForward
    <3>2. CASE forward \in {"freeze", "persist"} /\ UNCHANGED snapshot
               /\ (history' = Append(history, AssistantRow(turn, "interrupted", buf)) \/ history' = Append(history, FinalRow))
      <4>1. forward' = "over" /\ buf' = buf /\ forward \in Open
        BY <2>10, <3>2 DEF CancelForward, Open
      <4>. QED
        BY <2>3, <2>5, <3>2, <4>1
    <3>3. CASE forward = "finish" /\ FinishRun(intended, TRUE) /\ UNCHANGED history
      <4>1. forward' = "over" /\ TryFinish(intended, TRUE) /\ (status[turn] = "running" => intended \in Terminal)
        BY <2>10, <3>3 DEF CancelForward, TryFinish, RunsTypeInv, RunsTypeOK, StageInv
      <4>. QED
        BY <2>4, <2>6, <3>3, <4>1
    <3>. QED
      BY <2>10, <3>1, <3>2, <3>3 DEF CancelForward, recordVars
  <2>. QED
    BY <1>7, <2>7, <2>8, <2>9, <2>10
<1>8. CASE Attribute \/ SettleStopped \/ Caught \/ SafetyNet
  <2>1. turn \in Turns /\ UNCHANGED <<history, turn, said, compressions, cut, older, server>>
        /\ main \notin {"record", "setup"} /\ main' \notin {"record", "setup"} /\ (server # "clear" => older = {})
    BY <1>8 DEF Attribute, SettleStopped, Caught, SafetyNet, ForgetTurn, serverVars, forwardVars, RunsTypeInv, StageInv, TextInv,
                SnapshotInv
  <2>2. \/ UNCHANGED <<buf, forward>>
        \/ buf' = {} /\ forward' = "none"
    BY <1>8 DEF Attribute, SettleStopped, Caught, SafetyNet, ForgetTurn, forwardVars
  <2>3. UNCHANGED snapshot \/ \E st : TryFinish(st, FALSE)
    BY <1>8 DEF Attribute, SettleStopped, Caught, SafetyNet
  <2>4. UNCHANGED snapshot
    BY <2>3 DEF TryFinish, FinishRun
  <2>5. TextInv'
    BY <2>1, <2>2, <2>4, TextAfterQuiet DEF TextInv, Open
  <2>. QED
    BY <2>1, <2>4, <2>5 DEF TextIsFiled
<1>9. CASE \/ CreateRun \/ AwaitAgent \/ Drained \/ Raise
           \/ AgentFinishes \/ AgentReturns \/ AgentStopped \/ AgentBreaks \/ CleanupBreaks \/ LateStop
           \/ Boundary \/ Crash \/ Restart \/ Flip \/ GiveUpCompression \/ UNCHANGED runsVars
  <2>1. UNCHANGED <<history, snapshot, turn, said, compressions>> /\ cut' = 0 /\ buf' \in {buf, {}}
    BY <1>9
    DEF CreateRun, AwaitAgent, Drained, Raise, AgentFinishes, AgentReturns, AgentStopped, AgentBreaks, CleanupBreaks,
        LateStop, Boundary, Crash, Restart, Flip, GiveUpCompression, EndWith, ForgetTurn,
        runsVars, recordVars, serverVars, agentVars, forwardVars, TextInv
  <2>2. (forward' \in Open => forward \in Open /\ buf' = buf) /\ (forward' = "finish" => forward = "finish")
    BY <1>9
    DEF CreateRun, AwaitAgent, Drained, Raise, AgentFinishes, AgentReturns, AgentStopped, AgentBreaks, CleanupBreaks,
        LateStop, Boundary, Crash, Restart, Flip, GiveUpCompression, EndWith, ForgetTurn, Open,
        runsVars, recordVars, serverVars, agentVars, forwardVars
  <2>3. main' \in {"record", "setup"} => main \in {"record", "setup"}
    BY <1>9
    DEF CreateRun, AwaitAgent, Drained, Raise, AgentFinishes, AgentReturns, AgentStopped, AgentBreaks, CleanupBreaks,
        LateStop, Boundary, Crash, Restart, Flip, GiveUpCompression, EndWith, ForgetTurn,
        runsVars, recordVars, serverVars, agentVars, forwardVars
  <2>4. older' \in {older, {}} /\ (server' # "clear" => older' = {})
    BY <1>9
    DEF CreateRun, AwaitAgent, Drained, Raise, AgentFinishes, AgentReturns, AgentStopped, AgentBreaks, CleanupBreaks,
        LateStop, Boundary, Crash, Restart, Flip, GiveUpCompression, EndWith, ForgetTurn, TextInv, SnapshotInv,
        runsVars, recordVars, serverVars, agentVars, forwardVars
  <2>5. TextInv'
    BY <2>1, <2>2, <2>3, <2>4, TextAfterQuiet
  <2>. QED
    BY <2>1, <2>5 DEF TextIsFiled
<1>10. CASE StreamEnd
  <2>1. /\ UNCHANGED <<history, snapshot, turn, said, compressions, cut, main, older, server, buf>>
        /\ forward = "streaming" /\ forward' \in {"persist", "finish"}
        /\ (forward' = "finish" => buf = {}) /\ cut' = 0 /\ (server # "clear" => older = {})
    BY <1>10 DEF StreamEnd, recordVars, serverVars, agentVars, TextInv, SnapshotInv
  <2>2. TextInv'
    BY <2>1, TextAfterQuiet DEF Open
  <2>. QED
    BY <2>1, <2>2 DEF TextIsFiled
<1>. QED
  BY <1>1, <1>2, <1>3, <1>4, <1>5, <1>6, <1>7, <1>8, <1>9, <1>10
  DEF RunsNext, TurnStep, ForwardStep, AgentStep, SweepStep, StartCompression, TextInv

LEMMA TextAlways == MaxCompressions = 0 => (RunsSpec => []TextInv)
<1> SUFFICES ASSUME MaxCompressions = 0 PROVE RunsSpec => []TextInv
  OBVIOUS
<1>. QED
  BY TextInit, TextStep, RunsTypeAlways, PTL DEF RunsSpec

\* As long as no compression has shortened the history, no text stands twice in it:
\* the forwarder forgets what it has written, and the sweep adds the snapshot of a
\* run only if no row of that turn contains it.
THEOREM TextStandsOnce == MaxCompressions = 0 => (RunsSpec => []TextAppearsOnce)
<1> SUFFICES ASSUME MaxCompressions = 0 PROVE RunsSpec => []TextAppearsOnce
  OBVIOUS
<1>1. TextInv => TextAppearsOnce
  BY DEF TextInv, ShapeInv
<1>. QED
  BY <1>1, TextAlways, PTL

\* Both together, for every set of failing writes and every number of deaths.
THEOREM RunsStayTruthful == MaxCompressions = 0 => (RunsSpec => []RunsTellTheTruth)
<1> SUFFICES ASSUME MaxCompressions = 0 PROVE RunsSpec => []RunsTellTheTruth
  OBVIOUS
<1>. QED
  BY TroubleStaysVisible, TextStandsOnce, PTL DEF RunsTellTheTruth

\* Under the same condition the partial text of the newest turn leaves its run row
\* only for the history, whoever clears the row: the forwarder after its persist, or
\* the sweep after a death.
THEOREM PartialTextIsKept == MaxCompressions = 0 => (RunsSpec => PartialIsKept)
<1> SUFFICES ASSUME MaxCompressions = 0 PROVE RunsSpec => PartialIsKept
  OBVIOUS
<1>1. Said \subseteq UNION {history[i].text : i \in DOMAIN history}
  BY DEF Said, AssistantRows
<1>2. (Said \subseteq UNION {history[i].text : i \in DOMAIN history})'
  BY DEF Said, AssistantRows
<1>3. RunsTypeInv /\ TextInv /\ [RunsNext]_runsVars =>
        [\A t \in Turns : t = turn' =>
           snapshot[t] \ snapshot'[t] \subseteq UNION {history'[i].text : i \in DOMAIN history'}]_runsVars
  BY <1>2, TextStep DEF TextIsFiled
<1>. QED
  BY <1>3, TextAlways, RunsTypeAlways, PTL DEF RunsSpec, PartialIsKept

\* What is settled and what was said survives every late writer, death and sweep.
THEOREM RunsStayKept == MaxCompressions = 0 => (RunsSpec => RunsAreKept)
<1> SUFFICES ASSUME MaxCompressions = 0 PROVE RunsSpec => RunsAreKept
  OBVIOUS
<1>. QED
  BY SettledRunsStay, PartialTextIsKept, PTL DEF RunsAreKept
=============================================================================
