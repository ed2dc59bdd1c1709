--------------------------- MODULE ServicesProofs ---------------------------
(***************************************************************************)
(* Proofs about what runs beside each other in MCServices: hard deletions  *)
(* (ProjectDeletion); the questions of an agent's tasks (SessionPrompts),  *)
(* its delegations (Delegation), its loop over the model (AgentLoop) and   *)
(* the tasks of its plan (TaskPlan); the runs of scripts (ScriptRuns).     *)
(*                                                                         *)
(*   - DeletionInv: what a step of delete_project may rely on when it goes *)
(*     on after its commit: StageInv for each request, RowInv and PlaceInv *)
(*     for the rows and the workspace path, TurnInv for turns, and TidyInv *)
(*     for the behaviours in which the sweep itself does not fail.         *)
(*   - PromptInv: a caller that waits without forcing its question holds   *)
(*     the session's lock (LockInv); the events of a prompt are one of a   *)
(*     few short sequences, fixed by where its caller is (EventInv); an    *)
(*     answer that may be resolved has its row, or a failed write instead  *)
(*     (FrameInv, AnswerRowInv).                                           *)
(*   - DelegationInv: the gate's number is the turn that works (GateInv),  *)
(*     and the parents of a cancelled agent stay who they are (TreeInv).   *)
(*   - LoopInv, PlanInv: see where they are defined.                       *)
(*   - ScriptInv: where a call, its row and its executor can stand together*)
(*     (RunInv); the log is settled before the status is (LogInv); a view  *)
(*     that polls has sent a beginning of the log, in lines only (ViewInv),*)
(*     so that what it sends next completes it.                            *)
(***************************************************************************)
EXTENDS ProjectDeletion, SessionPrompts, Delegation, AgentLoop, TaskPlan, ScriptRuns,
        FiniteSetTheorems, SequenceTheorems, WellFoundedInduction, TLAPS

-----------------------------------------------------------------------------
(***************************************************************************)
(* Hard deletion of projects (ProjectDeletion).                            *)
(***************************************************************************)
\* Stages in which a request has closed its project and not settled it.
Pending == {"rows?", "turns?", "rename", "record", "delete", "undo", "reopen", "undelete", "keep"}
\* Of these, the stages that follow the look at the turns.
Taking == {"rename", "record", "delete", "undo", "undelete", "keep"}

\* One row has the slug; only live rows are active; no start finds a workspace being made.
RowInv ==
  /\ server = "stopped" => restarts < MaxRestarts
  /\ \A p, q \in Projects : LiveWork(p) /\ LiveWork(q) => p = q
  /\ \A p \in Projects :
       /\ project[p].active => LiveWork(p)
       /\ project[p].row = "absent" => project[p].built = "no"
       /\ project[p].built = "making" => Serving

\* What the stage of request d says of its job, its project and its trash.
StageInv(d) ==
  /\ deleting[d] = "idle" => job[d].project = Empty /\ job[d].status = "none" /\ trash[d] = Empty /\ ~moved[d]
  /\ deleting[d] # "idle" =>
       job[d].project \in Projects /\ project[job[d].project].row # "absent" /\ job[d].status # "none"
  /\ deleting[d] \in Pending =>
       /\ Serving /\ LiveWork(job[d].project) /\ ~project[job[d].project].active
       /\ \A e \in Deletions : deleting[e] \in Pending => e = d
  /\ deleting[d] \in Pending \ {"reopen", "keep"} => (moved[d] <=> trash[d] # Empty)
  /\ deleting[d] \in {"rows?", "turns?", "rename"} => trash[d] = Empty
  /\ deleting[d] \in {"purge", "drop"} => Serving /\ ~LiveWork(job[d].project)
  /\ deleting[d] = "drop" => trash[d] = Empty
  /\ job[d].status \in {"db_deleted", "dropped"} => ~LiveWork(job[d].project)
  /\ job[d].status = "dropped" => trash[d] = Empty
  /\ trash[d] \in {Empty, Debris, job[d].project}

\* The path never holds the files of another project than the live one.
PlaceInv ==
  /\ \A p, q \in Projects : source = p /\ LiveWork(q) => p = q
  /\ WorkspaceIsKept

TurnInv ==
  \A w \in ProjectTurns : work[w].at = "working" =>
    /\ Serving /\ LiveWork(work[w].project)
    /\ Orderly /\ project[work[w].project].built = "yes" => source = work[w].project
    /\ \A d \in Deletions : deleting[d] \in Taking => job[d].project # work[w].project

\* In an orderly behaviour: no script runs, a workspace is made for an open project,
\* the path of a built project holds its files or nothing, ...
TidyRows ==
  /\ \A w \in Scripts : work[w].at = "idle"
  /\ \A p \in Projects :
       /\ project[p].built = "making" => Open(p) /\ source = Empty
       /\ LiveWork(p) /\ project[p].built = "yes" => source \in {p, Empty}

\* ... one trash at most holds what a live project needs, ...
TidyTrash(d) ==
  /\ LiveWork(job[d].project) /\ trash[d] # Empty =>
       /\ source = Empty
       /\ project[job[d].project].built = "yes" => trash[d] = job[d].project
       /\ \A e \in Deletions : LiveWork(job[e].project) /\ trash[e] # Empty => e = d
  /\ ~LiveWork(job[d].project) =>
       /\ job[d].status \in {"none", "failed", "dropped", "db_deleted"}
       /\ trash[d] # Empty => job[d].status = "db_deleted"

\* ... a request finds the earlier jobs of its project settled, ...
TidyStage(d) ==
  /\ deleting[d] \in Pending =>
       \A e \in Deletions : e # d /\ job[e].project = job[d].project =>
         job[e].status = "failed" /\ trash[e] = Empty
  /\ deleting[d] = "reopen" =>
       trash[d] = Empty /\ (project[job[d].project].built = "yes" => source = job[d].project)

\* ... and so does whoever finds the project open; what the sweep is done with is settled.
TidyServing ==
  Serving => \A p \in Projects : Open(p) =>
    /\ project[p].built = "yes" => source = p
    /\ \A d \in Deletions : job[d].project = p => job[d].status = "failed" /\ trash[d] = Empty

TidySweep ==
  server = "sweeping" => \A d \in Deletions \ sweeping :
    /\ job[d].status \in {"none", "failed", "dropped"} /\ trash[d] = Empty
    /\ LiveWork(job[d].project) => Open(job[d].project)

TidyInv ==
  Orderly => /\ TidyRows /\ TidyServing /\ TidySweep
             /\ \A d \in Deletions : TidyTrash(d) /\ TidyStage(d)

DeletionInv ==
  /\ DeletionTypeOK /\ RowInv /\ (\A d \in Deletions : StageInv(d))
  /\ PlaceInv /\ TurnInv /\ TidyInv

ProjectRow == [row : {"absent", "live", "gone"}, active : BOOLEAN, built : {"no", "making", "yes"}]
JobRow == [project : Projects \cup {Empty},
           status : {"none", "prepared", "quarantined", "db_deleted", "failed", "dropped"}]

-----------------------------------------------------------------------------
(***************************************************************************)
(* What the updates of rows do, field by field.                            *)
(***************************************************************************)
LEMMA StatusIsSet ==
  ASSUME DeletionTypeOK, NEW d \in Deletions,
         NEW s \in {"quarantined", "db_deleted", "failed", "dropped"}, Sets(d, s)
  PROVE  /\ job' \in [Deletions -> JobRow]
         /\ \A e \in Deletions : /\ job'[e].project = job[e].project
                                 /\ job'[e].status = IF e = d THEN s ELSE job[e].status
<1> DEFINE J == [Deletions -> JobRow]
<1>1. job \in J /\ job' = [job EXCEPT ![d] = [job[d] EXCEPT !.status = s]]
  BY DEF DeletionTypeOK, Sets, JobRow
<1>2. [job[d] EXCEPT !.status = s] \in JobRow
  BY <1>1 DEF JobRow
<1>3. job' \in J
  BY <1>1, <1>2
<1>4. QED
  BY <1>1, <1>3 DEF JobRow

LEMMA ReopenedRows ==
  ASSUME DeletionTypeOK, NEW p \in Projects
  PROVE  /\ Reopened(p) \in [Projects -> ProjectRow]
         /\ \A q \in Projects :
              /\ Reopened(p)[q].row = project[q].row /\ Reopened(p)[q].built = project[q].built
              /\ q # p => Reopened(p)[q].active = project[q].active
              /\ q = p /\ LiveWork(p) => Reopened(p)[q].active
              /\ ~LiveWork(p) => Reopened(p)[q].active = project[q].active
<1>1. project \in [Projects -> ProjectRow]
  BY DEF DeletionTypeOK, ProjectRow
<1>2. [project[p] EXCEPT !.active = TRUE] \in ProjectRow
  BY <1>1 DEF ProjectRow
<1>3. CASE LiveWork(p)
  <2>1. Reopened(p) = [project EXCEPT ![p] = [project[p] EXCEPT !.active = TRUE]]
    BY <1>1, <1>3 DEF Reopened, ProjectRow
  <2>2. QED
    BY <1>1, <1>2, <1>3, <2>1 DEF ProjectRow
<1>4. CASE ~LiveWork(p)
  BY <1>1, <1>4 DEF Reopened
<1>5. QED
  BY <1>3, <1>4

LEMMA RowIsDeleted ==
  ASSUME DeletionTypeOK, NEW p \in Projects,
         project' = [project EXCEPT ![p].row = "gone", ![p].active = FALSE]
  PROVE  /\ project' \in [Projects -> ProjectRow]
         /\ \A q \in Projects : q # p => project'[q] = project[q]
         /\ project'[p].row = "gone" /\ ~project'[p].active /\ project'[p].built = project[p].built
<1> DEFINE row == [project[p] EXCEPT !.row = "gone", !.active = FALSE]
<1>1. project \in [Projects -> ProjectRow]
  BY DEF DeletionTypeOK, ProjectRow
<1>2. row \in ProjectRow /\ row.row = "gone" /\ ~row.active /\ row.built = project[p].built
  BY <1>1 DEF ProjectRow
<1>3. project' = [project EXCEPT ![p] = row]
  BY <1>1 DEF ProjectRow
<1>4. QED
  BY <1>1, <1>2, <1>3

-----------------------------------------------------------------------------
(***************************************************************************)
(* Every step preserves the invariant.                                     *)
(***************************************************************************)
LEMMA CreateProjectKeeps ==
  ASSUME NEW p \in Projects, DeletionInv, CreateProject(p)
  PROVE  DeletionInv'
<1> USE DeletionAssumption DEF DeletionInv, DeletionTypeOK, CreateProject, Contents, Work,
                               NoProject, Serving, LiveWork, Open
<1>0. /\ project' \in [Projects -> ProjectRow]
      /\ \A q \in Projects : q # p => project'[q] = project[q]
      /\ project'[p].row = "live" /\ project'[p].active /\ project'[p].built = "making"
  BY DEF ProjectRow, JobRow, StageInv, Pending
<1>1. DeletionTypeOK'
  BY <1>0 DEF ProjectRow, JobRow, Sets, Reopened
<1>2. RowInv'
  <2>1. \A q \in Projects : LiveWork(q)' => q = p
    BY <1>0
  <2>2. server' = server /\ restarts' = restarts /\ server = "serving"
    OBVIOUS
  <2>3. \A q \in Projects : /\ project'[q].active => LiveWork(q)'
                            /\ project'[q].row = "absent" => project'[q].built = "no"
    BY <1>0 DEF RowInv
  <2>4. \A q \in Projects : project'[q].built = "making" => server' = "serving"
    BY ONLY <2>2
  <2>5. QED
    BY ONLY <2>1, <2>2, <2>3, <2>4 DEF RowInv, Serving
<1>3. \A dd \in Deletions : StageInv(dd)'
  BY <1>0 DEF RowInv, StageInv, PlaceInv, Pending
<1>4. PlaceInv'
  BY <1>0 DEF RowInv, StageInv, PlaceInv, WorkspaceIsKept, Pending
<1>5. TurnInv'
  BY <1>0 DEF RowInv, StageInv, PlaceInv, WorkspaceIsKept, TurnInv, TidyInv, TidyServing,
              TidyRows, Orderly, Taking, Pending
<1>6. TidyInv'
  BY <1>0 DEF RowInv, StageInv, PlaceInv, WorkspaceIsKept, TidyInv, TidyServing, TidyRows,
              TidySweep, TidyTrash, TidyStage, Orderly, Pending
<1>7. QED
  BY <1>1, <1>2, <1>3, <1>4, <1>5, <1>6

LEMMA MakeWorkspaceKeeps ==
  ASSUME NEW p \in Projects, DeletionInv, MakeWorkspace(p)
  PROVE  DeletionInv'
<1> USE DeletionAssumption DEF DeletionInv, DeletionTypeOK, MakeWorkspace, Contents, Work,
                               Serving, LiveWork, Open
<1>0. /\ project' \in [Projects -> ProjectRow]
      /\ \A q \in Projects : q # p => project'[q] = project[q]
      /\ project'[p].row = project[p].row /\ project'[p].active = project[p].active
      /\ project'[p].built = IF LiveWork(p) THEN "yes" ELSE "no"
  BY DEF ProjectRow, JobRow, StageInv, Pending
<1>1. DeletionTypeOK'
  BY <1>0 DEF ProjectRow, JobRow, Sets, Reopened
<1>2. RowInv'
  BY <1>0 DEF RowInv, StageInv, Pending, TidyInv, TidyRows
<1>3. \A dd \in Deletions : StageInv(dd)'
  BY <1>0 DEF RowInv, StageInv, PlaceInv, Pending
<1>4. PlaceInv'
  BY <1>0 DEF RowInv, StageInv, PlaceInv, WorkspaceIsKept, Pending
<1>5. TurnInv'
  BY <1>0 DEF RowInv, StageInv, PlaceInv, WorkspaceIsKept, TurnInv, TidyInv, TidyServing,
              TidyRows, Orderly, Taking, Pending
<1>6. TidyInv'
  BY <1>0 DEF RowInv, StageInv, PlaceInv, WorkspaceIsKept, TidyInv, TidyServing, TidyRows,
              TidySweep, TidyTrash, TidyStage, Orderly, Pending
<1>7. QED
  BY <1>1, <1>2, <1>3, <1>4, <1>5, <1>6

LEMMA MakeWorkspaceFailsKeeps ==
  ASSUME NEW p \in Projects, DeletionInv, MakeWorkspaceFails(p)
  PROVE  DeletionInv'
<1> USE DeletionAssumption DEF DeletionInv, DeletionTypeOK, MakeWorkspaceFails, Contents, Work,
                               Serving, MayFail, LiveWork, Open
<1>0. /\ project' \in [Projects -> ProjectRow]
      /\ \A q \in Projects : q # p => project'[q] = project[q]
      /\ project'[p].row = project[p].row /\ ~project'[p].active /\ project'[p].built = "no"
  <2> DEFINE row == [project[p] EXCEPT !.built = "no", !.active = FALSE]
  <2>1. project \in [Projects -> ProjectRow] /\ row \in ProjectRow
    BY DEF ProjectRow
  <2>2. project' = [project EXCEPT ![p] = row]
    BY <2>1 DEF ProjectRow
  <2>3. project' \in [Projects -> ProjectRow] /\ project'[p] = row
    BY <2>1, <2>2
  <2>4. QED
    BY <2>1, <2>2, <2>3 DEF ProjectRow
<1>1. DeletionTypeOK'
  BY <1>0 DEF ProjectRow, JobRow, Sets, Reopened
<1>2. RowInv'
  BY <1>0 DEF RowInv, StageInv, Pending, TidyInv, TidyRows
<1>3. \A dd \in Deletions : StageInv(dd)'
  BY <1>0 DEF RowInv, StageInv, PlaceInv, Pending
<1>4. PlaceInv'
  BY <1>0 DEF RowInv, StageInv, PlaceInv, WorkspaceIsKept, Pending
<1>5. TurnInv'
  BY <1>0 DEF RowInv, StageInv, PlaceInv, WorkspaceIsKept, TurnInv, TidyInv, TidyServing,
              TidyRows, Orderly, Taking, Pending
<1>6. TidyInv'
  BY <1>0 DEF RowInv, StageInv, PlaceInv, WorkspaceIsKept, TidyInv, TidyServing, TidyRows,
              TidySweep, TidyTrash, TidyStage, Orderly, Pending
<1>7. QED
  BY <1>1, <1>2, <1>3, <1>4, <1>5, <1>6

LEMMA ClaimTurnKeeps ==
  ASSUME NEW w \in ProjectTurns, NEW p \in Projects, DeletionInv, ClaimTurn(w, p)
  PROVE  DeletionInv'
<1> USE DeletionAssumption DEF DeletionInv, DeletionTypeOK, ClaimTurn, Contents, Work, NoWork,
                               Serving, LiveWork, Open, SetWork, workAlone
<1>1. DeletionTypeOK'
  OBVIOUS
<1>2. RowInv'
  BY DEF RowInv, StageInv, Pending, TidyInv, TidyRows
<1>3. \A dd \in Deletions : StageInv(dd)'
  BY DEF RowInv, StageInv, PlaceInv, Pending
<1>4. PlaceInv'
  BY DEF RowInv, StageInv, PlaceInv, WorkspaceIsKept, Pending
<1>5. TurnInv'
  BY DEF RowInv, StageInv, PlaceInv, WorkspaceIsKept, TurnInv, TidyInv, TidyServing, TidyRows,
         Orderly, Taking, Pending
<1>6. TidyInv'
  BY DEF RowInv, StageInv, PlaceInv, WorkspaceIsKept, TidyInv, TidyServing, TidyRows, TidySweep,
         TidyTrash, TidyStage, Orderly, Pending
<1>7. QED
  BY <1>1, <1>2, <1>3, <1>4, <1>5, <1>6

LEMMA EnterTurnKeeps ==
  ASSUME NEW w \in ProjectTurns, DeletionInv, EnterTurn(w)
  PROVE  DeletionInv'
<1> USE DeletionAssumption DEF DeletionInv, DeletionTypeOK, EnterTurn, Contents, Work, Serving,
                               LiveWork, Open, SetWork, workAlone
<1>1. DeletionTypeOK'
  OBVIOUS
<1>2. RowInv'
  BY DEF RowInv, StageInv, Pending, TidyInv, TidyRows
<1>3. \A dd \in Deletions : StageInv(dd)'
  BY DEF RowInv, StageInv, PlaceInv, Pending
<1>4. PlaceInv'
  BY DEF RowInv, StageInv, PlaceInv, WorkspaceIsKept, Pending
<1>5. TurnInv'
  BY DEF RowInv, StageInv, PlaceInv, WorkspaceIsKept, TurnInv, TidyInv, TidyServing, TidyRows,
         Orderly, Taking, Pending
<1>6. TidyInv'
  BY DEF RowInv, StageInv, PlaceInv, WorkspaceIsKept, TidyInv, TidyServing, TidyRows, TidySweep,
         TidyTrash, TidyStage, Orderly, Pending
<1>7. QED
  BY <1>1, <1>2, <1>3, <1>4, <1>5, <1>6

LEMMA AuthorizeScriptKeeps ==
  ASSUME NEW w \in Scripts, NEW p \in Projects, DeletionInv, AuthorizeScript(w, p)
  PROVE  DeletionInv'
<1> USE DeletionAssumption DEF DeletionInv, DeletionTypeOK, AuthorizeScript, Contents, Work,
                               NoWork, Serving, LiveWork, Open, SetWork, workAlone
<1>1. DeletionTypeOK'
  OBVIOUS
<1>2. RowInv'
  BY DEF RowInv, StageInv, Pending, TidyInv, TidyRows
<1>3. \A dd \in Deletions : StageInv(dd)'
  BY DEF RowInv, StageInv, PlaceInv, Pending
<1>4. PlaceInv'
  BY DEF RowInv, StageInv, PlaceInv, WorkspaceIsKept, Pending
<1>5. TurnInv'
  BY DEF RowInv, StageInv, PlaceInv, WorkspaceIsKept, TurnInv, TidyInv, TidyServing, TidyRows,
         Orderly, Taking, Pending
<1>6. TidyInv'
  BY DEF RowInv, StageInv, PlaceInv, WorkspaceIsKept, TidyInv, TidyServing, TidyRows, TidySweep,
         TidyTrash, TidyStage, Orderly, Pending
<1>7. QED
  BY <1>1, <1>2, <1>3, <1>4, <1>5, <1>6

LEMMA InsertScriptRunKeeps ==
  ASSUME NEW w \in Scripts, DeletionInv, InsertScriptRun(w)
  PROVE  DeletionInv'
<1> USE DeletionAssumption DEF DeletionInv, DeletionTypeOK, InsertScriptRun, Contents, Work,
                               Serving, LiveWork, Open, SetWork, workAlone
<1>1. DeletionTypeOK'
  OBVIOUS
<1>2. RowInv'
  BY DEF RowInv, StageInv, Pending, TidyInv, TidyRows
<1>3. \A dd \in Deletions : StageInv(dd)'
  BY DEF RowInv, StageInv, PlaceInv, Pending
<1>4. PlaceInv'
  BY DEF RowInv, StageInv, PlaceInv, WorkspaceIsKept, Pending
<1>5. TurnInv'
  BY DEF RowInv, StageInv, PlaceInv, WorkspaceIsKept, TurnInv, TidyInv, TidyServing, TidyRows,
         Orderly, Taking, Pending
<1>6. TidyInv'
  BY DEF RowInv, StageInv, PlaceInv, WorkspaceIsKept, TidyInv, TidyServing, TidyRows, TidySweep,
         TidyTrash, TidyStage, Orderly, Pending
<1>7. QED
  BY <1>1, <1>2, <1>3, <1>4, <1>5, <1>6

LEMMA ScriptWritesKeeps ==
  ASSUME NEW w \in Scripts, DeletionInv, ScriptWrites(w)
  PROVE  DeletionInv'
<1> USE DeletionAssumption DEF DeletionInv, DeletionTypeOK, ScriptWrites, Contents, Work,
                               Serving, LiveWork, Open, workAlone
<1>1. DeletionTypeOK'
  OBVIOUS
<1>2. RowInv'
  BY DEF RowInv, StageInv, Pending, TidyInv, TidyRows
<1>3. \A dd \in Deletions : StageInv(dd)'
  BY DEF RowInv, StageInv, PlaceInv, Pending
<1>4. PlaceInv'
  BY DEF RowInv, StageInv, PlaceInv, WorkspaceIsKept, Pending
<1>5. TurnInv'
  BY DEF RowInv, StageInv, PlaceInv, WorkspaceIsKept, TurnInv, TidyInv, TidyServing, TidyRows,
         Orderly, Taking, Pending
<1>6. TidyInv'
  BY DEF RowInv, StageInv, PlaceInv, WorkspaceIsKept, TidyInv, TidyServing, TidyRows, TidySweep,
         TidyTrash, TidyStage, Orderly, Pending
<1>7. QED
  BY <1>1, <1>2, <1>3, <1>4, <1>5, <1>6

LEMMA EndProjectWorkKeeps ==
  ASSUME NEW w \in Work, DeletionInv, EndProjectWork(w)
  PROVE  DeletionInv'
<1> USE DeletionAssumption DEF DeletionInv, DeletionTypeOK, EndProjectWork, Contents, Work,
                               Serving, LiveWork, Open, SetWork, workAlone
<1>1. DeletionTypeOK'
  OBVIOUS
<1>2. RowInv'
  BY DEF RowInv, StageInv, Pending, TidyInv, TidyRows
<1>3. \A dd \in Deletions : StageInv(dd)'
  BY DEF RowInv, StageInv, PlaceInv, Pending
<1>4. PlaceInv'
  BY DEF RowInv, StageInv, PlaceInv, WorkspaceIsKept, Pending
<1>5. TurnInv'
  BY DEF RowInv, StageInv, PlaceInv, WorkspaceIsKept, TurnInv, TidyInv, TidyServing, TidyRows,
         Orderly, Taking, Pending
<1>6. TidyInv'
  BY DEF RowInv, StageInv, PlaceInv, WorkspaceIsKept, TidyInv, TidyServing, TidyRows, TidySweep,
         TidyTrash, TidyStage, Orderly, Pending
<1>7. QED
  BY <1>1, <1>2, <1>3, <1>4, <1>5, <1>6

LEMMA PrepareKeeps ==
  ASSUME NEW d \in Deletions, NEW p \in Projects, DeletionInv, Prepare(d, p)
  PROVE  DeletionInv'
<1> USE DeletionAssumption DEF DeletionInv, DeletionTypeOK, Prepare, Contents, Work, Serving,
                               LiveWork, Open, Goto, others, Fresh
<1>0. /\ project' \in [Projects -> ProjectRow]
      /\ \A q \in Projects : q # p => project'[q] = project[q]
      /\ project'[p].row = project[p].row /\ ~project'[p].active /\ project'[p].built = project[p].built
      /\ job' \in [Deletions -> JobRow] /\ job'[d].project = p /\ job'[d].status = "prepared"
      /\ \A e \in Deletions : e # d => job'[e] = job[e]
  <2> DEFINE row == [project[p] EXCEPT !.active = FALSE]
  <2>1. project \in [Projects -> ProjectRow] /\ row \in ProjectRow
    BY DEF ProjectRow
  <2>2. project' = [project EXCEPT ![p] = row]
    BY <2>1 DEF ProjectRow
  <2>3. project' \in [Projects -> ProjectRow] /\ project'[p] = row
    BY <2>1, <2>2
  <2>4. job' \in [Deletions -> JobRow] /\ job'[d] = [project |-> p, status |-> "prepared"]
    BY DEF JobRow
  <2>5. QED
    BY <2>1, <2>2, <2>3, <2>4 DEF ProjectRow
<1>1. DeletionTypeOK'
  BY <1>0 DEF ProjectRow, JobRow, Sets, Reopened
<1>2. RowInv'
  BY <1>0 DEF RowInv, StageInv, Pending, TidyInv, TidyRows
<1>3. \A dd \in Deletions : StageInv(dd)'
  <2> SUFFICES ASSUME NEW e \in Deletions PROVE StageInv(e)'
    OBVIOUS
  <2>1. ASSUME NEW b \in Deletions, b # d PROVE deleting[b] \notin Pending
    BY <2>1 DEF RowInv, StageInv
  <2>2. CASE e = d
    <3>1. \A b \in Deletions : deleting'[b] \in Pending => b = d
      BY <2>1
    <3>2. trash[d] = Empty /\ ~moved[d]
      BY DEF StageInv
    <3>3. QED
      BY <1>0, <2>2, <3>1, <3>2 DEF RowInv, StageInv, PlaceInv, Pending
  <2>3. CASE e # d
    BY <1>0, <2>1, <2>3 DEF RowInv, StageInv, PlaceInv, Pending
  <2>4. QED
    BY <2>2, <2>3
<1>4. PlaceInv'
  BY <1>0 DEF RowInv, StageInv, PlaceInv, WorkspaceIsKept, Pending
<1>5. TurnInv'
  BY <1>0 DEF RowInv, StageInv, PlaceInv, WorkspaceIsKept, TurnInv, TidyInv, TidyServing,
              TidyRows, Orderly, Taking, Pending
<1>6. TidyInv'
  <2> SUFFICES ASSUME Orderly'
               PROVE  TidyRows' /\ TidyServing' /\ TidySweep' /\ (\A e \in Deletions : TidyTrash(e)' /\ TidyStage(e)')
    BY DEF TidyInv
  <2>0. Orderly /\ TidyRows /\ TidyServing /\ TidySweep /\ (\A e \in Deletions : TidyTrash(e) /\ TidyStage(e))
    BY <1>0 DEF TidyInv, Orderly
  <2>1. TidyRows'
    BY <1>0, <2>0 DEF TidyRows, RowInv, StageInv, Pending, Orderly
  <2>2. TidyServing'
    BY <1>0, <2>0 DEF TidyServing, RowInv, StageInv, TidyStage, PlaceInv, WorkspaceIsKept, Pending
  <2>3. TidySweep'
    BY <1>0, <2>0 DEF TidySweep, StageInv, Pending
  <2>4. ASSUME NEW e \in Deletions PROVE TidyTrash(e)'
    BY <1>0, <2>0 DEF TidyTrash, TidyServing, TidyStage, RowInv, StageInv, Pending
  <2>5. ASSUME NEW e \in Deletions PROVE TidyStage(e)'
    <3>1. CASE e = d
      BY <1>0, <2>0, <3>1 DEF TidyStage, TidyServing, Pending
    <3>2. CASE e # d
      BY <1>0, <1>3, <3>2 DEF TidyStage, StageInv, Pending
    <3>3. QED
      BY <3>1, <3>2
  <2>6. QED
    BY <2>1, <2>2, <2>3, <2>4, <2>5
<1>7. QED
  BY <1>1, <1>2, <1>3, <1>4, <1>5, <1>6

LEMMA CheckRowsKeeps ==
  ASSUME NEW d \in Deletions, DeletionInv, CheckRows(d)
  PROVE  DeletionInv'
<1> USE DeletionAssumption DEF DeletionInv, DeletionTypeOK, CheckRows, Contents, Work, Serving,
                               MayFail, LiveWork, Open, Goto, others, RunsIn
<1>1. DeletionTypeOK'
  OBVIOUS
<1>2. RowInv'
  BY DEF RowInv, StageInv, Pending, TidyInv, TidyRows
<1>3. \A dd \in Deletions : StageInv(dd)'
  BY DEF RowInv, StageInv, PlaceInv, Pending
<1>4. PlaceInv'
  BY DEF RowInv, StageInv, PlaceInv, WorkspaceIsKept, Pending
<1>5. TurnInv'
  BY DEF RowInv, StageInv, PlaceInv, WorkspaceIsKept, TurnInv, TidyInv, TidyServing, TidyRows,
         Orderly, Taking, Pending
<1>6. TidyInv'
  BY DEF RowInv, StageInv, PlaceInv, WorkspaceIsKept, TidyInv, TidyServing, TidyRows, TidySweep,
         TidyTrash, TidyStage, Orderly, Pending
<1>7. QED
  BY <1>1, <1>2, <1>3, <1>4, <1>5, <1>6

LEMMA CheckTurnsKeeps ==
  ASSUME NEW d \in Deletions, DeletionInv, CheckTurns(d)
  PROVE  DeletionInv'
<1> USE DeletionAssumption DEF DeletionInv, DeletionTypeOK, CheckTurns, Contents, Work, Serving,
                               LiveWork, Open, Goto, others, TurnsIn
<1>1. DeletionTypeOK'
  OBVIOUS
<1>2. RowInv'
  BY DEF RowInv, StageInv, Pending, TidyInv, TidyRows
<1>3. \A dd \in Deletions : StageInv(dd)'
  BY DEF RowInv, StageInv, PlaceInv, Pending
<1>4. PlaceInv'
  BY DEF RowInv, StageInv, PlaceInv, WorkspaceIsKept, Pending
<1>5. TurnInv'
  BY DEF RowInv, StageInv, PlaceInv, WorkspaceIsKept, TurnInv, TidyInv, TidyServing, TidyRows,
         Orderly, Taking, Pending
<1>6. TidyInv'
  BY DEF RowInv, StageInv, PlaceInv, WorkspaceIsKept, TidyInv, TidyServing, TidyRows, TidySweep,
         TidyTrash, TidyStage, Orderly, Pending
<1>7. QED
  BY <1>1, <1>2, <1>3, <1>4, <1>5, <1>6

LEMMA QuarantineKeeps ==
  ASSUME NEW d \in Deletions, DeletionInv, Quarantine(d)
  PROVE  DeletionInv'
<1> USE DeletionAssumption DEF DeletionInv, DeletionTypeOK, Quarantine, Contents, Work, Serving,
                               LiveWork, Open, Goto, others
<1>0. /\ moved' \in [Deletions -> BOOLEAN] /\ trash' \in [Deletions -> Contents]
      /\ (moved'[d] <=> source # Empty) /\ trash'[d] = source
      /\ \A e \in Deletions \ {d} : moved'[e] = moved[e] /\ trash'[e] = trash[e]
  <2>1. /\ moved' \in [Deletions -> BOOLEAN] /\ (moved'[d] <=> source # Empty)
        /\ \A e \in Deletions \ {d} : moved'[e] = moved[e]
    BY Zenon
  <2>2. QED
    BY <2>1
<1>1. DeletionTypeOK'
  BY <1>0 DEF ProjectRow, JobRow, Sets, Reopened
<1>2. RowInv'
  BY <1>0 DEF RowInv, StageInv, Pending, TidyInv, TidyRows
<1>3. \A dd \in Deletions : StageInv(dd)'
  BY <1>0 DEF RowInv, StageInv, PlaceInv, Pending
<1>4. PlaceInv'
  BY <1>0 DEF RowInv, StageInv, PlaceInv, WorkspaceIsKept, Pending
<1>5. TurnInv'
  BY <1>0 DEF RowInv, StageInv, PlaceInv, WorkspaceIsKept, TurnInv, TidyInv, TidyServing,
              TidyRows, Orderly, Taking, Pending
<1>6. TidyInv'
  BY <1>0 DEF RowInv, StageInv, PlaceInv, WorkspaceIsKept, TidyInv, TidyServing, TidyRows,
              TidySweep, TidyTrash, TidyStage, Orderly, Pending
<1>7. QED
  BY <1>1, <1>2, <1>3, <1>4, <1>5, <1>6

LEMMA QuarantineFailsKeeps ==
  ASSUME NEW d \in Deletions, DeletionInv, QuarantineFails(d)
  PROVE  DeletionInv'
<1> USE DeletionAssumption DEF DeletionInv, DeletionTypeOK, QuarantineFails, Contents, Work,
                               Serving, MayFail, LiveWork, Open, Goto, others
<1>1. DeletionTypeOK'
  OBVIOUS
<1>2. RowInv'
  BY DEF RowInv, StageInv, Pending, TidyInv, TidyRows
<1>3. \A dd \in Deletions : StageInv(dd)'
  BY DEF RowInv, StageInv, PlaceInv, Pending
<1>4. PlaceInv'
  BY DEF RowInv, StageInv, PlaceInv, WorkspaceIsKept, Pending
<1>5. TurnInv'
  BY DEF RowInv, StageInv, PlaceInv, WorkspaceIsKept, TurnInv, TidyInv, TidyServing, TidyRows,
         Orderly, Taking, Pending
<1>6. TidyInv'
  BY DEF RowInv, StageInv, PlaceInv, WorkspaceIsKept, TidyInv, TidyServing, TidyRows, TidySweep,
         TidyTrash, TidyStage, Orderly, Pending
<1>7. QED
  BY <1>1, <1>2, <1>3, <1>4, <1>5, <1>6

LEMMA RecordQuarantineKeeps ==
  ASSUME NEW d \in Deletions, DeletionInv, RecordQuarantine(d)
  PROVE  DeletionInv'
<1> USE DeletionAssumption DEF DeletionInv, DeletionTypeOK, Contents, Work, Serving, LiveWork, Open
<1>0. /\ job' \in [Deletions -> JobRow]
      /\ \A e \in Deletions : /\ job'[e].project = job[e].project
                              /\ e # d => job'[e].status = job[e].status
      /\ job'[d].status \in {job[d].status, "quarantined"}
      /\ deleting[d] = "record" /\ Serving /\ UNCHANGED <<others, project, source, trash, moved>>
      /\ \/ job'[d].status = "quarantined" /\ deleting' = [deleting EXCEPT ![d] = "delete"]
         \/ deleting' = [deleting EXCEPT ![d] = "undo"] /\ UNCHANGED job
  BY StatusIsSet DEF RecordQuarantine, MayFail, Goto, ProjectRow, JobRow, StageInv, Pending
<1>a. /\ UNCHANGED <<trouble, server, restarts, sweeping, work, project, source, trash, moved>>
      /\ \A e \in Deletions : e # d => deleting'[e] = deleting[e]
      /\ deleting'[d] \in {"delete", "undo"} /\ deleting' \in [Deletions -> {"idle", "rows?", "turns?", "rename",
            "record", "delete", "purge", "drop", "undo", "reopen", "undelete", "keep", "done"}]
      /\ job'[d].status \in {job[d].status, "quarantined"}
      /\ \A e \in Deletions : job'[e].project = job[e].project /\ (e # d => job'[e].status = job[e].status)
      /\ deleting[d] = "record" /\ Serving /\ d \in Deletions
  BY <1>0 DEF others
<1>1. DeletionTypeOK'
  BY <1>0, <1>a DEF ProjectRow, JobRow
<1>2. RowInv'
  BY <1>a DEF RowInv, StageInv, Pending, TidyInv, TidyRows
<1>3. \A dd \in Deletions : StageInv(dd)'
  BY <1>a DEF RowInv, StageInv, PlaceInv, Pending
<1>4. PlaceInv'
  BY <1>a DEF RowInv, StageInv, PlaceInv, WorkspaceIsKept, Pending
<1>5. TurnInv'
  BY <1>a DEF RowInv, StageInv, PlaceInv, WorkspaceIsKept, TurnInv, TidyInv, TidyServing,
              TidyRows, Orderly, Taking, Pending
<1>6. TidyInv'
  BY <1>a DEF RowInv, StageInv, PlaceInv, WorkspaceIsKept, TidyInv, TidyServing, TidyRows,
              TidySweep, TidyTrash, TidyStage, Orderly, Pending
<1>7. QED
  BY <1>1, <1>2, <1>3, <1>4, <1>5, <1>6

LEMMA UndoQuarantineKeeps ==
  ASSUME NEW d \in Deletions, DeletionInv, UndoQuarantine(d)
  PROVE  DeletionInv'
<1> USE DeletionAssumption DEF DeletionInv, DeletionTypeOK, UndoQuarantine, Contents, Work,
                               Serving, MayFail, LiveWork, Open, Goto, others, PutBack,
                               Restorable
<1>1. DeletionTypeOK'
  OBVIOUS
<1>2. RowInv'
  BY DEF RowInv, StageInv, Pending, TidyInv, TidyRows
<1>3. \A dd \in Deletions : StageInv(dd)'
  BY DEF RowInv, StageInv, PlaceInv, Pending
<1>4. PlaceInv'
  BY DEF RowInv, StageInv, PlaceInv, WorkspaceIsKept, Pending
<1>5. TurnInv'
  BY DEF RowInv, StageInv, PlaceInv, WorkspaceIsKept, TurnInv, TidyInv, TidyServing, TidyRows,
         Orderly, Taking, Pending
<1>6. TidyInv'
  BY DEF RowInv, StageInv, PlaceInv, WorkspaceIsKept, TidyInv, TidyServing, TidyRows, TidySweep,
         TidyTrash, TidyStage, Orderly, Pending
<1>7. QED
  BY <1>1, <1>2, <1>3, <1>4, <1>5, <1>6

LEMMA DeleteRowsKeeps ==
  ASSUME NEW d \in Deletions, DeletionInv, DeleteRows(d)
  PROVE  DeletionInv'
<1> USE DeletionAssumption DEF DeletionInv, DeletionTypeOK, Contents, Work, Serving, LiveWork, Open
<1>0. /\ project' \in [Projects -> ProjectRow]
      /\ \A q \in Projects : q # job[d].project => project'[q] = project[q]
      /\ job[d].project \in Projects
      /\ project'[job[d].project].row = "gone" /\ ~project'[job[d].project].active
      /\ project'[job[d].project].built = project[job[d].project].built
      /\ job' \in [Deletions -> JobRow]
      /\ \A e \in Deletions : /\ job'[e].project = job[e].project
                              /\ e # d => job'[e].status = job[e].status
      /\ job'[d].status = "db_deleted"
  <2>1. job[d].project \in Projects
    BY DEF DeleteRows, StageInv, Pending
  <2>2. QED
    BY <2>1, StatusIsSet, RowIsDeleted DEF DeleteRows
<1>a. /\ UNCHANGED <<trouble, server, restarts, sweeping, work, source, trash, moved>>
      /\ \A e \in Deletions : e # d => deleting'[e] = deleting[e]
      /\ deleting'[d] = "purge" /\ deleting' \in [Deletions -> {"idle", "rows?", "turns?", "rename",
            "record", "delete", "purge", "drop", "undo", "reopen", "undelete", "keep", "done"}]
      /\ deleting[d] = "delete" /\ Serving /\ d \in Deletions
  BY DEF DeleteRows, Goto, others
<1>b. /\ \A q \in Projects : q # job[d].project => project'[q] = project[q]
      /\ job[d].project \in Projects
      /\ project'[job[d].project].row = "gone" /\ ~project'[job[d].project].active
      /\ project'[job[d].project].built = project[job[d].project].built
      /\ job'[d].status = "db_deleted" /\ job'[d].project = job[d].project
      /\ \A e \in Deletions : job'[e].project = job[e].project /\ (e # d => job'[e].status = job[e].status)
  BY <1>0
<1>1. DeletionTypeOK'
  BY <1>0, <1>a DEF ProjectRow, JobRow
<1>2. RowInv'
  <2>1. server' = server /\ restarts' = restarts /\ server = "serving"
    BY <1>a
  <2>2. \A q \in Projects : LiveWork(q)' => LiveWork(q)
    BY <1>b
  <2>3. \A q \in Projects : /\ project'[q].active => LiveWork(q)'
                            /\ project'[q].row = "absent" => project'[q].built = "no"
    BY <1>b DEF RowInv
  <2>4. \A p, q \in Projects : LiveWork(p) /\ LiveWork(q) => p = q
    BY DEF RowInv
  <2>5. QED
    BY ONLY <2>1, <2>2, <2>3, <2>4 DEF RowInv, Serving
<1>3. \A dd \in Deletions : StageInv(dd)'
  BY <1>a, <1>b DEF RowInv, StageInv, PlaceInv, Pending
<1>4. PlaceInv'
  <2>1. \A q \in Projects : LiveWork(q)' => LiveWork(q) /\ project'[q] = project[q]
    BY <1>b
  <2>2. source' = source /\ trash' = trash /\ \A e \in Deletions : job'[e].project = job[e].project
    BY <1>a, <1>b
  <2>3. QED
    BY <2>1, <2>2 DEF PlaceInv, WorkspaceIsKept
<1>5. TurnInv'
  BY <1>a, <1>b DEF RowInv, StageInv, PlaceInv, WorkspaceIsKept, TurnInv, TidyInv, TidyServing,
              TidyRows, Orderly, Taking, Pending
<1>6. TidyInv'
  <2> SUFFICES ASSUME Orderly'
               PROVE  TidyRows' /\ TidyServing' /\ TidySweep' /\ (\A e \in Deletions : TidyTrash(e)' /\ TidyStage(e)')
    BY DEF TidyInv
  <2>0. Orderly /\ TidyRows /\ TidyServing /\ TidySweep /\ (\A e \in Deletions : TidyTrash(e) /\ TidyStage(e))
    BY <1>a DEF TidyInv, Orderly
  <2>1. TidyRows'
    BY <1>a, <1>b, <2>0 DEF TidyRows, RowInv, StageInv, Pending, Orderly
  <2>2. TidyServing'
    BY <1>a, <1>b, <2>0 DEF TidyServing, RowInv, StageInv, TidyStage, PlaceInv, WorkspaceIsKept, Pending
  <2>3. TidySweep'
    BY <1>a, <1>b, <2>0 DEF TidySweep, StageInv, Pending
  <2>4. ASSUME NEW e \in Deletions PROVE TidyTrash(e)'
    BY <1>a, <1>b, <2>0 DEF TidyTrash, TidyServing, TidyStage, RowInv, StageInv, Pending
  <2>5. ASSUME NEW e \in Deletions PROVE TidyStage(e)'
    BY <1>a, <1>b, <2>0 DEF TidyStage, TidyTrash, TidyServing, RowInv, StageInv, PlaceInv, WorkspaceIsKept, Pending
  <2>6. QED
    BY <2>1, <2>2, <2>3, <2>4, <2>5
<1>7. QED
  BY <1>1, <1>2, <1>3, <1>4, <1>5, <1>6

LEMMA DeleteRowsFailsKeeps ==
  ASSUME NEW d \in Deletions, DeletionInv, DeleteRowsFails(d)
  PROVE  DeletionInv'
<1> USE DeletionAssumption DEF DeletionInv, DeletionTypeOK, DeleteRowsFails, Contents, Work,
                               Serving, MayFail, LiveWork, Open, Goto, others
<1>1. DeletionTypeOK'
  OBVIOUS
<1>2. RowInv'
  BY DEF RowInv, StageInv, Pending, TidyInv, TidyRows
<1>3. \A dd \in Deletions : StageInv(dd)'
  BY DEF RowInv, StageInv, PlaceInv, Pending
<1>4. PlaceInv'
  BY DEF RowInv, StageInv, PlaceInv, WorkspaceIsKept, Pending
<1>5. TurnInv'
  BY DEF RowInv, StageInv, PlaceInv, WorkspaceIsKept, TurnInv, TidyInv, TidyServing, TidyRows,
         Orderly, Taking, Pending
<1>6. TidyInv'
  BY DEF RowInv, StageInv, PlaceInv, WorkspaceIsKept, TidyInv, TidyServing, TidyRows, TidySweep,
         TidyTrash, TidyStage, Orderly, Pending
<1>7. QED
  BY <1>1, <1>2, <1>3, <1>4, <1>5, <1>6

LEMMA UndoDeleteKeeps ==
  ASSUME NEW d \in Deletions, DeletionInv, UndoDelete(d)
  PROVE  DeletionInv'
<1> USE DeletionAssumption DEF DeletionInv, DeletionTypeOK, UndoDelete, Contents, Work, Serving,
                               MayFail, LiveWork, Open, Goto, others, PutBack, Restorable
<1>1. DeletionTypeOK'
  OBVIOUS
<1>2. RowInv'
  BY DEF RowInv, StageInv, Pending, TidyInv, TidyRows
<1>3. \A dd \in Deletions : StageInv(dd)'
  BY DEF RowInv, StageInv, PlaceInv, Pending
<1>4. PlaceInv'
  BY DEF RowInv, StageInv, PlaceInv, WorkspaceIsKept, Pending
<1>5. TurnInv'
  BY DEF RowInv, StageInv, PlaceInv, WorkspaceIsKept, TurnInv, TidyInv, TidyServing, TidyRows,
         Orderly, Taking, Pending
<1>6. TidyInv'
  BY DEF RowInv, StageInv, PlaceInv, WorkspaceIsKept, TidyInv, TidyServing, TidyRows, TidySweep,
         TidyTrash, TidyStage, Orderly, Pending
<1>7. QED
  BY <1>1, <1>2, <1>3, <1>4, <1>5, <1>6

LEMMA JobErrorKeeps ==
  ASSUME NEW d \in Deletions, DeletionInv, JobError(d)
  PROVE  DeletionInv'
<1> USE DeletionAssumption DEF DeletionInv, DeletionTypeOK, Contents, Work, Serving, LiveWork, Open
<1>p. PICK p \in Projects : p = job[d].project /\ LiveWork(p) /\ ~project[p].active
  BY DEF JobError, StageInv, Pending
<1>0. /\ Serving /\ deleting[d] \in {"reopen", "keep"} /\ deleting' = [deleting EXCEPT ![d] = "done"]
      /\ UNCHANGED <<trouble, server, restarts, sweeping, work, source, trash, moved>>
      /\ job' \in [Deletions -> JobRow] /\ project' \in [Projects -> ProjectRow]
      /\ \A e \in Deletions : job'[e].project = job[e].project /\ (e # d => job'[e].status = job[e].status)
      /\ \A q \in Projects : /\ project'[q].row = project[q].row /\ project'[q].built = project[q].built
                             /\ q # p => project'[q].active = project[q].active
      /\ job'[d].status = "failed" \/ job'[d].status = job[d].status
      /\ project'[p].active => deleting[d] = "reopen" /\ job'[d].status = "failed"
  <2>2. CASE UNCHANGED <<project, job>>
    BY <1>p, <2>2 DEF JobError, Goto, others, JobRow, ProjectRow
  <2>3. CASE Sets(d, "failed")
    <3>1. CASE project' = project
      BY <1>p, <2>3, <3>1, StatusIsSet DEF JobError, Goto, others, ProjectRow
    <3>2. CASE deleting[d] = "reopen" /\ project' = Reopened(p)
      BY <1>p, <2>3, <3>2, StatusIsSet, ReopenedRows DEF JobError, Goto, others
    <3>3. QED
      BY <1>p, <3>1, <3>2 DEF JobError
  <2>4. QED
    BY <2>2, <2>3 DEF JobError
<1>1. DeletionTypeOK'
  BY <1>p, <1>0 DEF JobRow, ProjectRow
<1>2. RowInv'
  BY <1>p, <1>0 DEF RowInv, StageInv, Pending
<1>3. ASSUME NEW e \in Deletions PROVE StageInv(e)'
  <2>1. CASE e = d
    BY <1>p, <1>0, <2>1 DEF RowInv, StageInv, PlaceInv, Pending
  <2>2. CASE e # d
    BY <1>p, <1>0, <2>2 DEF RowInv, StageInv, PlaceInv, Pending
  <2>3. QED
    BY <2>1, <2>2
<1>4. PlaceInv'
  BY <1>p, <1>0 DEF PlaceInv, WorkspaceIsKept
<1>5. TurnInv'
  BY <1>p, <1>0 DEF TurnInv, Taking, Orderly
<1>6. TidyInv'
  <2> SUFFICES ASSUME Orderly'
               PROVE  TidyRows' /\ TidyServing' /\ TidySweep' /\ (\A e \in Deletions : TidyTrash(e)' /\ TidyStage(e)')
    BY DEF TidyInv
  <2>0. Orderly /\ TidyRows /\ TidyServing /\ TidySweep /\ (\A e \in Deletions : TidyTrash(e) /\ TidyStage(e))
    BY <1>p, <1>0 DEF TidyInv, Orderly
  <2>1. TidyRows'
    BY <1>p, <1>0, <2>0 DEF TidyRows, RowInv, StageInv, Pending, Orderly
  <2>2. TidyServing'
    BY <1>p, <1>0, <2>0 DEF TidyServing, RowInv, StageInv, TidyStage, PlaceInv, WorkspaceIsKept, Pending
  <2>3. TidySweep'
    BY <1>p, <1>0, <2>0 DEF TidySweep, StageInv, Pending
  <2>4. ASSUME NEW e \in Deletions PROVE TidyTrash(e)'
    <3>1. StageInv(d) /\ TidyStage(d) /\ TidyTrash(e) /\ TidyTrash(d)
      BY <2>0
    <3>2. QED
      BY <1>p, <1>0, <2>4, <3>1 DEF TidyTrash, TidyStage, StageInv, Pending
  <2>5. ASSUME NEW e \in Deletions PROVE TidyStage(e)'
    BY <1>p, <1>0, <2>0 DEF TidyStage, TidyTrash, TidyServing, RowInv, StageInv, PlaceInv, WorkspaceIsKept, Pending
  <2>6. QED
    BY <2>1, <2>2, <2>3, <2>4, <2>5
<1>7. QED
  BY <1>1, <1>2, <1>3, <1>4, <1>5, <1>6

LEMMA PurgeTrashKeeps ==
  ASSUME NEW d \in Deletions, DeletionInv, PurgeTrash(d)
  PROVE  DeletionInv'
<1> USE DeletionAssumption DEF DeletionInv, DeletionTypeOK, PurgeTrash, Contents, Work, Serving,
                               LiveWork, Open, Goto, others
<1>1. DeletionTypeOK'
  OBVIOUS
<1>2. RowInv'
  BY DEF RowInv, StageInv, Pending, TidyInv, TidyRows
<1>3. \A dd \in Deletions : StageInv(dd)'
  BY DEF RowInv, StageInv, PlaceInv, Pending
<1>4. PlaceInv'
  BY DEF RowInv, StageInv, PlaceInv, WorkspaceIsKept, Pending
<1>5. TurnInv'
  BY DEF RowInv, StageInv, PlaceInv, WorkspaceIsKept, TurnInv, TidyInv, TidyServing, TidyRows,
         Orderly, Taking, Pending
<1>6. TidyInv'
  BY DEF RowInv, StageInv, PlaceInv, WorkspaceIsKept, TidyInv, TidyServing, TidyRows, TidySweep,
         TidyTrash, TidyStage, Orderly, Pending
<1>7. QED
  BY <1>1, <1>2, <1>3, <1>4, <1>5, <1>6

LEMMA PurgeFailsKeeps ==
  ASSUME NEW d \in Deletions, DeletionInv, PurgeFails(d)
  PROVE  DeletionInv'
<1> USE DeletionAssumption DEF DeletionInv, DeletionTypeOK, PurgeFails, Contents, Work, Serving,
                               MayFail, LiveWork, Open, Goto, others
<1>1. DeletionTypeOK'
  OBVIOUS
<1>2. RowInv'
  BY DEF RowInv, StageInv, Pending, TidyInv, TidyRows
<1>3. \A dd \in Deletions : StageInv(dd)'
  BY DEF RowInv, StageInv, PlaceInv, Pending
<1>4. PlaceInv'
  BY DEF RowInv, StageInv, PlaceInv, WorkspaceIsKept, Pending
<1>5. TurnInv'
  BY DEF RowInv, StageInv, PlaceInv, WorkspaceIsKept, TurnInv, TidyInv, TidyServing, TidyRows,
         Orderly, Taking, Pending
<1>6. TidyInv'
  BY DEF RowInv, StageInv, PlaceInv, WorkspaceIsKept, TidyInv, TidyServing, TidyRows, TidySweep,
         TidyTrash, TidyStage, Orderly, Pending
<1>7. QED
  BY <1>1, <1>2, <1>3, <1>4, <1>5, <1>6

LEMMA DropJobKeeps ==
  ASSUME NEW d \in Deletions, DeletionInv, DropJob(d)
  PROVE  DeletionInv'
<1> USE DeletionAssumption DEF DeletionInv, DeletionTypeOK, Contents, Work, Serving, LiveWork, Open
<1>0. /\ Serving /\ deleting[d] = "drop" /\ deleting' = [deleting EXCEPT ![d] = "done"]
      /\ UNCHANGED <<trouble, server, restarts, sweeping, work, project, source, trash, moved>>
      /\ job' \in [Deletions -> JobRow]
      /\ \A e \in Deletions : job'[e].project = job[e].project /\ (e # d => job'[e].status = job[e].status)
      /\ job'[d].status = "dropped" \/ job'[d].status = job[d].status
  BY StatusIsSet DEF DropJob, Goto, others, MayFail, JobRow
<1>1. DeletionTypeOK'
  BY <1>0 DEF JobRow, ProjectRow
<1>2. RowInv'
  BY <1>0 DEF RowInv, StageInv, Pending
<1>3. ASSUME NEW e \in Deletions PROVE StageInv(e)'
  <2>1. CASE e = d
    BY <1>0, <2>1 DEF RowInv, StageInv, PlaceInv, Pending
  <2>2. CASE e # d
    BY <1>0, <2>2 DEF RowInv, StageInv, PlaceInv, Pending
  <2>3. QED
    BY <2>1, <2>2
<1>4. PlaceInv'
  BY <1>0 DEF PlaceInv, WorkspaceIsKept
<1>5. TurnInv'
  BY <1>0 DEF TurnInv, Taking, Orderly
<1>6. TidyInv'
  <2> SUFFICES ASSUME Orderly'
               PROVE  TidyRows' /\ TidyServing' /\ TidySweep' /\ (\A e \in Deletions : TidyTrash(e)' /\ TidyStage(e)')
    BY DEF TidyInv
  <2>0. Orderly /\ TidyRows /\ TidyServing /\ TidySweep /\ (\A e \in Deletions : TidyTrash(e) /\ TidyStage(e))
    BY <1>0 DEF TidyInv, Orderly
  <2>1. TidyRows'
    BY <1>0, <2>0 DEF TidyRows, RowInv, StageInv, Pending, Orderly
  <2>2. TidyServing'
    BY <1>0, <2>0 DEF TidyServing, RowInv, StageInv, TidyStage, PlaceInv, WorkspaceIsKept, Pending
  <2>3. TidySweep'
    BY <1>0, <2>0 DEF TidySweep, StageInv, Pending
  <2>4. ASSUME NEW e \in Deletions PROVE TidyTrash(e)'
    BY <1>0, <2>0 DEF TidyTrash, TidyServing, TidyStage, RowInv, StageInv, Pending
  <2>5. ASSUME NEW e \in Deletions PROVE TidyStage(e)'
    <3>1. CASE e = d
      BY <1>0, <3>1 DEF TidyStage, Pending
    <3>2. CASE e # d
      BY <1>0, <2>0, <3>2 DEF TidyStage, StageInv, Pending
    <3>3. QED
      BY <3>1, <3>2
  <2>6. QED
    BY <2>1, <2>2, <2>3, <2>4, <2>5
<1>7. QED
  BY <1>1, <1>2, <1>3, <1>4, <1>5, <1>6

LEMMA SweepReopenKeeps ==
  ASSUME NEW d \in Deletions, DeletionInv, SweepReopen(d)
  PROVE  DeletionInv'
<1> USE DeletionAssumption DEF DeletionInv, DeletionTypeOK, Contents, Work, Serving, LiveWork, Open
<1>0. /\ job[d].project \in Projects /\ project' = Reopened(job[d].project) /\ LiveWork(job[d].project)
      /\ project' \in [Projects -> ProjectRow]
      /\ \A q \in Projects : /\ project'[q].row = project[q].row /\ project'[q].built = project[q].built
                             /\ q # job[d].project => project'[q].active = project[q].active
      /\ project'[job[d].project].active
      /\ job' \in [Deletions -> JobRow]
      /\ \A e \in Deletions : /\ job'[e].project = job[e].project
                              /\ e # d => job'[e].status = job[e].status
      /\ job'[d].status = "failed"
  BY StatusIsSet, ReopenedRows DEF SweepReopen, ProjectRow, JobRow, StageInv, Pending
<1>a. /\ UNCHANGED <<trouble, server, restarts, deleting, moved, work, source, trash>>
      /\ server = "sweeping" /\ d \in sweeping /\ sweeping' = sweeping \ {d} /\ d \in Deletions
      /\ source # Empty \/ trash[d] = Empty
  BY DEF SweepReopen, Swept, sweepAlone
<1>b. /\ job[d].project \in Projects /\ project[job[d].project].row = "live"
      /\ \A q \in Projects : /\ project'[q].row = project[q].row /\ project'[q].built = project[q].built
                             /\ q # job[d].project => project'[q].active = project[q].active
      /\ project'[job[d].project].active
      /\ job'[d].status = "failed" /\ job'[d].project = job[d].project
      /\ \A e \in Deletions : job'[e].project = job[e].project /\ (e # d => job'[e].status = job[e].status)
  BY <1>0
<1>1. DeletionTypeOK'
  BY <1>0, <1>a DEF ProjectRow, JobRow
<1>2. RowInv'
  BY <1>a, <1>b DEF RowInv, StageInv, Pending, TidyInv, TidyRows
<1>3. \A dd \in Deletions : StageInv(dd)'
  BY <1>a, <1>b DEF RowInv, StageInv, PlaceInv, Pending
<1>4. PlaceInv'
  BY <1>a, <1>b DEF RowInv, StageInv, PlaceInv, WorkspaceIsKept, Pending
<1>5. TurnInv'
  BY <1>a, <1>b DEF RowInv, StageInv, PlaceInv, WorkspaceIsKept, TurnInv, TidyInv, TidyServing,
              TidyRows, Orderly, Taking, Pending
<1>6. TidyInv'
  <2> SUFFICES ASSUME Orderly'
               PROVE  TidyRows' /\ TidyServing' /\ TidySweep' /\ (\A e \in Deletions : TidyTrash(e)' /\ TidyStage(e)')
    BY DEF TidyInv
  <2>0. Orderly /\ TidyRows /\ TidyServing /\ TidySweep /\ (\A e \in Deletions : TidyTrash(e) /\ TidyStage(e))
    BY <1>a DEF TidyInv, Orderly
  <2>1. TidyRows'
    BY <1>a, <1>b, <2>0 DEF TidyRows, RowInv, StageInv, Orderly
  <2>2. TidyServing'
    BY <1>a, <1>b, <2>0 DEF TidyServing
  <2>3. TidySweep'
    BY <1>a, <1>b, <2>0 DEF TidySweep, TidyTrash, TidyRows, RowInv, StageInv
  <2>4. ASSUME NEW e \in Deletions PROVE TidyTrash(e)'
    BY <1>a, <1>b, <2>0 DEF TidyTrash, StageInv
  <2>5. ASSUME NEW e \in Deletions PROVE TidyStage(e)'
    BY <1>a, <1>b, <2>0 DEF TidyStage, StageInv, Pending
  <2>6. QED
    BY <2>1, <2>2, <2>3, <2>4, <2>5
<1>7. QED
  BY <1>1, <1>2, <1>3, <1>4, <1>5, <1>6

LEMMA SweepRestoreKeeps ==
  ASSUME NEW d \in Deletions, DeletionInv, SweepRestore(d)
  PROVE  DeletionInv'
<1> USE DeletionAssumption DEF DeletionInv, DeletionTypeOK, SweepRestore, Contents, Work,
                               Serving, LiveWork, Open, sweepAlone
<1>1. DeletionTypeOK'
  OBVIOUS
<1>2. RowInv'
  BY DEF RowInv, StageInv, Pending, TidyInv, TidyRows
<1>3. \A dd \in Deletions : StageInv(dd)'
  BY DEF RowInv, StageInv, PlaceInv, Pending
<1>4. PlaceInv'
  BY DEF RowInv, StageInv, PlaceInv, WorkspaceIsKept, Pending
<1>5. TurnInv'
  BY DEF RowInv, StageInv, PlaceInv, WorkspaceIsKept, TurnInv, TidyInv, TidyServing, TidyRows,
         Orderly, Taking, Pending
<1>6. TidyInv'
  BY DEF RowInv, StageInv, PlaceInv, WorkspaceIsKept, TidyInv, TidyServing, TidyRows, TidySweep,
         TidyTrash, TidyStage, Orderly, Pending
<1>7. QED
  BY <1>1, <1>2, <1>3, <1>4, <1>5, <1>6

LEMMA SweepPurgeKeeps ==
  ASSUME NEW d \in Deletions, DeletionInv, SweepPurge(d)
  PROVE  DeletionInv'
<1> USE DeletionAssumption DEF DeletionInv, DeletionTypeOK, SweepPurge, Contents, Work, Serving,
                               LiveWork, Open, sweepAlone, Swept
<1>0. /\ job' \in [Deletions -> JobRow]
      /\ \A e \in Deletions : /\ job'[e].project = job[e].project
                              /\ e # d => job'[e].status = job[e].status
      /\ job'[d].status = "dropped"
  BY StatusIsSet DEF ProjectRow, JobRow, StageInv, Pending
<1>1. DeletionTypeOK'
  BY <1>0 DEF ProjectRow, JobRow, Sets, Reopened
<1>2. RowInv'
  BY <1>0 DEF RowInv, StageInv, Pending, TidyInv, TidyRows, Sets, Reopened
<1>3. \A dd \in Deletions : StageInv(dd)'
  BY <1>0 DEF RowInv, StageInv, PlaceInv, Pending, Sets, Reopened
<1>4. PlaceInv'
  BY <1>0 DEF RowInv, StageInv, PlaceInv, WorkspaceIsKept, Pending, Sets, Reopened
<1>5. TurnInv'
  BY <1>0 DEF RowInv, StageInv, PlaceInv, WorkspaceIsKept, TurnInv, TidyInv, TidyServing,
              TidyRows, Orderly, Taking, Pending, Sets, Reopened
<1>6. TidyInv'
  <2> SUFFICES ASSUME Orderly'
               PROVE  TidyRows' /\ TidyServing' /\ TidySweep' /\ (\A e \in Deletions : TidyTrash(e)' /\ TidyStage(e)')
    BY DEF TidyInv
  <2>0. Orderly /\ TidyRows /\ TidyServing /\ TidySweep /\ (\A e \in Deletions : TidyTrash(e) /\ TidyStage(e))
    BY DEF TidyInv, Orderly
  <2>a. /\ UNCHANGED <<trouble, server, restarts, deleting, moved, work, project, source>>
        /\ server = "sweeping" /\ ~LiveWork(job[d].project) /\ sweeping' = sweeping \ {d}
        /\ trash'[d] = Empty /\ (\A e \in Deletions : e # d => trash'[e] = trash[e])
        /\ job'[d].status = "dropped"
        /\ \A e \in Deletions : job'[e].project = job[e].project /\ (e # d => job'[e].status = job[e].status)
    BY <1>0
  <2> HIDE DEF SweepPurge
  <2>1. TidyRows'
    BY <2>a, <2>0 DEF TidyRows
  <2>2. TidyServing'
    BY <2>a, <2>0 DEF TidyServing
  <2>3. TidySweep'
    BY <2>a, <2>0 DEF TidySweep
  <2>4. ASSUME NEW e \in Deletions PROVE TidyTrash(e)'
    BY <2>a, <2>0 DEF TidyTrash
  <2>5. ASSUME NEW e \in Deletions PROVE TidyStage(e)'
    BY <2>a, <2>0 DEF TidyStage, StageInv, Pending
  <2>6. QED
    BY <2>1, <2>2, <2>3, <2>4, <2>5
<1>7. QED
  BY <1>1, <1>2, <1>3, <1>4, <1>5, <1>6

LEMMA SweepSkipKeeps ==
  ASSUME NEW d \in Deletions, DeletionInv, SweepSkip(d)
  PROVE  DeletionInv'
<1> USE DeletionAssumption DEF DeletionInv, DeletionTypeOK, SweepSkip, Contents, Work, Serving,
                               MayFail, LiveWork, Open, sweepAlone, Swept
<1>1. DeletionTypeOK'
  OBVIOUS
<1>2. RowInv'
  BY DEF RowInv, StageInv, Pending, TidyInv, TidyRows
<1>3. \A dd \in Deletions : StageInv(dd)'
  BY DEF RowInv, StageInv, PlaceInv, Pending
<1>4. PlaceInv'
  BY DEF RowInv, StageInv, PlaceInv, WorkspaceIsKept, Pending
<1>5. TurnInv'
  BY DEF RowInv, StageInv, PlaceInv, WorkspaceIsKept, TurnInv, TidyInv, TidyServing, TidyRows,
         Orderly, Taking, Pending
<1>6. TidyInv'
  BY DEF RowInv, StageInv, PlaceInv, WorkspaceIsKept, TidyInv, TidyServing, TidyRows, TidySweep,
         TidyTrash, TidyStage, Orderly, Pending
<1>7. QED
  BY <1>1, <1>2, <1>3, <1>4, <1>5, <1>6

LEMMA StopServerKeeps ==
  ASSUME DeletionInv, StopServer
  PROVE  DeletionInv'
<1> USE DeletionAssumption DEF DeletionInv, DeletionTypeOK, StopServer, Contents, Work, Serving,
                               LiveWork, Open, RunsIn
<1>0. /\ project' \in [Projects -> ProjectRow]
      /\ \A q \in Projects : /\ project'[q].row = project[q].row /\ project'[q].active = project[q].active
                             /\ project'[q].built = IF project[q].built = "making" THEN "no" ELSE project[q].built
  BY DEF ProjectRow, JobRow, StageInv, Pending
<1>1. DeletionTypeOK'
  BY <1>0 DEF ProjectRow, JobRow, Sets, Reopened
<1>2. RowInv'
  BY <1>0 DEF RowInv, StageInv, Pending, TidyInv, TidyRows
<1>3. \A dd \in Deletions : StageInv(dd)'
  BY <1>0 DEF RowInv, StageInv, PlaceInv, Pending
<1>4. PlaceInv'
  BY <1>0 DEF RowInv, StageInv, PlaceInv, WorkspaceIsKept, Pending
<1>5. TurnInv'
  BY <1>0 DEF RowInv, StageInv, PlaceInv, WorkspaceIsKept, TurnInv, TidyInv, TidyServing,
              TidyRows, Orderly, Taking, Pending
<1>6. TidyInv'
  BY <1>0 DEF RowInv, StageInv, PlaceInv, WorkspaceIsKept, TidyInv, TidyServing, TidyRows,
              TidySweep, TidyTrash, TidyStage, Orderly, Pending
<1>7. QED
  BY <1>1, <1>2, <1>3, <1>4, <1>5, <1>6

LEMMA StartServerKeeps ==
  ASSUME DeletionInv, StartServer
  PROVE  DeletionInv'
<1> USE DeletionAssumption DEF DeletionInv, DeletionTypeOK, StartServer, Contents, Work,
                               Serving, LiveWork, Open, Unfinished
<1>1. DeletionTypeOK'
  BY DEF RowInv
<1>2. RowInv'
  BY DEF RowInv, StageInv, Pending, TidyInv, TidyRows
<1>3. \A dd \in Deletions : StageInv(dd)'
  BY DEF RowInv, StageInv, PlaceInv, Pending
<1>4. PlaceInv'
  BY DEF RowInv, StageInv, PlaceInv, WorkspaceIsKept, Pending
<1>5. TurnInv'
  BY DEF RowInv, StageInv, PlaceInv, WorkspaceIsKept, TurnInv, TidyInv, TidyServing, TidyRows,
         Orderly, Taking, Pending
<1>6. TidyInv'
  BY DEF RowInv, StageInv, PlaceInv, WorkspaceIsKept, TidyInv, TidyServing, TidyRows, TidySweep,
         TidyTrash, TidyStage, Orderly, Pending
<1>7. QED
  BY <1>1, <1>2, <1>3, <1>4, <1>5, <1>6

LEMMA ServeKeeps ==
  ASSUME DeletionInv, Serve
  PROVE  DeletionInv'
<1> USE DeletionAssumption DEF DeletionInv, DeletionTypeOK, Serve, Contents, Work, Serving,
                               LiveWork, Open
<1>1. DeletionTypeOK'
  OBVIOUS
<1>2. RowInv'
  BY DEF RowInv, StageInv, Pending, TidyInv, TidyRows
<1>3. \A dd \in Deletions : StageInv(dd)'
  BY DEF RowInv, StageInv, PlaceInv, Pending
<1>4. PlaceInv'
  BY DEF RowInv, StageInv, PlaceInv, WorkspaceIsKept, Pending
<1>5. TurnInv'
  BY DEF RowInv, StageInv, PlaceInv, WorkspaceIsKept, TurnInv, TidyInv, TidyServing, TidyRows,
         Orderly, Taking, Pending
<1>6. TidyInv'
  BY DEF RowInv, StageInv, PlaceInv, WorkspaceIsKept, TidyInv, TidyServing, TidyRows, TidySweep,
         TidyTrash, TidyStage, Orderly, Pending
<1>7. QED
  BY <1>1, <1>2, <1>3, <1>4, <1>5, <1>6

LEMMA DeletionInvInit == DeletionInit => DeletionInv
  BY DeletionAssumption DEF DeletionInit, DeletionInv, DeletionTypeOK, Contents, Work, NoProject, NoJob,
     NoWork, RowInv, StageInv, PlaceInv, WorkspaceIsKept, TurnInv, TidyInv, TidyRows, TidyServing,
     TidySweep, TidyTrash, TidyStage, Pending, Taking, LiveWork, Open, Serving

LEMMA DeletionInvNext == DeletionInv /\ [DeletionNext]_deletionVars => DeletionInv'
<1> SUFFICES ASSUME DeletionInv, [DeletionNext]_deletionVars PROVE DeletionInv'
  OBVIOUS
<1>1. ASSUME NEW p \in Projects, CreateProject(p) \/ MakeWorkspace(p) \/ MakeWorkspaceFails(p)
      PROVE  DeletionInv'
  BY <1>1, CreateProjectKeeps, MakeWorkspaceKeeps, MakeWorkspaceFailsKeeps
<1>2. ASSUME NEW d \in Deletions, DeletionStep(d) \/ (\E p \in Projects : Prepare(d, p))
      PROVE  DeletionInv'
  BY <1>2, PrepareKeeps, CheckRowsKeeps, CheckTurnsKeeps, QuarantineKeeps, QuarantineFailsKeeps,
     RecordQuarantineKeeps, UndoQuarantineKeeps, DeleteRowsKeeps, DeleteRowsFailsKeeps,
     UndoDeleteKeeps, JobErrorKeeps, PurgeTrashKeeps, PurgeFailsKeeps, DropJobKeeps DEF DeletionStep
<1>3. CASE WorkStep
  BY <1>3, ClaimTurnKeeps, EnterTurnKeeps, AuthorizeScriptKeeps, InsertScriptRunKeeps,
     ScriptWritesKeeps, EndProjectWorkKeeps DEF WorkStep
<1>4. CASE SweepStep
  BY <1>4, SweepReopenKeeps, SweepRestoreKeeps, SweepPurgeKeeps, SweepSkipKeeps, ServeKeeps DEF SweepStep
<1>5. CASE StopServer \/ StartServer
  BY <1>5, StopServerKeeps, StartServerKeeps
<1>6. CASE UNCHANGED deletionVars
  BY <1>6 DEF deletionVars, DeletionInv, DeletionTypeOK, RowInv, StageInv, PlaceInv, WorkspaceIsKept,
     TurnInv, TidyInv, TidyRows, TidyServing, TidySweep, TidyTrash, TidyStage, Orderly, LiveWork, Open,
     Serving
<1>7. QED
  BY <1>1, <1>2, <1>3, <1>4, <1>5, <1>6 DEF DeletionNext

LEMMA DeletionInvHolds == DeletionSpec => []DeletionInv
  BY DeletionInvInit, DeletionInvNext, PTL DEF DeletionSpec

-----------------------------------------------------------------------------
(***************************************************************************)
(* What the invariant gives.                                               *)
(***************************************************************************)
LEMMA DeletionInvIsEnough == DeletionInv => WorkspaceIsKept /\ OpenHasWorkspace /\ TurnHasProject
  BY DEF DeletionInv, PlaceInv, TidyInv, TidyServing, TurnInv, OpenHasWorkspace, TurnHasProject

\* The source changes where a workspace is made, moved away or put back.
LEMMA SlugStep ==
  ASSUME DeletionInv, [DeletionNext]_deletionVars,
         NEW p \in Projects, source = p, source' # p
  PROVE  \E d \in Deletions : job[d].project = p /\ deleting[d] = "rename"
<1> USE DeletionAssumption DEF DeletionInv
<1>1. p # Empty
  OBVIOUS
<1>2. ASSUME NEW q \in Projects, CreateProject(q) \/ MakeWorkspace(q) \/ MakeWorkspaceFails(q)
      PROVE  FALSE
  BY <1>1, <1>2 DEF CreateProject, MakeWorkspace, MakeWorkspaceFails, PlaceInv
<1>3. ASSUME NEW d \in Deletions, DeletionStep(d), ~Quarantine(d)
      PROVE  FALSE
  BY <1>1, <1>3 DEF DeletionStep, CheckRows, CheckTurns, QuarantineFails, RecordQuarantine, UndoQuarantine,
     Restorable, DeleteRows, DeleteRowsFails, UndoDelete, JobError, PurgeTrash, PurgeFails, DropJob
<1>4. ASSUME NEW d \in Deletions, Quarantine(d)
      PROVE  job[d].project = p /\ deleting[d] = "rename"
  BY <1>4 DEF Quarantine, StageInv, PlaceInv, Pending
<1>5. CASE WorkStep
  BY <1>1, <1>5 DEF WorkStep, ClaimTurn, EnterTurn, AuthorizeScript, InsertScriptRun, ScriptWrites,
     EndProjectWork
<1>6. CASE SweepStep
  BY <1>1, <1>6 DEF SweepStep, SweepReopen, SweepRestore, SweepPurge, SweepSkip, Serve
<1>7. CASE StopServer \/ StartServer \/ UNCHANGED deletionVars
  BY <1>7 DEF StopServer, StartServer, deletionVars
<1>8. ASSUME NEW d \in Deletions, NEW q \in Projects, Prepare(d, q) PROVE FALSE
  BY <1>8 DEF Prepare
<1>9. QED
  BY <1>2, <1>3, <1>4, <1>5, <1>6, <1>7, <1>8 DEF DeletionNext

\* A process that sweeps begins to serve when the sweep is done only.
LEMMA SweepStepIsComplete ==
  ASSUME DeletionInv, [DeletionNext]_deletionVars, Orderly, server = "sweeping", server' = "serving",
         NEW d \in Deletions
  PROVE  /\ job[d].status \in {"none", "failed", "dropped"}
         /\ trash[d] = Empty
         /\ LiveWork(job[d].project) => Open(job[d].project)
<1>1. CASE Serve
  BY <1>1 DEF Serve, DeletionInv, TidyInv, TidySweep
<1>2. CASE StopServer \/ StartServer \/ UNCHANGED deletionVars
  BY <1>2 DEF StopServer, StartServer, deletionVars
<1>3. CASE \E e \in Deletions : SweepReopen(e) \/ SweepRestore(e) \/ SweepPurge(e) \/ SweepSkip(e)
  BY <1>3 DEF SweepReopen, SweepRestore, SweepPurge, SweepSkip, sweepAlone
<1>4. ASSUME Serving PROVE FALSE
  BY <1>4 DEF Serving
<1>5. QED
  BY <1>1, <1>2, <1>3, <1>4 DEF DeletionNext, DeletionStep, WorkStep, SweepStep, CreateProject, MakeWorkspace,
     MakeWorkspaceFails, ClaimTurn, EnterTurn, AuthorizeScript, InsertScriptRun, ScriptWrites,
     EndProjectWork, Prepare, CheckRows, CheckTurns, Quarantine, QuarantineFails, RecordQuarantine,
     UndoQuarantine, DeleteRows, DeleteRowsFails, UndoDelete, JobError, PurgeTrash, PurgeFails, DropJob

-----------------------------------------------------------------------------
\* Every variable of the deletion has its type, however many projects, deletions,
\* scripts and turns there are (services/project_deletion.py).
THEOREM DeletionTypeCorrect == DeletionSpec => []DeletionTypeOK
<1>1. DeletionInv => DeletionTypeOK
  BY DEF DeletionInv
<1>2. QED
  BY <1>1, DeletionInvHolds, PTL

\* Whatever fails or crashes in between: the workspace of a project whose row exists is at its
\* path or in the trash of one of its own jobs, an open project has it, and a turn works only
\* in a project that is not being taken away (_check_delete, _purge, _job_error).
THEOREM WorkspacesStay == DeletionSpec => [](WorkspaceIsKept /\ OpenHasWorkspace /\ TurnHasProject)
  BY DeletionInvIsEnough, DeletionInvHolds, PTL

\* A workspace leaves its path by a deletion of its own project only, though all projects
\* share the slug ("never infer deletion from a reused slug").
THEOREM SlugStaysClear == DeletionSpec => SlugIsNotConfused
<1>1. DeletionInv /\ [DeletionNext]_deletionVars =>
        [\A p \in Projects : source = p /\ source' # p =>
           \E d \in Deletions : job[d].project = p /\ deleting[d] = "rename"]_deletionVars
  BY SlugStep
<1>2. QED
  BY <1>1, DeletionInvHolds, PTL DEF DeletionSpec, SlugIsNotConfused

\* A start leaves no deletion half done when the sweep itself does not fail
\* (sweep_project_deletion_jobs before the API serves).
THEOREM SweepsAreComplete == DeletionSpec => SweepIsComplete
<1>1. DeletionInv /\ [DeletionNext]_deletionVars =>
        [Orderly /\ server = "sweeping" /\ server' = "serving" =>
           \A d \in Deletions :
             /\ job[d].status \in {"none", "failed", "dropped"}
             /\ trash[d] = Empty
             /\ LiveWork(job[d].project) => Open(job[d].project)]_deletionVars
  BY SweepStepIsComplete
<1>2. QED
  BY <1>1, DeletionInvHolds, PTL DEF DeletionSpec, SweepIsComplete

\* All of it: the property that the run Services checks.
THEOREM DeletionStaysSafe == DeletionSpec => DeletionIsSafe
  BY WorkspacesStay, SlugStaysClear, SweepsAreComplete, PTL DEF DeletionIsSafe

-----------------------------------------------------------------------------
(***************************************************************************)
(* An agent at work (SessionPrompts, Delegation, AgentLoop, TaskPlan).     *)
(***************************************************************************)
LockInv ==
  /\ \A c \in Callers :
       /\ c \notin cast.forced /\ asking[c] \in Awaiting => locked[SessionFor(c)] = c
       /\ asking[c] = "locking" => c \notin cast.forced
       /\ asking[c] = "answered" => ledger[SessionFor(c)] = "answered"
  /\ AskedOnce

Quiet == <<>>
Shown == <<"required">>
Closed == <<"cancelled">>
ShownAndClosed == <<"required", "cancelled">>

EventInv ==
  \A p \in Callers :
    /\ asking[p] \in {"idle", "locking", "emitting"} => events[p] = Quiet
    /\ asking[p] \in {"waiting", "expiring", "answered", "dismissed"} => events[p] \in {Quiet, Shown}
    /\ asking[p] = "dead" => events[p] \in {Quiet, Closed, ShownAndClosed}
    /\ asking[p] \in {"idle", "locking"} => \A t \in Tabs : p \notin dialogs[t]
    /\ "full" \notin cast.turmoil =>
         /\ asking[p] # "emitting"
         /\ asking[p] = "dead" /\ events[p] = Quiet => \A t \in connected : p \notin dialogs[t]

\* A frame is about a prompt that was shown; it may be resolved when the prompt has its row.
FrameInv ==
  \A t \in Tabs : answering[t].at # "none" =>
    /\ answering[t].prompt \in Callers /\ answering[t].value \in Answers
    /\ asking[answering[t].prompt] \notin {"idle", "locking"}
    /\ answering[t].at = "resolve" /\ asking[answering[t].prompt] \notin Over =>
         promptRow[answering[t].prompt] # NoAnswer

\* What was resolved has its row, or could not be written; with one tab, and rows that can be
\* written, the row is what was, or will be, resolved.
AnswerRowInv ==
  \A p \in Callers :
    /\ asking[p] \in {"idle", "locking"} => future[p] = NoAnswer /\ promptRow[p] = NoAnswer
    /\ future[p] # NoAnswer => promptRow[p] # NoAnswer
    /\ RowsHold => promptRow[p] # Unsaved
    /\ RowsHold /\ OneTab /\ future[p] # NoAnswer => promptRow[p] = future[p]
    /\ RowsHold /\ OneTab /\ asking[p] \in Awaiting /\ future[p] = NoAnswer /\ promptRow[p] # NoAnswer =>
         \E t \in Tabs : /\ answering[t].prompt = p /\ answering[t].value = promptRow[p]
                         /\ answering[t].at = "resolve"

\* PromptTypeOK, with the sequences of events that do occur.
PromptTypes ==
  /\ cast \in Casts /\ asking \in [Callers -> Asking \cup Over \cup {"idle"}]
  /\ registered \in SUBSET Callers
  /\ future \in [Callers -> Answers \cup {NoAnswer}] /\ promptRow \in [Callers -> Answers \cup {NoAnswer, Unsaved}]
  /\ ledger \in [SessionsOfTurn -> {"none", "answered", "timed_out", "dismissed"}]
  /\ paused \in SUBSET SessionsOfTurn /\ aborted \in SUBSET SessionsOfTurn
  /\ locked \in [SessionsOfTurn -> Callers \cup {NoCaller}]
  /\ events \in [Callers -> {Quiet, Shown, Closed, ShownAndClosed}]
  /\ dialogs \in [Tabs -> SUBSET Callers] /\ connected \in SUBSET Tabs
  /\ answering \in [Tabs -> [prompt : Callers \cup {NoCaller}, value : Answers \cup {NoAnswer},
                             at : {"none", "persist", "resolve"}]]

PromptInv == PromptTypes /\ RegisteredIsAwaited /\ LockInv /\ EventInv /\ FrameInv /\ AnswerRowInv /\ HeardIsRecorded

-----------------------------------------------------------------------------
GateInv ==
  /\ \A n \in Turns : agent[n] \notin {"none", "released"} => gate = n - 1
  /\ \A c \in Calls :
       /\ calling[c] = "waiting" => Outermost(c)
       /\ calling[c] # "idle" /\ Outermost(c) => gateOf[c] = parent[c] - 1
       /\ calling[c] = "running" /\ Outermost(c) => heldBy[gateOf[c]] = c
  /\ GateIsReturned

\* Only an agent that has worked is a parent, and a call is none before it runs.
TreeInv ==
  /\ \A c \in Calls :
       /\ calling[c] \in {"idle", "waiting", "unstarted"} => agent[c] = "none"
       /\ calling[c] = "idle" => parent[c] = NoCall
       /\ parent[c] \in Agents => agent[parent[c]] # "none"
  /\ TimeoutStaysBelow

DelegationInv == DelegateTypeOK /\ GateInv /\ TreeInv

-----------------------------------------------------------------------------

LEMMA TurnsAreNumbers == \A n \in Turns : n \in Nat
  BY DelegationAssumption, FS_CardinalityType

LEMMA DelegateKeeps ==
  ASSUME NEW c \in Calls, NEW a \in Agents, DelegationInv, Delegate(c, a)
  PROVE  DelegationInv'
<1> USE DelegationAssumption DEF DelegationInv, DelegateTypeOK, Agents, Gates, DelegationsOver, Outermost
<1>0. /\ calling[c] = "idle" /\ agent[c] = "none" /\ agent[a] = "working" /\ c # a
      /\ parent' = [parent EXCEPT ![c] = a] /\ loose' \subseteq Calls
      /\ UNCHANGED <<stopped, expired, stop, gate, heldBy>>
      /\ \/ /\ a \in Turns /\ calling' = [calling EXCEPT ![c] = "waiting"]
            /\ gateOf' = [gateOf EXCEPT ![c] = gate] /\ agent' = agent
         \/ /\ a \notin Turns /\ calling' = [calling EXCEPT ![c] = "running"]
            /\ agent' = [agent EXCEPT ![c] = "working"] /\ gateOf' = gateOf
  BY DEF Delegate, MayDelegate, TreeInv
<1>1. DelegateTypeOK'
  BY <1>0
<1>2. GateInv'
  <2>1. \A n \in Turns : n # c /\ agent'[n] = agent[n]
    BY <1>0
  <2>2. \A d \in Calls : d # c => /\ calling'[d] = calling[d] /\ gateOf'[d] = gateOf[d]
                               /\ parent'[d] = parent[d]
    BY <1>0
  <2>3. /\ parent'[c] = a
        /\ a \in Turns => calling'[c] = "waiting" /\ gateOf'[c] = gate /\ gate = a - 1
        /\ a \notin Turns => calling'[c] = "running"
    BY <1>0 DEF GateInv
  <2>4. \A n \in Turns : agent'[n] \notin {"none", "released"} => gate' = n - 1
    BY <1>0, <2>1 DEF GateInv
  <2>5. GateIsReturned'
    BY <1>0, <2>2 DEF GateInv, GateIsReturned
  <2>6. QED
    BY <1>0, <2>2, <2>3, <2>4, <2>5 DEF GateInv
<1>3. TreeInv'
  BY <1>0 DEF TreeInv, TimeoutStaysBelow
<1>4. QED
  BY <1>1, <1>2, <1>3

LEMMA AcquireGateKeeps ==
  ASSUME NEW c \in Calls, DelegationInv, AcquireGate(c)
  PROVE  DelegationInv'
<1> USE DelegationAssumption DEF DelegationInv, DelegateTypeOK, AcquireGate, Agents, Gates, DelegationsOver, Delegating, ActiveCalls, Attached, Depth, Outermost, MayDelegate, Interrupted, Reached, Cancel, AtWork, FreeGate, TornDown
<1>1. DelegateTypeOK'
  OBVIOUS
<1>2. GateInv'
  BY DEF GateInv, GateIsReturned, TreeInv
<1>3. TreeInv'
  BY DEF TreeInv, TimeoutStaysBelow, GateInv
<1>4. QED
  BY <1>1, <1>2, <1>3

LEMMA LeaveGateKeeps ==
  ASSUME NEW c \in Calls, DelegationInv, LeaveGate(c)
  PROVE  DelegationInv'
<1> USE DelegationAssumption DEF DelegationInv, DelegateTypeOK, LeaveGate, Agents, Gates, DelegationsOver, Delegating, ActiveCalls, Attached, Depth, Outermost, MayDelegate, Interrupted, Reached, Cancel, AtWork, FreeGate, TornDown
<1>1. DelegateTypeOK'
  OBVIOUS
<1>2. GateInv'
  BY DEF GateInv, GateIsReturned, TreeInv
<1>3. TreeInv'
  BY DEF TreeInv, TimeoutStaysBelow, GateInv
<1>4. QED
  BY <1>1, <1>2, <1>3

LEMMA ExpireKeeps ==
  ASSUME NEW c \in Calls, DelegationInv, Expire(c)
  PROVE  DelegationInv'
<1> USE DelegationAssumption DEF DelegationInv, DelegateTypeOK, Expire, Agents, Gates, DelegationsOver, Delegating, ActiveCalls, Attached, Depth, Outermost, MayDelegate, Interrupted, Reached, Cancel, AtWork, FreeGate, TornDown
<1>1. DelegateTypeOK'
  OBVIOUS
<1>2. GateInv'
  BY DEF GateInv, GateIsReturned, TreeInv
<1>3. TreeInv'
  BY DEF TreeInv, TimeoutStaysBelow, GateInv
<1>4. QED
  BY <1>1, <1>2, <1>3

LEMMA EndCallKeeps ==
  ASSUME NEW c \in Calls, DelegationInv, EndCall(c)
  PROVE  DelegationInv'
<1> USE DelegationAssumption DEF DelegationInv, DelegateTypeOK, EndCall, Agents, Gates, DelegationsOver, Delegating, ActiveCalls, Attached, Depth, Outermost, MayDelegate, Interrupted, Reached, Cancel, AtWork, FreeGate, TornDown
<1>1. DelegateTypeOK'
  OBVIOUS
<1>2. GateInv'
  BY DEF GateInv, GateIsReturned, TreeInv
<1>3. TreeInv'
  BY DEF TreeInv, TimeoutStaysBelow, GateInv
<1>4. QED
  BY <1>1, <1>2, <1>3

LEMMA PressStopKeeps ==
  ASSUME DelegationInv, PressStop
  PROVE  DelegationInv'
<1> USE DelegationAssumption DEF DelegationInv, DelegateTypeOK, PressStop, Agents, Gates, DelegationsOver, Delegating, ActiveCalls, Attached, Depth, Outermost, MayDelegate, Interrupted, Reached, Cancel, AtWork, FreeGate, TornDown
<1>1. DelegateTypeOK'
  OBVIOUS
<1>2. GateInv'
  BY DEF GateInv, GateIsReturned, TreeInv
<1>3. TreeInv'
  BY DEF TreeInv, TimeoutStaysBelow, GateInv
<1>4. QED
  BY <1>1, <1>2, <1>3

LEMMA WatchKeeps ==
  ASSUME NEW a \in Agents, DelegationInv, Watch(a)
  PROVE  DelegationInv'
<1> USE DelegationAssumption DEF DelegationInv, DelegateTypeOK, Watch, Agents, Gates, DelegationsOver, Delegating, ActiveCalls, Attached, Depth, Outermost, MayDelegate, Interrupted, Reached, Cancel, AtWork, FreeGate, TornDown
<1>1. DelegateTypeOK'
  OBVIOUS
<1>2. GateInv'
  BY DEF GateInv, GateIsReturned, TreeInv
<1>3. TreeInv'
  BY DEF TreeInv, TimeoutStaysBelow, GateInv
<1>4. QED
  BY <1>1, <1>2, <1>3

LEMMA FinishAgentKeeps ==
  ASSUME NEW a \in Agents, DelegationInv, FinishAgent(a)
  PROVE  DelegationInv'
<1> USE DelegationAssumption DEF DelegationInv, DelegateTypeOK, FinishAgent, Agents, Gates, DelegationsOver, Delegating, ActiveCalls, Attached, Depth, Outermost, MayDelegate, Interrupted, Reached, Cancel, AtWork, FreeGate, TornDown
<1>1. DelegateTypeOK'
  OBVIOUS
<1>2. GateInv'
  BY DEF GateInv, GateIsReturned, TreeInv
<1>3. TreeInv'
  BY DEF TreeInv, TimeoutStaysBelow, GateInv
<1>4. QED
  BY <1>1, <1>2, <1>3

LEMMA UnwindAgentKeeps ==
  ASSUME NEW a \in Agents, DelegationInv, UnwindAgent(a)
  PROVE  DelegationInv'
<1> USE DelegationAssumption DEF DelegationInv, DelegateTypeOK, UnwindAgent, Agents, Gates, DelegationsOver, Delegating, ActiveCalls, Attached, Depth, Outermost, MayDelegate, Interrupted, Reached, Cancel, AtWork, FreeGate, TornDown
<1>1. DelegateTypeOK'
  OBVIOUS
<1>2. GateInv'
  BY DEF GateInv, GateIsReturned, TreeInv
<1>3. TreeInv'
  BY DEF TreeInv, TimeoutStaysBelow, GateInv
<1>4. QED
  BY <1>1, <1>2, <1>3

LEMMA ReleaseTurnKeeps ==
  ASSUME NEW n \in Turns, DelegationInv, ReleaseTurn(n)
  PROVE  DelegationInv'
<1> USE DelegationAssumption DEF DelegationInv, DelegateTypeOK, ReleaseTurn, Agents, Gates, DelegationsOver, Delegating, ActiveCalls, Attached, Depth, Outermost, MayDelegate, Interrupted, Reached, Cancel, AtWork, FreeGate, TornDown
<1>1. DelegateTypeOK'
  OBVIOUS
<1>2. GateInv'
  BY TurnsAreNumbers DEF GateInv, GateIsReturned
<1>3. TreeInv'
  BY DEF TreeInv, TimeoutStaysBelow, GateInv
<1>4. QED
  BY <1>1, <1>2, <1>3

-----------------------------------------------------------------------------
(***************************************************************************)
(* The event sequences, so that they need not be looked into again.        *)
(***************************************************************************)
EventKinds == {"required", "cancelled"}

LEMMA EventSeqTypes ==
  /\ Quiet \in Seq(EventKinds) /\ Len(Quiet) = 0
  /\ Shown \in Seq(EventKinds) /\ Len(Shown) = 1
  /\ Closed \in Seq(EventKinds) /\ Len(Closed) = 1
  /\ ShownAndClosed \in Seq(EventKinds) /\ Len(ShownAndClosed) = 2
<1>1. Quiet \in Seq(EventKinds) /\ Len(Quiet) = 0
  BY DEF Quiet
<1>2. Shown \in Seq(EventKinds) /\ Len(Shown) = 1 /\ Closed \in Seq(EventKinds) /\ Len(Closed) = 1
  BY DEF Shown, Closed, EventKinds
<1>3. ShownAndClosed \in Seq(EventKinds) /\ Len(ShownAndClosed) = 2
  BY DEF ShownAndClosed, EventKinds
<1>4. QED
  BY <1>1, <1>2, <1>3

LEMMA AppendFacts ==
  ASSUME NEW S, NEW s \in Seq(S), NEW e \in S
  PROVE  /\ Append(s, e) \in Seq(S) /\ Len(Append(s, e)) = Len(s) + 1
         /\ \A i \in 1 .. Len(s) : Append(s, e)[i] = s[i]
         /\ Append(s, e)[Len(s) + 1] = e
  OBVIOUS

LEMMA EventSeqFacts ==
  /\ Append(Quiet, "required") = Shown /\ Append(Quiet, "cancelled") = Closed
  /\ Append(Shown, "cancelled") = ShownAndClosed
  /\ Head(Shown) = "required" /\ Head(Closed) = "cancelled" /\ Head(ShownAndClosed) = "required"
  /\ Tail(Shown) = Quiet /\ Tail(Closed) = Quiet /\ Tail(ShownAndClosed) = Closed
  /\ Quiet = <<>> /\ Shown # Quiet /\ Closed # Quiet /\ ShownAndClosed # Quiet
  /\ Shown # Closed /\ Shown # ShownAndClosed /\ Closed # ShownAndClosed
<1>1. Append(Quiet, "required") = Shown /\ Append(Quiet, "cancelled") = Closed
  BY DEF Quiet, Shown, Closed
<1>2. Append(Shown, "cancelled") = ShownAndClosed
  <2>1. PICK e \in EventKinds : e = "cancelled"
    BY DEF EventKinds
  <2>2. Shown[1] = "required" /\ ShownAndClosed[1] = "required" /\ ShownAndClosed[2] = e
    BY <2>1 DEF Shown, ShownAndClosed
  <2>3. PICK longer \in Seq(EventKinds) :
          /\ longer = Append(Shown, e) /\ Len(longer) = Len(Shown) + 1
          /\ \A i \in 1 .. Len(Shown) : longer[i] = Shown[i]
          /\ longer[Len(Shown) + 1] = e
    <3>1. Shown \in Seq(EventKinds)
      BY EventSeqTypes
    <3>2. /\ Append(Shown, e) \in Seq(EventKinds) /\ Len(Append(Shown, e)) = Len(Shown) + 1
          /\ \A i \in 1 .. Len(Shown) : Append(Shown, e)[i] = Shown[i]
          /\ Append(Shown, e)[Len(Shown) + 1] = e
      BY <3>1, AppendFacts
    <3>3. QED
      BY <3>2, Zenon
  <2>4. Len(longer) = 2 /\ longer[1] = Shown[1] /\ longer[2] = e
    BY <2>3, EventSeqTypes
  <2>5. longer = ShownAndClosed
    BY <2>2, <2>4, EventSeqTypes, SeqEqual
  <2>6. QED
    BY <2>1, <2>3, <2>5
<1>3. /\ Head(Shown) = "required" /\ Head(Closed) = "cancelled" /\ Head(ShownAndClosed) = "required"
      /\ Tail(Shown) = Quiet /\ Tail(Closed) = Quiet /\ Tail(ShownAndClosed) = Closed
  BY DEF Quiet, Shown, Closed, ShownAndClosed
<1>4. /\ Quiet = <<>> /\ Shown # Quiet /\ Closed # Quiet /\ ShownAndClosed # Quiet
      /\ Shown # Closed /\ Shown # ShownAndClosed /\ Closed # ShownAndClosed
  BY DEF Quiet, Shown, Closed, ShownAndClosed
<1>5. QED
  BY <1>1, <1>2, <1>3, <1>4

-----------------------------------------------------------------------------

\* A caller that is not suppressed registers its prompt, with the lock unless it forces it.
LEMMA RegisterKeeps ==
  ASSUME PromptInv, NEW c \in Callers, asking[c] \in {"idle", "locking"}, ~Suppressed(c), Register(c),
         IF c \in cast.forced THEN UNCHANGED locked ELSE TakeLock(c)
  PROVE  PromptInv'
<1> USE PromptAssumption DEF PromptInv, PromptTypes, Answers, SessionsOfTurn, SessionFor,
                             NoFrame, Awaiting, Asking, Over
<1>0. /\ registered' = registered \cup {c}
      /\ UNCHANGED <<cast, future, ledger, paused, aborted, dialogs, connected, answering, promptRow>>
      /\ \/ asking' = [asking EXCEPT ![c] = "waiting"] /\ events' = [events EXCEPT ![c] = Shown]
         \/ /\ "full" \in cast.turmoil /\ asking' = [asking EXCEPT ![c] = "emitting"]
            /\ UNCHANGED events
      /\ c \notin cast.forced =>
           /\ ledger[SessionFor(c)] = "none" /\ locked[SessionFor(c)] = NoCaller
           /\ locked' = [locked EXCEPT ![SessionFor(c)] = c]
      /\ c \in cast.forced => locked' = locked
  BY EventSeqFacts DEF Register, Move, Tell, tabSide, TakeLock, Suppressed, EventInv
<1>1. PromptTypes'
  BY <1>0
<1>2. RegisteredIsAwaited'
  BY <1>0 DEF RegisteredIsAwaited
<1>3. LockInv'
  BY <1>0 DEF LockInv, AskedOnce
<1>4. EventInv'
  BY <1>0, EventSeqFacts DEF EventInv, RegisteredIsAwaited
<1>5. FrameInv'
  BY <1>0 DEF FrameInv, EventInv
<1>6. AnswerRowInv'
  BY <1>0 DEF AnswerRowInv, FrameInv, EventInv, RegisteredIsAwaited, RowsHold
<1>7. HeardIsRecorded'
  BY <1>0 DEF HeardIsRecorded, AnswerRowInv, RowsHold
<1>8. QED
  BY <1>1, <1>2, <1>3, <1>4, <1>5, <1>6, <1>7

\* A caller that moves between idle and the lock changes nothing else.
LEMMA MoveKeeps ==
  ASSUME PromptInv, NEW c \in Callers, NEW at \in {"idle", "locking"}, asking[c] \in {"idle", "locking"},
         at = "locking" => c \notin cast.forced, Move(c, at),
         UNCHANGED <<registered, future, ledger, paused, locked, aborted, events, tabSide>>
  PROVE  PromptInv'
<1> USE PromptAssumption DEF PromptInv, PromptTypes, Answers, SessionsOfTurn, SessionFor,
                             NoFrame, Awaiting, Asking, Over, Move, tabSide
<1>1. PromptTypes'
  BY EventSeqFacts DEF EventInv, FrameInv
<1>2. RegisteredIsAwaited'
  BY DEF RegisteredIsAwaited
<1>3. LockInv'
  BY DEF LockInv, AskedOnce
<1>4. EventInv'
  BY EventSeqFacts DEF EventInv, RegisteredIsAwaited
<1>5. FrameInv'
  BY DEF FrameInv, EventInv
<1>6. AnswerRowInv'
  BY DEF AnswerRowInv, FrameInv, EventInv, RegisteredIsAwaited, RowsHold
<1>7. HeardIsRecorded'
  BY DEF HeardIsRecorded, AnswerRowInv, RowsHold
<1>8. QED
  BY <1>1, <1>2, <1>3, <1>4, <1>5, <1>6, <1>7

LEMMA AskKeeps ==
  ASSUME PromptInv, NEW c \in Callers, Ask(c)
  PROVE  PromptInv'
<1>1. CASE c \in cast.forced
  BY <1>1, RegisterKeeps DEF Ask
<1>2. CASE c \notin cast.forced
  BY <1>2, MoveKeeps DEF Ask
<1>3. QED
  BY <1>1, <1>2

LEMMA LockedAskKeeps ==
  ASSUME PromptInv, NEW c \in Callers, LockedAsk(c)
  PROVE  PromptInv'
<1>1. CASE Suppressed(c)
  BY <1>1, MoveKeeps DEF LockedAsk
<1>2. CASE ~Suppressed(c)
  BY <1>2, RegisterKeeps DEF LockedAsk, PromptInv, LockInv
<1>3. QED
  BY <1>1, <1>2

LEMMA EmitPromptKeeps ==
  ASSUME NEW c \in Callers, PromptInv, EmitPrompt(c)
  PROVE  PromptInv'
<1> USE PromptAssumption DEF PromptInv, PromptTypes, EmitPrompt, Turmoils, Answers,
                             SessionsOfTurn, SessionFor, NoFrame, Awaiting, Asking, Over,
                             tabSide, Move, Tell
<1>0. \/ asking' = [asking EXCEPT ![c] = "waiting"] /\ events' = [events EXCEPT ![c] = Shown] /\ aborted' = aborted
      \/ /\ asking' = [asking EXCEPT ![c] = "waiting"] /\ UNCHANGED events
         /\ aborted' = aborted \cup {SessionFor(c)}
  BY EventSeqFacts DEF EventInv
<1>1. PromptTypes'
  BY <1>0
<1>2. RegisteredIsAwaited'
  BY DEF RegisteredIsAwaited
<1>3. LockInv'
  BY DEF LockInv, AskedOnce
<1>4. EventInv'
  BY <1>0, EventSeqFacts DEF EventInv, RegisteredIsAwaited
<1>5. FrameInv'
  BY DEF FrameInv, EventInv
<1>6. AnswerRowInv'
  BY DEF AnswerRowInv, FrameInv, EventInv, RegisteredIsAwaited, RowsHold
<1>7. HeardIsRecorded'
  BY DEF HeardIsRecorded, AnswerRowInv, RowsHold
<1>8. QED
  BY <1>1, <1>2, <1>3, <1>4, <1>5, <1>6, <1>7

LEMMA HearAnswerKeeps ==
  ASSUME NEW c \in Callers, PromptInv, HearAnswer(c)
  PROVE  PromptInv'
<1> USE PromptAssumption DEF PromptInv, PromptTypes, HearAnswer, Turmoils, Answers,
                             SessionsOfTurn, SessionFor, NoFrame, Awaiting, Asking, Over,
                             tabSide, Move, DropLock, Record, End
<1>1. PromptTypes'
  <2>1. /\ asking' \in [Callers -> Asking \cup Over \cup {"idle"}] /\ registered' \in SUBSET Callers
        /\ future' \in [Callers -> Answers \cup {NoAnswer}]
    <3>1. /\ asking \in [Callers -> Asking \cup Over \cup {"idle"}] /\ future \in [Callers -> Answers \cup {NoAnswer}]
          /\ registered \in SUBSET Callers
      OBVIOUS
    <3>2. /\ future' = [future EXCEPT ![c] = NoAnswer] /\ registered' = registered \ {c}
          /\ asking' = [asking EXCEPT ![c] = "dismissed"] \/ asking' = [asking EXCEPT ![c] = "answered"]
      OBVIOUS
    <3>3. "dismissed" \in Over /\ "answered" \in Over
      OBVIOUS
    <3>. QED
      BY ONLY <3>1, <3>2, <3>3
  <2>2. ledger' \in [SessionsOfTurn -> {"none", "answered", "timed_out", "dismissed"}]
    OBVIOUS
  <2>3. locked' \in [SessionsOfTurn -> Callers \cup {NoCaller}]
    OBVIOUS
  <2>4. UNCHANGED <<cast, promptRow, paused, aborted, events, dialogs, connected, answering>>
    OBVIOUS
  <2>5. QED
    BY <2>1, <2>2, <2>3, <2>4
<1>2. RegisteredIsAwaited'
  BY DEF RegisteredIsAwaited
<1>3. LockInv'
  BY DEF LockInv, AskedOnce
<1>4. EventInv'
  BY EventSeqFacts DEF EventInv, RegisteredIsAwaited
<1>5. FrameInv'
  BY DEF FrameInv, EventInv
<1>6. AnswerRowInv'
  BY DEF AnswerRowInv, FrameInv, EventInv, RegisteredIsAwaited, RowsHold
<1>7. HeardIsRecorded'
  BY DEF HeardIsRecorded, AnswerRowInv, RowsHold
<1>8. QED
  BY <1>1, <1>2, <1>3, <1>4, <1>5, <1>6, <1>7

LEMMA TimerFiresKeeps ==
  ASSUME NEW c \in Callers, PromptInv, TimerFires(c)
  PROVE  PromptInv'
<1> USE PromptAssumption DEF PromptInv, PromptTypes, TimerFires, Turmoils, Answers,
                             SessionsOfTurn, SessionFor, NoFrame, Awaiting, Asking, Over,
                             tabSide, Move
<1>1. PromptTypes'
  BY EventSeqFacts DEF EventInv, FrameInv
<1>2. RegisteredIsAwaited'
  BY DEF RegisteredIsAwaited
<1>3. LockInv'
  BY DEF LockInv, AskedOnce
<1>4. EventInv'
  BY EventSeqFacts DEF EventInv, RegisteredIsAwaited
<1>5. FrameInv'
  BY DEF FrameInv, EventInv
<1>6. AnswerRowInv'
  BY DEF AnswerRowInv, FrameInv, EventInv, RegisteredIsAwaited, RowsHold
<1>7. HeardIsRecorded'
  BY DEF HeardIsRecorded, AnswerRowInv, RowsHold
<1>8. QED
  BY <1>1, <1>2, <1>3, <1>4, <1>5, <1>6, <1>7

LEMMA TimeOutKeeps ==
  ASSUME NEW c \in Callers, PromptInv, TimeOut(c)
  PROVE  PromptInv'
<1> USE PromptAssumption DEF PromptInv, PromptTypes, TimeOut, Turmoils, Answers,
                             SessionsOfTurn, SessionFor, NoFrame, Awaiting, Asking, Over,
                             tabSide, Move, Tell, DropLock, Record, End
<1>1. PromptTypes'
  BY EventSeqFacts DEF EventInv, FrameInv
<1>2. RegisteredIsAwaited'
  BY DEF RegisteredIsAwaited
<1>3. LockInv'
  BY DEF LockInv, AskedOnce
<1>4. EventInv'
  BY EventSeqFacts DEF EventInv, RegisteredIsAwaited
<1>5. FrameInv'
  BY DEF FrameInv, EventInv
<1>6. AnswerRowInv'
  BY DEF AnswerRowInv, FrameInv, EventInv, RegisteredIsAwaited, RowsHold
<1>7. HeardIsRecorded'
  BY DEF HeardIsRecorded, AnswerRowInv, RowsHold
<1>8. QED
  BY <1>1, <1>2, <1>3, <1>4, <1>5, <1>6, <1>7

LEMMA SeeAbortKeeps ==
  ASSUME NEW c \in Callers, PromptInv, SeeAbort(c)
  PROVE  PromptInv'
<1> USE PromptAssumption DEF PromptInv, PromptTypes, SeeAbort, Turmoils, Answers,
                             SessionsOfTurn, SessionFor, NoFrame, Awaiting, Asking, Over,
                             tabSide, Move, Tell, DropLock, End
<1>1. PromptTypes'
  BY EventSeqFacts DEF EventInv, FrameInv
<1>2. RegisteredIsAwaited'
  BY DEF RegisteredIsAwaited
<1>3. LockInv'
  BY DEF LockInv, AskedOnce
<1>4. EventInv'
  BY EventSeqFacts DEF EventInv, RegisteredIsAwaited
<1>5. FrameInv'
  BY DEF FrameInv, EventInv
<1>6. AnswerRowInv'
  BY DEF AnswerRowInv, FrameInv, EventInv, RegisteredIsAwaited, RowsHold
<1>7. HeardIsRecorded'
  BY DEF HeardIsRecorded, AnswerRowInv, RowsHold
<1>8. QED
  BY <1>1, <1>2, <1>3, <1>4, <1>5, <1>6, <1>7

LEMMA CancelCallerKeeps ==
  ASSUME NEW c \in Callers, PromptInv, CancelCaller(c)
  PROVE  PromptInv'
<1> USE PromptAssumption DEF PromptInv, PromptTypes, CancelCaller, Turmoils, Answers,
                             SessionsOfTurn, SessionFor, NoFrame, Awaiting, Asking, Over,
                             tabSide, Move, Tell, DropLock, End, MayBeCancelled
<1>0. /\ asking[c] \notin Over /\ asking' = [asking EXCEPT ![c] = "dead"]
      /\ UNCHANGED <<cast, dialogs, connected>>
      /\ \/ asking[c] \in {"waiting", "expiring"} /\ \E es \in {Closed, ShownAndClosed} : events' = [events EXCEPT ![c] = es]
         \/ asking[c] \in {"idle", "locking", "emitting"} /\ events' = events
  BY EventSeqFacts DEF EventInv
<1>1. PromptTypes'
  <2>1. events' \in [Callers -> {Quiet, Shown, Closed, ShownAndClosed}]
    BY <1>0
  <2>2. QED
    BY <2>1
<1>2. RegisteredIsAwaited'
  BY DEF RegisteredIsAwaited
<1>3. LockInv'
  BY DEF LockInv, AskedOnce
<1>4. EventInv'
  <2>1. \A p \in Callers : p # c => asking'[p] = asking[p] /\ events'[p] = events[p]
    BY <1>0
  <2>2. asking'[c] = "dead" /\ events'[c] \in {Quiet, Closed, ShownAndClosed}
    BY <1>0, EventSeqFacts DEF EventInv
  <2>3. "full" \notin cast.turmoil /\ events'[c] = Quiet => \A t \in connected : c \notin dialogs[t]
    BY <1>0, EventSeqFacts DEF EventInv
  <2>4. QED
    BY <1>0, <2>1, <2>2, <2>3 DEF EventInv
<1>5. FrameInv'
  BY DEF FrameInv, EventInv
<1>6. AnswerRowInv'
  BY DEF AnswerRowInv, FrameInv, EventInv, RegisteredIsAwaited, RowsHold
<1>7. HeardIsRecorded'
  BY DEF HeardIsRecorded, AnswerRowInv, RowsHold
<1>8. QED
  BY <1>1, <1>2, <1>3, <1>4, <1>5, <1>6, <1>7

LEMMA AbortSessionKeeps ==
  ASSUME NEW s \in SessionsOfTurn, PromptInv, AbortSession(s)
  PROVE  PromptInv'
<1> USE PromptAssumption DEF PromptInv, PromptTypes, AbortSession, Turmoils, Answers,
                             SessionsOfTurn, SessionFor, NoFrame, Awaiting, Asking, Over,
                             tabSide
<1>1. PromptTypes'
  BY EventSeqFacts DEF EventInv, FrameInv
<1>2. RegisteredIsAwaited'
  BY DEF RegisteredIsAwaited
<1>3. LockInv'
  BY DEF LockInv, AskedOnce
<1>4. EventInv'
  BY EventSeqFacts DEF EventInv, RegisteredIsAwaited
<1>5. FrameInv'
  BY DEF FrameInv, EventInv
<1>6. AnswerRowInv'
  BY DEF AnswerRowInv, FrameInv, EventInv, RegisteredIsAwaited, RowsHold
<1>7. HeardIsRecorded'
  BY DEF HeardIsRecorded, AnswerRowInv, RowsHold
<1>8. QED
  BY <1>1, <1>2, <1>3, <1>4, <1>5, <1>6, <1>7

LEMMA DeliverKeeps ==
  ASSUME NEW p \in Callers, PromptInv, Deliver(p)
  PROVE  PromptInv'
<1> USE PromptAssumption DEF PromptInv, PromptTypes, Deliver, Turmoils, Answers,
                             SessionsOfTurn, SessionFor, NoFrame, Awaiting, Asking, Over,
                             callerSide
<1>1. PromptTypes'
  <2>1. /\ events[p] # <<>> /\ events' = [events EXCEPT ![p] = Tail(events[p])]
        /\ events \in [Callers -> {Quiet, Shown, Closed, ShownAndClosed}]
    OBVIOUS
  <2>2. Tail(events[p]) \in {Quiet, Shown, Closed, ShownAndClosed}
    BY <2>1, EventSeqFacts
  <2>3. events' \in [Callers -> {Quiet, Shown, Closed, ShownAndClosed}]
    BY ONLY <2>1, <2>2
  <2>4. dialogs' \in [Tabs -> SUBSET Callers]
    OBVIOUS
  <2>. QED
    BY <2>3, <2>4
<1>2. RegisteredIsAwaited'
  BY DEF RegisteredIsAwaited
<1>3. LockInv'
  BY DEF LockInv, AskedOnce
<1>4. EventInv'
  <2>1. /\ events[p] # <<>> /\ events' = [events EXCEPT ![p] = Tail(events[p])]
        /\ events \in [Callers -> {Quiet, Shown, Closed, ShownAndClosed}]
        /\ UNCHANGED <<cast, asking, connected>> /\ connected \subseteq Tabs
        /\ dialogs' = [t \in Tabs |-> IF t \notin connected THEN dialogs[t]
                                      ELSE IF Head(events[p]) = "required" THEN dialogs[t] \cup {p}
                                      ELSE dialogs[t] \ {p}]
    OBVIOUS
  <2>2. \A q \in Callers : q # p =>
          /\ events'[q] = events[q] /\ asking'[q] = asking[q]
          /\ \A t \in Tabs : q \in dialogs'[t] <=> q \in dialogs[t]
    BY ONLY <2>1
  <2>3. \/ events[p] = Shown /\ events'[p] = Quiet
        \/ events[p] = Closed /\ events'[p] = Quiet /\ Head(events[p]) # "required"
        \/ events[p] = ShownAndClosed /\ events'[p] = Closed
    BY ONLY <2>1, EventSeqFacts
  <2>4. Head(events[p]) # "required" => \A t \in connected : p \notin dialogs'[t]
    BY ONLY <2>1
  <2>5. asking' = asking /\ cast' = cast /\ connected' = connected /\ connected \subseteq Tabs
    BY ONLY <2>1
  <2>6. EventInv
    OBVIOUS
  <2>7. asking[p] \notin {"idle", "locking"}
    BY ONLY <2>1, <2>6, EventSeqFacts DEF EventInv
  <2>. QED
    BY ONLY <2>2, <2>3, <2>4, <2>5, <2>6, <2>7, EventSeqFacts DEF EventInv
<1>5. FrameInv'
  BY DEF FrameInv, EventInv
<1>6. AnswerRowInv'
  BY DEF AnswerRowInv, FrameInv, EventInv, RegisteredIsAwaited, RowsHold
<1>7. HeardIsRecorded'
  BY DEF HeardIsRecorded, AnswerRowInv, RowsHold
<1>8. QED
  BY <1>1, <1>2, <1>3, <1>4, <1>5, <1>6, <1>7

LEMMA DropKeeps ==
  ASSUME NEW t \in Tabs, PromptInv, Drop(t)
  PROVE  PromptInv'
<1> USE PromptAssumption DEF PromptInv, PromptTypes, Drop, Turmoils, Answers, SessionsOfTurn,
                             SessionFor, NoFrame, Awaiting, Asking, Over, callerSide
<1>1. PromptTypes'
  BY EventSeqFacts DEF EventInv, FrameInv
<1>2. RegisteredIsAwaited'
  BY DEF RegisteredIsAwaited
<1>3. LockInv'
  BY DEF LockInv, AskedOnce
<1>4. EventInv'
  BY EventSeqFacts DEF EventInv, RegisteredIsAwaited
<1>5. FrameInv'
  BY DEF FrameInv, EventInv
<1>6. AnswerRowInv'
  BY DEF AnswerRowInv, FrameInv, EventInv, RegisteredIsAwaited, RowsHold
<1>7. HeardIsRecorded'
  BY DEF HeardIsRecorded, AnswerRowInv, RowsHold
<1>8. QED
  BY <1>1, <1>2, <1>3, <1>4, <1>5, <1>6, <1>7

LEMMA ConnectKeeps ==
  ASSUME NEW t \in Tabs, PromptInv, Connect(t)
  PROVE  PromptInv'
<1> USE PromptAssumption DEF PromptInv, PromptTypes, Connect, Turmoils, Answers,
                             SessionsOfTurn, SessionFor, NoFrame, Awaiting, Asking, Over,
                             callerSide
<1>1. PromptTypes'
  BY EventSeqFacts DEF EventInv, FrameInv
<1>2. RegisteredIsAwaited'
  BY DEF RegisteredIsAwaited
<1>3. LockInv'
  BY DEF LockInv, AskedOnce
<1>4. EventInv'
  BY EventSeqFacts DEF EventInv, RegisteredIsAwaited
<1>5. FrameInv'
  BY DEF FrameInv, EventInv
<1>6. AnswerRowInv'
  BY DEF AnswerRowInv, FrameInv, EventInv, RegisteredIsAwaited, RowsHold
<1>7. HeardIsRecorded'
  BY DEF HeardIsRecorded, AnswerRowInv, RowsHold
<1>8. QED
  BY <1>1, <1>2, <1>3, <1>4, <1>5, <1>6, <1>7

LEMMA PersistAnswerKeeps ==
  ASSUME NEW t \in Tabs, PromptInv, PersistAnswer(t)
  PROVE  PromptInv'
<1> USE PromptAssumption DEF PromptInv, PromptTypes, PersistAnswer, Turmoils, Answers,
                             SessionsOfTurn, SessionFor, NoFrame, Awaiting, Asking, Over,
                             callerSide, answerSide
<1>z. /\ answering[t].at = "persist" /\ answering[t].prompt \in Callers
      /\ promptRow' = [promptRow EXCEPT ![answering[t].prompt] = Written(t)]
           \/ (~RowsHold /\ promptRow' = [promptRow EXCEPT ![answering[t].prompt] = Unwritten(t)])
      /\ \/ dialogs' = [u \in Tabs |-> IF u \in connected THEN dialogs[u] \ {answering[t].prompt} ELSE dialogs[u]]
         \/ dialogs' = dialogs
  <2>1. answering[t].at = "persist"
    OBVIOUS
  <2>2. answering[t].prompt \in Callers
    BY <2>1 DEF FrameInv
  <2>3. \/ /\ promptRow' = [promptRow EXCEPT ![answering[t].prompt] = Written(t)]
           /\ dialogs' = [u \in Tabs |-> IF u \in connected THEN dialogs[u] \ {answering[t].prompt} ELSE dialogs[u]]
        \/ /\ ~RowsHold /\ promptRow' = [promptRow EXCEPT ![answering[t].prompt] = Unwritten(t)]
           /\ dialogs' = dialogs
    BY ONLY PersistAnswer(t), Zenon DEF PersistAnswer, RowsHold
  <2> QED
    BY ONLY <2>1, <2>2, <2>3
<1>y. /\ dialogs' = [u \in Tabs |-> dialogs'[u]] /\ \A u \in Tabs : dialogs'[u] \subseteq dialogs[u]
  <2>1. dialogs \in [Tabs -> SUBSET Callers]
    OBVIOUS
  <2> QED
    BY ONLY <1>z, <2>1
<1>0. /\ answering[t].at = "persist" /\ answering' = [answering EXCEPT ![t] = [answering[t] EXCEPT !.at = "resolve"]]
      /\ answering[t].prompt \in Callers /\ answering[t].value \in Answers
      /\ asking[answering[t].prompt] \notin {"idle", "locking"}
      /\ \E row : /\ promptRow' = [promptRow EXCEPT ![answering[t].prompt] = row]
                  /\ row = Written(t) \/ (~RowsHold /\ row = Unwritten(t))
      /\ dialogs' = [u \in Tabs |-> dialogs'[u]] /\ \A u \in Tabs : dialogs'[u] \subseteq dialogs[u]
      /\ UNCHANGED <<cast, asking, locked, aborted, events, connected, registered, future, ledger, paused>>
  BY <1>y, <1>z DEF FrameInv
<1>a. /\ \A u \in Tabs : u # t => answering'[u] = answering[u]
      /\ answering'[t].at = "resolve" /\ answering'[t].prompt = answering[t].prompt
      /\ answering'[t].value = answering[t].value
  BY <1>0
<1>b. /\ \A p \in Callers : p # answering[t].prompt => promptRow'[p] = promptRow[p]
      /\ promptRow'[answering[t].prompt] \in Answers \cup {Unsaved}
      /\ RowsHold /\ promptRow[answering[t].prompt] # Unsaved =>
           promptRow'[answering[t].prompt] =
             IF promptRow[answering[t].prompt] = NoAnswer THEN answering[t].value ELSE promptRow[answering[t].prompt]
  BY <1>0 DEF Written, Unwritten
<1>1. PromptTypes'
  <2>1. promptRow' \in [Callers -> Answers \cup {NoAnswer, Unsaved}]
    BY <1>0 DEF Written, Unwritten
  <2>2. dialogs' \in [Tabs -> SUBSET Callers]
    BY <1>0
  <2>3. answering' \in [Tabs -> [prompt : Callers \cup {NoCaller}, value : Answers \cup {NoAnswer},
                                at : {"none", "persist", "resolve"}]]
    <3> DEFINE R == [prompt : Callers \cup {NoCaller}, value : Answers \cup {NoAnswer},
                     at : {"none", "persist", "resolve"}]
    <3>1. answering \in [Tabs -> R] /\ [answering[t] EXCEPT !.at = "resolve"] \in R
      OBVIOUS
    <3> HIDE DEF R
    <3>2. answering' \in [Tabs -> R]
      BY ONLY <1>0, <3>1
    <3>. QED
      BY <3>2 DEF R
  <2>. QED
    BY <1>0, <2>1, <2>2, <2>3
<1>2. RegisteredIsAwaited'
  BY DEF RegisteredIsAwaited
<1>3. LockInv'
  BY DEF LockInv, AskedOnce
<1>4. EventInv'
  BY <1>0, EventSeqFacts DEF EventInv
<1>5. FrameInv'
  <2>1. \A p \in Callers : promptRow[p] # NoAnswer => promptRow'[p] # NoAnswer
    BY <1>0, <1>b
  <2>2. answering[t].value \in Answers /\ promptRow'[answering[t].prompt] # NoAnswer
    BY <1>0, <1>b
  <2> QED
    BY <1>0, <1>a, <2>1, <2>2 DEF FrameInv
<1>6. AnswerRowInv'
  <2> DEFINE q == answering[t].prompt
  <2>1. q \in Callers /\ NoAnswer \notin Answers
    BY <1>0
  <2>2. ASSUME NEW p \in Callers, p = q
        PROVE  /\ asking[p] \notin {"idle", "locking"}
               /\ promptRow'[p] # NoAnswer
               /\ RowsHold => promptRow'[p] # Unsaved
               /\ RowsHold /\ future[p] # NoAnswer => promptRow'[p] = promptRow[p]
               /\ RowsHold /\ promptRow[p] # NoAnswer => promptRow'[p] = promptRow[p]
               /\ RowsHold /\ promptRow[p] = NoAnswer => promptRow'[p] = answering'[t].value /\ answering'[t].prompt = p
    BY <1>0, <1>a, <1>b, <2>1, <2>2 DEF AnswerRowInv
  <2>3. ASSUME NEW p \in Callers, p # q PROVE promptRow'[p] = promptRow[p]
    BY <1>b, <2>3
  <2>4. ASSUME NEW p \in Callers, RowsHold, OneTab, asking[p] \in Awaiting, future[p] = NoAnswer, promptRow'[p] # NoAnswer
        PROVE  \E u \in Tabs : /\ answering'[u].prompt = p /\ answering'[u].value = promptRow'[p]
                               /\ answering'[u].at = "resolve"
    <3>1. CASE promptRow[p] = NoAnswer
      BY <1>a, <2>2, <2>3, <2>4, <3>1
    <3>2. CASE promptRow[p] # NoAnswer
      <4>1. promptRow'[p] = promptRow[p]
        BY <2>2, <2>3, <2>4, <3>2
      <4>2. PICK u \in Tabs : answering[u].prompt = p /\ answering[u].value = promptRow[p] /\ answering[u].at = "resolve"
        BY <2>4, <3>2 DEF AnswerRowInv
      <4>3. u = t
        BY <2>4 DEF OneTab
      <4>. QED
        BY <1>0, <4>2, <4>3
    <3>. QED
      BY <3>1, <3>2
  <2>5. ASSUME NEW p \in Callers
        PROVE  /\ asking[p] \in {"idle", "locking"} => future[p] = NoAnswer /\ promptRow'[p] = NoAnswer
               /\ future[p] # NoAnswer => promptRow'[p] # NoAnswer
               /\ RowsHold => promptRow'[p] # Unsaved
               /\ RowsHold /\ OneTab /\ future[p] # NoAnswer => promptRow'[p] = future[p]
    BY <2>2, <2>3 DEF AnswerRowInv
  <2>6. asking' = asking /\ future' = future /\ RowsHold' = RowsHold
    BY <1>0 DEF RowsHold
  <2>. QED
    BY <2>4, <2>5, <2>6 DEF AnswerRowInv, OneTab
<1>7. HeardIsRecorded'
  BY <1>0, <1>b DEF HeardIsRecorded, AnswerRowInv, RowsHold
<1>8. QED
  BY <1>1, <1>2, <1>3, <1>4, <1>5, <1>6, <1>7

LEMMA ResolveAnswerKeeps ==
  ASSUME NEW t \in Tabs, PromptInv, ResolveAnswer(t)
  PROVE  PromptInv'
<1> USE PromptAssumption DEF PromptInv, PromptTypes, Turmoils, Answers,
                             SessionsOfTurn, SessionFor, NoFrame, Awaiting, Asking, Over,
                             callerSide, answerSide
<1>0. /\ answering[t].at = "resolve" /\ answering' = [answering EXCEPT ![t] = NoFrame]
      /\ UNCHANGED <<cast, asking, locked, aborted, events, connected, registered, dialogs, promptRow>>
      /\ answering[t].prompt \in Callers /\ answering[t].value \in Answers
      /\ \/ /\ answering[t].prompt \in registered /\ future[answering[t].prompt] = NoAnswer
            /\ future' = [future EXCEPT ![answering[t].prompt] = answering[t].value]
            /\ paused' \subseteq paused
            /\ ledger' \in [SessionsOfTurn -> {"none", "answered", "timed_out", "dismissed"}]
            /\ \A s \in SessionsOfTurn : ledger[s] = "answered" => ledger'[s] = "answered"
         \/ /\ UNCHANGED <<future, ledger, paused>>
            /\ ~(answering[t].prompt \in registered /\ future[answering[t].prompt] = NoAnswer)
  BY DEF FrameInv, ResolveAnswer, Present
<1>1. PromptTypes'
  BY <1>0
<1>2. RegisteredIsAwaited'
  BY <1>0 DEF RegisteredIsAwaited
<1>3. LockInv'
  BY <1>0 DEF LockInv, AskedOnce
<1>4. EventInv'
  BY <1>0, EventSeqFacts DEF EventInv, RegisteredIsAwaited
<1>5. FrameInv'
  BY <1>0 DEF FrameInv, EventInv
<1>6. AnswerRowInv'
  <2>1. CASE /\ UNCHANGED <<future, ledger, paused>>
            /\ ~(answering[t].prompt \in registered /\ future[answering[t].prompt] = NoAnswer)
    BY <1>0, <2>1 DEF AnswerRowInv, RegisteredIsAwaited, OneTab, RowsHold
  <2>2. CASE /\ answering[t].prompt \in registered /\ future[answering[t].prompt] = NoAnswer
            /\ future' = [future EXCEPT ![answering[t].prompt] = answering[t].value]
    <3>1. PICK p \in Callers : p = answering[t].prompt
      BY <1>0
    <3>2. /\ asking[p] \in Awaiting /\ future[p] = NoAnswer /\ promptRow[p] # NoAnswer
          /\ future' = [future EXCEPT ![p] = answering[t].value]
      BY <1>0, <2>2, <3>1 DEF FrameInv, RegisteredIsAwaited
    <3>3. RowsHold /\ OneTab => promptRow[p] = answering[t].value
      BY <3>1, <3>2 DEF AnswerRowInv, OneTab
    <3>4. \A q \in Callers : q # p => future'[q] = future[q]
      BY <3>2
    <3>5. future'[p] = answering[t].value /\ answering[t].value # NoAnswer
      BY <1>0, <3>2
    <3>6. \A q \in Callers : OneTab /\ answering[t].prompt = q /\ answering[t].at = "resolve" => q = p
      BY <3>1
    <3>7. \A q \in Callers, u \in Tabs : OneTab /\ answering[u].prompt = q => q = p
      BY <3>1 DEF OneTab
    <3>8. QED
      BY <1>0, <3>2, <3>3, <3>4, <3>5, <3>7 DEF AnswerRowInv, RowsHold
  <2>3. QED
    BY <1>0, <2>1, <2>2
<1>7. HeardIsRecorded'
  BY <1>0 DEF HeardIsRecorded, AnswerRowInv, RowsHold
<1>8. QED
  BY <1>1, <1>2, <1>3, <1>4, <1>5, <1>6, <1>7

LEMMA AnswerKeeps ==
  ASSUME NEW t \in Tabs, NEW p \in Callers, NEW v \in Answers, PromptInv, Answer(t, p, v)
  PROVE  PromptInv'
<1> USE PromptAssumption DEF PromptInv, PromptTypes, Answer, Turmoils, Answers, SessionsOfTurn,
                             SessionFor, NoFrame, Awaiting, Asking, Over, callerSide, answerSide
<1>1. PromptTypes'
  BY EventSeqFacts DEF EventInv, FrameInv
<1>2. RegisteredIsAwaited'
  BY DEF RegisteredIsAwaited
<1>3. LockInv'
  BY DEF LockInv, AskedOnce
<1>4. EventInv'
  BY EventSeqFacts DEF EventInv, RegisteredIsAwaited
<1>5. FrameInv'
  <2>1. /\ UNCHANGED <<asking, promptRow>> /\ answering'[t].prompt = p /\ answering'[t].value = v
        /\ answering'[t].at = "resolve" => p \notin registered
        /\ \A u \in Tabs : u # t => answering'[u] = answering[u]
    OBVIOUS
  <2>2. asking[p] \notin {"idle", "locking"}
    BY DEF EventInv
  <2>3. p \notin registered => asking[p] \in Over
    BY <2>2 DEF RegisteredIsAwaited
  <2>4. QED
    BY <2>1, <2>2, <2>3 DEF FrameInv
<1>6. AnswerRowInv'
  BY DEF AnswerRowInv, FrameInv, EventInv, RegisteredIsAwaited, RowsHold
<1>7. HeardIsRecorded'
  BY DEF HeardIsRecorded, AnswerRowInv, RowsHold
<1>8. QED
  BY <1>1, <1>2, <1>3, <1>4, <1>5, <1>6, <1>7

LEMMA UserSpeaksKeeps ==
  ASSUME PromptInv, UserSpeaks
  PROVE  PromptInv'
<1> USE PromptAssumption DEF PromptInv, PromptTypes, UserSpeaks, Turmoils, Answers,
                             SessionsOfTurn, SessionFor, NoFrame, Awaiting, Asking, Over,
                             callerSide, Present
<1>1. PromptTypes'
  BY EventSeqFacts DEF EventInv, FrameInv
<1>2. RegisteredIsAwaited'
  BY DEF RegisteredIsAwaited
<1>3. LockInv'
  BY DEF LockInv, AskedOnce
<1>4. EventInv'
  BY EventSeqFacts DEF EventInv, RegisteredIsAwaited
<1>5. FrameInv'
  BY DEF FrameInv, EventInv
<1>6. AnswerRowInv'
  BY DEF AnswerRowInv, FrameInv, EventInv, RegisteredIsAwaited, RowsHold
<1>7. HeardIsRecorded'
  BY DEF HeardIsRecorded, AnswerRowInv, RowsHold
<1>8. QED
  BY <1>1, <1>2, <1>3, <1>4, <1>5, <1>6, <1>7

LEMMA PromptInitKeeps == PromptInit => PromptInv
<1> SUFFICES ASSUME PromptInit PROVE PromptInv
  OBVIOUS
<1> USE PromptAssumption DEF PromptInit, Answers, SessionsOfTurn, SessionFor, NoFrame, Awaiting, Asking, Over
<1>1. PromptTypes
  BY EventSeqFacts DEF PromptTypes
<1>2. RegisteredIsAwaited /\ LockInv /\ FrameInv /\ AnswerRowInv /\ HeardIsRecorded
  BY DEF RegisteredIsAwaited, LockInv, AskedOnce, FrameInv, AnswerRowInv, HeardIsRecorded
<1>3. EventInv
  BY EventSeqFacts DEF EventInv
<1>4. QED
  BY <1>1, <1>2, <1>3 DEF PromptInv

LEMMA PromptStutterKeeps ==
  ASSUME PromptInv, UNCHANGED promptVars
  PROVE  PromptInv'
<1> USE DEF promptVars
<1>1. PromptTypes' /\ RegisteredIsAwaited' /\ LockInv'
  BY DEF PromptInv, PromptTypes, RegisteredIsAwaited, LockInv, AskedOnce, SessionFor
<1>2. EventInv' /\ FrameInv' /\ AnswerRowInv' /\ HeardIsRecorded'
  BY DEF PromptInv, EventInv, FrameInv, AnswerRowInv, HeardIsRecorded, RowsHold
<1>3. QED
  BY <1>1, <1>2 DEF PromptInv

LEMMA PromptStepKeeps == PromptInv /\ [PromptNext]_promptVars => PromptInv'
<1> SUFFICES ASSUME PromptInv, [PromptNext]_promptVars PROVE PromptInv'
  OBVIOUS
<1>1. CASE \E c \in Callers : Ask(c) \/ CallerStep(c) \/ CancelCaller(c)
  BY <1>1, AskKeeps, LockedAskKeeps, EmitPromptKeeps, HearAnswerKeeps, TimerFiresKeeps, TimeOutKeeps,
     SeeAbortKeeps, CancelCallerKeeps DEF CallerStep
<1>2. CASE \/ \E s \in SessionsOfTurn : AbortSession(s)
           \/ \E p \in Callers : Deliver(p)
           \/ UserSpeaks
  BY <1>2, AbortSessionKeeps, DeliverKeeps, UserSpeaksKeeps
<1>3. CASE \/ \E t \in Tabs : Drop(t) \/ Connect(t) \/ PersistAnswer(t) \/ ResolveAnswer(t)
           \/ \E t \in Tabs, p \in Callers, v \in Answers : Answer(t, p, v)
  BY <1>3, DropKeeps, ConnectKeeps, PersistAnswerKeeps, ResolveAnswerKeeps, AnswerKeeps
<1>4. CASE UNCHANGED promptVars
  BY <1>4, PromptStutterKeeps
<1>5. QED
  BY <1>1, <1>2, <1>3, <1>4 DEF PromptNext

LEMMA PromptInvHolds == PromptSpec => []PromptInv
  BY PromptInitKeeps, PromptStepKeeps, PTL DEF PromptSpec

\* Nothing but Record writes the ledger over an outcome, and Record keeps an answer.
LEMMA AnswerIsNotForgotten ==
  ASSUME PromptInv, [PromptNext]_promptVars, NEW s \in SessionsOfTurn, ledger[s] = "answered"
  PROVE  ledger'[s] = "answered"
<1> USE DEF PromptInv, PromptTypes, SessionsOfTurn
<1>1. CASE \E c \in Callers : HearAnswer(c) \/ TimeOut(c)
  BY <1>1 DEF HearAnswer, TimeOut, Record, SessionFor
<1>2. CASE UserSpeaks \/ \E t \in Tabs : ResolveAnswer(t)
  BY <1>2 DEF UserSpeaks, ResolveAnswer, Present
<1>3. CASE \E c \in Callers : \/ Ask(c) \/ LockedAsk(c) \/ EmitPrompt(c) \/ TimerFires(c)
                             \/ SeeAbort(c) \/ CancelCaller(c) \/ Deliver(c)
  BY <1>3 DEF Ask, LockedAsk, Register, EmitPrompt, TimerFires, SeeAbort, CancelCaller, Deliver
<1>4. CASE \/ UNCHANGED promptVars \/ \E r \in SessionsOfTurn : AbortSession(r)
           \/ \E t \in Tabs : Drop(t) \/ Connect(t) \/ PersistAnswer(t)
           \/ \E t \in Tabs, p \in Callers, v \in Answers : Answer(t, p, v)
  BY <1>4 DEF promptVars, AbortSession, Drop, Connect, PersistAnswer, Answer
<1>5. QED
  BY <1>1, <1>2, <1>3, <1>4 DEF PromptNext, CallerStep

\* The variables of the prompts stay in their types, whoever asks, answers, aborts or connects.
THEOREM PromptTypeCorrect == PromptSpec => []PromptTypeOK
<1>1. PromptInv => PromptTypeOK
  <2> SUFFICES ASSUME PromptInv PROVE PromptTypeOK
    OBVIOUS
  <2>1. \A p \in Callers : events[p] \in {Quiet, Shown, Closed, ShownAndClosed}
    BY DEF PromptInv, PromptTypes
  <2>2. \A p \in Callers : events[p] \in Seq(EventKinds) /\ Len(events[p]) \in {0, 1, 2}
    BY <2>1, EventSeqTypes
  <2>3. events \in [Callers -> Seq(EventKinds)]
    BY <2>2 DEF PromptInv, PromptTypes
  <2>4. \A p \in Callers : Len(events[p]) <= 2
    <3>1. \A n \in {0, 1, 2} : n <= 2
      OBVIOUS
    <3>2. QED
      BY <2>2, <3>1, Zenon
  <2>5. QED
    BY <2>3, <2>4 DEF PromptInv, PromptTypes, PromptTypeOK, EventKinds
<1>2. QED
  BY <1>1, PromptInvHolds, PTL

\* However many callers ask, tabs answer and sessions abort: a question is registered exactly
\* while its caller waits, callers with one question are not both shown or answered, a dead
\* prompt's dialog is closed by an event still to come, the answer the agent hears has its
\* row unless that could not be written, and an answer in the ledger is never forgotten or
\* made a failure.
THEOREM QuestionsStaySound == PromptSpec => PromptsAreSound
<1>1. PromptInv => RegisteredIsAwaited /\ AskedOnce /\ HeardIsRecorded
  BY DEF PromptInv, LockInv
<1>2. PromptInv => DeadDialogCloses
  BY EventSeqFacts DEF PromptInv, PromptTypes, EventInv, DeadDialogCloses
<1>3. PromptInv /\ [PromptNext]_promptVars =>
        [\A s \in SessionsOfTurn : ledger[s] = "answered" => ledger'[s] = "answered"]_promptVars
  BY AnswerIsNotForgotten
<1>4. QED
  BY <1>1, <1>2, <1>3, PromptInvHolds, PTL DEF PromptSpec, PromptsAreSound, AnswersStay

-----------------------------------------------------------------------------
LEMMA DelegationInitKeeps == DelegateInit => DelegationInv
<1> SUFFICES ASSUME DelegateInit PROVE DelegationInv
  OBVIOUS
<1> USE DelegationAssumption DEF DelegateInit, Agents, Gates, DelegationsOver
<1>1. DelegateTypeOK
  BY DEF DelegateTypeOK
<1>2. GateInv
  BY TurnsAreNumbers DEF GateInv, GateIsReturned
<1>3. TreeInv
  BY DEF TreeInv, TimeoutStaysBelow
<1>4. QED
  BY <1>1, <1>2, <1>3 DEF DelegationInv

LEMMA DelegationStutterKeeps ==
  ASSUME DelegationInv, UNCHANGED delegationVars
  PROVE  DelegationInv'
<1> USE DEF delegationVars
<1>1. DelegateTypeOK'
  BY DEF DelegationInv, DelegateTypeOK
<1>2. GateInv' /\ TreeInv'
  BY DEF DelegationInv, GateInv, TreeInv, GateIsReturned, TimeoutStaysBelow, Outermost
<1>3. QED
  BY <1>1, <1>2 DEF DelegationInv

LEMMA DelegationStepKeeps == DelegationInv /\ [DelegateNext]_delegationVars => DelegationInv'
<1> SUFFICES ASSUME DelegationInv, [DelegateNext]_delegationVars PROVE DelegationInv'
  OBVIOUS
<1>1. CASE \E c \in Calls : \/ (\E a \in Agents : Delegate(c, a))
                           \/ AcquireGate(c) \/ LeaveGate(c) \/ Expire(c) \/ EndCall(c)
  BY <1>1, DelegateKeeps, AcquireGateKeeps, LeaveGateKeeps, ExpireKeeps, EndCallKeeps
<1>2. CASE PressStop \/ UNCHANGED delegationVars
  BY <1>2, PressStopKeeps, DelegationStutterKeeps
<1>3. CASE \E a \in Agents : Watch(a) \/ FinishAgent(a) \/ UnwindAgent(a)
  BY <1>3, WatchKeeps, FinishAgentKeeps, UnwindAgentKeeps
<1>4. CASE \E n \in Turns : ReleaseTurn(n)
  BY <1>4, ReleaseTurnKeeps
<1>5. QED
  BY <1>1, <1>2, <1>3, <1>4 DEF DelegateNext

LEMMA DelegationInvHolds == DelegateSpec => []DelegationInv
  BY DelegationInitKeeps, DelegationStepKeeps, PTL DEF DelegateSpec

\* The variables of the delegations stay in their types, for any number of calls and turns.
THEOREM DelegationTypeCorrect == DelegateSpec => []DelegateTypeOK
<1>1. DelegationInv => DelegateTypeOK
  BY DEF DelegationInv
<1>2. QED
  BY <1>1, DelegationInvHolds, PTL

\* However calls end (by themselves, by a Stop, a time-out or the end of what called them):
\* a gate is held by a running outermost call only, an agent is cancelled by what is above
\* it only, and two outermost nested turns of one turn never run together.
THEOREM DelegationStaysContained == DelegateSpec => []DelegationIsContained
<1>1. DelegationInv => GateIsReturned /\ TimeoutStaysBelow
  BY DEF DelegationInv, GateInv, TreeInv
<1>2. DelegationInv => OutermostTakeTurns
  BY DEF DelegationInv, GateInv, OutermostTakeTurns, Outermost
<1>3. QED
  BY <1>1, <1>2, DelegationInvHolds, PTL DEF DelegationIsContained
-----------------------------------------------------------------------------
(***************************************************************************)
(* The loop of the model (AgentLoop).  LoopInv: calls without a result are *)
(* left behind by a pause only (CallsInv), a call at work is one of those  *)
(* (DoingInv), what a message id has saved is known at each step           *)
(* (SavedInv), and a stream has not ended before its loop closes           *)
(* (EndedInv).                                                             *)
(***************************************************************************)
BetweenCalls == {"idle", "head", "asking", "boundary"}

CallsInv ==
  /\ step \in {"head", "asking", "boundary"} /\ open # NoCalls => reply.stop = "pause_turn" /\ loop = "chat"
  /\ step = "idle" => open = NoCalls
  /\ step \in BetweenCalls \cup {"acting"} => pauses <= MaxPauses

DoingInv ==
  /\ step \in BetweenCalls => doing = "none"
  /\ step = "acting" => /\ open # NoCalls /\ open.plans <= reply.calls.plans
                        /\ doing = "tool" => open.tools > 0
                        /\ doing = "plan" => open.tools = 0

SavedInv ==
  /\ step \in {"idle", "head", "asking", "acting"} => saved = 0
  /\ step = "boundary" => saved <= 1 /\ ~unsaved
  /\ step \in {"closing", "unwinding"} => saved <= 1 /\ (saved = 0 \/ ~unsaved)
  /\ step = "over" => saved <= 1

EndedInv ==
  /\ step # "over" => ended = IF emitted THEN 1 ELSE 0
  /\ emitted => step \in {"closing", "over"} /\ ended = 1 /\ ~unsaved
  /\ step = "unwinding" => torn
  /\ step = "boundary" => loop = "chat"
  /\ step = "over" => ended <= 1 /\ ((ended = 1 /\ ~unsaved) \/ (loop = "task" /\ ~emitted /\ torn))

LoopInv == AgentLoopTypeOK /\ CallsInv /\ DoingInv /\ SavedInv /\ EndedInv

LEMMA LoopNumbers ==
  /\ MaxSteps \in Nat \ {0} /\ Factor \in Nat \ {0} /\ MaxPauses \in Nat /\ MaxTools \in Nat
  /\ MaxPlans \in Nat /\ MaxTyped \in Nat /\ Factor * MaxSteps \in Nat /\ NoCalls \in ToolCalls
<1>1. /\ MaxSteps \in Nat \ {0} /\ Factor \in Nat \ {0} /\ MaxPauses \in Nat /\ MaxTools \in Nat
      /\ MaxPlans \in Nat /\ MaxTyped \in Nat
  BY AgentLoopAssumption DEF AgentLoopAssumption
<1>2. NoCalls \in ToolCalls
  BY <1>1 DEF NoCalls, ToolCalls
<1>. QED
  BY <1>1, <1>2

LEMMA LoopInvAtFirst == AgentLoopInit => LoopInv
<1> SUFFICES ASSUME AgentLoopInit PROVE LoopInv
  OBVIOUS
<1>1. AgentLoopTypeOK
  <2>1. reply \in Replies
    BY LoopNumbers DEF AgentLoopInit, Replies, Stops
  <2>2. PICK valve \in Nat : valve = Factor * MaxSteps
    BY LoopNumbers
  <2>3. {unsaved, emitted, halted, torn} \subseteq BOOLEAN
    BY Zenon DEF AgentLoopInit
  <2>4. /\ loop \in {"chat", "task"} /\ step = "idle" /\ doing = "none" /\ open \in ToolCalls
        /\ budget \in 0 .. MaxSteps /\ reserve \in 0 .. valve /\ pauses \in 0 .. MaxPauses + 1
        /\ typed \in 0 .. MaxTyped /\ saved \in 0 .. 2 /\ ended \in 0 .. 2
    BY <2>2, LoopNumbers DEF AgentLoopInit
  <2>. QED
    BY <2>1, <2>2, <2>3, <2>4 DEF AgentLoopTypeOK
<1>2. CallsInv /\ DoingInv /\ SavedInv /\ EndedInv
  BY LoopNumbers DEF AgentLoopInit, CallsInv, DoingInv, SavedInv, EndedInv, BetweenCalls
<1>. QED
  BY <1>1, <1>2 DEF LoopInv

\* A message ends: with the loop, or for what the user typed.
LEMMA EndLoopKeeps ==
  ASSUME AgentLoopTypeOK, SavedInv, EndedInv, EndLoop, step \in {"head", "asking"},
         UNCHANGED <<loop, torn>>
  PROVE  /\ SavedInv' /\ EndedInv' /\ step' = "closing" /\ typed' = typed
         /\ unsaved' \in BOOLEAN /\ emitted' \in BOOLEAN /\ saved' \in 0 .. 2 /\ ended' \in 0 .. 2
<1>1. saved = 0 /\ ~emitted /\ ended = 0
  BY DEF SavedInv, EndedInv
<1>2. /\ saved' \in 0 .. 1 /\ unsaved' = FALSE /\ ended' = 1 /\ emitted' = TRUE /\ step' = "closing"
      /\ typed' = typed
  BY <1>1 DEF EndLoop, StreamEnds, SaveOutput
<1>3. ~unsaved' /\ emitted' /\ unsaved' \in BOOLEAN /\ emitted' \in BOOLEAN
  BY <1>2, Zenon
<1>4. SavedInv' /\ EndedInv'
  BY <1>2, <1>3 DEF SavedInv, EndedInv
<1>. QED
  BY <1>2, <1>3, <1>4

LEMMA FailLoopKeeps ==
  ASSUME AgentLoopTypeOK, SavedInv, EndedInv, FailLoop, step = "asking", UNCHANGED <<loop, torn>>
  PROVE  /\ SavedInv' /\ EndedInv' /\ step' = "closing" /\ typed' = typed
         /\ unsaved' \in BOOLEAN /\ emitted' \in BOOLEAN /\ saved' \in 0 .. 2 /\ ended' \in 0 .. 2
<1>1. CASE loop = "chat"
  BY <1>1, EndLoopKeeps DEF FailLoop
<1>2. CASE loop # "chat"
  BY <1>2 DEF FailLoop, AgentLoopTypeOK, SavedInv, EndedInv
<1>. QED
  BY <1>1, <1>2

LEMMA InjectKeeps ==
  ASSUME AgentLoopTypeOK, SavedInv, EndedInv, Inject, MayInject, step \in {"head", "asking"},
         UNCHANGED <<loop, torn>>
  PROVE  /\ SavedInv' /\ EndedInv' /\ step' = "boundary" /\ typed' = 0 /\ loop = "chat"
         /\ unsaved' \in BOOLEAN /\ emitted' \in BOOLEAN /\ saved' \in 0 .. 2 /\ ended' \in 0 .. 2
<1>1. saved = 0 /\ ~emitted /\ ended = 0 /\ loop = "chat"
  BY DEF SavedInv, EndedInv, MayInject
<1>2. /\ saved' \in 0 .. 1 /\ unsaved' = FALSE /\ ended' = 0 /\ emitted' = emitted /\ step' = "boundary"
      /\ typed' = 0
  BY <1>1 DEF Inject, SaveOutput
<1>3. ~unsaved' /\ unsaved' \in BOOLEAN
  BY <1>2, Zenon
<1>4. ~emitted' /\ emitted' \in BOOLEAN
  <2>1. emitted \in BOOLEAN
    BY DEF AgentLoopTypeOK
  <2>. QED
    BY <1>1, <1>2, <2>1, Zenon
<1>5. SavedInv' /\ EndedInv'
  BY <1>1, <1>2, <1>3, <1>4 DEF SavedInv, EndedInv
<1>. QED
  BY <1>1, <1>2, <1>3, <1>4, <1>5

LEMMA ContinueAtKeeps ==
  ASSUME AgentLoopTypeOK, SavedInv, EndedInv, NEW at \in {"head", "asking", "acting"}, ContinueAt(at),
         step \in {"head", "asking"}, UNCHANGED <<loop, torn>>
  PROVE  /\ SavedInv' /\ EndedInv' /\ step' = at /\ typed' = typed
         /\ unsaved' \in BOOLEAN /\ emitted' \in BOOLEAN /\ saved' \in 0 .. 2 /\ ended' \in 0 .. 2
  BY DEF ContinueAt, AgentLoopTypeOK, SavedInv, EndedInv

\* What a reply may lead to.
LEMMA ReplyLeads ==
  ASSUME AgentLoopTypeOK, CallsInv, ModelReplies
  PROVE  /\ step = "asking" /\ open = NoCalls /\ reply' \in Replies
         /\ UNCHANGED <<loop, budget, reserve, doing, halted, torn>>
         /\ \/ (EndLoop \/ FailLoop) /\ open' = open /\ pauses' \in 0 .. MaxPauses + 1
            \/ /\ Inject /\ MayInject /\ pauses' \in 0 .. MaxPauses
               /\ open' = open \/ (open' = reply'.calls /\ reply'.stop = "pause_turn")
            \/ ContinueAt("acting") /\ open' = reply'.calls /\ open' # NoCalls /\ pauses' = 0
            \/ ContinueAt("head") /\ open' = open /\ pauses' \in 0 .. MaxPauses
<1>1. /\ step = "asking" /\ open = NoCalls /\ reply' \in Replies
      /\ UNCHANGED <<loop, budget, reserve, doing, halted, torn>>
  BY DEF ModelReplies
<1>2. pauses \in 0 .. MaxPauses /\ MaxPauses \in Nat
  BY <1>1, LoopNumbers DEF CallsInv, BetweenCalls, AgentLoopTypeOK
<1>3. CASE reply'.stop = "refusal"
  BY <1>1, <1>2, <1>3 DEF ModelReplies
<1>4. CASE reply'.stop = "pause_turn"
  <2>1. Pause
    BY <1>4 DEF ModelReplies
  <2>2. CASE pauses + 1 > MaxPauses
    BY <1>1, <1>2, <1>4, <2>1, <2>2 DEF Pause, PauseTooOften
  <2>3. CASE ~(pauses + 1 > MaxPauses)
    <3>1. pauses + 1 \in 0 .. MaxPauses
      BY <1>2, <2>3
    <3>2. CASE reply'.calls # NoCalls
      BY <1>1, <2>1, <2>3, <3>2 DEF Pause, Act
    <3>3. CASE reply'.calls = NoCalls
      BY <1>1, <1>2, <2>1, <2>3, <3>1, <3>3 DEF Pause
    <3>. QED
      BY <3>2, <3>3
  <2>. QED
    BY <2>2, <2>3
<1>5. CASE reply'.stop \notin {"refusal", "pause_turn"}
  <2>1. CASE reply'.stop \in {"end_turn", "max_tokens"} /\ reply'.calls # NoCalls
    BY <1>1, <1>5, <2>1 DEF ModelReplies, Act
  <2>2. CASE ~(reply'.stop \in {"end_turn", "max_tokens"} /\ reply'.calls # NoCalls)
    <3>1. (IF MayInject THEN Inject ELSE EndLoop) /\ pauses' = pauses /\ open' = open
      BY <1>5, <2>2 DEF ModelReplies
    <3>. QED
      BY <1>1, <1>2, <3>1
  <2>. QED
    BY <2>1, <2>2
<1>. QED
  BY <1>1, <1>3, <1>4, <1>5

LEMMA ReplyKeeps ==
  ASSUME LoopInv, ModelReplies
  PROVE  LoopInv'
<1> USE DEF LoopInv
<1>1. /\ step = "asking" /\ open = NoCalls /\ reply' \in Replies /\ doing = "none"
      /\ UNCHANGED <<loop, budget, reserve, doing, halted, torn>>
  BY ReplyLeads DEF DoingInv, BetweenCalls
<1>2. /\ reply' \in Replies => reply'.calls \in ToolCalls
      /\ open \in ToolCalls /\ typed \in 0 .. MaxTyped /\ 0 \in 0 .. MaxTyped
      /\ MaxPauses \in Nat /\ \A n \in 0 .. MaxPauses : n \in 0 .. MaxPauses + 1
  BY LoopNumbers DEF Replies, AgentLoopTypeOK
<1>3. ASSUME SavedInv', EndedInv', step' \in {"closing", "boundary", "acting", "head"}, typed' \in {0, typed},
             unsaved' \in BOOLEAN, emitted' \in BOOLEAN, saved' \in 0 .. 2, ended' \in 0 .. 2,
             CallsInv', DoingInv', open' \in ToolCalls, pauses' \in 0 .. MaxPauses + 1
      PROVE  LoopInv'
  BY <1>1, <1>2, <1>3 DEF AgentLoopTypeOK
<1>4. ASSUME EndLoop \/ FailLoop, open' = open, pauses' \in 0 .. MaxPauses + 1 PROVE LoopInv'
  <2>1. /\ SavedInv' /\ EndedInv' /\ step' = "closing" /\ typed' = typed
        /\ unsaved' \in BOOLEAN /\ emitted' \in BOOLEAN /\ saved' \in 0 .. 2 /\ ended' \in 0 .. 2
    BY <1>1, <1>4, EndLoopKeeps, FailLoopKeeps
  <2>2. CallsInv' /\ DoingInv'
    BY <2>1 DEF CallsInv, DoingInv, BetweenCalls
  <2>. QED
    BY <1>2, <1>3, <1>4, <2>1, <2>2
<1>5. ASSUME Inject, MayInject, pauses' \in 0 .. MaxPauses,
             open' = open \/ (open' = reply'.calls /\ reply'.stop = "pause_turn")
      PROVE  LoopInv'
  <2>1. /\ SavedInv' /\ EndedInv' /\ step' = "boundary" /\ typed' = 0 /\ loop = "chat"
        /\ unsaved' \in BOOLEAN /\ emitted' \in BOOLEAN /\ saved' \in 0 .. 2 /\ ended' \in 0 .. 2
    BY <1>1, <1>5, InjectKeeps
  <2>2. CallsInv' /\ DoingInv'
    BY <1>1, <1>2, <1>5, <2>1 DEF CallsInv, DoingInv, BetweenCalls
  <2>. QED
    BY <1>1, <1>2, <1>3, <1>5, <2>1, <2>2
<1>6. ASSUME ContinueAt("acting"), open' = reply'.calls, open' # NoCalls, pauses' = 0 PROVE LoopInv'
  <2>1. /\ SavedInv' /\ EndedInv' /\ step' = "acting" /\ typed' = typed
        /\ unsaved' \in BOOLEAN /\ emitted' \in BOOLEAN /\ saved' \in 0 .. 2 /\ ended' \in 0 .. 2
    BY <1>1, <1>6, ContinueAtKeeps
  <2>2. open'.plans \in Nat /\ open'.plans <= reply'.calls.plans
    BY <1>1, <1>2, <1>6, LoopNumbers DEF ToolCalls
  <2>3. CallsInv' /\ DoingInv'
    BY <1>1, <1>2, <1>6, <2>1, <2>2 DEF CallsInv, DoingInv, BetweenCalls
  <2>. QED
    BY <1>1, <1>2, <1>3, <1>6, <2>1, <2>3
<1>7. ASSUME ContinueAt("head"), open' = open, pauses' \in 0 .. MaxPauses PROVE LoopInv'
  <2>1. /\ SavedInv' /\ EndedInv' /\ step' = "head" /\ typed' = typed
        /\ unsaved' \in BOOLEAN /\ emitted' \in BOOLEAN /\ saved' \in 0 .. 2 /\ ended' \in 0 .. 2
    BY <1>1, <1>7, ContinueAtKeeps
  <2>2. CallsInv' /\ DoingInv'
    BY <1>1, <1>2, <1>7, <2>1 DEF CallsInv, DoingInv, BetweenCalls
  <2>. QED
    BY <1>2, <1>3, <1>7, <2>1, <2>2
<1>. QED
  BY <1>4, <1>5, <1>6, <1>7, ReplyLeads

\* Every other step keeps the invariant; where the loop is tells what it touches.
LEMMA HeadKeeps ==
  ASSUME LoopInv, SeeAborted \/ RunOut \/ AskModel
  PROVE  LoopInv'
<1> USE DEF LoopInv
<1>1. /\ step = "head" /\ UNCHANGED headAlone
      /\ budget' \in 0 .. MaxSteps /\ reserve' \in 0 .. Factor * MaxSteps
      /\ EndLoop \/ (Inject /\ MayInject) \/ ContinueAt("asking")
  <2>1. PICK valve \in Nat : valve = Factor * MaxSteps
    BY LoopNumbers
  <2>2. budget \in 0 .. MaxSteps /\ reserve \in 0 .. valve /\ MaxSteps \in Nat
    BY <2>1, LoopNumbers DEF AgentLoopTypeOK
  <2>3. CASE SeeAborted
    BY <2>1, <2>2, <2>3 DEF SeeAborted
  <2>4. CASE RunOut
    BY <2>1, <2>2, <2>4 DEF RunOut
  <2>5. CASE AskModel
    BY <2>1, <2>2, <2>5 DEF AskModel
  <2>. QED
    BY <2>3, <2>4, <2>5
<1>2. UNCHANGED <<loop, pauses, reply, open, doing, halted, torn>>
  BY <1>1 DEF headAlone
<1>3. /\ SavedInv' /\ EndedInv' /\ typed' \in {0, typed} /\ step' \in {"closing", "boundary", "asking"}
      /\ unsaved' \in BOOLEAN /\ emitted' \in BOOLEAN /\ saved' \in 0 .. 2 /\ ended' \in 0 .. 2
  <2>1. CASE EndLoop
    BY <1>1, <1>2, <2>1, EndLoopKeeps
  <2>2. CASE Inject /\ MayInject
    BY <1>1, <1>2, <2>2, InjectKeeps
  <2>3. CASE ContinueAt("asking")
    BY <1>1, <1>2, <2>3, ContinueAtKeeps
  <2>. QED
    BY <1>1, <2>1, <2>2, <2>3
<1>4. CallsInv' /\ DoingInv'
  BY <1>1, <1>2, <1>3 DEF CallsInv, DoingInv, BetweenCalls
<1>5. AgentLoopTypeOK'
  BY <1>1, <1>2, <1>3, LoopNumbers DEF AgentLoopTypeOK
<1>. QED
  BY <1>3, <1>4, <1>5

LEMMA BoundaryKeeps ==
  ASSUME LoopInv, BeginLoop \/ EndBoundary \/ StreamText
  PROVE  LoopInv'
<1> USE DEF LoopInv
<1>1. CASE BeginLoop
  BY <1>1 DEF BeginLoop, AgentLoopTypeOK, CallsInv, DoingInv, BetweenCalls, SavedInv, EndedInv
<1>2. CASE EndBoundary
  <2>1. /\ step = "boundary" /\ step' = "head" /\ saved' = 0 /\ budget' = MaxSteps /\ MaxSteps \in Nat
        /\ UNCHANGED <<loop, reserve, pauses, reply, open, doing, typed, unsaved, ended, emitted, halted, torn>>
    BY <1>2, LoopNumbers DEF EndBoundary
  <2>. QED
    BY <2>1 DEF AgentLoopTypeOK, CallsInv, DoingInv, BetweenCalls, SavedInv, EndedInv
<1>3. CASE StreamText
  <2>1. /\ step = "asking" /\ unsaved' = TRUE
        /\ UNCHANGED <<loop, step, budget, reserve, pauses, reply, open, doing, typed, saved, ended, emitted,
                       halted, torn>>
    BY <1>3 DEF StreamText
  <2>2. AgentLoopTypeOK'
    BY <2>1 DEF AgentLoopTypeOK
  <2>3. CallsInv' /\ DoingInv' /\ SavedInv'
    BY <2>1 DEF CallsInv, DoingInv, BetweenCalls, SavedInv
  <2>4. ~emitted /\ emitted' = emitted
    BY <2>1 DEF EndedInv
  <2>5. EndedInv'
    BY <2>1, <2>4 DEF EndedInv
  <2>. QED
    BY <2>2, <2>3, <2>5
<1>. QED
  BY <1>1, <1>2, <1>3

\* A call begins and has its result.
LEMMA CallKeeps ==
  ASSUME LoopInv, StartCall \/ EndToolCall
  PROVE  LoopInv'
<1> USE DEF LoopInv
<1>1. PICK tools \in 0 .. MaxTools, plans \in 0 .. MaxPlans : open = [tools |-> tools, plans |-> plans]
  BY DEF AgentLoopTypeOK, ToolCalls
<1>2. reply.calls.plans \in 0 .. MaxPlans /\ MaxTools \in Nat /\ MaxPlans \in Nat
  BY LoopNumbers DEF AgentLoopTypeOK, Replies, ToolCalls
<1>3. CASE StartCall
  <2>1. /\ step = "acting" /\ doing' \in {"tool", "plan"} /\ unsaved' = TRUE
        /\ doing' = "tool" => open.tools > 0
        /\ doing' = "plan" => ~(open.tools > 0)
        /\ UNCHANGED <<loop, step, budget, reserve, pauses, reply, open, typed, saved, ended, emitted, halted, torn>>
    BY <1>3 DEF StartCall, NextCall, callAlone
  <2>2. AgentLoopTypeOK'
    BY <2>1 DEF AgentLoopTypeOK
  <2>3. CallsInv' /\ SavedInv'
    BY <2>1 DEF CallsInv, BetweenCalls, SavedInv
  <2>4. DoingInv'
    BY <1>1, <1>2, <2>1 DEF DoingInv, BetweenCalls
  <2>5. ~emitted /\ emitted' = emitted
    BY <2>1 DEF EndedInv
  <2>6. EndedInv'
    BY <2>1, <2>5 DEF EndedInv
  <2>. QED
    BY <2>2, <2>3, <2>4, <2>6
<1>4. CASE EndToolCall
  <2>1. /\ step = "acting" /\ doing \in {"tool", "plan"} /\ doing' = "none"
        /\ open' = IF doing = "tool" THEN [tools |-> tools - 1, plans |-> plans]
                                     ELSE [tools |-> tools, plans |-> plans - 1]
        /\ step' = IF open' = NoCalls THEN "head" ELSE "acting"
        /\ UNCHANGED <<loop, budget, reserve, pauses, reply, unsaved, typed, saved, ended, emitted, halted, torn>>
    BY <1>1, <1>4 DEF EndToolCall, callAlone, AgentLoopTypeOK
  <2>2. /\ doing = "tool" => tools > 0
        /\ doing = "plan" => tools = 0 /\ plans > 0
        /\ plans <= reply.calls.plans
    BY <1>1, <1>2, <2>1 DEF DoingInv, NoCalls
  <2>3. open' \in ToolCalls /\ open'.plans <= reply.calls.plans
    <3>1. CASE doing = "tool"
      BY <1>1, <1>2, <2>1, <2>2, <3>1 DEF ToolCalls
    <3>2. CASE doing = "plan"
      BY <1>1, <1>2, <2>1, <2>2, <3>2 DEF ToolCalls
    <3>. QED
      BY <2>1, <3>1, <3>2
  <2>4. AgentLoopTypeOK'
    BY <2>1, <2>3 DEF AgentLoopTypeOK
  <2>5. CallsInv' /\ DoingInv'
    BY <2>1, <2>3 DEF CallsInv, DoingInv, BetweenCalls
  <2>6. SavedInv' /\ EndedInv'
    BY <2>1 DEF SavedInv, EndedInv
  <2>. QED
    BY <2>4, <2>5, <2>6
<1>. QED
  BY <1>3, <1>4

LEMMA EndKeeps ==
  ASSUME LoopInv, ModelFails \/ BreakLoop \/ Unwind
  PROVE  LoopInv'
<1> USE DEF LoopInv
<1>1. CASE ModelFails
  <2>1. /\ SavedInv' /\ EndedInv' /\ step' = "closing" /\ typed' = typed
        /\ unsaved' \in BOOLEAN /\ emitted' \in BOOLEAN /\ saved' \in 0 .. 2 /\ ended' \in 0 .. 2
        /\ UNCHANGED <<loop, budget, reserve, pauses, reply, open, doing, halted, torn>>
    BY <1>1, FailLoopKeeps DEF ModelFails
  <2>2. CallsInv' /\ DoingInv'
    BY <2>1 DEF CallsInv, DoingInv, BetweenCalls
  <2>3. AgentLoopTypeOK'
    BY <2>1 DEF AgentLoopTypeOK
  <2>. QED
    BY <2>1, <2>2, <2>3
<1>2. CASE BreakLoop \/ Unwind
  <2>1. /\ step \in {"asking", "acting", "boundary"} /\ step' \in {"closing", "unwinding"}
        /\ step' = "unwinding" => torn
        /\ step' = "closing" => step # "boundary"
        /\ UNCHANGED <<loop, budget, reserve, pauses, reply, open, doing, typed, unsaved, saved, ended, emitted,
                       halted, torn>>
    BY <1>2 DEF BreakLoop, Unwind, callAlone
  <2>2. AgentLoopTypeOK' /\ CallsInv' /\ DoingInv'
    BY <2>1 DEF AgentLoopTypeOK, CallsInv, DoingInv, BetweenCalls
  <2>3. SavedInv' /\ EndedInv'
    BY <2>1 DEF SavedInv, EndedInv
  <2>. QED
    BY <2>2, <2>3
<1>. QED
  BY <1>1, <1>2

LEMMA CloseKeeps ==
  ASSUME LoopInv, CloseLoop
  PROVE  LoopInv'
<1> USE DEF LoopInv
<1>1. /\ step \in {"closing", "unwinding"} /\ step' = "over"
      /\ UNCHANGED <<loop, budget, reserve, pauses, reply, open, doing, typed, emitted, halted, torn>>
  BY DEF CloseLoop
<1>2. CallsInv' /\ DoingInv'
  BY <1>1 DEF CallsInv, DoingInv, BetweenCalls
<1>3. CASE ~emitted /\ (loop = "chat" \/ step = "closing")
  <2>1. ended = 0 /\ saved \in 0 .. 2 /\ saved <= 1 /\ (saved = 0 \/ ~unsaved)
    BY <1>1, <1>3 DEF SavedInv, EndedInv, AgentLoopTypeOK
  <2>2. saved' \in 0 .. 1 /\ unsaved' = FALSE /\ ended' = 1
    BY <1>3, <2>1 DEF CloseLoop, StreamEnds, SaveOutput
  <2>3. ~unsaved' /\ unsaved' \in BOOLEAN
    BY <2>2, Zenon
  <2>4. ~emitted'
    BY <1>1, <1>3
  <2>5. SavedInv' /\ EndedInv'
    BY <1>1, <2>2, <2>3, <2>4 DEF SavedInv, EndedInv
  <2>6. AgentLoopTypeOK'
    BY <1>1, <2>2, <2>3 DEF AgentLoopTypeOK
  <2>. QED
    BY <1>2, <2>5, <2>6
<1>4. CASE ~(~emitted /\ (loop = "chat" \/ step = "closing"))
  <2>1. UNCHANGED <<unsaved, saved, ended>>
    BY <1>4 DEF CloseLoop
  <2>2. AgentLoopTypeOK' /\ SavedInv'
    BY <1>1, <2>1 DEF AgentLoopTypeOK, SavedInv
  <2>3. EndedInv'
    BY <1>1, <1>4, <2>1 DEF EndedInv, AgentLoopTypeOK
  <2>. QED
    BY <1>2, <2>2, <2>3
<1>. QED
  BY <1>3, <1>4

LEMMA OutsideKeeps ==
  ASSUME LoopInv, TypeMessage \/ HaltLoop \/ UNCHANGED loopState
  PROVE  LoopInv'
<1> USE DEF LoopInv
<1>1. /\ UNCHANGED <<loop, step, budget, reserve, pauses, reply, open, doing, unsaved, saved, ended, emitted>>
      /\ typed' \in 0 .. MaxTyped /\ halted' \in BOOLEAN /\ torn' \in BOOLEAN
      /\ torn => torn'
  <2>1. CASE TypeMessage
    BY <2>1, LoopNumbers DEF TypeMessage, outsideAlone, AgentLoopTypeOK
  <2>2. CASE HaltLoop
    BY <2>2 DEF HaltLoop, outsideAlone, AgentLoopTypeOK
  <2>3. CASE UNCHANGED loopState
    BY <2>3 DEF loopState, AgentLoopTypeOK
  <2>. QED
    BY <2>1, <2>2, <2>3
<1>2. AgentLoopTypeOK'
  BY <1>1 DEF AgentLoopTypeOK
<1>3. CallsInv' /\ DoingInv' /\ SavedInv'
  BY <1>1 DEF CallsInv, DoingInv, BetweenCalls, SavedInv
<1>4. EndedInv'
  BY <1>1 DEF EndedInv
<1>. QED
  BY <1>2, <1>3, <1>4

LEMMA LoopInvHolds == AgentLoopSpec => []LoopInv
<1>1. LoopInv /\ [AgentLoopNext]_loopState => LoopInv'
  BY ReplyKeeps, HeadKeeps, BoundaryKeeps, CallKeeps, EndKeeps, CloseKeeps, OutsideKeeps
     DEF AgentLoopNext, LoopGoesOn
<1>. QED
  BY <1>1, LoopInvAtFirst, PTL DEF AgentLoopSpec

\* The variables of the loop stay in their types, for any budgets and any number of calls.
THEOREM LoopTypeCorrect == AgentLoopSpec => []AgentLoopTypeOK
<1>1. LoopInv => AgentLoopTypeOK
  BY DEF LoopInv
<1>. QED
  BY <1>1, LoopInvHolds, PTL

\* Whatever the model replies, whatever the user types and whenever a Stop or a cancellation
\* falls: a request answers all earlier calls (but those of one pause too many), a plan runs
\* when its siblings have their results, a message id gets one row, and the stream ends
\* exactly once with all output saved (_run_loop, _run_task_loop).
THEOREM LoopStaysSound == AgentLoopSpec => []LoopIsSound
<1>1. LoopInv => RequestsAnswerCalls /\ OneRowPerMessage /\ StreamEndsOnce
  <2>1. LoopInv => RequestsAnswerCalls
    BY DEF LoopInv, CallsInv, RequestsAnswerCalls
  <2>2. LoopInv => OneRowPerMessage
    BY DEF LoopInv, SavedInv, OneRowPerMessage, AgentLoopTypeOK
  <2>3. LoopInv => StreamEndsOnce
    BY DEF LoopInv, EndedInv, StreamEndsOnce
  <2>. QED
    BY <2>1, <2>2, <2>3
<1>2. LoopInv => SiblingsAreAnswered
  <2> SUFFICES ASSUME LoopInv, step = "acting", doing = "plan"
               PROVE  open.tools = 0 /\ (open.plans = 1 \/ reply.calls.plans > 1)
    BY DEF SiblingsAreAnswered
  <2>1. PICK tools \in Nat, plans \in Nat : open = [tools |-> tools, plans |-> plans]
    BY LoopNumbers DEF LoopInv, AgentLoopTypeOK, ToolCalls
  <2>2. tools = 0 /\ plans # 0 /\ plans <= reply.calls.plans /\ reply.calls.plans \in Nat
    BY <2>1, LoopNumbers DEF LoopInv, DoingInv, NoCalls, AgentLoopTypeOK, Replies, ToolCalls
  <2>. QED
    BY <2>1, <2>2
<1>. QED
  BY <1>1, <1>2, LoopInvHolds, PTL DEF LoopIsSound

-----------------------------------------------------------------------------
(***************************************************************************)
(* The tasks of a plan (TaskPlan).  PlanInv: where a task is tells what    *)
(* sets it is in and what has been told of it (PlacesInv); where the       *)
(* planner is tells what may have happened (StagesInv); while nothing      *)
(* interrupts it, whatever is ready, or depends on a failure, has been     *)
(* dispatched (FrontInv), so that, the graph having no cycle, nothing is   *)
(* left when no task is at work.                                           *)
(***************************************************************************)
PlacesInv ==
  \A t \in PlanTasks :
    /\ task[t] # "none" => t \in dispatched
    /\ task[t] = "none" /\ t \in dispatched => t \in failed
    /\ t \in completed => task[t] = "over" /\ t \notin failed
    /\ t \in failed => task[t] \in {"none", "over"}
    /\ task[t] = "over" /\ t \notin completed \cup failed => cancelled
    /\ t \in completed \cup failed \/ task[t] \in {"succeeded", "broke"} => notices[t] = 1
    /\ task[t] \in {"queued", "running"} \/ (task[t] = "none" /\ t \notin failed) => notices[t] = 0
    /\ notices[t] <= 1

StagesInv ==
  /\ planner = "idle" => dispatched = {} /\ completed = {} /\ failed = {}
  /\ planner # "returned" => failed \subseteq dispatched
  /\ cancelled => planAborted /\ planner \in {"gathering", "raised"}
  /\ interrupted # {} => cancelled
  /\ planner \in {"returned", "deferred"} => LiveTasks = {}
  /\ planner = "returned" => \A t \in PlanTasks : notices[t] = 1

FrontInv ==
  planner = "gathering" /\ ~planAborted =>
    \A t \in PlanTasks :
      /\ ~inputWaits /\ deps[t] \subseteq completed => t \in dispatched
      /\ deps[t] \cap failed # {} => t \in dispatched

PlanInv ==
  /\ PlanTypeOK /\ PlacesInv /\ StagesInv /\ FrontInv /\ Acyclic(deps)
  /\ DependenciesFirst /\ SkippedForAReason

\* What depends on something directly comes after all that comes before it.
LEMMA BeforeFacts ==
  ASSUME PlanTypeOK, NEW v \in PlanTasks, NEW w \in deps[v]
  PROVE  w \in Before(v) /\ Before(w) \subseteq Before(v)
<1>1. w \in PlanTasks
  BY DEF PlanTypeOK
<1>2. w \in Before(v)
  BY <1>1 DEF Before, Reachable
<1>3. ASSUME NEW x \in Before(w) PROVE x \in Before(v)
  <2> SUFFICES ASSUME NEW R \in SUBSET PlanTasks, deps[v] \subseteq R,
                      \A u \in R : deps[u] \subseteq R
               PROVE  x \in R
    BY <1>3 DEF Before, Reachable
  <2>1. deps[w] \subseteq R
    OBVIOUS
  <2>. QED
    BY <1>3, <2>1 DEF Before, Reachable
<1>. QED
  BY <1>2, <1>3

\* What is skipped after t was not settled, is not t and comes after t; and all such is skipped.
LEMMA CascadeFacts ==
  ASSUME PlanTypeOK, NEW t \in PlanTasks, NEW settled
  PROVE  /\ \A u \in Cascade(t, settled) : u \in PlanTasks \ settled /\ u # t /\ t \in Before(u)
         /\ \A w \in {t} \cup Cascade(t, settled) : \A v \in PlanTasks \ settled :
              w \in deps[v] => v \in {t} \cup Cascade(t, settled)
<1> DEFINE next == [u \in PlanTasks |-> {v \in PlanTasks \ settled : u \in deps[v]}]
<1> DEFINE closure == Reachable({t}, next)
<1>1. Cascade(t, settled) = closure \ {t}
  BY DEF Cascade
<1>2. \A u \in closure : u \in PlanTasks /\ (u \notin settled \/ u = t)
  <2> DEFINE R == {t} \cup (PlanTasks \ settled)
  <2>1. R \in SUBSET PlanTasks /\ {t} \subseteq R /\ \A u \in R : next[u] \subseteq R
    OBVIOUS
  <2>. QED
    BY <2>1 DEF Reachable
<1>3. \A u \in closure : u = t \/ t \in Before(u)
  <2> DEFINE R == {u \in PlanTasks : u = t \/ t \in Before(u)}
  <2>1. ASSUME NEW w \in R, NEW v \in next[w] PROVE v \in R
    <3>1. v \in PlanTasks /\ w \in deps[v]
      OBVIOUS
    <3>2. w \in Before(v) /\ Before(w) \subseteq Before(v)
      BY <3>1, BeforeFacts
    <3>. QED
      BY <2>1, <3>1, <3>2
  <2>2. R \in SUBSET PlanTasks /\ {t} \subseteq R
    OBVIOUS
  <2> HIDE DEF R
  <2>3. \A u \in closure : u \in R
    BY <2>1, <2>2 DEF Reachable
  <2>. QED
    BY <2>3 DEF R
<1>4. t \in closure
  BY DEF Reachable
<1>5. ASSUME NEW w \in closure, NEW v \in PlanTasks \ settled, w \in deps[v] PROVE v \in closure
  <2>1. v \in next[w]
    BY <1>2, <1>5
  <2> HIDE DEF next
  <2>2. \A R \in SUBSET PlanTasks : {t} \subseteq R /\ (\A u \in R : next[u] \subseteq R) => w \in R
    BY DEF Reachable
  <2>. QED
    BY <2>1, <2>2 DEF Reachable
<1> HIDE DEF closure
<1>. QED
  BY <1>1, <1>2, <1>3, <1>4, <1>5

\* The dependencies that task mode goes by have no cycle, whatever the model wrote.
LEMMA DependenciesHaveNoCycle ==
  ASSUME NEW plan \in Plans
  PROVE  Dependencies(plan) \in [PlanTasks -> SUBSET PlanTasks] /\ Acyclic(Dependencies(plan))
<1>1. plan \in [PlanTasks -> SUBSET PlanTasks] /\ PlanTasks = 1..Cardinality(PlanTasks)
      /\ Cardinality(PlanTasks) \in Nat
  BY PlanAssumption, FS_CardinalityType
<1> DEFINE n == Cardinality(PlanTasks)
<1> DEFINE chain == [t \in PlanTasks |-> IF t = 1 THEN {} ELSE {t - 1}]
<1>2. CASE Acyclic(plan)
  BY <1>1, <1>2 DEF Dependencies
<1>3. CASE ~Acyclic(plan)
  <2>1. Dependencies(plan) = chain
    BY <1>3 DEF Dependencies
  <2>2. \A t \in PlanTasks : t \in Nat /\ t >= 1 /\ (t # 1 => t - 1 \in PlanTasks)
    BY <1>1
  <2>3. chain \in [PlanTasks -> SUBSET PlanTasks]
    BY <2>2
  <2>4. ASSUME NEW visited \in SUBSET PlanTasks,
               \A t \in PlanTasks : chain[t] \subseteq visited => t \in visited
        PROVE  visited = PlanTasks
    <3> SUFFICES ASSUME visited # PlanTasks PROVE FALSE
      OBVIOUS
    <3> DEFINE T == PlanTasks \ visited
    <3>1. T \subseteq Nat /\ T # {}
      BY <2>2
    <3>2. PICK x \in T : \A y \in T : ~(<<y, x>> \in OpToRel(<, Nat))
      BY <3>1, NatLessThanWellFounded, WFMin
    <3>3. \A y \in T : ~(y < x)
      BY <3>1, <3>2 DEF OpToRel
    <3>4. x \in Nat /\ x >= 1 /\ (x # 1 => x - 1 \in PlanTasks)
      BY <2>2
    <3>5. x = 1 \/ x - 1 \in visited
      BY <3>3, <3>4
    <3>. QED
      BY <2>4, <3>4, <3>5
  <2>. QED
    BY <2>1, <2>3, <2>4 DEF Acyclic
<1>. QED
  BY <1>2, <1>3

LEMMA TellOnceFacts ==
  ASSUME PlanTypeOK, NEW t \in PlanTasks, notices[t] = 0, TellOnce({t})
  PROVE  notices' = [notices EXCEPT ![t] = 1]
<1>1. \A u \in PlanTasks : u # t => notices'[u] = notices[u]
  BY DEF TellOnce
<1>2. notices'[t] = 1 /\ notices' = [u \in PlanTasks |-> notices'[u]]
  BY DEF TellOnce
<1>. QED
  BY <1>1, <1>2 DEF PlanTypeOK

-----------------------------------------------------------------------------
LEMMA PlanInitKeeps == PlanInit => PlanInv
<1> SUFFICES ASSUME PlanInit PROVE PlanInv
  OBVIOUS
<1>1. PICK plan \in Plans : deps = Dependencies(plan)
  BY DEF PlanInit
<1>2. deps \in [PlanTasks -> SUBSET PlanTasks] /\ Acyclic(deps)
  BY <1>1, DependenciesHaveNoCycle
<1>3. PlanTypeOK
  <2>1. inputWaits \in BOOLEAN /\ planAborted \in BOOLEAN /\ cancelled \in BOOLEAN
    BY DEF PlanInit
  <2>2. /\ task = [t \in PlanTasks |-> "none"] /\ notices = [t \in PlanTasks |-> 0] /\ planner = "idle"
        /\ completed = {} /\ failed = {} /\ dispatched = {} /\ gathered = {} /\ interrupted = {}
    BY DEF PlanInit
  <2>. QED
    BY <1>2, <2>1, <2>2 DEF PlanTypeOK
<1>4. PlacesInv /\ StagesInv
  BY DEF PlanInit, PlacesInv, StagesInv
<1>5. FrontInv /\ DependenciesFirst /\ SkippedForAReason
  BY DEF PlanInit, FrontInv, DependenciesFirst, SkippedForAReason
<1>. QED
  BY <1>2, <1>3, <1>4, <1>5 DEF PlanInv

LEMMA StartPlanKeeps ==
  ASSUME PlanInv, StartPlan
  PROVE  PlanInv'
<1> USE DEF PlanInv, PlanTypeOK
<1>1. \A t \in PlanTasks : task[t] = "none"
  BY DEF StartPlan, PlacesInv, StagesInv
<1>2. /\ dispatched' = Ready({}, {}) /\ dispatched' \subseteq PlanTasks
      /\ \A t \in dispatched' : deps[t] = {}
      /\ ~planAborted /\ ~inputWaits => \A t \in PlanTasks : deps[t] = {} => t \in dispatched'
      /\ task' = [t \in PlanTasks |-> IF t \in dispatched' THEN "queued" ELSE "none"]
  BY <1>1 DEF StartPlan, Ready, Queue
<1>3. planner = "idle" /\ planner' = "gathering" /\ gathered' = dispatched'
      /\ UNCHANGED <<deps, completed, failed, notices, interrupted, planAborted, cancelled, inputWaits>>
  BY DEF StartPlan
<1>4. PlanTypeOK' /\ Acyclic(deps)'
  BY <1>2, <1>3 DEF Acyclic
<1>5. PlacesInv' /\ StagesInv'
  BY <1>1, <1>2, <1>3 DEF PlacesInv, StagesInv
<1>6. FrontInv'
  BY <1>2, <1>3 DEF FrontInv, StagesInv
<1>7. DependenciesFirst' /\ SkippedForAReason'
  BY <1>2, <1>3 DEF DependenciesFirst, SkippedForAReason, StagesInv
<1>. QED
  BY <1>4, <1>5, <1>6, <1>7

LEMMA StartTaskKeeps ==
  ASSUME NEW t \in PlanTasks, PlanInv, StartTask(t)
  PROVE  PlanInv'
<1> USE DEF PlanInv, PlanTypeOK
<1>1. /\ task[t] = "queued" /\ notices[t] = 0
      /\ UNCHANGED <<deps, planner, completed, dispatched, gathered, interrupted, planAborted, cancelled,
                     inputWaits>>
  BY DEF StartTask, PlacesInv
<1>2. CASE ~planAborted
  <2>1. task' = [task EXCEPT ![t] = "running"] /\ UNCHANGED <<failed, notices>>
    BY <1>2 DEF StartTask, SetTask
  <2>. QED
    BY <1>1, <2>1 DEF PlacesInv, StagesInv, FrontInv, DependenciesFirst, SkippedForAReason, LiveTasks,
                      Acyclic, Before
<1>3. CASE planAborted
  <2>1. /\ task' = [task EXCEPT ![t] = "over"] /\ failed' = failed \cup {t}
        /\ notices' = [notices EXCEPT ![t] = 1]
    BY <1>1, <1>3, TellOnceFacts DEF StartTask, SetTask
  <2>2. PlanTypeOK' /\ Acyclic(deps)' /\ FrontInv' /\ DependenciesFirst' /\ SkippedForAReason'
    BY <1>1, <1>3, <2>1 DEF FrontInv, DependenciesFirst, SkippedForAReason, Acyclic
  <2>3. PlacesInv' /\ StagesInv'
    BY <1>1, <1>3, <2>1 DEF PlacesInv, StagesInv, LiveTasks
  <2>. QED
    BY <2>2, <2>3
<1>. QED
  BY <1>2, <1>3

LEMMA EndTaskKeeps ==
  ASSUME NEW t \in PlanTasks, PlanInv, EndTask(t)
  PROVE  PlanInv'
<1> USE DEF PlanInv, PlanTypeOK
<1>1. /\ task[t] = "running" /\ notices[t] = 0 /\ interrupted' = interrupted \ {t}
      /\ UNCHANGED <<deps, planner, completed, failed, dispatched, gathered, planAborted, cancelled, inputWaits>>
  BY DEF EndTask, PlacesInv
<1>0. notices' = [notices EXCEPT ![t] = 1]
  BY <1>1, TellOnceFacts DEF EndTask
<1>2. PICK s \in {"broke", "succeeded"} : task' = [task EXCEPT ![t] = s]
  BY DEF EndTask, SetTask
<1>3. PlanTypeOK' /\ Acyclic(deps)' /\ FrontInv' /\ DependenciesFirst' /\ SkippedForAReason'
  BY <1>0, <1>1, <1>2 DEF FrontInv, DependenciesFirst, SkippedForAReason, Acyclic, Before
<1>4. PlacesInv' /\ StagesInv'
  BY <1>0, <1>1, <1>2 DEF PlacesInv, StagesInv, LiveTasks
<1>. QED
  BY <1>3, <1>4

LEMMA UnwindTaskKeeps ==
  ASSUME NEW t \in PlanTasks, PlanInv, UnwindTask(t)
  PROVE  PlanInv'
<1> USE DEF PlanInv, PlanTypeOK
<1>1. /\ task[t] \notin {"none", "over"} /\ cancelled /\ interrupted' = interrupted \ {t}
      /\ task' = [task EXCEPT ![t] = "over"]
      /\ UNCHANGED <<deps, planner, completed, failed, dispatched, notices, gathered, planAborted,
                     cancelled, inputWaits>>
  BY DEF UnwindTask, LiveTasks, SetTask, StagesInv
<1>2. PlanTypeOK' /\ Acyclic(deps)' /\ FrontInv' /\ DependenciesFirst' /\ SkippedForAReason'
  BY <1>1 DEF FrontInv, DependenciesFirst, SkippedForAReason, Acyclic, Before
<1>3. PlacesInv' /\ StagesInv'
  BY <1>1 DEF PlacesInv, StagesInv, LiveTasks
<1>. QED
  BY <1>2, <1>3

LEMMA SettleTaskKeeps ==
  ASSUME NEW t \in PlanTasks, PlanInv, SettleTask(t)
  PROVE  PlanInv'
<1> USE DEF PlanInv, PlanTypeOK
<1> DEFINE settled == completed \cup failed \cup dispatched
<1>1. /\ task[t] \in {"succeeded", "broke"} /\ t \in dispatched /\ t \notin completed \cup failed
      /\ notices[t] = 1 /\ UNCHANGED settleAlone
  BY DEF SettleTask, Ended, PlacesInv
<1>2. PICK skipped \in SUBSET PlanTasks, new \in SUBSET PlanTasks :
        /\ task[t] = "broke" => skipped = Cascade(t, settled)
        /\ task[t] # "broke" => skipped = {}
        /\ new = Ready(completed', dispatched \cup skipped)
        /\ completed' = IF task[t] = "succeeded" THEN completed \cup {t} ELSE completed
        /\ failed' = IF task[t] = "broke" THEN failed \cup skipped \cup {t} ELSE failed
        /\ TellOnce(skipped) /\ dispatched' = dispatched \cup skipped \cup new
        /\ task' = Queue([task EXCEPT ![t] = "over"], new)
  <2>1. Cascade(t, settled) \in SUBSET PlanTasks /\ \A D, S : Ready(D, S) \in SUBSET PlanTasks
    BY CascadeFacts DEF Ready
  <2>. QED
    BY <2>1 DEF SettleTask
<1>3. /\ \A u \in skipped : u \notin settled /\ u # t /\ t \in Before(u) /\ task[u] = "none" /\ notices[u] = 0
      /\ skipped # {} => task[t] = "broke"
  BY <1>2, CascadeFacts DEF PlacesInv
<1>4. /\ \A u \in new : u \notin dispatched \cup skipped /\ deps[u] \subseteq completed' /\ task[u] = "none"
      /\ ~planAborted /\ ~inputWaits =>
           \A u \in PlanTasks : deps[u] \subseteq completed' => u \in dispatched'
  BY <1>2 DEF Ready, PlacesInv
<1>5. \A u \in PlanTasks : task'[u] = IF u \in new THEN "queued" ELSE IF u = t THEN "over" ELSE task[u]
  BY <1>2 DEF Queue
<1>6. \A u \in PlanTasks : notices'[u] = IF u \in skipped THEN 1 ELSE notices[u]
  BY <1>2, <1>3 DEF TellOnce
<1>0. planner \notin {"idle", "returned", "deferred"}
  BY <1>1 DEF StagesInv, LiveTasks
<1>7. PlanTypeOK' /\ Acyclic(deps)'
  <2>1. task' \in [PlanTasks -> {"none", "queued", "running", "succeeded", "broke", "over"}]
    BY <1>2, <1>5 DEF Queue
  <2>2. notices' \in [PlanTasks -> 0..2]
    BY <1>2, <1>6 DEF TellOnce
  <2>. QED
    BY <1>1, <1>2, <2>1, <2>2 DEF settleAlone, Acyclic
<1>8. PlacesInv'
  <2>1. UNCHANGED cancelled /\ (cancelled' <=> cancelled)
    BY <1>1 DEF settleAlone
  <2>2. \A u \in PlanTasks :
          /\ u \in dispatched' <=> u \in dispatched \/ u \in skipped \/ u \in new
          /\ u \in completed' <=> u \in completed \/ (u = t /\ task[t] = "succeeded")
          /\ u \in failed' <=> u \in failed \/ u \in skipped \/ (u = t /\ task[t] = "broke")
    BY <1>1, <1>2, <1>3
  <2>3. \A u \in PlanTasks : u \in skipped \/ u \in new => u # t /\ u \notin completed \cup failed
    BY <1>1, <1>3, <1>4, <1>0 DEF PlacesInv, StagesInv
  <2>4. \A u \in new : notices[u] = 0 /\ u \notin skipped
    BY <1>4, <2>3 DEF PlacesInv
  <2> SUFFICES ASSUME NEW u \in PlanTasks
               PROVE  /\ task'[u] # "none" => u \in dispatched'
                      /\ task'[u] = "none" /\ u \in dispatched' => u \in failed'
                      /\ u \in completed' => task'[u] = "over" /\ u \notin failed'
                      /\ u \in failed' => task'[u] \in {"none", "over"}
                      /\ task'[u] = "over" /\ u \notin completed' \cup failed' => cancelled
                      /\ u \in completed' \cup failed' \/ task'[u] \in {"succeeded", "broke"} => notices'[u] = 1
                      /\ task'[u] \in {"queued", "running"} \/ (task'[u] = "none" /\ u \notin failed') =>
                           notices'[u] = 0
                      /\ notices'[u] <= 1
    BY <2>1 DEF PlacesInv
  <2>5. CASE u = t
    BY <1>1, <1>5, <1>6, <2>2, <2>3, <2>5 DEF PlacesInv
  <2>6. CASE u \in skipped \cup new
    BY <1>1, <1>3, <1>4, <1>5, <1>6, <2>2, <2>3, <2>4, <2>6 DEF PlacesInv
  <2>7. CASE u # t /\ u \notin skipped \cup new
    BY <1>5, <1>6, <2>2, <2>7 DEF PlacesInv
  <2>. QED
    BY <2>5, <2>6, <2>7
<1>9. StagesInv'
  BY <1>1, <1>2, <1>0 DEF StagesInv, settleAlone
<1>10. FrontInv'
  <2> SUFFICES ASSUME planner = "gathering", ~planAborted, NEW v \in PlanTasks, deps[v] \cap failed' # {}
               PROVE  v \in dispatched'
    BY <1>1, <1>4 DEF FrontInv, settleAlone
  <2>1. CASE deps[v] \cap failed # {}
    BY <1>2, <2>1 DEF FrontInv
  <2>2. CASE task[t] = "broke" /\ deps[v] \cap ({t} \cup skipped) # {}
    <3>0. skipped = Cascade(t, settled)
      BY <1>2, <2>2
    <3> HIDE DEF settled
    <3>1. v \in {t} \cup skipped \/ v \in settled
      BY <2>2, <3>0, CascadeFacts
    <3>2. completed \cup failed \subseteq dispatched
      BY DEF PlacesInv, StagesInv
    <3>. QED
      BY <1>1, <1>2, <3>1, <3>2 DEF settled
  <2>. QED
    BY <1>2, <2>1, <2>2
<1>11. DependenciesFirst'
  BY <1>1, <1>2, <1>4, <1>5 DEF DependenciesFirst, settleAlone
<1>12. SkippedForAReason'
  <2>1. \A u \in PlanTasks : Before(u)' = Before(u)
    BY <1>1 DEF Before, settleAlone
  <2> SUFFICES ASSUME NEW u \in failed', task'[u] = "none"
               PROVE  planAborted \/ Before(u) \cap failed' # {}
    BY <1>1, <1>2, <2>1 DEF SkippedForAReason, settleAlone
  <2>2. CASE u \in failed
    BY <1>2, <1>5, <2>2 DEF SkippedForAReason
  <2>3. CASE u \in skipped
    BY <1>2, <1>3, <2>3
  <2>. QED
    BY <1>2, <1>5, <2>2, <2>3
<1>. QED
  BY <1>7, <1>8, <1>9, <1>10, <1>11, <1>12

\* Nothing interrupts the planner and nothing is at work: every task has its end.
LEMMA NothingIsLeft ==
  ASSUME PlanInv, planner = "gathering", ~planAborted, ~inputWaits, LiveTasks = {}
  PROVE  PlanTasks = completed \cup failed
<1> USE DEF PlanInv, PlanTypeOK
<1>1. ~cancelled
  BY DEF StagesInv
<1>2. \A t \in dispatched : t \in completed \cup failed
  BY <1>1 DEF PlacesInv, LiveTasks
<1>3. ASSUME NEW t \in PlanTasks, deps[t] \subseteq dispatched PROVE t \in dispatched
  BY <1>2, <1>3 DEF FrontInv
<1>4. dispatched = PlanTasks
  BY <1>3 DEF Acyclic
<1>. QED
  BY <1>2, <1>4

LEMMA GatherEndsKeeps ==
  ASSUME PlanInv, GatherEnds
  PROVE  PlanInv'
<1> USE DEF PlanInv, PlanTypeOK
<1>1. /\ planner = "gathering"
      /\ UNCHANGED <<deps, task, completed, dispatched, interrupted, planAborted, cancelled, inputWaits>>
      /\ Acyclic(deps)' /\ LiveTasks' = LiveTasks
  BY DEF GatherEnds, Acyclic, LiveTasks
<1>2. CASE UNCHANGED <<failed, notices>> /\ planner' # "returned"
  <2>1. /\ planner' \in {"gathering", "deferred", "raised"} /\ gathered' \subseteq PlanTasks
        /\ planner' = "deferred" => ~cancelled /\ LiveTasks = {}
    BY <1>2 DEF GatherEnds, LiveTasks
  <2>2. StagesInv'
    BY <1>1, <1>2, <2>1 DEF StagesInv
  <2>. QED
    BY <1>1, <1>2, <2>1, <2>2 DEF PlacesInv, FrontInv, DependenciesFirst, SkippedForAReason, Before
<1>3. CASE planner' = "returned"
  <2> DEFINE rest == IF planAborted THEN PlanTasks \ (completed \cup failed) ELSE {}
  <2>1. /\ ~cancelled /\ LiveTasks = {} /\ ~inputWaits /\ failed' = failed \cup rest /\ TellOnce(rest)
        /\ gathered' = gathered
    BY <1>1, <1>3 DEF GatherEnds
  <2>2. \A u \in rest : task[u] = "none" /\ notices[u] = 0 /\ u \notin completed
    BY <2>1 DEF PlacesInv, LiveTasks
  <2>3. notices' \in [PlanTasks -> 0..2] /\ \A u \in PlanTasks : notices'[u] = IF u \in rest THEN 1 ELSE notices[u]
    BY <2>1, <2>2 DEF TellOnce
  <2>4. PlanTasks = completed \cup failed'
    BY <1>1, <2>1, NothingIsLeft
  <2>5. PlacesInv'
    BY <1>1, <2>1, <2>2, <2>3 DEF PlacesInv
  <2>6. StagesInv'
    BY <1>1, <1>3, <2>1, <2>4, <2>5 DEF StagesInv, PlacesInv
  <2>7. FrontInv' /\ DependenciesFirst'
    BY <1>1, <1>3 DEF FrontInv, DependenciesFirst
  <2>8. SkippedForAReason'
    BY <1>1, <2>1 DEF SkippedForAReason, Before
  <2>. QED
    BY <1>1, <1>3, <2>1, <2>3, <2>5, <2>6, <2>7, <2>8
<1>. QED
  BY <1>2, <1>3 DEF GatherEnds

LEMMA InterruptKeeps ==
  ASSUME PlanInv, StopPlan \/ AbortPlan \/ UserTypes
  PROVE  PlanInv'
<1> USE DEF PlanInv, PlanTypeOK
<1>1. /\ planner = "gathering"
      /\ UNCHANGED <<deps, planner, task, completed, failed, dispatched, notices, gathered>>
      /\ Acyclic(deps)' /\ LiveTasks' = LiveTasks
  BY DEF StopPlan, AbortPlan, UserTypes, Acyclic, LiveTasks
<1>2. /\ interrupted' \subseteq PlanTasks /\ planAborted' \in BOOLEAN /\ cancelled' \in BOOLEAN
      /\ inputWaits' \in BOOLEAN
  BY DEF StopPlan, AbortPlan, UserTypes
<1>3. /\ planAborted => planAborted'
      /\ cancelled => cancelled'
      /\ inputWaits => inputWaits'
      /\ cancelled' => planAborted'
      /\ interrupted' # {} => cancelled'
  BY DEF StopPlan, AbortPlan, UserTypes, StagesInv
<1>4. PlanTypeOK'
  BY <1>1, <1>2
<1>0. /\ deps' = deps /\ planner' = planner /\ task' = task /\ completed' = completed
      /\ failed' = failed /\ dispatched' = dispatched /\ notices' = notices
  BY <1>1
<1>5. PlacesInv'
  <2> SUFFICES ASSUME NEW t \in PlanTasks, task[t] = "over", t \notin completed \cup failed
               PROVE  cancelled'
    BY <1>0 DEF PlacesInv
  <2>. QED
    BY <1>3 DEF PlacesInv
<1>6. StagesInv'
  BY <1>0, <1>1, <1>3, Zenon DEF StagesInv
<1>7. FrontInv'
  BY <1>0, <1>3 DEF FrontInv
<1>8. DependenciesFirst'
  BY <1>1 DEF DependenciesFirst
<1>9. SkippedForAReason'
  <2>1. \A u \in PlanTasks : Before(u)' = Before(u)
    BY <1>1 DEF Before
  <2>. QED
    BY <1>1, <1>3, <2>1 DEF SkippedForAReason
<1>. QED
  BY <1>1, <1>4, <1>5, <1>6, <1>7, <1>8, <1>9

LEMMA PlanStutterKeeps == PlanInv /\ UNCHANGED planVars => PlanInv'
  BY DEF PlanInv, planVars, PlanTypeOK, PlacesInv, StagesInv, FrontInv, Acyclic, DependenciesFirst,
         SkippedForAReason, Before, LiveTasks

LEMMA PlanInvHolds == PlanSpec => []PlanInv
<1>1. PlanInit => PlanInv
  BY PlanInitKeeps
<1>2. PlanInv /\ [PlanNext]_planVars => PlanInv'
  BY StartPlanKeeps, StartTaskKeeps, EndTaskKeeps, SettleTaskKeeps, UnwindTaskKeeps, GatherEndsKeeps,
     InterruptKeeps, PlanStutterKeeps DEF PlanNext, TaskStep
<1>. QED
  BY <1>1, <1>2, PTL DEF PlanSpec

\* The variables of task mode have their types, for any plan of any number of tasks.
THEOREM PlanTypeCorrect == PlanSpec => []PlanTypeOK
<1>1. PlanInv => PlanTypeOK
  BY DEF PlanInv
<1>. QED
  BY <1>1, PlanInvHolds, PTL

\* Whatever the model plans, a cycle included, and whenever tasks fail, the user types or a
\* Stop comes: no task starts before all it depends on has completed, none is skipped without
\* a reason, and when task mode returns every task has had exactly one terminal event, because
\* a graph without a cycle leaves nothing that could still start (_run_task_mode,
\* _build_dependency_graph).
THEOREM PlansStaySound == PlanSpec => []PlanIsSound
<1>1. PlanInv => PlanIsAccounted
  <2> SUFFICES ASSUME PlanInv PROVE PlanIsAccounted
    OBVIOUS
  <2>1. planner = "deferred" => ~cancelled
    BY DEF PlanInv, StagesInv
  <2>. QED
    BY <2>1 DEF PlanInv, PlacesInv, StagesInv, PlanIsAccounted, LiveTasks, PlanTypeOK
<1>2. PlanInv => PlanIsSound
  BY <1>1 DEF PlanInv, PlanIsSound
<1>. QED
  BY <1>2, PlanInvHolds, PTL

-----------------------------------------------------------------------------
(***************************************************************************)
(* Runs of scripts (ScriptRuns).                                           *)
(***************************************************************************)
Settled == {"completed", "failed"}
ScriptAtWork == {"ready", "working", "broken", "closing"}
LinesOf(n) == [i \in 1 .. n |-> "line"]

RunInv ==
  /\ host = "down" => boots < MaxBoots
  /\ \A c \in ScriptCalls :
       /\ starting[c] \in {"idle", "queued", "slot"} => runRow[c] = "none" /\ executor[c] = "none"
       /\ starting[c] = "inserted" => runRow[c] = "pending" /\ executor[c] = "none"
       /\ executor[c] \in ScriptAtWork => runRow[c] \in ActiveRow
       /\ host = "down" => /\ starting[c] \in {"idle", "over"} /\ executor[c] \in {"none", "over"}
                           /\ viewer[c] # "polling"

LogInv ==
  \A c \in ScriptCalls :
    /\ storedLog[c] <= printed[c]
    /\ executor[c] = "closing" /\ verdict[c] = "completed" => storedLog[c] = printed[c]
    /\ runRow[c] = "completed" => storedLog[c] = printed[c]
    /\ remark[c] => runRow[c] \in Settled

ViewInv ==
  \A c \in ScriptCalls :
    /\ viewer[c] = "none" => seenLog[c] = <<>>
    /\ viewer[c] # "none" => runRow[c] # "none"
    /\ viewer[c] = "polling" => \E n \in 0 .. storedLog[c] : seenLog[c] = LinesOf(n)
    /\ viewer[c] = "told" => runRow[c] \in Settled /\ seenLog[c] = LogOf(c)

ScriptInv == ScriptTypeOK /\ SlotsAreCounted /\ ActiveRowHasRunner /\ RunInv /\ LogInv /\ ViewInv

-----------------------------------------------------------------------------
(***************************************************************************)
(* The log, and what is sent of it.                                        *)
(***************************************************************************)
Marks == {"line", "remark"}

LEMMA LinesAreSeq ==
  ASSUME NEW n \in Nat
  PROVE  /\ LinesOf(n) \in Seq(Marks) /\ Len(LinesOf(n)) = n
         /\ \A k \in 0 .. n : \A i \in 1 .. k : LinesOf(n)[i] = LinesOf(k)[i]
  BY DEF LinesOf, Marks

LEMMA LinesPrefix ==
  ASSUME NEW n \in Nat, NEW k \in 0 .. n
  PROVE  SubSeq(LinesOf(n), 1, k) = LinesOf(k)
<1>1. /\ LinesOf(n) \in Seq(Marks) /\ Len(LinesOf(n)) = n
      /\ LinesOf(k) \in Seq(Marks) /\ Len(LinesOf(k)) = k
      /\ \A i \in 1 .. k : LinesOf(n)[i] = LinesOf(k)[i]
  BY LinesAreSeq
<1>2. PICK long \in Seq(Marks) : long = LinesOf(n) /\ Len(long) = n
  BY <1>1
<1>3. /\ SubSeq(long, 1, k) \in Seq(Marks) /\ Len(SubSeq(long, 1, k)) = k
      /\ \A i \in 1 .. k : SubSeq(long, 1, k)[i] = long[i]
  BY <1>2
<1>4. QED
  BY <1>1, <1>2, <1>3, SeqEqual

\* Sending on from the length already sent completes a log whose beginning was sent.
LEMMA SendingOn ==
  ASSUME NEW n \in Nat, NEW k \in 0 .. n, NEW t \in Seq(Marks), NEW log, log = LinesOf(n) \o t
  PROVE  /\ log \in Seq(Marks)
         /\ LinesOf(k) \o SubSeq(log, Len(LinesOf(k)) + 1, Len(log)) = log
<1>1. PICK lines \in Seq(Marks) : lines = LinesOf(n) /\ Len(lines) = n
  BY LinesAreSeq
<1>2. log \in Seq(Marks) /\ Len(log) = n + Len(t) /\ Len(t) \in Nat /\ Len(LinesOf(k)) = k
  BY <1>1, ConcatProperties, LinesAreSeq
<1>3. SubSeq(log, 1, k) = LinesOf(k)
  <2>1. CASE k = 0
    <3>1. SubSeq(log, 1, 0) = <<>> /\ SubSeq(lines, 1, 0) = <<>>
      BY SubSeqEmpty
    <3>2. QED
      BY <1>1, <2>1, <3>1, LinesPrefix
  <2>2. CASE k # 0
    <3>1. 1 \in 1 .. Len(lines) /\ k \in 1 .. Len(lines)
      BY <1>1, <2>2
    <3>2. SubSeq(lines \o t, 1, k) = SubSeq(lines, 1, k)
      BY <3>1, SubSeqOfConcat1
    <3>3. QED
      BY <1>1, <3>2, LinesPrefix
  <2>3. QED
    BY <2>1, <2>2
<1>4. SubSeq(log, 1, k) \o SubSeq(log, k + 1, Len(log)) = SubSeq(log, 1, Len(log))
  <2>1. /\ 1 \in 1 .. Len(log) + 1 /\ k \in 1 - 1 .. Len(log) /\ Len(log) \in k .. Len(log)
    BY <1>2
  <2>2. QED
    BY <1>2, <2>1, ConcatAdjacentSubSeq
<1>5. QED
  BY <1>2, <1>3, <1>4, SubSeqFull

LEMMA LogIsLines ==
  ASSUME ScriptTypeOK, NEW c \in ScriptCalls
  PROVE  \E n \in Nat, t \in Seq(Marks) :
           /\ n = storedLog[c] /\ LogOf(c) = LinesOf(n) \o t
           /\ ~remark[c] => t = <<>>
<1>1. <<>> \in Seq(Marks) /\ <<"remark">> \in Seq(Marks)
  BY DEF Marks
<1>2. PICK n \in Nat : n = storedLog[c]
  BY ScriptAssumption DEF ScriptTypeOK, Lines
<1>3. LogOf(c) = LinesOf(n) \o IF remark[c] THEN <<"remark">> ELSE <<>>
  BY <1>2 DEF LogOf, LinesOf
<1>4. CASE remark[c]
  BY <1>1, <1>2, <1>3, <1>4
<1>5. CASE ~remark[c]
  BY <1>1, <1>2, <1>3, <1>5
<1>6. QED
  BY <1>4, <1>5

LEMMA PollingCompletes ==
  ASSUME ScriptTypeOK, NEW c \in ScriptCalls, NEW k \in 0 .. storedLog[c], NEW sent, sent = LinesOf(k)
  PROVE  \E n \in Nat, log \in Seq(Marks) :
           /\ n = storedLog[c] /\ log = LogOf(c) /\ sent \o SubSeq(log, Len(sent) + 1, Len(log)) = log
           /\ ~remark[c] => log = LinesOf(n)
<1>1. PICK n \in Nat, t \in Seq(Marks) :
        /\ n = storedLog[c] /\ LogOf(c) = LinesOf(n) \o t
        /\ ~remark[c] => t = <<>>
  BY LogIsLines
<1>2. k \in 0 .. n
  BY <1>1
<1>3. PICK log : log = LogOf(c) /\ log = LinesOf(n) \o t
  BY <1>1
<1>4. /\ log \in Seq(Marks)
      /\ LinesOf(k) \o SubSeq(log, Len(LinesOf(k)) + 1, Len(log)) = log
  <2>1. n \in Nat /\ k \in 0 .. n /\ t \in Seq(Marks) /\ log = LinesOf(n) \o t
    BY <1>2, <1>3
  <2>2. QED
    BY <2>1, SendingOn, Zenon
<1>5. ~remark[c] => log = LinesOf(n)
  BY <1>1, <1>3, LinesAreSeq, ConcatEmptySeq
<1>6. QED
  BY <1>1, <1>3, <1>4, <1>5

-----------------------------------------------------------------------------
(***************************************************************************)
(* Slots.                                                                  *)
(***************************************************************************)
LEMMA HoldersCount ==
  ASSUME NEW S \in SUBSET ScriptCalls
  PROVE  IsFiniteSet(S) /\ Cardinality(S) \in Nat
  BY ScriptAssumption, FS_Subset, FS_CardinalityType

LEMMA HoldersStay ==
  ASSUME SlotsAreCounted, slotsFree' = slotsFree,
         \A c \in ScriptCalls : starting'[c] \in {"slot", "inserted", "launched"} <=> starting[c] \in {"slot", "inserted", "launched"}
  PROVE  SlotsAreCounted'
<1>1. Holders' = Holders
  BY DEF Holders
<1>2. QED
  BY <1>1 DEF SlotsAreCounted

\* A call takes a slot that is free, and one that holds a slot gives it up.
LEMMA HolderComes ==
  ASSUME ScriptTypeOK, SlotsAreCounted, NEW c \in ScriptCalls, starting[c] = "queued", slotsFree > 0,
         slotsFree' = slotsFree - 1, starting' = [starting EXCEPT ![c] = "slot"]
  PROVE  SlotsAreCounted' /\ slotsFree' \in 0 .. ScriptSlots
<1>1. Holders' = Holders \cup {c} /\ c \notin Holders /\ Holders \in SUBSET ScriptCalls
  BY DEF Holders, ScriptTypeOK
<1>2. Cardinality(Holders') = Cardinality(Holders) + 1 /\ Cardinality(Holders) \in Nat
  BY <1>1, HoldersCount, FS_AddElement
<1>3. QED
  BY <1>2, ScriptAssumption DEF SlotsAreCounted, ScriptTypeOK

LEMMA HolderLeaves ==
  ASSUME ScriptTypeOK, SlotsAreCounted, NEW c \in ScriptCalls, starting[c] \in {"slot", "inserted", "launched"}, GiveUp(c)
  PROVE  SlotsAreCounted' /\ slotsFree' \in 0 .. ScriptSlots
<1>1. Holders' = Holders \ {c} /\ c \in Holders /\ Holders \in SUBSET ScriptCalls
  BY DEF Holders, ScriptTypeOK, GiveUp, CallGoes
<1>2. /\ Cardinality(Holders') = Cardinality(Holders) - 1 /\ Cardinality(Holders) \in Nat
      /\ Cardinality(Holders') \in Nat
  <2>1. IsFiniteSet(Holders) /\ Cardinality(Holders) \in Nat /\ Holders' \in SUBSET ScriptCalls
    BY <1>1, HoldersCount
  <2>2. Cardinality(Holders \ {c}) = Cardinality(Holders) - 1
    BY <1>1, <2>1, FS_RemoveElement
  <2>3. QED
    BY <1>1, <2>1, <2>2, HoldersCount
<1>3. QED
  BY <1>2, ScriptAssumption DEF SlotsAreCounted, ScriptTypeOK, GiveUp

-----------------------------------------------------------------------------
(***************************************************************************)
(* Views.                                                                  *)
(***************************************************************************)
\* Views stay right while the rows they show only grow and settled rows stand.
LEMMA ViewsStay ==
  ASSUME ScriptTypeOK, ViewInv, UNCHANGED <<viewer, seenLog>>,
         \A c \in ScriptCalls :
           /\ runRow[c] # "none" => runRow'[c] # "none"
           /\ storedLog'[c] \in Nat /\ storedLog[c] <= storedLog'[c]
           /\ runRow[c] \in Settled => /\ runRow'[c] = runRow[c] /\ storedLog'[c] = storedLog[c]
                                      /\ remark'[c] = remark[c]
  PROVE  ViewInv'
<1> SUFFICES ASSUME NEW c \in ScriptCalls
             PROVE  /\ viewer[c] = "none" => seenLog[c] = <<>>
                    /\ viewer[c] # "none" => runRow'[c] # "none"
                    /\ viewer[c] = "polling" => \E n \in 0 .. storedLog'[c] : seenLog[c] = LinesOf(n)
                    /\ viewer[c] = "told" => runRow'[c] \in Settled /\ seenLog[c] = LogOf(c)'
  BY DEF ViewInv
<1>1. (viewer[c] = "none" => seenLog[c] = <<>>) /\ (viewer[c] # "none" => runRow'[c] # "none")
  BY DEF ViewInv
<1>2. viewer[c] = "polling" => \E n \in 0 .. storedLog'[c] : seenLog[c] = LinesOf(n)
  <2>1. 0 .. storedLog[c] \subseteq 0 .. storedLog'[c]
    BY ScriptAssumption DEF ScriptTypeOK, Lines
  <2>2. QED
    BY <2>1 DEF ViewInv
<1>3. viewer[c] = "told" => runRow'[c] \in Settled /\ seenLog[c] = LogOf(c)'
  BY DEF ViewInv, LogOf
<1>4. QED
  BY <1>1, <1>2, <1>3

-----------------------------------------------------------------------------

LEMMA RequestRunKeeps ==
  ASSUME NEW c \in ScriptCalls, ScriptInv, RequestRun(c)
  PROVE  ScriptInv'
<1> USE ScriptAssumption DEF ScriptInv, RequestRun, CallGoes, hostAlone, outputSide, viewSide, runAlone, viewAlone, Running
<1>1. ScriptTypeOK'
  BY DEF ScriptTypeOK, ActiveRow, Lines
<1>2. SlotsAreCounted'
  BY HoldersStay DEF ScriptTypeOK
<1>3. ActiveRowHasRunner'
  BY DEF ActiveRowHasRunner, ScriptTypeOK, ActiveRow
<1>4. RunInv'
  BY DEF RunInv, ScriptTypeOK, ActiveRow, ScriptAtWork
<1>5. LogInv'
  BY DEF LogInv, RunInv, ScriptTypeOK, ActiveRow, ScriptAtWork, Settled, Lines
<1>6. ViewInv'
  BY ViewsStay DEF ScriptTypeOK, Lines, RunInv, LogInv, ActiveRow, ScriptAtWork, Settled
<1>7. QED
  BY <1>1, <1>2, <1>3, <1>4, <1>5, <1>6

LEMMA TakeSlotKeeps ==
  ASSUME NEW c \in ScriptCalls, ScriptInv, TakeSlot(c)
  PROVE  ScriptInv'
<1> USE ScriptAssumption DEF ScriptInv, TakeSlot, CallGoes, hostAlone, outputSide, viewSide, runAlone, viewAlone, Running
<1>1. ScriptTypeOK'
  BY HolderComes DEF ScriptTypeOK, ActiveRow, Lines
<1>2. SlotsAreCounted'
  BY HolderComes DEF ScriptTypeOK
<1>3. ActiveRowHasRunner'
  BY DEF ActiveRowHasRunner, ScriptTypeOK, ActiveRow
<1>4. RunInv'
  BY DEF RunInv, ScriptTypeOK, ActiveRow, ScriptAtWork
<1>5. LogInv'
  BY DEF LogInv, RunInv, ScriptTypeOK, ActiveRow, ScriptAtWork, Settled, Lines
<1>6. ViewInv'
  BY ViewsStay DEF ScriptTypeOK, Lines, RunInv, LogInv, ActiveRow, ScriptAtWork, Settled
<1>7. QED
  BY <1>1, <1>2, <1>3, <1>4, <1>5, <1>6

LEMMA RefuseRunKeeps ==
  ASSUME NEW c \in ScriptCalls, ScriptInv, RefuseRun(c)
  PROVE  ScriptInv'
<1> USE ScriptAssumption DEF ScriptInv, RefuseRun, CallGoes, GiveUp, hostAlone, outputSide, viewSide, runAlone, viewAlone, Running
<1>1. ScriptTypeOK'
  BY HolderLeaves DEF ScriptTypeOK, ActiveRow, Lines
<1>2. SlotsAreCounted'
  BY HolderLeaves DEF ScriptTypeOK
<1>3. ActiveRowHasRunner'
  BY DEF ActiveRowHasRunner, ScriptTypeOK, ActiveRow
<1>4. RunInv'
  BY DEF RunInv, ScriptTypeOK, ActiveRow, ScriptAtWork
<1>5. LogInv'
  BY DEF LogInv, RunInv, ScriptTypeOK, ActiveRow, ScriptAtWork, Settled, Lines
<1>6. ViewInv'
  BY ViewsStay DEF ScriptTypeOK, Lines, RunInv, LogInv, ActiveRow, ScriptAtWork, Settled
<1>7. QED
  BY <1>1, <1>2, <1>3, <1>4, <1>5, <1>6

LEMMA InsertScriptRowKeeps ==
  ASSUME NEW c \in ScriptCalls, ScriptInv, InsertScriptRow(c)
  PROVE  ScriptInv'
<1> USE ScriptAssumption DEF ScriptInv, InsertScriptRow, CallGoes, RowIs, hostAlone, outputSide, viewSide, runAlone, viewAlone, Running
<1>1. ScriptTypeOK'
  BY DEF ScriptTypeOK, ActiveRow, Lines
<1>2. SlotsAreCounted'
  BY HoldersStay DEF ScriptTypeOK
<1>3. ActiveRowHasRunner'
  BY DEF ActiveRowHasRunner, ScriptTypeOK, ActiveRow
<1>4. RunInv'
  BY DEF RunInv, ScriptTypeOK, ActiveRow, ScriptAtWork
<1>5. LogInv'
  BY DEF LogInv, RunInv, ScriptTypeOK, ActiveRow, ScriptAtWork, Settled, Lines
<1>6. ViewInv'
  BY ViewsStay DEF ScriptTypeOK, Lines, RunInv, LogInv, ActiveRow, ScriptAtWork, Settled
<1>7. QED
  BY <1>1, <1>2, <1>3, <1>4, <1>5, <1>6

LEMMA FailToStartKeeps ==
  ASSUME NEW c \in ScriptCalls, ScriptInv, FailToStart(c)
  PROVE  ScriptInv'
<1> USE ScriptAssumption DEF ScriptInv, FailToStart, CallGoes, GiveUp, RowIs, SettleUnstarted, hostAlone, outputSide, viewSide, runAlone, viewAlone, Running
<1>1. ScriptTypeOK'
  BY HolderLeaves DEF ScriptTypeOK, ActiveRow, Lines
<1>2. SlotsAreCounted'
  BY HolderLeaves DEF ScriptTypeOK
<1>3. ActiveRowHasRunner'
  BY DEF ActiveRowHasRunner, ScriptTypeOK, ActiveRow
<1>4. RunInv'
  BY DEF RunInv, ScriptTypeOK, ActiveRow, ScriptAtWork
<1>5. LogInv'
  BY DEF LogInv, RunInv, ScriptTypeOK, ActiveRow, ScriptAtWork, Settled, Lines
<1>6. ViewInv'
  BY ViewsStay DEF ScriptTypeOK, Lines, RunInv, LogInv, ActiveRow, ScriptAtWork, Settled
<1>7. QED
  BY <1>1, <1>2, <1>3, <1>4, <1>5, <1>6

LEMMA LoseInsertKeeps ==
  ASSUME NEW c \in ScriptCalls, ScriptInv, LoseInsert(c)
  PROVE  ScriptInv'
<1> USE ScriptAssumption DEF ScriptInv, LoseInsert, CallGoes, GiveUp, hostAlone, outputSide, viewSide, runAlone, viewAlone, Running
<1>1. ScriptTypeOK'
  BY HolderLeaves DEF ScriptTypeOK, ActiveRow, Lines
<1>2. SlotsAreCounted'
  BY HolderLeaves DEF ScriptTypeOK
<1>3. ActiveRowHasRunner'
  BY DEF ActiveRowHasRunner, ScriptTypeOK, ActiveRow
<1>4. RunInv'
  BY DEF RunInv, ScriptTypeOK, ActiveRow, ScriptAtWork
<1>5. LogInv'
  BY DEF LogInv, RunInv, ScriptTypeOK, ActiveRow, ScriptAtWork, Settled, Lines
<1>6. ViewInv'
  BY ViewsStay DEF ScriptTypeOK, Lines, RunInv, LogInv, ActiveRow, ScriptAtWork, Settled
<1>7. QED
  BY <1>1, <1>2, <1>3, <1>4, <1>5, <1>6

LEMMA LaunchKeeps ==
  ASSUME NEW c \in ScriptCalls, ScriptInv, Launch(c)
  PROVE  ScriptInv'
<1> USE ScriptAssumption DEF ScriptInv, Launch, CallGoes, hostAlone, outputSide, viewSide, runAlone, viewAlone, Running
<1>1. ScriptTypeOK'
  BY DEF ScriptTypeOK, ActiveRow, Lines
<1>2. SlotsAreCounted'
  BY HoldersStay DEF ScriptTypeOK
<1>3. ActiveRowHasRunner'
  BY DEF ActiveRowHasRunner, ScriptTypeOK, ActiveRow
<1>4. RunInv'
  BY DEF RunInv, ScriptTypeOK, ActiveRow, ScriptAtWork
<1>5. LogInv'
  BY DEF LogInv, RunInv, ScriptTypeOK, ActiveRow, ScriptAtWork, Settled, Lines
<1>6. ViewInv'
  BY ViewsStay DEF ScriptTypeOK, Lines, RunInv, LogInv, ActiveRow, ScriptAtWork, Settled
<1>7. QED
  BY <1>1, <1>2, <1>3, <1>4, <1>5, <1>6

LEMMA ReleaseSlotKeeps ==
  ASSUME NEW c \in ScriptCalls, ScriptInv, ReleaseSlot(c)
  PROVE  ScriptInv'
<1> USE ScriptAssumption DEF ScriptInv, ReleaseSlot, CallGoes, GiveUp, hostAlone, outputSide, viewSide, runAlone, viewAlone, Running
<1>1. ScriptTypeOK'
  BY HolderLeaves DEF ScriptTypeOK, ActiveRow, Lines
<1>2. SlotsAreCounted'
  BY HolderLeaves DEF ScriptTypeOK
<1>3. ActiveRowHasRunner'
  BY DEF ActiveRowHasRunner, ScriptTypeOK, ActiveRow
<1>4. RunInv'
  BY DEF RunInv, ScriptTypeOK, ActiveRow, ScriptAtWork
<1>5. LogInv'
  BY DEF LogInv, RunInv, ScriptTypeOK, ActiveRow, ScriptAtWork, Settled, Lines
<1>6. ViewInv'
  BY ViewsStay DEF ScriptTypeOK, Lines, RunInv, LogInv, ActiveRow, ScriptAtWork, Settled
<1>7. QED
  BY <1>1, <1>2, <1>3, <1>4, <1>5, <1>6

LEMMA BeginRunKeeps ==
  ASSUME NEW c \in ScriptCalls, ScriptInv, BeginRun(c)
  PROVE  ScriptInv'
<1> USE ScriptAssumption DEF ScriptInv, BeginRun, ExecutorGoes, RowIs, hostAlone, outputSide, viewSide, runAlone, viewAlone, Running
<1>1. ScriptTypeOK'
  BY DEF ScriptTypeOK, ActiveRow, Lines
<1>2. SlotsAreCounted'
  BY HoldersStay DEF ScriptTypeOK
<1>3. ActiveRowHasRunner'
  <2>1. /\ \A b \in ScriptCalls : b # c => executor'[b] = executor[b] /\ runRow'[b] = runRow[b]
        /\ starting' = starting /\ mishap' = mishap /\ host' = host
    BY DEF ScriptTypeOK
  <2>2. executor'[c] = "working" \/ "begin" \in mishap
    BY DEF ScriptTypeOK
  <2>. QED
    BY <2>1, <2>2 DEF ActiveRowHasRunner
<1>4. RunInv'
  BY DEF RunInv, ScriptTypeOK, ActiveRow, ScriptAtWork
<1>5. LogInv'
  BY DEF LogInv, RunInv, ScriptTypeOK, ActiveRow, ScriptAtWork, Settled, Lines
<1>6. ViewInv'
  BY ViewsStay DEF ScriptTypeOK, Lines, RunInv, LogInv, ActiveRow, ScriptAtWork, Settled
<1>7. QED
  BY <1>1, <1>2, <1>3, <1>4, <1>5, <1>6

LEMMA PrintLineKeeps ==
  ASSUME NEW c \in ScriptCalls, ScriptInv, PrintLine(c)
  PROVE  ScriptInv'
<1> USE ScriptAssumption DEF ScriptInv, PrintLine, hostAlone, outputSide, viewSide, runAlone, viewAlone, Running
<1>1. ScriptTypeOK'
  BY DEF ScriptTypeOK, ActiveRow, Lines
<1>2. SlotsAreCounted'
  BY HoldersStay DEF ScriptTypeOK
<1>3. ActiveRowHasRunner'
  BY DEF ActiveRowHasRunner, ScriptTypeOK, ActiveRow
<1>4. RunInv'
  BY DEF RunInv, ScriptTypeOK, ActiveRow, ScriptAtWork
<1>5. LogInv'
  <2>1. /\ printed'[c] = printed[c] + 1 /\ printed[c] \in Nat /\ storedLog[c] \in Nat
        /\ \A d \in ScriptCalls : d # c => printed'[d] = printed[d]
        /\ UNCHANGED <<runRow, executor, verdict, storedLog, remark>>
    BY DEF ScriptTypeOK, Lines
  <2>2. executor[c] # "closing" /\ runRow[c] # "completed"
    BY DEF RunInv, ScriptAtWork, ActiveRow
  <2>3. storedLog[c] <= printed'[c]
    BY <2>1 DEF LogInv
  <2>4. QED
    BY <2>1, <2>2, <2>3 DEF LogInv
<1>6. ViewInv'
  BY ViewsStay DEF ScriptTypeOK, Lines, RunInv, LogInv, ActiveRow, ScriptAtWork, Settled
<1>7. QED
  BY <1>1, <1>2, <1>3, <1>4, <1>5, <1>6

LEMMA FlushLogKeeps ==
  ASSUME NEW c \in ScriptCalls, ScriptInv, FlushLog(c)
  PROVE  ScriptInv'
<1> USE ScriptAssumption DEF ScriptInv, FlushLog, ExecutorGoes, hostAlone, outputSide, viewSide, runAlone, viewAlone, Running
<1>1. ScriptTypeOK'
  <2>1. storedLog' \in [ScriptCalls -> Lines]
    BY DEF ScriptTypeOK
  <2>2. executor' \in [ScriptCalls -> {"none", "ready", "working", "broken", "closing", "over"}]
    <3>1. executor' = executor \/ executor' = [executor EXCEPT ![c] = "broken"]
      OBVIOUS
    <3>2. executor \in [ScriptCalls -> {"none", "ready", "working", "broken", "closing", "over"}]
      BY DEF ScriptTypeOK
    <3>3. QED
      BY ONLY <3>1, <3>2
  <2>3. QED
    BY <2>1, <2>2 DEF ScriptTypeOK
<1>2. SlotsAreCounted'
  BY HoldersStay DEF ScriptTypeOK
<1>3. ActiveRowHasRunner'
  BY DEF ActiveRowHasRunner, ScriptTypeOK, ActiveRow
<1>4. RunInv'
  BY DEF RunInv, ScriptTypeOK, ActiveRow, ScriptAtWork
<1>5. LogInv'
  BY DEF LogInv, RunInv, ScriptTypeOK, ActiveRow, ScriptAtWork, Settled, Lines
<1>6. ViewInv'
  <2>1. UNCHANGED <<viewer, seenLog, runRow, remark>>
    OBVIOUS
  <2>2. /\ storedLog'[c] \in {storedLog[c], printed[c]} /\ printed[c] \in Nat /\ storedLog[c] \in Nat
        /\ \A d \in ScriptCalls : d # c => storedLog'[d] = storedLog[d]
    BY DEF ScriptTypeOK, Lines
  <2>3. runRow[c] \notin Settled /\ storedLog[c] <= printed[c]
    BY DEF RunInv, LogInv, ScriptAtWork, ActiveRow, Settled
  <2>4. \A d \in ScriptCalls : storedLog[d] \in Nat /\ storedLog'[d] \in Nat /\ storedLog[d] <= storedLog'[d]
    BY <2>2, <2>3 DEF ScriptTypeOK, Lines
  <2>5. QED
    BY <2>1, <2>2, <2>3, <2>4, ViewsStay
<1>7. QED
  BY <1>1, <1>2, <1>3, <1>4, <1>5, <1>6

LEMMA EndProcessKeeps ==
  ASSUME NEW c \in ScriptCalls, ScriptInv, EndProcess(c)
  PROVE  ScriptInv'
<1> USE ScriptAssumption DEF ScriptInv, EndProcess, ExecutorGoes, hostAlone, outputSide, viewSide, runAlone, viewAlone, Running
<1>1. ScriptTypeOK'
  BY DEF ScriptTypeOK, ActiveRow, Lines
<1>2. SlotsAreCounted'
  BY HoldersStay DEF ScriptTypeOK
<1>3. ActiveRowHasRunner'
  BY DEF ActiveRowHasRunner, ScriptTypeOK, ActiveRow
<1>4. RunInv'
  BY DEF RunInv, ScriptTypeOK, ActiveRow, ScriptAtWork
<1>5. LogInv'
  BY DEF LogInv, RunInv, ScriptTypeOK, ActiveRow, ScriptAtWork, Settled, Lines
<1>6. ViewInv'
  <2>1. UNCHANGED <<viewer, seenLog, runRow, remark>>
    OBVIOUS
  <2>2. /\ storedLog'[c] \in {storedLog[c], printed[c]} /\ printed[c] \in Nat /\ storedLog[c] \in Nat
        /\ \A d \in ScriptCalls : d # c => storedLog'[d] = storedLog[d]
    BY DEF ScriptTypeOK, Lines
  <2>3. runRow[c] \notin Settled /\ storedLog[c] <= printed[c]
    BY DEF RunInv, LogInv, ScriptAtWork, ActiveRow, Settled
  <2>4. \A d \in ScriptCalls : storedLog[d] \in Nat /\ storedLog'[d] \in Nat /\ storedLog[d] <= storedLog'[d]
    BY <2>2, <2>3 DEF ScriptTypeOK, Lines
  <2>5. QED
    BY <2>1, <2>2, <2>3, <2>4, ViewsStay
<1>7. QED
  BY <1>1, <1>2, <1>3, <1>4, <1>5, <1>6

LEMMA BreakRunKeeps ==
  ASSUME NEW c \in ScriptCalls, ScriptInv, BreakRun(c)
  PROVE  ScriptInv'
<1> USE ScriptAssumption DEF ScriptInv, BreakRun, ExecutorGoes, hostAlone, outputSide, viewSide, runAlone, viewAlone, Running
<1>1. ScriptTypeOK'
  BY DEF ScriptTypeOK, ActiveRow, Lines
<1>2. SlotsAreCounted'
  BY HoldersStay DEF ScriptTypeOK
<1>3. ActiveRowHasRunner'
  BY DEF ActiveRowHasRunner, ScriptTypeOK, ActiveRow
<1>4. RunInv'
  BY DEF RunInv, ScriptTypeOK, ActiveRow, ScriptAtWork
<1>5. LogInv'
  BY DEF LogInv, RunInv, ScriptTypeOK, ActiveRow, ScriptAtWork, Settled, Lines
<1>6. ViewInv'
  <2>1. UNCHANGED <<viewer, seenLog, runRow, remark>>
    OBVIOUS
  <2>2. /\ storedLog'[c] \in {storedLog[c], printed[c]} /\ printed[c] \in Nat /\ storedLog[c] \in Nat
        /\ \A d \in ScriptCalls : d # c => storedLog'[d] = storedLog[d]
    BY DEF ScriptTypeOK, Lines
  <2>3. runRow[c] \notin Settled /\ storedLog[c] <= printed[c]
    BY DEF RunInv, LogInv, ScriptAtWork, ActiveRow, Settled
  <2>4. \A d \in ScriptCalls : storedLog[d] \in Nat /\ storedLog'[d] \in Nat /\ storedLog[d] <= storedLog'[d]
    BY <2>2, <2>3 DEF ScriptTypeOK, Lines
  <2>5. QED
    BY <2>1, <2>2, <2>3, <2>4, ViewsStay
<1>7. QED
  BY <1>1, <1>2, <1>3, <1>4, <1>5, <1>6

LEMMA CloseRunKeeps ==
  ASSUME NEW c \in ScriptCalls, ScriptInv, CloseRun(c)
  PROVE  ScriptInv'
<1> USE ScriptAssumption DEF ScriptInv, CloseRun, ExecutorGoes, RowIs, hostAlone, outputSide, viewSide, runAlone, viewAlone, Running
<1>1. ScriptTypeOK'
  <2>1. runRow' \in [ScriptCalls -> {"none", "completed", "failed"} \cup ActiveRow]
    BY DEF ScriptTypeOK
  <2>2. remark' \in [ScriptCalls -> BOOLEAN]
    <3>1. PICK told \in BOOLEAN : remark' = [remark EXCEPT ![c] = told] \/ remark' = remark
      OBVIOUS
    <3>2. QED
      BY <3>1 DEF ScriptTypeOK
  <2>3. QED
    BY <2>1, <2>2 DEF ScriptTypeOK
<1>2. SlotsAreCounted'
  BY HoldersStay DEF ScriptTypeOK
<1>3. ActiveRowHasRunner'
  BY DEF ActiveRowHasRunner, ScriptTypeOK, ActiveRow
<1>4. RunInv'
  BY DEF RunInv, ScriptTypeOK, ActiveRow, ScriptAtWork
<1>5. LogInv'
  BY DEF LogInv, RunInv, ScriptTypeOK, ActiveRow, ScriptAtWork, Settled, Lines
<1>6. ViewInv'
  <2>1. /\ UNCHANGED <<viewer, seenLog, storedLog>>
        /\ runRow'[c] \in Settled \/ runRow'[c] = runRow[c]
        /\ \A d \in ScriptCalls : d # c => runRow'[d] = runRow[d] /\ remark'[d] = remark[d]
    BY DEF ScriptTypeOK, Settled
  <2>2. runRow[c] \notin Settled
    BY DEF RunInv, ScriptAtWork, ActiveRow, Settled
  <2>3. \A d \in ScriptCalls : storedLog[d] \in Nat /\ storedLog[d] <= storedLog[d]
    BY DEF ScriptTypeOK, Lines
  <2>4. QED
    BY <2>1, <2>2, <2>3, ViewsStay DEF Settled
<1>7. QED
  BY <1>1, <1>2, <1>3, <1>4, <1>5, <1>6

\* Steps of a view change nothing but what the view has shown.
LEMMA ViewStepKeeps ==
  ASSUME ScriptInv, UNCHANGED viewAlone, viewer' \in [ScriptCalls -> {"none", "polling", "told", "closed"}],
         seenLog' \in [ScriptCalls -> Seq(Marks)], ViewInv',
         \A c \in ScriptCalls : host = "down" => viewer'[c] # "polling"
  PROVE  ScriptInv'
<1> USE DEF ScriptInv, viewAlone, hostAlone, outputSide
<1>1. ScriptTypeOK'
  BY DEF ScriptTypeOK, Marks
<1>2. SlotsAreCounted' /\ ActiveRowHasRunner'
  BY DEF SlotsAreCounted, Holders, ActiveRowHasRunner, Running
<1>3. RunInv' /\ LogInv'
  BY DEF RunInv, LogInv
<1>4. QED
  BY <1>1, <1>2, <1>3

LEMMA OpenViewKeeps ==
  ASSUME NEW c \in ScriptCalls, ScriptInv, OpenView(c)
  PROVE  ScriptInv'
<1> USE ScriptAssumption DEF ScriptInv, OpenView
<1>1. /\ viewer'[c] = "polling" /\ \A d \in ScriptCalls : d # c => viewer'[d] = viewer[d]
      /\ UNCHANGED <<seenLog, storedLog, remark, runRow, host>>
  BY DEF ScriptTypeOK, viewAlone, hostAlone, outputSide
<1>2. seenLog[c] = LinesOf(0)
  BY DEF ViewInv, LinesOf
<1>3. \A d \in ScriptCalls : LogOf(d)' = LogOf(d)
  BY <1>1 DEF LogOf
<1>4. 0 \in 0 .. storedLog[c]
  BY DEF ScriptTypeOK, Lines
<1>5. ViewInv'
  BY <1>1, <1>2, <1>3, <1>4 DEF ViewInv
<1>6. viewer' \in [ScriptCalls -> {"none", "polling", "told", "closed"}] /\ seenLog' \in [ScriptCalls -> Seq(Marks)]
  BY <1>1 DEF ScriptTypeOK, Marks
<1>7. QED
  BY <1>1, <1>5, <1>6, ViewStepKeeps

LEMMA CloseViewKeeps ==
  ASSUME NEW c \in ScriptCalls, ScriptInv, CloseView(c)
  PROVE  ScriptInv'
<1> USE DEF ScriptInv, CloseView
<1>1. /\ viewer'[c] = "closed" /\ \A d \in ScriptCalls : d # c => viewer'[d] = viewer[d]
      /\ viewer[c] = "polling" /\ UNCHANGED <<seenLog, storedLog, remark, runRow, host>>
  BY DEF ScriptTypeOK, viewAlone, hostAlone, outputSide
<1>2. \A d \in ScriptCalls : LogOf(d)' = LogOf(d)
  BY <1>1 DEF LogOf
<1>3. ViewInv'
  BY <1>1, <1>2 DEF ViewInv
<1>4. viewer' \in [ScriptCalls -> {"none", "polling", "told", "closed"}] /\ seenLog' \in [ScriptCalls -> Seq(Marks)]
  BY <1>1 DEF ScriptTypeOK, Marks
<1>5. QED
  BY <1>1, <1>3, <1>4, ViewStepKeeps DEF RunInv

\* A poll shows the rest of the log; of a row that is active these are lines only.
LEMMA PollRowKeeps ==
  ASSUME NEW c \in ScriptCalls, ScriptInv, PollRow(c)
  PROVE  ScriptInv'
<1> USE ScriptAssumption DEF ScriptInv
<1>1. PICK k \in 0 .. storedLog[c] : seenLog[c] = LinesOf(k)
  BY DEF ViewInv, PollRow
<1>2. PICK sent : sent = seenLog[c]
  OBVIOUS
<1>3. PICK n \in Nat, log \in Seq(Marks) :
        /\ n = storedLog[c] /\ log = LogOf(c) /\ sent \o SubSeq(log, Len(sent) + 1, Len(log)) = log
        /\ ~remark[c] => log = LinesOf(n)
  BY <1>1, <1>2, PollingCompletes
<1>4. seenLog' = [seenLog EXCEPT ![c] = log]
  BY <1>2, <1>3 DEF PollRow, ScriptTypeOK
<1>5. /\ seenLog'[c] = log /\ \A d \in ScriptCalls : d # c => seenLog'[d] = seenLog[d]
      /\ UNCHANGED <<storedLog, remark, runRow, host>>
  BY <1>4 DEF PollRow, ScriptTypeOK, viewAlone, hostAlone, outputSide
<1>6. /\ viewer[c] = "polling" /\ host = "up"
      /\ \A d \in ScriptCalls : d # c => viewer'[d] = viewer[d]
      /\ viewer'[c] = IF runRow[c] \in ActiveRow THEN "polling" ELSE "told"
  BY DEF PollRow, ScriptTypeOK
<1>7. \A d \in ScriptCalls : LogOf(d)' = LogOf(d)
  BY <1>5 DEF LogOf
<1>8. runRow[c] \in ActiveRow \cup Settled
  BY <1>6 DEF ViewInv, ScriptTypeOK, Settled
<1>9. runRow[c] \in ActiveRow => seenLog'[c] = LinesOf(n)
  BY <1>3, <1>5 DEF LogInv, ActiveRow, Settled
<1>10. ViewInv'
  <2> SUFFICES ASSUME NEW d \in ScriptCalls
               PROVE  /\ viewer'[d] = "none" => seenLog'[d] = <<>>
                      /\ viewer'[d] # "none" => runRow'[d] # "none"
                      /\ viewer'[d] = "polling" => \E m \in 0 .. storedLog'[d] : seenLog'[d] = LinesOf(m)
                      /\ viewer'[d] = "told" => runRow'[d] \in Settled /\ seenLog'[d] = LogOf(d)'
    BY DEF ViewInv
  <2>1. CASE d # c
    BY <2>1, <1>5, <1>6, <1>7 DEF ViewInv
  <2>2. CASE d = c /\ runRow[c] \in ActiveRow
    <3>1. n \in 0 .. storedLog'[c]
      BY <1>3, <1>5
    <3>2. QED
      BY <2>2, <3>1, <1>5, <1>6, <1>9 DEF ActiveRow
  <2>3. CASE d = c /\ runRow[c] \notin ActiveRow
    BY <2>3, <1>3, <1>5, <1>6, <1>7, <1>8 DEF Settled
  <2>4. QED
    BY <2>1, <2>2, <2>3
<1>11. seenLog' \in [ScriptCalls -> Seq(Marks)]
  BY <1>4 DEF ScriptTypeOK, Marks
<1>12. viewer' \in [ScriptCalls -> {"none", "polling", "told", "closed"}]
  BY DEF PollRow, ScriptTypeOK
<1>13. QED
  BY <1>6, <1>10, <1>11, <1>12, ViewStepKeeps DEF PollRow

-----------------------------------------------------------------------------
(***************************************************************************)
(* The process.                                                            *)
(***************************************************************************)
\* A process that goes down takes its views along.
LEMMA ViewsClose ==
  ASSUME ScriptTypeOK, ViewInv,
         viewer' = [c \in ScriptCalls |-> IF viewer[c] = "polling" THEN "closed" ELSE viewer[c]],
         UNCHANGED <<runRow, storedLog, remark, seenLog>>
  PROVE  ViewInv' /\ viewer' \in [ScriptCalls -> {"none", "polling", "told", "closed"}]
<1>1. \A d \in ScriptCalls : LogOf(d)' = LogOf(d)
  BY DEF LogOf
<1>2. \A d \in ScriptCalls : viewer'[d] = IF viewer[d] = "polling" THEN "closed" ELSE viewer[d]
  OBVIOUS
<1>3. ViewInv'
  BY <1>1, <1>2 DEF ViewInv
<1>4. QED
  BY <1>3 DEF ScriptTypeOK

LEMMA StopHostKeeps ==
  ASSUME ScriptInv, StopHost
  PROVE  ScriptInv'
<1> USE DEF ScriptInv, StopHost, outputSide
<1>1. ViewInv' /\ viewer' \in [ScriptCalls -> {"none", "polling", "told", "closed"}]
  BY ViewsClose
<1>2. ScriptTypeOK'
  BY <1>1 DEF ScriptTypeOK
<1>3. SlotsAreCounted' /\ ActiveRowHasRunner'
  BY DEF SlotsAreCounted, Holders, ActiveRowHasRunner, Running
<1>4. RunInv' /\ LogInv'
  BY DEF RunInv, LogInv
<1>5. QED
  BY <1>1, <1>2, <1>3, <1>4

LEMMA KillHostKeeps ==
  ASSUME ScriptInv, KillHost
  PROVE  ScriptInv'
<1> USE ScriptAssumption DEF ScriptInv, KillHost
<1>1. ViewInv' /\ viewer' \in [ScriptCalls -> {"none", "polling", "told", "closed"}]
  BY ViewsClose
<1>2. ScriptTypeOK'
  BY <1>1 DEF ScriptTypeOK
<1>3. SlotsAreCounted'
  <2>1. Holders' = {}
    BY DEF Holders
  <2>2. QED
    BY <2>1, FS_EmptySet DEF SlotsAreCounted
<1>4. ActiveRowHasRunner'
  BY DEF ActiveRowHasRunner, Running
<1>5. RunInv' /\ LogInv'
  BY DEF RunInv, LogInv, ScriptTypeOK, ScriptAtWork, ActiveRow
<1>6. QED
  BY <1>1, <1>2, <1>3, <1>4, <1>5

LEMMA BootHostKeeps ==
  ASSUME ScriptInv, BootHost
  PROVE  ScriptInv'
<1> USE ScriptAssumption DEF ScriptInv, BootHost, outputSide, viewSide
<1>1. \A c \in ScriptCalls :
        /\ runRow'[c] = IF runRow[c] \in ActiveRow THEN "failed" ELSE runRow[c]
        /\ remark'[c] = (remark[c] \/ runRow[c] \in ActiveRow)
  OBVIOUS
<1>2. ScriptTypeOK'
  <2>1. boots' \in 0 .. MaxBoots
    BY DEF ScriptTypeOK, RunInv
  <2>2. QED
    BY <2>1 DEF ScriptTypeOK
<1>3. SlotsAreCounted'
  BY HoldersStay
<1>4. ActiveRowHasRunner'
  BY <1>1 DEF ActiveRowHasRunner, ActiveRow
<1>5. RunInv'
  BY <1>1 DEF RunInv, ScriptAtWork, ActiveRow
<1>6. LogInv'
  BY <1>1 DEF LogInv, Settled, ActiveRow
<1>7. ViewInv'
  <2>1. \A c \in ScriptCalls : storedLog[c] \in Nat /\ storedLog[c] <= storedLog[c]
    BY DEF ScriptTypeOK, Lines
  <2>2. \A c \in ScriptCalls : runRow[c] \in Settled => runRow'[c] = runRow[c] /\ remark'[c] = remark[c]
    BY <1>1 DEF ScriptTypeOK, Settled, ActiveRow
  <2>3. \A c \in ScriptCalls : runRow[c] # "none" => runRow'[c] # "none"
    BY <1>1
  <2>4. QED
    BY <2>1, <2>2, <2>3, ViewsStay
<1>8. QED
  BY <1>2, <1>3, <1>4, <1>5, <1>6, <1>7

-----------------------------------------------------------------------------
LEMMA ScriptInitKeeps == ScriptInit => ScriptInv
<1> SUFFICES ASSUME ScriptInit PROVE ScriptInv
  OBVIOUS
<1> USE ScriptAssumption DEF ScriptInit
<1>1. ScriptTypeOK
  <2>1. <<>> \in Seq({"line", "remark"}) /\ 0 \in Lines /\ 0 \in 0 .. MaxBoots /\ ScriptSlots \in 0 .. ScriptSlots
    BY DEF Lines
  <2>2. QED
    BY <2>1 DEF ScriptTypeOK
<1>2. SlotsAreCounted
  <2>1. Holders = {}
    BY DEF Holders
  <2>2. QED
    BY <2>1, FS_EmptySet DEF SlotsAreCounted
<1>3. ActiveRowHasRunner /\ RunInv /\ LogInv /\ ViewInv
  BY DEF ActiveRowHasRunner, RunInv, LogInv, ViewInv, ActiveRow, ScriptAtWork, Settled
<1>4. QED
  BY <1>1, <1>2, <1>3 DEF ScriptInv

LEMMA ScriptStutterKeeps ==
  ASSUME ScriptInv, UNCHANGED scriptVars
  PROVE  ScriptInv'
<1> USE DEF ScriptInv, scriptVars
<1>1. ScriptTypeOK' /\ RunInv' /\ LogInv'
  BY DEF ScriptTypeOK, RunInv, LogInv
<1>2. SlotsAreCounted' /\ ActiveRowHasRunner' /\ ViewInv'
  BY DEF SlotsAreCounted, Holders, ActiveRowHasRunner, Running, ViewInv, LogOf
<1>3. QED
  BY <1>1, <1>2

LEMMA ScriptStepKeeps == ScriptInv /\ [ScriptNext]_scriptVars => ScriptInv'
<1> SUFFICES ASSUME ScriptInv, [ScriptNext]_scriptVars PROVE ScriptInv'
  OBVIOUS
<1>1. CASE \E c \in ScriptCalls : RequestRun(c) \/ FailToStart(c) \/ LoseInsert(c) \/ CallStep(c)
  BY <1>1, RequestRunKeeps, FailToStartKeeps, LoseInsertKeeps, TakeSlotKeeps, RefuseRunKeeps,
     InsertScriptRowKeeps, LaunchKeeps, ReleaseSlotKeeps DEF CallStep
<1>2. CASE \E c \in ScriptCalls : PrintLine(c) \/ FlushLog(c) \/ ExecutorStep(c)
  BY <1>2, PrintLineKeeps, FlushLogKeeps, BeginRunKeeps, EndProcessKeeps, BreakRunKeeps, CloseRunKeeps
     DEF ExecutorStep
<1>3. CASE \E c \in ScriptCalls : OpenView(c) \/ PollRow(c) \/ CloseView(c)
  BY <1>3, OpenViewKeeps, PollRowKeeps, CloseViewKeeps
<1>4. CASE StopHost \/ KillHost \/ BootHost \/ UNCHANGED scriptVars
  BY <1>4, StopHostKeeps, KillHostKeeps, BootHostKeeps, ScriptStutterKeeps
<1>5. QED
  BY <1>1, <1>2, <1>3, <1>4 DEF ScriptNext

LEMMA ScriptInvHolds == ScriptSpec => []ScriptInv
  BY ScriptInitKeeps, ScriptStepKeeps, PTL DEF ScriptSpec

\* The variables stay in their types: the semaphore never exceeds the size of the pool.
THEOREM ScriptTypeCorrect == ScriptSpec => []ScriptTypeOK
<1>1. ScriptInv => ScriptTypeOK
  BY DEF ScriptInv
<1>2. QED
  BY <1>1, ScriptInvHolds, PTL

\* However calls end, commits fail and the process dies: every slot is free or held by one
\* call, a row that blocks the deletion of its project has someone to settle it (as long as
\* commits are reliable), and a log view that has told the end has shown the whole log.
THEOREM ScriptsStayAccounted == ScriptSpec => []ScriptsAreAccounted
<1>1. ScriptInv => SlotsAreCounted /\ ActiveRowHasRunner
  BY DEF ScriptInv
<1>2. ScriptInv => ViewIsComplete
  BY DEF ScriptInv, ViewInv, LogInv, ViewIsComplete
<1>3. QED
  BY <1>1, <1>2, ScriptInvHolds, PTL DEF ScriptsAreAccounted
=============================================================================
