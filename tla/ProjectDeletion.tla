---------------------------- MODULE ProjectDeletion ----------------------------
(***************************************************************************)
(* The hard deletion of a project (services/project_deletion.py): close    *)
(* the project, check for running work, move the workspace into the trash, *)
(* delete the rows, purge the trash, with the undo of each step and the    *)
(* start-up sweep, beside what else touches a project: its creation        *)
(* (routers/projects.py), turns and script runs.                           *)
(*                                                                         *)
(* All projects of the model have the same slug, one after the other, and  *)
(* so the same workspace path.  One action is the code between two commits *)
(* or file operations.  Links, ownership and child projects are left out.  *)
(***************************************************************************)
EXTENDS Naturals, FiniteSets

CONSTANTS
  Projects,      \* ids of projects (bound: projects ever created)
  Deletions,     \* delete requests, each with its job id
  ProjectTurns,  \* turns started in some project
  Scripts,       \* script runs started in some project
  Troubles,      \* what may happen in a behaviour: sets of Trouble
  MaxRestarts,   \* bound: starts of the process
  Empty, Debris  \* what a path holds: nothing, or files of no project

Work == ProjectTurns \cup Scripts
\* Operations that may fail; "late": a script run that was authorized before the project
\* was closed is inserted after the check; "slow": so is the workspace of a new project made.
Trouble == {"check", "commit", "rename", "restore", "record", "rows", "purge", "init", "sweep", "late", "slow"}
Contents == Projects \cup {Empty, Debris}

ASSUME DeletionAssumption ==
  /\ Empty \notin Projects \cup {Debris} /\ Debris \notin Projects
  /\ ProjectTurns \cap Scripts = {} /\ MaxRestarts \in Nat
  /\ Troubles \subseteq SUBSET Trouble

VARIABLES
  trouble,   \* what may happen in this behaviour
  server,    \* serving, stopped or sweeping
  restarts,
  project,   \* row of each project: absent, live or gone; is_active; built: the workspace was made
  source,    \* what the workspace path of the slug holds
  trash,     \* what the trash path of each job holds
  job,       \* job row: the project and the status
  deleting,  \* where each delete request is
  moved,     \* its local `quarantined`
  sweeping,  \* jobs the sweep has read and not handled yet
  work       \* where each turn or script run is, and in which project

deletionVars == <<trouble, server, restarts, project, source, trash, job, deleting, moved, sweeping, work>>

NoProject == [row |-> "absent", active |-> FALSE, built |-> "no"]
NoJob == [project |-> Empty, status |-> "none"]
NoWork == [at |-> "idle", project |-> Empty]

DeletionTypeOK ==
  /\ trouble \in Troubles /\ server \in {"serving", "stopped", "sweeping"} /\ restarts \in 0..MaxRestarts
  /\ project \in [Projects -> [row : {"absent", "live", "gone"}, active : BOOLEAN,
                               built : {"no", "making", "yes"}]]
  /\ source \in Contents /\ trash \in [Deletions -> Contents]
  /\ job \in [Deletions -> [project : Projects \cup {Empty},
       status : {"none", "prepared", "quarantined", "db_deleted", "failed", "dropped"}]]
  /\ deleting \in [Deletions -> {"idle", "rows?", "turns?", "rename", "record", "delete", "purge",
                                 "drop", "undo", "reopen", "undelete", "keep", "done"}]
  /\ moved \in [Deletions -> BOOLEAN] /\ sweeping \in SUBSET Deletions
  /\ work \in [Work -> [at : {"idle", "claimed", "authorized", "working", "stranded", "done"},
                        project : Projects \cup {Empty}]]

DeletionInit ==
  /\ trouble \in Troubles /\ server = "serving" /\ restarts = 0
  /\ project = [p \in Projects |-> NoProject]
  /\ source = Empty /\ trash = [d \in Deletions |-> Empty]
  /\ job = [d \in Deletions |-> NoJob]
  /\ deleting = [d \in Deletions |-> "idle"]
  /\ moved = [d \in Deletions |-> FALSE] /\ sweeping = {}
  /\ work = [w \in Work |-> NoWork]

Serving == server = "serving"
MayFail(what) == what \in trouble
LiveWork(p) == p \in Projects /\ project[p].row = "live"
Open(p) == LiveWork(p) /\ project[p].active

\* UPDATE projects SET is_active = true: no row, no effect.
Reopened(p) == IF LiveWork(p) THEN [project EXCEPT ![p].active = TRUE] ELSE project

-----------------------------------------------------------------------------
(***************************************************************************)
(* Creation: the row is committed first, the workspace made afterwards.    *)
(***************************************************************************)
CreateProject(p) ==
  /\ Serving /\ project[p] = NoProject /\ p = CHOOSE q \in Projects : project[q] = NoProject
  /\ \A q \in Projects : ~LiveWork(q)              \* the slug is unique
  /\ source = Empty                            \* a leftover directory is not adopted
  /\ project' = [project EXCEPT ![p] = [row |-> "live", active |-> TRUE, built |-> "making"]]
  /\ UNCHANGED <<trouble, server, restarts, source, trash, job, deleting, moved, sweeping, work>>

\* mkdir(parents, exist_ok): a project that was deleted meanwhile gets files all the same.
MakeWorkspace(p) ==
  /\ Serving /\ project[p].built = "making"
  /\ project' = [project EXCEPT ![p].built = IF LiveWork(p) THEN "yes" ELSE "no"]
  /\ source' = IF LiveWork(p) THEN p ELSE IF source = Empty THEN Debris ELSE source
  /\ UNCHANGED <<trouble, server, restarts, trash, job, deleting, moved, sweeping, work>>

MakeWorkspaceFails(p) ==
  /\ Serving /\ project[p].built = "making" /\ MayFail("init")
  /\ project' = [project EXCEPT ![p].built = "no", ![p].active = FALSE]
  /\ source' \in {source, IF source = Empty THEN Debris ELSE source}
  /\ UNCHANGED <<trouble, server, restarts, trash, job, deleting, moved, sweeping, work>>

-----------------------------------------------------------------------------
(***************************************************************************)
(* What works in a project.                                                *)
(***************************************************************************)
SetWork(w, at, p) == work' = [work EXCEPT ![w] = [at |-> at, project |-> p]]
workAlone == <<trouble, server, restarts, project, trash, job, deleting, moved, sweeping>>

\* A turn claims its conversation first and reads is_active afterwards.
ClaimTurn(w, p) ==
  /\ Serving /\ work[w] = NoWork /\ project[p].row # "absent"
  /\ SetWork(w, "claimed", p) /\ UNCHANGED <<workAlone, source>>

EnterTurn(w) ==
  /\ Serving /\ work[w].at = "claimed"
  /\ SetWork(w, IF Open(work[w].project) THEN "working" ELSE "done", work[w].project)
  /\ UNCHANGED <<workAlone, source>>

\* A script run is authorized first and inserts its row afterwards.
AuthorizeScript(w, p) ==
  /\ Serving /\ work[w] = NoWork /\ Open(p) /\ "late" \in trouble
  /\ SetWork(w, "authorized", p) /\ UNCHANGED <<workAlone, source>>

InsertScriptRun(w) ==
  /\ Serving /\ work[w].at = "authorized"
  /\ SetWork(w, IF LiveWork(work[w].project) THEN "working" ELSE "done", work[w].project)
  /\ UNCHANGED <<workAlone, source>>

\* work_dir.mkdir(parents) and the script's own files.
ScriptWrites(w) ==
  /\ Serving /\ work[w].at = "working" /\ source = Empty
  /\ source' = Debris /\ UNCHANGED <<workAlone, work>>

EndProjectWork(w) ==
  /\ Serving /\ work[w].at = "working"
  /\ SetWork(w, "done", work[w].project) /\ UNCHANGED <<workAlone, source>>

-----------------------------------------------------------------------------
(***************************************************************************)
(* delete_project.                                                         *)
(***************************************************************************)
Goto(d, at) == deleting' = [deleting EXCEPT ![d] = at]
Sets(d, status) == job' = [job EXCEPT ![d].status = status]
others == <<trouble, server, restarts, sweeping, work>>

\* Job ids are interchangeable: they are taken in a fixed order.
Fresh(d) == deleting[d] = "idle" /\ d = CHOOSE e \in Deletions : deleting[e] = "idle"

\* The flip of is_active and the job row are one commit.
Prepare(d, p) ==
  /\ Serving /\ Fresh(d) /\ Open(p)
  /\ project[p].built = "making" => "slow" \in trouble
  /\ project' = [project EXCEPT ![p].active = FALSE]
  /\ job' = [job EXCEPT ![d] = [project |-> p, status |-> "prepared"]]
  /\ Goto(d, "rows?")
  /\ UNCHANGED <<others, source, trash, moved>>

RunsIn(p) == {w \in Scripts : work[w].at \in {"working", "stranded"} /\ work[w].project = p}
TurnsIn(p) == {w \in ProjectTurns : work[w].at \in {"claimed", "working"} /\ work[w].project = p}

\* The queries of _check_delete.
CheckRows(d) ==
  /\ Serving /\ deleting[d] = "rows?"
  /\ \/ Goto(d, IF RunsIn(job[d].project) = {} THEN "turns?" ELSE "reopen")
     \/ MayFail("check") /\ Goto(d, "reopen")
  /\ UNCHANGED <<others, project, source, trash, job, moved>>

\* Its last look, at the claims and sessions of the manager.
CheckTurns(d) ==
  /\ Serving /\ deleting[d] = "turns?"
  /\ Goto(d, IF TurnsIn(job[d].project) = {} THEN "rename" ELSE "reopen")
  /\ UNCHANGED <<others, project, source, trash, job, moved>>

Quarantine(d) ==
  /\ Serving /\ deleting[d] = "rename"
  /\ trash' = [trash EXCEPT ![d] = source] /\ source' = Empty
  /\ moved' = [moved EXCEPT ![d] = source # Empty]
  /\ Goto(d, "record")
  /\ UNCHANGED <<others, project, job>>

QuarantineFails(d) ==
  /\ Serving /\ deleting[d] = "rename" /\ source # Empty /\ MayFail("rename")
  /\ Goto(d, "undo")
  /\ UNCHANGED <<others, project, source, trash, job, moved>>

RecordQuarantine(d) ==
  /\ Serving /\ deleting[d] = "record"
  /\ \/ Sets(d, "quarantined") /\ Goto(d, "delete")
     \/ MayFail("record") /\ Goto(d, "undo") /\ UNCHANGED job
  /\ UNCHANGED <<others, project, source, trash, moved>>

\* The rename back, or its failure.
PutBack(d) ==
  \/ source' = trash[d] /\ trash' = [trash EXCEPT ![d] = Empty]
  \/ MayFail("restore") /\ UNCHANGED <<source, trash>>

Restorable(d) == moved[d] /\ source = Empty /\ trash[d] # Empty

\* Variant: reopen whatever became of the workspace.
UndoQuarantineAlways(d) ==
  /\ Serving /\ deleting[d] = "undo"
  /\ IF Restorable(d) THEN PutBack(d) ELSE UNCHANGED <<source, trash>>
  /\ Goto(d, "reopen")
  /\ UNCHANGED <<others, project, job, moved>>

\* After a failed rename or record: restore, then reopen if the path exists.
UndoQuarantine(d) ==
  /\ Serving /\ deleting[d] = "undo"
  /\ IF Restorable(d) THEN PutBack(d) ELSE UNCHANGED <<source, trash>>
  /\ Goto(d, IF source' # Empty THEN "reopen" ELSE "keep")
  /\ UNCHANGED <<others, project, job, moved>>

\* All rows of the project and the status of the job, in one transaction.
DeleteRows(d) ==
  /\ Serving /\ deleting[d] = "delete"
  /\ project' = [project EXCEPT ![job[d].project].row = "gone", ![job[d].project].active = FALSE]
  /\ Sets(d, "db_deleted") /\ Goto(d, "purge")
  /\ UNCHANGED <<others, source, trash, moved>>

DeleteRowsFails(d) ==
  /\ Serving /\ deleting[d] = "delete" /\ MayFail("rows")
  /\ Goto(d, "undelete")
  /\ UNCHANGED <<others, project, source, trash, job, moved>>

\* After a failed transaction: reopen only what was restored or never moved.
UndoDelete(d) ==
  /\ Serving /\ deleting[d] = "undelete"
  /\ IF Restorable(d) THEN PutBack(d) ELSE UNCHANGED <<source, trash>>
  /\ Goto(d, IF ~moved[d] \/ trash'[d] # trash[d] THEN "reopen" ELSE "keep")
  /\ UNCHANGED <<others, project, job, moved>>

\* _job_error: the reopening, where there is one, and the status are one commit.
JobError(d) ==
  /\ Serving /\ deleting[d] \in {"reopen", "keep"}
  /\ \/ /\ project' = IF deleting[d] = "reopen" THEN Reopened(job[d].project) ELSE project
        /\ Sets(d, "failed")
     \/ MayFail("commit") /\ UNCHANGED <<project, job>>
  /\ Goto(d, "done")
  /\ UNCHANGED <<others, source, trash, moved>>

PurgeTrash(d) ==
  /\ Serving /\ deleting[d] = "purge"
  /\ trash' = [trash EXCEPT ![d] = Empty]
  /\ Goto(d, "drop")
  /\ UNCHANGED <<others, project, source, job, moved>>

\* The job keeps db_deleted: the sweep retries.
PurgeFails(d) ==
  /\ Serving /\ deleting[d] = "purge" /\ MayFail("purge")
  /\ Goto(d, "done")
  /\ UNCHANGED <<others, project, source, trash, job, moved>>

DropJob(d) ==
  /\ Serving /\ deleting[d] = "drop"
  /\ \/ Sets(d, "dropped")
     \/ MayFail("commit") /\ UNCHANGED job
  /\ Goto(d, "done")
  /\ UNCHANGED <<others, project, source, trash, moved>>

-----------------------------------------------------------------------------
(***************************************************************************)
(* Death of the process, start, and the sweep, which is over before the    *)
(* API serves.                                                             *)
(***************************************************************************)
StopServer ==
  /\ server # "stopped" /\ restarts < MaxRestarts
  /\ server' = "stopped" /\ sweeping' = {}
  /\ deleting' = [d \in Deletions |-> IF deleting[d] = "idle" THEN "idle" ELSE "done"]
  /\ project' = [p \in Projects |->
       IF project[p].built = "making" THEN [project[p] EXCEPT !.built = "no"] ELSE project[p]]
  /\ work' = [w \in Work |->
       IF work[w].at = "idle" THEN work[w]
       ELSE [work[w] EXCEPT !.at = IF w \in RunsIn(work[w].project) THEN "stranded" ELSE "done"]]
  /\ UNCHANGED <<trouble, restarts, source, trash, job, moved>>

Unfinished == {d \in Deletions : job[d].status \in {"prepared", "quarantined", "db_deleted", "failed"}}

StartServer ==
  /\ server = "stopped"
  /\ restarts' = restarts + 1 /\ server' = "sweeping" /\ sweeping' = Unfinished
  /\ UNCHANGED <<trouble, project, source, trash, job, deleting, moved, work>>

sweepAlone == <<trouble, server, restarts, deleting, moved, work>>
Swept(d) == sweeping' = sweeping \ {d}

\* Project and workspace are there, or there never was a workspace: reopen.
SweepReopen(d) ==
  /\ server = "sweeping" /\ d \in sweeping /\ LiveWork(job[d].project)
  /\ source # Empty \/ trash[d] = Empty
  /\ project' = Reopened(job[d].project) /\ Sets(d, "failed") /\ Swept(d)
  /\ UNCHANGED <<sweepAlone, source, trash>>

\* The workspace is in the trash: rename it back; the reopening follows as
\* SweepReopen, for the source exists now, and a crash between the two only
\* repeats it.
SweepRestore(d) ==
  /\ server = "sweeping" /\ d \in sweeping /\ LiveWork(job[d].project)
  /\ source = Empty /\ trash[d] # Empty
  /\ source' = trash[d] /\ trash' = [trash EXCEPT ![d] = Empty]
  /\ UNCHANGED <<sweepAlone, project, job, sweeping>>

\* The rows are gone: purge the trash, never the source.
SweepPurge(d) ==
  /\ server = "sweeping" /\ d \in sweeping /\ ~LiveWork(job[d].project)
  /\ job[d].status = "db_deleted"
  /\ trash' = [trash EXCEPT ![d] = Empty] /\ Sets(d, "dropped") /\ Swept(d)
  /\ UNCHANGED <<sweepAlone, project, source>>

SweepSkip(d) ==
  /\ server = "sweeping" /\ d \in sweeping
  /\ \/ ~LiveWork(job[d].project) /\ job[d].status # "db_deleted"
     \/ MayFail("sweep")                       \* logged, the next job is handled
  /\ Swept(d)
  /\ UNCHANGED <<sweepAlone, project, source, trash, job>>

\* The sweep of the script runs (routers/scripts.py) follows.
Serve ==
  /\ server = "sweeping" /\ sweeping = {}
  /\ server' = "serving"
  /\ work' = [w \in Work |-> IF work[w].at = "stranded" THEN [work[w] EXCEPT !.at = "done"] ELSE work[w]]
  /\ UNCHANGED <<trouble, restarts, project, source, trash, job, deleting, moved, sweeping>>

-----------------------------------------------------------------------------
DeletionStep(d) ==
  \/ CheckRows(d) \/ CheckTurns(d) \/ Quarantine(d) \/ QuarantineFails(d) \/ RecordQuarantine(d)
  \/ UndoQuarantine(d) \/ DeleteRows(d) \/ DeleteRowsFails(d) \/ UndoDelete(d)
  \/ JobError(d) \/ PurgeTrash(d) \/ PurgeFails(d) \/ DropJob(d)

SweepStep == (\E d \in Deletions : SweepReopen(d) \/ SweepRestore(d) \/ SweepPurge(d) \/ SweepSkip(d)) \/ Serve

WorkStep ==
  \/ \E w \in ProjectTurns : EnterTurn(w) \/ (\E p \in Projects : ClaimTurn(w, p))
  \/ \E w \in Scripts : InsertScriptRun(w) \/ ScriptWrites(w) \/ (\E p \in Projects : AuthorizeScript(w, p))
  \/ \E w \in Work : EndProjectWork(w)

DeletionNext ==
  \/ \E p \in Projects : CreateProject(p) \/ MakeWorkspace(p) \/ MakeWorkspaceFails(p)
  \/ \E d \in Deletions : DeletionStep(d) \/ (\E p \in Projects : Prepare(d, p))
  \/ WorkStep \/ SweepStep \/ StopServer \/ StartServer

DeletionSpec == DeletionInit /\ [][DeletionNext]_deletionVars

-----------------------------------------------------------------------------
(***************************************************************************)
(* Properties.                                                             *)
(***************************************************************************)
\* _purge comes after the rows only: the workspace of a project whose row
\* exists is at its path or in the trash of one of its own jobs, whatever
\* failed or crashed in between.
WorkspaceIsKept ==
  \A p \in Projects : LiveWork(p) /\ project[p].built = "yes" =>
    \/ source = p
    \/ \E d \in Deletions : trash[d] = p /\ job[d].project = p

\* "Reopening a project without its workspace would be worse" than a frozen
\* one: an open project of a serving process has its workspace.
\* Not so if a rename of the sweep fails, or if late work makes the path anew.
Orderly == trouble \cap {"sweep", "late", "slow"} = {}

OpenHasWorkspace ==
  Orderly /\ Serving => \A p \in Projects : Open(p) /\ project[p].built = "yes" => source = p

\* The flip of is_active before the check and the claim before the gate: a
\* turn never works on a project that is being taken away.
TurnHasProject ==
  \A w \in ProjectTurns : work[w].at = "working" =>
    LET p == work[w].project IN
      LiveWork(p) /\ (Orderly /\ project[p].built = "yes" => source = p)

\* "Never infer deletion from a reused slug": a workspace leaves its path by a
\* deletion of its own project only.
SlugIsNotConfused ==
  [][\A p \in Projects : source = p /\ source' # p =>
       \E d \in Deletions : job[d].project = p /\ deleting[d] = "rename"]_deletionVars

\* When the process serves again nothing is half done: every job is settled,
\* deleted projects have left nothing in the trash, no project is closed.
SweepIsComplete ==
  [][Orderly /\ server = "sweeping" /\ server' = "serving" =>
       \A d \in Deletions :
         /\ job[d].status \in {"none", "failed", "dropped"}
         /\ trash[d] = Empty
         /\ LiveWork(job[d].project) => Open(job[d].project)]_deletionVars

\* Whatever fails or crashes while a project is deleted, its files exist as long as its
\* row does, it is open only with them, a turn works only where they are, and only a
\* deletion of the project itself takes them away; a start leaves none half done.
DeletionIsSafe ==
  /\ [](WorkspaceIsKept /\ OpenHasWorkspace /\ TurnHasProject)
  /\ SlugIsNotConfused /\ SweepIsComplete

-----------------------------------------------------------------------------
\* The event loop drives every request, the sweep and the container a start;
\* nothing is assumed of users, turns, scripts or crashes.
DeletionFairness ==
  /\ WF_deletionVars(StartServer) /\ WF_deletionVars(SweepStep)
  /\ \A d \in Deletions : WF_deletionVars(DeletionStep(d))

DeletionFairSpec == DeletionSpec /\ DeletionFairness

\* A deletion that fails, is refused or dies does not freeze the project for
\* ever, as long as the undo itself works.
ClosedIsTemporary ==
  \A p \in Projects :
    []<>~(/\ trouble \cap {"commit", "restore", "sweep", "late", "slow"} = {}
          /\ LiveWork(p) /\ project[p].built = "yes" /\ ~project[p].active)

\* What a deletion has moved away is purged or put back.
TrashIsEmptied == \A d \in Deletions : []<>~(trouble = {} /\ trash[d] # Empty)
=============================================================================
