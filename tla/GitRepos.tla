-------------------------------- MODULE GitRepos --------------------------------
(***************************************************************************)
(* One clone under repos/ that tasks of a project share: the operations of *)
(* tools/git_repo.py, each a series of git commands with an await between  *)
(* them, and the code graph that is built after them, in the turn or in    *)
(* the background (knowledge/graph/builder.py).                            *)
(***************************************************************************)
EXTENDS Naturals, Sequences, FiniteSets

CONSTANTS
  GitTasks,     \* bound: tasks that use the clone
  GitLoads,     \* bound: what they do, in which order, and what there is at first, see GitAssumption
  MaxMishaps    \* bound: commands that fail or time out, builds that raise, callers that are cancelled

Ops == {"clone", "pull", "checkoutMain", "checkoutFeature", "prepare", "sync", "commit", "push", "remove", "build"}

\* A history is the set of its changes.
ASSUME GitAssumption ==
  /\ MaxMishaps \in Nat /\ IsFiniteSet(GitTasks) /\ "worker" \notin GitTasks
  /\ \A l \in GitLoads :
       /\ l.ops \in [GitTasks -> Seq(Ops)] /\ l.cloned \in BOOLEAN /\ l.size \in {"small", "large", "huge"}
       /\ l.edits \in [GitTasks -> SUBSET {"f", "g"}] /\ l.staged \subseteq {"f", "g"}

VARIABLES
  load,     \* the workload
  repo,     \* the working tree: HEAD's branch, local branches, changed and staged files, an open merge
  remote,   \* branches of the origin
  staging,  \* staging directories of clones
  op,       \* per task: operations left, the next command of the current one, what it has read
  results,  \* how operations ended
  commits,  \* who committed which files, having selected which
  graphBuild,    \* per builder: the stage of its build and what it has read
  graph, manifest,  \* graph.json and build_manifest.json
  worker,   \* the background task, its rerun flag, how its last pass ended
  wanted,   \* HEAD when a graph was last asked for; not asked if HEAD has moved since or the build was lost
  mixedCommit,    \* graphs were read from a tree that was not their head, or written late
  late,     \* graphs that threads of cancelled builds still write
  mishaps

gitVars == <<load, repo, remote, staging, op, results, commits, graphBuild, graph, manifest, worker, wanted,
             mixedCommit, late, mishaps>>

NoRepo == [there |-> FALSE, whole |-> FALSE, head |-> "main", branches |-> [b \in {"main", "feature"} |-> {}],
           dirty |-> {}, staged |-> {}, merging |-> FALSE]
Cloned(origin) == [NoRepo EXCEPT !.there = TRUE, !.whole = TRUE, !.branches = [@ EXCEPT !["main"] = origin["main"]]]
HeadOf(r) == r.branches[r.head]
NoGraph == [there |-> FALSE, head |-> {}, content |-> {}]
NoBuild == [at |-> "none", listed |-> {}, head |-> {}, content |-> {}, force |-> FALSE]
Builders == GitTasks \cup {"worker"}

GitInit ==
  /\ load \in GitLoads
  /\ remote = [NoRepo.branches EXCEPT !["main"] = {"m1"}]
  /\ repo = IF load.cloned THEN [Cloned(remote) EXCEPT !.staged = load.staged] ELSE NoRepo
  /\ staging = {} /\ op = [t \in GitTasks |-> [left |-> load.ops[t], next |-> 0, seen |-> {}]]
  /\ results = {} /\ commits = {} /\ graphBuild = [b \in Builders |-> NoBuild]
  /\ graph = NoGraph /\ manifest = NoGraph
  /\ worker = [at |-> "none", rerun |-> FALSE] /\ wanted = [asked |-> FALSE, head |-> {}]
  /\ mixedCommit = FALSE /\ late = {} /\ mishaps = 0

-----------------------------------------------------------------------------
(***************************************************************************)
(* Operations are series of commands.                                      *)
(***************************************************************************)
Series(o) ==
  CASE o = "clone" -> <<"absent", "clone", "rename", "graph">>
    [] o = "pull" -> <<"clean", "read", "pull", "graphIfMoved">>
    [] o \in {"checkoutMain", "checkoutFeature"} -> <<"clean", o, "graph">>
    [] o = "prepare" -> <<"clean", "fetch", "checkoutMain", "pullMain", "feature", "mergeMain", "graph">>
    [] o = "sync" -> <<"clean", "fetch", "checkoutFeature", "mergeOrigin", "mergeFeature", "graph">>
    [] o = "commit" -> <<"unrelated", "add", "exceeds", "commit">>
    [] o = "push" -> <<"push">>
    [] o = "remove" -> <<"ask", "delete">>
    [] o = "build" -> <<"build">>

Current(t) == Series(op[t].left[1])[op[t].next]
Selected(t) == load.edits[t]

BeginGit(t) ==
  /\ op[t].left # <<>> /\ op[t].next = 0
  /\ op' = [op EXCEPT ![t].next = 1]
  \* The agent has edited the files it is about to commit.
  /\ repo' = IF op[t].left[1] = "commit" /\ repo.there THEN [repo EXCEPT !.dirty = @ \cup Selected(t)] ELSE repo
  /\ UNCHANGED <<load, remote, staging, results, commits, graphBuild, graph, manifest, worker, wanted,
                 mixedCommit, late, mishaps>>

\* The operation goes on with the next command, or ends.
Continue(t, seen) == op' = [op EXCEPT ![t].next = @ + 1, ![t].seen = seen]
FinishGit(t, how) ==
  /\ op' = [op EXCEPT ![t] = [left |-> Tail(@.left), next |-> 0, seen |-> {}]]
  /\ results' = results \cup {<<op[t].left[1], how>>}

GitMishap == mishaps < MaxMishaps /\ mishaps' = mishaps + 1

-----------------------------------------------------------------------------
(***************************************************************************)
(* What git does, one command at a time.                                   *)
(***************************************************************************)
Clean == repo.dirty = {} /\ repo.staged = {} /\ ~repo.merging
FastForward(mine, theirs) == IF theirs \subseteq mine THEN mine ELSE theirs
Diverged(mine, theirs) == ~(mine \subseteq theirs) /\ ~(theirs \subseteq mine)
OnBranch(b, changes) == [repo EXCEPT !.head = b, !.branches = [@ EXCEPT ![b] = changes]]
\* git checkout makes a local branch of a remote one of that name.
Switchable(b) == ~repo.merging /\ (repo.branches[b] # {} \/ remote[b] # {})
Switched(b) == OnBranch(b, IF repo.branches[b] # {} THEN repo.branches[b] ELSE remote[b])

Succeeds(t, new) == repo' = new /\ Continue(t, op[t].seen) /\ UNCHANGED <<remote, results, commits>>
GitRefused(t, how) == FinishGit(t, how) /\ UNCHANGED <<repo, remote, commits>>

\* A merge of two histories may conflict; the merge stays open then.
Merges(t, theirs) ==
  \/ theirs = {} /\ Succeeds(t, repo)
  \/ repo.merging /\ GitRefused(t, "error")
  \/ theirs # {} /\ ~repo.merging /\ Succeeds(t, OnBranch(repo.head, HeadOf(repo) \cup theirs))
  \/ /\ Diverged(HeadOf(repo), theirs) /\ ~repo.merging
     /\ repo' = [repo EXCEPT !.merging = TRUE] /\ FinishGit(t, "conflict") /\ UNCHANGED <<remote, commits>>

PullsFrom(t, b) ==
  IF Diverged(HeadOf(repo), remote[b]) \/ repo.merging \/ remote[b] = {} THEN GitRefused(t, "error")
  ELSE Succeeds(t, OnBranch(repo.head, FastForward(HeadOf(repo), remote[b])))

Commits(t) ==
  IF repo.merging \/ repo.staged = {} THEN GitRefused(t, "error")
  ELSE /\ repo' = [OnBranch(repo.head, HeadOf(repo) \cup {t}) EXCEPT !.staged = {}]
       /\ commits' = commits \cup {[by |-> t, files |-> repo.staged]}
       /\ FinishGit(t, "committed") /\ UNCHANGED remote

Exceeding(t) == repo.staged \ Selected(t)

Git(t) ==
  LET c == Current(t) IN
    \/ c = "clean" /\ IF Clean THEN Succeeds(t, repo) ELSE GitRefused(t, "dirty")
    \/ c = "read" /\ Continue(t, HeadOf(repo)) /\ UNCHANGED <<repo, remote, results, commits>>
    \/ c = "fetch" /\ Succeeds(t, repo)
    \/ c = "pull" /\ PullsFrom(t, repo.head)
    \/ c = "pullMain" /\ PullsFrom(t, "main")
    \/ c = "checkoutMain" /\ IF Switchable("main") THEN Succeeds(t, Switched("main")) ELSE GitRefused(t, "error")
    \/ c = "checkoutFeature" /\ IF Switchable("feature") THEN Succeeds(t, Switched("feature")) ELSE GitRefused(t, "error")
    \/ c = "feature" /\ IF repo.merging THEN GitRefused(t, "error")
                        ELSE Succeeds(t, IF Switchable("feature") THEN Switched("feature")
                                         ELSE OnBranch("feature", repo.branches["main"]))
    \/ c = "mergeMain" /\ Merges(t, repo.branches["main"])
    \/ c = "mergeOrigin" /\ Merges(t, remote["main"])
    \/ c = "mergeFeature" /\ Merges(t, remote["feature"])
    \/ c \in {"unrelated", "exceeds"} /\ IF Exceeding(t) # {} THEN GitRefused(t, "unrelated")
                                         ELSE IF c = "exceeds" /\ repo.staged = {} THEN GitRefused(t, "nothing")
                                         ELSE Succeeds(t, repo)
    \/ c = "add" /\ Succeeds(t, [repo EXCEPT !.staged = @ \cup (repo.dirty \cap Selected(t)), !.dirty = @ \ Selected(t)])
    \/ c = "commit" /\ Commits(t)
    \/ /\ c = "push"
       /\ IF remote[repo.head] \subseteq HeadOf(repo)
          THEN /\ remote' = [remote EXCEPT ![repo.head] = HeadOf(repo)]
               /\ FinishGit(t, "pushed") /\ UNCHANGED <<repo, commits>>
          ELSE GitRefused(t, "rejected")

GitCommands == {"clean", "read", "fetch", "pull", "pullMain", "checkoutMain", "checkoutFeature", "feature", "mergeMain",
                "mergeOrigin", "mergeFeature", "unrelated", "exceeds", "add", "commit", "push"}

RunGit(t) ==
  /\ op[t].next # 0 /\ Current(t) \in GitCommands
  /\ IF repo.there /\ repo.whole THEN Git(t) ELSE GitRefused(t, "error")
  /\ wanted' = IF HeadOf(repo') = HeadOf(repo) THEN wanted ELSE [wanted EXCEPT !.asked = FALSE]
  /\ UNCHANGED <<load, staging, graphBuild, graph, manifest, worker, mixedCommit, late, mishaps>>

\* A command fails or is killed when its time is up.
GitFails(t) ==
  /\ op[t].next # 0 /\ Current(t) \in GitCommands /\ GitMishap /\ GitRefused(t, "error")
  /\ UNCHANGED <<load, staging, graphBuild, graph, manifest, worker, wanted, mixedCommit, late>>

\* Somebody else pushes to the origin.
OthersPush ==
  /\ "m2" \notin remote["main"] /\ remote' = [remote EXCEPT !["main"] = @ \cup {"m2"}]
  /\ UNCHANGED <<load, repo, staging, op, results, commits, graphBuild, graph, manifest, worker, wanted,
                 mixedCommit, late, mishaps>>

-----------------------------------------------------------------------------
(***************************************************************************)
(* clone goes into a staging directory and is renamed; remove asks first.  *)
(***************************************************************************)
Stays == UNCHANGED <<load, remote, commits, graphBuild, graph, manifest, worker, wanted, mixedCommit, late>>

\* A clone that failed removes its staging directory, if it can.
CleansUp(t, how) ==
  \/ staging' = staging \ {t} /\ FinishGit(t, how)
  \/ staging' = staging /\ FinishGit(t, "uncleaned")

CloneStep(t) ==
  /\ op[t].next # 0 /\ Stays
  /\ \/ /\ Current(t) = "absent" /\ UNCHANGED <<repo, mishaps>>
        /\ IF repo.there THEN FinishGit(t, IF repo.whole THEN "already_exists" ELSE "error") /\ UNCHANGED staging
           ELSE Continue(t, {}) /\ staging' = staging \cup {t} /\ UNCHANGED results
     \/ Current(t) = "clone" /\ Continue(t, {}) /\ UNCHANGED <<repo, staging, results, mishaps>>
     \/ Current(t) = "clone" /\ GitMishap /\ CleansUp(t, "error") /\ UNCHANGED repo

\* A lost race keeps the tree of the winner; the rename, or the clean-up after it, may fail.
Rename(t) ==
  /\ op[t].next # 0 /\ Current(t) = "rename" /\ Stays
  /\ \/ /\ ~repo.there /\ repo' = Cloned(remote) /\ Continue(t, {})
        /\ staging' = staging \ {t} /\ UNCHANGED <<results, mishaps>>
     \/ /\ repo.there /\ FinishGit(t, "already_exists")
        /\ staging' = staging \ {t} /\ UNCHANGED <<repo, mishaps>>
     \/ GitMishap /\ CleansUp(t, IF repo.there THEN "already_exists" ELSE "error") /\ UNCHANGED repo

AskGit(t) ==
  /\ op[t].next # 0 /\ Current(t) = "ask"
  /\ \/ repo.there /\ Continue(t, {"confirm"}) /\ UNCHANGED results
     \/ FinishGit(t, "cancelled")
  /\ UNCHANGED <<load, repo, remote, staging, commits, graphBuild, graph, manifest, worker, wanted,
                 mixedCommit, late, mishaps>>

\* The graph goes first, as far as it can be removed, then the tree, without an await between them.
\* A tree that cannot be removed, or is gone already, loses what went before the failure: of .git,
\* and it is a tree no more, or of the files in it.
Wreck == [NoRepo EXCEPT !.there = TRUE]
HalfDeleted == {Wreck} \cup {[repo EXCEPT !.dirty = @ \cup lost] : lost \in SUBSET {"f", "g"}}
Delete(t) ==
  /\ op[t].next # 0 /\ Current(t) = "delete" /\ wanted' = [asked |-> FALSE, head |-> {}]
  /\ \/ /\ graph' = NoGraph /\ manifest' = NoGraph /\ UNCHANGED mishaps
        /\ IF repo.there THEN repo' = NoRepo /\ FinishGit(t, "removed")
           ELSE UNCHANGED repo /\ FinishGit(t, "remove_failed")
     \/ /\ repo.there /\ graph' \in {graph, NoGraph} /\ manifest' \in {manifest, NoGraph} /\ GitMishap
        /\ \/ repo' = NoRepo /\ FinishGit(t, "removed")
           \/ repo' \in HalfDeleted /\ FinishGit(t, "remove_failed")
  /\ UNCHANGED <<load, remote, staging, commits, graphBuild, worker, mixedCommit, late>>

-----------------------------------------------------------------------------
(***************************************************************************)
(* Graphs: in the turn for a small clone, by one background task for a     *)
(* large one; one build at a time.                                         *)
(***************************************************************************)
GitStarts(b, force) == graphBuild' = [graphBuild EXCEPT ![b] = [NoBuild EXCEPT !.at = "lock", !.force = force]]
GitAsked == wanted' = [asked |-> TRUE, head |-> HeadOf(repo)]

\* enqueue_auto_build: a task that is registered is told to run once more.
EnqueueBuild ==
  IF worker.at = "none" THEN worker' = [at |-> "begun", rerun |-> FALSE]
  ELSE worker' = [worker EXCEPT !.rerun = TRUE]

\* _attach_graph, maybe_build_auto, and an explicit build.
AskGraph(t) ==
  /\ op[t].next # 0 /\ graphBuild[t].at = "none"
  /\ \/ Current(t) = "graphIfMoved" /\ op[t].seen = HeadOf(repo) /\ FinishGit(t, "done")
        /\ UNCHANGED <<graphBuild, worker, wanted>>
     \/ /\ \/ Current(t) = "graph"
           \/ Current(t) = "graphIfMoved" /\ op[t].seen # HeadOf(repo)
        /\ \/ (repo.there => ~repo.whole \/ load.size = "huge") /\ FinishGit(t, "done")
              /\ UNCHANGED <<graphBuild, worker, wanted>>
           \/ /\ repo.there /\ load.size # "huge" /\ GitAsked
              /\ IF load.size = "large" THEN EnqueueBuild /\ FinishGit(t, "queued") /\ UNCHANGED graphBuild
                 ELSE GitStarts(t, FALSE) /\ UNCHANGED <<worker, op, results>>
     \/ /\ Current(t) = "build"
        /\ IF repo.there /\ load.size # "huge" THEN GitAsked /\ GitStarts(t, TRUE) /\ UNCHANGED <<worker,
                                                                                                  op,
                                                                                                  results>>
           ELSE FinishGit(t, "error") /\ UNCHANGED <<graphBuild, worker, wanted>>
  /\ UNCHANGED <<load, repo, remote, staging, commits, graph, manifest, mixedCommit, late, mishaps>>

WorkerBegins ==
  /\ worker.at = "begun" /\ worker' = [at |-> "building", rerun |-> FALSE] /\ GitStarts("worker", FALSE)
  /\ UNCHANGED <<load, repo, remote, staging, op, results, commits, graph, manifest, wanted, mixedCommit,
                 late, mishaps>>

Busy(b) == graphBuild[b].at \in {"list", "head", "compare", "read", "manifest", "write"}
OpAt(b, s) == graphBuild' = [graphBuild EXCEPT ![b].at = s]

\* The build of b is over: its operation ends, or the background task looks at its flag.
BuildEnds(b) ==
  /\ graphBuild' = [graphBuild EXCEPT ![b] = NoBuild]
  /\ IF b = "worker"
     THEN worker' = [worker EXCEPT !.at = IF worker.rerun THEN "begun" ELSE "returned"] /\ UNCHANGED <<op,
                                                                                                       results>>
     ELSE FinishGit(b, "built") /\ UNCHANGED worker

BuildStep(b) ==
  LET s == graphBuild[b] IN
  /\ \/ /\ s.at = "lock" /\ \A c \in Builders : ~Busy(c)
        /\ OpAt(b, "list") /\ UNCHANGED <<graph, manifest, mixedCommit, op, results, worker>>
     \/ /\ s.at = "list" /\ graphBuild' = [graphBuild EXCEPT ![b] = [@ EXCEPT !.at = "head", !.listed = HeadOf(repo)]]
        /\ UNCHANGED <<graph, manifest, mixedCommit, op, results, worker>>
     \/ /\ s.at = "head" /\ graphBuild' = [graphBuild EXCEPT ![b] = [@ EXCEPT !.at = "compare", !.head = HeadOf(repo)]]
        /\ UNCHANGED <<graph, manifest, mixedCommit, op, results, worker>>
     \/ /\ s.at = "compare" /\ UNCHANGED <<graph, manifest, mixedCommit>>
        /\ IF ~s.force /\ s.head # {} /\ graph.there /\ manifest.there /\ graph.head = s.head
              /\ s.listed \subseteq manifest.content
           THEN BuildEnds(b) ELSE OpAt(b, "read") /\ UNCHANGED <<op, results, worker>>
     \/ /\ s.at = "read"
        /\ graphBuild' = [graphBuild EXCEPT ![b] = [@ EXCEPT !.at = "manifest", !.content = s.listed \cap HeadOf(repo)]]
        /\ mixedCommit' = (mixedCommit \/ s.listed # s.head \/ HeadOf(repo) # s.head)
        /\ UNCHANGED <<graph, manifest, op, results, worker>>
     \/ /\ s.at = "manifest" /\ manifest' = [there |-> TRUE, head |-> s.head, content |-> s.listed]
        /\ OpAt(b, "write") /\ UNCHANGED <<graph, mixedCommit, op, results, worker>>
     \/ /\ s.at = "write" /\ graph' = [there |-> TRUE, head |-> s.head, content |-> s.content]
        /\ BuildEnds(b) /\ UNCHANGED <<manifest, mixedCommit>>
  /\ UNCHANGED <<load, repo, remote, staging, commits, wanted, late, mishaps>>

\* Git without a tree, a full disk, no graphify: nobody hears of it but the log.
BuildFails(b) ==
  /\ Busy(b) /\ (repo.whole => GitMishap) /\ (~repo.whole => UNCHANGED mishaps)
  /\ BuildEnds(b) /\ wanted' = [wanted EXCEPT !.asked = FALSE]
  /\ UNCHANGED <<load, repo, remote, staging, commits, graph, manifest, mixedCommit, late>>

\* The done callback of the background task: a request that came too late for its loop begins a new one.
WorkerDone ==
  /\ worker.at = "returned"
  /\ worker' = IF worker.rerun THEN [at |-> "begun", rerun |-> FALSE] ELSE [at |-> "none", rerun |-> FALSE]
  /\ UNCHANGED <<load, repo, remote, staging, op, results, commits, graphBuild, graph, manifest, wanted,
                 mixedCommit, late, mishaps>>

\* The caller of an operation is cancelled: git is killed, a staging directory stays, a thread goes on writing.
CancelOp(t) ==
  /\ op[t].next # 0 /\ GitMishap /\ FinishGit(t, "cancelled")
  /\ graphBuild' = [graphBuild EXCEPT ![t] = NoBuild]
  /\ late' = IF graphBuild[t].at = "write" THEN late \cup {graphBuild[t]} ELSE late
  /\ wanted' = IF graphBuild[t].at # "none" THEN [wanted EXCEPT !.asked = FALSE] ELSE wanted
  /\ UNCHANGED <<load, repo, remote, staging, commits, graph, manifest, worker, mixedCommit>>

WriteLate(s) ==
  /\ late' = late \ {s} /\ graph' = [there |-> TRUE, head |-> s.head, content |-> s.content]
  /\ mixedCommit' = TRUE /\ wanted' = [wanted EXCEPT !.asked = FALSE]
  /\ UNCHANGED <<load, repo, remote, staging, op, results, commits, graphBuild, manifest, worker, mishaps>>

GitNext ==
  \/ \E t \in GitTasks : \/ BeginGit(t) \/ RunGit(t) \/ GitFails(t) \/ CloneStep(t) \/ Rename(t) \/ AskGit(t) \/ Delete(t)
                         \/ AskGraph(t) \/ CancelOp(t)
  \/ \E b \in Builders : BuildStep(b) \/ BuildFails(b)
  \/ OthersPush \/ WorkerBegins \/ WorkerDone \/ \E s \in late : WriteLate(s)

-----------------------------------------------------------------------------
(***************************************************************************)
(* Properties.                                                             *)
(***************************************************************************)
GitTypeOK ==
  /\ load \in GitLoads /\ staging \subseteq GitTasks /\ mishaps \in 0 .. MaxMishaps
  /\ repo.head \in {"main", "feature"} /\ repo.there \in BOOLEAN /\ repo.staged \subseteq {"f", "g"}
  /\ worker.at \in {"none", "begun", "building", "returned"} /\ worker.rerun \in BOOLEAN

\* Whoever clones, fails or removes meanwhile, what others have changed is not replaced by a
\* fresh clone: a commit stays in a branch until somebody confirms the removal.
RemovalFailed == <<"remove", "remove_failed">> \in results
WorkIsKept ==
  \A c \in commits :
    (\E b \in {"main", "feature"} : c.by \in repo.branches[b]) \/ <<"remove", "removed">> \in results \/ RemovalFailed

\* A tree that is there is whole, unless a removal of it failed midway; and only a clone that was
\* cancelled, or could not clean up, leaves a staging directory.
Abandoned == <<"clone", "cancelled">> \in results \/ <<"clone", "uncleaned">> \in results
CloneIsWhole ==
  /\ repo.there => IF repo.whole THEN HeadOf(repo) # {} ELSE RemovalFailed
  /\ \A t \in staging : (op[t].next # 0 /\ op[t].left[1] = "clone") \/ Abandoned

\* A commit holds what its caller selected, unless another task stages at the same time.
Alone == Cardinality({t \in GitTasks : "commit" \in {load.ops[t][i] : i \in DOMAIN load.ops[t]}}) <= 1
CommitHoldsSelection == Alone => \A c \in commits : c.files # {} /\ c.files \subseteq Selected(c.by)

\* One build at a time; once all is quiet the graph is that of the HEAD it was last asked for, if
\* HEAD stayed since, however requests and the background task overlapped.
OneBuild == Cardinality({b \in Builders : Busy(b)}) <= 1
Quiet == worker.at = "none" /\ \A b \in Builders : graphBuild[b].at = "none"
GraphIsCurrent ==
  Quiet /\ wanted.asked
    => repo.there /\ HeadOf(repo) = wanted.head
       /\ graph.there /\ graph.head = wanted.head /\ (mixedCommit \/ graph.content = wanted.head)
=============================================================================
