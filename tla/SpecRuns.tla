-------------------------------- MODULE SpecRuns --------------------------------
(***************************************************************************)
(* Runs of Playwright specs (routers/scripts.py, routers/script_runs.py,   *)
(* services/script_artifacts.py): the anchor row that the runs of a        *)
(* project hang off, the preparation, the suite, the result that is read   *)
(* from its report or its log, the gallery, the retention of old files and *)
(* the page that shows a run.  Slots and logs are in ScriptRuns.           *)
(***************************************************************************)
EXTENDS Naturals, Sequences, SequencesExt

CONSTANTS
  SpecCalls,     \* requests to run a spec
  SpecLoads,     \* bound: what each of them meets; see SpecAssumption
  KeepRuns, MaxBytes,      \* retention
  MaxTests, MaxFailed,     \* tests and failed tests that a result lists
  MaxEntries               \* entries of a gallery

Outcomes == {"passed", "failed", "flaky", "skipped"}
\* What a request meets: nothing, or an environment that is refused, no spec, no package file, no
\* dependencies, a browser that does not answer, no target, no runner.  "elsewhere": the project's
\* configuration sends the report outside; "dot": names with a leading dot.
Meetings ==
  [meets : {"ok", "invalid", "noSpec", "noPackage", "noDeps", "slowBrowser", "noTarget", "noRunner"},
   ends : {"zero", "one", "timeout"}, report : {"own", "elsewhere", "broken"},
   specs : Seq(Seq(Outcomes)), files : SUBSET {"shot", "dotShot", "download", "dot", "html"},
   attached : Seq({"shot", "dotShot", "outside"}), size : Nat, cancelled : BOOLEAN]

ASSUME SpecAssumption ==
  /\ KeepRuns \in Nat /\ MaxBytes \in Nat /\ MaxTests \in Nat /\ MaxFailed \in Nat /\ MaxEntries \in Nat
  /\ \A l \in SpecLoads : DOMAIN l = SpecCalls /\ \A c \in SpecCalls : l[c] \in Meetings

VARIABLES
  specLoad,     \* what the requests meet
  specAt,       \* the step of each request and of its executor
  stamps,       \* anchors in the order of their created_at
  anchors,      \* those that are committed
  anchorOf,     \* the anchor a request found
  toClean,      \* the extra ones it deletes
  overlapped,   \* two requests found no anchor
  specRows,     \* the rows of runs
  runDirs,      \* run directories, oldest first
  filesOf,      \* whose files lie in a directory
  reports,      \* directories with a JSON report of these files
  toPrune,      \* the directories a run removes
  specPage      \* what the page of a run showed last

specVars == <<specLoad, specAt, stamps, anchors, anchorOf, toClean, overlapped, specRows, runDirs, filesOf,
              reports, toPrune, specPage>>

NoResult == [source |-> "none", status |-> "none", of |-> "none", total |-> 0, listed |-> 0, failures |-> 0,
             truncated |-> FALSE]
NoSpecRow == [status |-> "none", by |-> "nobody", result |-> NoResult, gallery |-> <<>>]
Nobody == "nobody"

SpecInit ==
  /\ specLoad \in SpecLoads /\ specAt = [c \in SpecCalls |-> "idle"] /\ stamps = <<>> /\ anchors = {}
  /\ anchorOf = [c \in SpecCalls |-> Nobody] /\ toClean = [c \in SpecCalls |-> {}] /\ overlapped = FALSE
  /\ specRows = [c \in SpecCalls |-> NoSpecRow] /\ runDirs = <<>> /\ filesOf = [c \in SpecCalls |-> Nobody]
  /\ reports = {} /\ toPrune = [c \in SpecCalls |-> {}] /\ specPage = [run |-> Nobody, shows |-> <<>>]

Meets(c) == specLoad[c].meets
SpecGoes(c, s) == specAt' = [specAt EXCEPT ![c] = s]
Ran(c) == specRows[c].status # "none"
dirVars == <<runDirs, filesOf, reports, toPrune, specPage>>
anchorVars == <<stamps, anchors, anchorOf, toClean, overlapped>>

-----------------------------------------------------------------------------
(***************************************************************************)
(* The anchor: one row per project, found or made by every request.        *)
(***************************************************************************)
AskSpec(c) ==
  /\ specAt[c] = "idle" /\ SpecGoes(c, IF Meets(c) = "invalid" THEN "refused" ELSE "find")
  /\ UNCHANGED <<specLoad, anchorVars, specRows, dirVars>>

\* The earliest stays; others go unless a run hangs off them.
Earliest == stamps[CHOOSE i \in DOMAIN stamps : stamps[i] \in anchors /\ \A j \in 1 .. i - 1 : stamps[j] \notin anchors]
Anchoring == {anchorOf[d] : d \in {e \in SpecCalls : Ran(e)}}
Stale == (anchors \ {Earliest}) \ Anchoring

FindAnchor(c) ==
  /\ specAt[c] = "find"
  /\ IF anchors = {}
     THEN /\ SpecGoes(c, "stamp") /\ UNCHANGED <<anchorOf, toClean>>
          /\ overlapped' = (overlapped \/ \E d \in SpecCalls : specAt[d] \in {"stamp", "adopt"})
     ELSE /\ anchorOf' = [anchorOf EXCEPT ![c] = Earliest] /\ toClean' = [toClean EXCEPT ![c] = Stale]
          /\ SpecGoes(c, IF Stale = {} THEN "insert" ELSE "clean") /\ UNCHANGED overlapped
  /\ UNCHANGED <<specLoad, stamps, anchors, specRows, dirVars>>

StampAnchor(c) ==
  /\ specAt[c] = "stamp" /\ SpecGoes(c, "adopt") /\ stamps' = Append(stamps, c)
  /\ UNCHANGED <<specLoad, anchors, anchorOf, toClean, overlapped, specRows, dirVars>>
AdoptAnchor(c) ==
  /\ specAt[c] = "adopt" /\ SpecGoes(c, "insert") /\ anchors' = anchors \cup {c}
  /\ anchorOf' = [anchorOf EXCEPT ![c] = c]
  /\ UNCHANGED <<specLoad, stamps, toClean, overlapped, specRows, dirVars>>

\* A row that a run refers to is not deleted, and no run refers to one that is gone.
CleanAnchors(c) ==
  /\ specAt[c] = "clean"
  /\ IF toClean[c] \cap Anchoring # {} THEN SpecGoes(c, "refused") /\ UNCHANGED anchors
     ELSE SpecGoes(c, "insert") /\ anchors' = anchors \ toClean[c]
  /\ UNCHANGED <<specLoad, stamps, anchorOf, toClean, overlapped, specRows, dirVars>>
RowTo(c, row) == specRows' = [specRows EXCEPT ![c] = row]
InsertRun(c) ==
  /\ specAt[c] = "insert"
  /\ IF anchorOf[c] \notin anchors THEN SpecGoes(c, "refused") /\ UNCHANGED specRows
     ELSE SpecGoes(c, "spawn") /\ RowTo(c, [NoSpecRow EXCEPT !.status = "pending"])
  /\ UNCHANGED <<specLoad, anchorVars, dirVars>>

-----------------------------------------------------------------------------
(***************************************************************************)
(* The result: counts, the verdict, the tests that are listed.             *)
(***************************************************************************)
\* Every run has a directory of its own.
RunDir(c) == c

OfOutcome(c, o) ==
  LET specs == specLoad[c].specs
  IN  Cardinality({p \in (DOMAIN specs) \X (1 .. 2) : p[2] \in DOMAIN specs[p[1]] /\ specs[p[1]][p[2]] = o})
\* The row of a spec has the outcome of its last project.
RowOf(spec) == spec[Len(spec)]
Bad(o) == o \in {"failed", "flaky"}
BadRows(c) == Cardinality({i \in DOMAIN specLoad[c].specs : Bad(RowOf(specLoad[c].specs[i]))})
AtMost(n, most) == IF n <= most THEN n ELSE most
TestsOf(c) == OfOutcome(c, "passed") + OfOutcome(c, "failed")
              + OfOutcome(c, "flaky") + OfOutcome(c, "skipped")

\* Read from the report of d.
FromReport(d) ==
  [source |-> "json",
   status |-> IF OfOutcome(d, "failed") > 0 THEN "failed" ELSE IF TestsOf(d) > 0 THEN "passed" ELSE "unknown",
   of |-> d, total |-> TestsOf(d), listed |-> AtMost(Len(specLoad[d].specs), MaxTests),
   failures |-> AtMost(BadRows(d), MaxFailed),
   truncated |-> Len(specLoad[d].specs) > MaxTests \/ BadRows(d) > MaxFailed]
\* Read from the end of the log; a suite that was killed, or never began, has no summary there.
FromLog(c, whole) ==
  [source |-> "log", of |-> c, listed |-> 0, total |-> IF whole THEN TestsOf(c) ELSE 0,
   status |-> IF whole /\ OfOutcome(c, "failed") > 0 THEN "failed"
              ELSE IF whole /\ OfOutcome(c, "passed") + OfOutcome(c, "flaky") > 0 THEN "passed" ELSE "unknown",
   failures |-> IF whole THEN AtMost(OfOutcome(c, "failed"), MaxFailed) ELSE 0,
   truncated |-> whole /\ OfOutcome(c, "failed") > MaxFailed]
Collected(c, whole) ==
  IF RunDir(c) \in reports THEN FromReport(filesOf[RunDir(c)]) ELSE FromLog(c, whole)

HasDir(c) == \E i \in DOMAIN runDirs : runDirs[i] = RunDir(c)
\* Attachments that the report names and that lie inside, then what else lies there, then the report.
Attached(c) == IF RunDir(c) \in reports THEN SelectSeq(specLoad[c].attached, LAMBDA f : f # "outside") ELSE <<>>
Once(fs) == FoldLeft(LAMBDA named, f : IF \E i \in DOMAIN named : named[i] = f THEN named ELSE Append(named, f), <<>>, fs)
Listed(c, named) ==
  LET files  == IF filesOf[RunDir(c)] = Nobody THEN {} ELSE specLoad[c].files
      others == SelectSeq(<<"download", "shot">>,
                          LAMBDA f : f \in files /\ \A i \in DOMAIN named : named[i] # f)
      all    == named \o others \o (IF "html" \in files THEN <<"html">> ELSE <<>>)
  IN  IF HasDir(c) THEN SubSeq(all, 1, AtMost(Len(all), MaxEntries)) ELSE <<>>
Gallery(c) == Listed(c, Once(Attached(c)))

-----------------------------------------------------------------------------
(***************************************************************************)
(* The executor.                                                           *)
(***************************************************************************)
executing == <<specLoad, anchorVars>>
Closed(c, by, status, result, gallery) ==
  RowTo(c, [status |-> status, by |-> by, result |-> result, gallery |-> gallery])

\* The spec is looked for when the row is there.
FailToSpawn(c) ==
  /\ specAt[c] = "spawn" /\ Meets(c) = "noSpec" /\ SpecGoes(c, "over")
  /\ Closed(c, "platform", "failed", NoResult, <<>>) /\ UNCHANGED <<executing, dirVars>>
BeginSpec(c) ==
  /\ specAt[c] = "spawn" /\ Meets(c) # "noSpec" /\ SpecGoes(c, "prepare")
  /\ RowTo(c, [specRows[c] EXCEPT !.status = "running"]) /\ UNCHANGED <<executing, dirVars>>

\* fail(): the verdict is the platform's, whatever the log says; nothing is pruned.
Fail(c, verdict) ==
  /\ SpecGoes(c, "over")
  /\ Closed(c, "platform", "failed", [Collected(c, FALSE) EXCEPT !.status = verdict], Gallery(c))

Opened(c) == IF HasDir(c) THEN runDirs ELSE Append(runDirs, RunDir(c))
RefusePackage(c) ==
  /\ specAt[c] = "prepare" /\ Meets(c) = "noPackage" /\ Fail(c, "failed")
  /\ UNCHANGED <<executing, dirVars>>
PrepareSpec(c) ==
  /\ specAt[c] = "prepare" /\ Meets(c) # "noPackage" /\ SpecGoes(c, "preflight") /\ runDirs' = Opened(c)
  /\ UNCHANGED <<executing, specRows, filesOf, reports, toPrune, specPage>>
Preflight(c) ==
  /\ specAt[c] = "preflight"
  /\ CASE Meets(c) \in {"noDeps", "noTarget"} -> Fail(c, "failed")
       [] Meets(c) = "slowBrowser" -> Fail(c, "timed_out")
       [] OTHER -> SpecGoes(c, "start") /\ UNCHANGED specRows
  /\ UNCHANGED <<executing, dirVars>>

\* An error fails the run too, and it prunes.
FailToBegin(c) ==
  /\ specAt[c] = "start" /\ Meets(c) = "noRunner" /\ SpecGoes(c, "prune")
  /\ Closed(c, "platform", "failed", [Collected(c, FALSE) EXCEPT !.status = "failed"], Gallery(c))
  /\ UNCHANGED <<executing, dirVars>>
StartSuite(c) ==
  /\ specAt[c] = "start" /\ Meets(c) # "noRunner" /\ SpecGoes(c, "suite")
  /\ UNCHANGED <<executing, specRows, dirVars>>
\* The runner empties the folder it writes to, and makes it anew if it was pruned.
WriteFiles(c) ==
  /\ specAt[c] = "suite" /\ SpecGoes(c, "written") /\ runDirs' = Opened(c)
  /\ filesOf' = [filesOf EXCEPT ![RunDir(c)] = c] /\ reports' = reports \ {RunDir(c)}
  /\ UNCHANGED <<executing, specRows, toPrune, specPage>>
EndSuite(c) ==
  /\ specAt[c] = "written" /\ UNCHANGED <<executing, specRows, runDirs, filesOf, toPrune, specPage>>
  /\ SpecGoes(c, IF specLoad[c].ends = "timeout" THEN "late" ELSE "settle")
  /\ reports' = IF specLoad[c].report = "own" /\ specLoad[c].ends # "timeout" /\ filesOf[RunDir(c)] = c
                THEN reports \cup {RunDir(c)} ELSE reports
TimeOut(c) ==
  /\ specAt[c] = "late" /\ Fail(c, "timed_out") /\ UNCHANGED <<executing, dirVars>>
SettleSpec(c) ==
  /\ specAt[c] = "settle" /\ SpecGoes(c, "prune")
  /\ Closed(c, "suite", IF specLoad[c].ends = "zero" THEN "completed" ELSE "failed", Collected(c, TRUE), Gallery(c))
  /\ UNCHANGED <<executing, dirVars>>

\* The shutdown; what was being stored may be stored with it.
CancelSpec(c) ==
  /\ specLoad[c].cancelled /\ specAt[c] \in {"prepare", "preflight", "start", "suite", "written", "settle"}
  /\ SpecGoes(c, "over") /\ UNCHANGED <<executing, dirVars>>
  /\ \/ Closed(c, "shutdown", "failed", NoResult, <<>>)
     \/ specAt[c] = "settle" /\ Closed(c, "shutdown", "failed", Collected(c, TRUE), Gallery(c))

-----------------------------------------------------------------------------
(***************************************************************************)
(* Retention: the newest few within the budget, and one's own.             *)
(***************************************************************************)
DirsSize(ds) == FoldLeft(LAMBDA sum, d : sum + (IF filesOf[d] = Nobody THEN 0 ELSE specLoad[filesOf[d]].size), 0, ds)
Kept(i) == Len(runDirs) - i < KeepRuns /\ DirsSize(SubSeq(runDirs, i, Len(runDirs))) <= MaxBytes
ListDirs(c) ==
  /\ specAt[c] = "prune" /\ SpecGoes(c, "remove")
  /\ toPrune' = [toPrune EXCEPT ![c] =
       {runDirs[i] : i \in {j \in DOMAIN runDirs : runDirs[j] # RunDir(c) /\ ~Kept(j)}}]
  /\ UNCHANGED <<executing, specRows, runDirs, filesOf, reports, specPage>>
RemoveDirs(c) ==
  /\ specAt[c] = "remove" /\ SpecGoes(c, "over")
  /\ runDirs' = SelectSeq(runDirs, LAMBDA d : d \notin toPrune[c])
  /\ filesOf' = [d \in SpecCalls |-> IF d \in toPrune[c] THEN Nobody ELSE filesOf[d]]
  /\ reports' = reports \ toPrune[c]
  /\ toPrune' = [toPrune EXCEPT ![c] = {}]
  /\ UNCHANGED <<executing, specRows, specPage>>

\* The manifest lies in the directory; before there is one the page looks at the files.
OpenPage(c) ==
  /\ Ran(c)
  /\ specPage' = [run |-> c, shows |-> IF HasDir(c) /\ specRows[c].gallery # <<>> THEN specRows[c].gallery
                                         ELSE Listed(c, <<>>)]
  /\ specPage' # specPage
  /\ UNCHANGED <<executing, specAt, specRows, runDirs, filesOf, reports, toPrune>>

SpecNext ==
  \E c \in SpecCalls :
    \/ AskSpec(c) \/ FindAnchor(c) \/ StampAnchor(c) \/ AdoptAnchor(c) \/ CleanAnchors(c) \/ InsertRun(c)
    \/ FailToSpawn(c) \/ BeginSpec(c) \/ RefusePackage(c) \/ PrepareSpec(c) \/ Preflight(c) \/ FailToBegin(c)
    \/ StartSuite(c) \/ WriteFiles(c)
    \/ EndSuite(c) \/ TimeOut(c) \/ SettleSpec(c) \/ CancelSpec(c) \/ ListDirs(c) \/ RemoveDirs(c) \/ OpenPage(c)

-----------------------------------------------------------------------------
\* Every variable has its type.
SpecTypeOK ==
  /\ anchors \subseteq SpecCalls /\ reports \subseteq SpecCalls /\ overlapped \in BOOLEAN
  /\ stamps \in Seq(SpecCalls) /\ runDirs \in Seq(SpecCalls)
  /\ \A c \in SpecCalls :
       /\ specAt[c] \in {"idle", "find", "stamp", "adopt", "clean", "insert", "spawn", "prepare", "preflight",
                         "start", "suite", "written", "late", "settle", "prune", "remove", "over", "refused"}
       /\ anchorOf[c] \in SpecCalls \cup {Nobody} /\ toClean[c] \subseteq SpecCalls /\ toPrune[c] \subseteq SpecCalls
       /\ specRows[c].status \in {"none", "pending", "running", "completed", "failed"}
       /\ filesOf[c] \in SpecCalls \cup {Nobody}

\* Runs of a project hang off one anchor, where the history of its specs finds them, unless two
\* first requests overlapped; and no run loses its anchor.
OneAnchor ==
  /\ \A c \in SpecCalls : Ran(c) => anchorOf[c] \in anchors
  /\ ~overlapped => \A c \in SpecCalls : Ran(c) => anchorOf[c] = Earliest

\* The result that is stored for a run is its own, whatever runs beside it in the same project.
ResultIsOwn == \A c \in SpecCalls : specRows[c].result.of \in {c, "none"}

\* A run that the platform ended, for its preparation, its time or an error, shows no verdict that
\* its log or an old report would give it.
StoppedIsNotPassed ==
  \A c \in SpecCalls :
    specRows[c].by = "platform" => specRows[c].result.status \in {"none", "failed", "timed_out"}

\* A failing result that lists every spec names the failures, where each spec ran in one project.
FailuresAreNamed ==
  \A c \in SpecCalls :
    LET r == specRows[c].result IN
    r.source = "json" /\ r.status = "failed" /\ ~r.truncated
      /\ (\A i \in DOMAIN specLoad[c].specs : Len(specLoad[c].specs[i]) = 1) =>
      r.listed = r.total /\ r.failures = OfOutcome(c, "failed") + OfOutcome(c, "flaky")

\* When nothing runs, the directories of the runs that reached their retention are few and within
\* the budget, but for that of the last of them; and a run that was alone has its own.
Trimmed(d) == specAt[d] = "over" /\ (specRows[d].by = "suite" \/ Meets(d) = "noRunner")
RetentionHolds ==
  (\A c \in SpecCalls : specAt[c] \in {"idle", "over", "refused"}) =>
    LET left == SelectSeq(runDirs, Trimmed) IN
    /\ left # <<>> => \E last \in DOMAIN left :
         LET rest == RemoveAt(left, last) IN Len(rest) <= KeepRuns /\ DirsSize(rest) <= MaxBytes
    /\ Cardinality({c \in SpecCalls : Trimmed(c)}) = 1 => left # <<>>

\* What the page of a run lists are visible files of this run, each once.
GalleryIsWhole ==
  \A c \in SpecCalls : \A g \in {specRows[c].gallery} \cup (IF specPage.run = c THEN {specPage.shows} ELSE {}) :
    /\ \A i, j \in DOMAIN g : g[i] = g[j] => i = j
    /\ \A i \in DOMAIN g : g[i] \in specLoad[c].files
    /\ g # <<>> /\ Len(g) < MaxEntries /\ g = specRows[c].gallery =>
         \A f \in specLoad[c].files : f \in {g[i] : i \in DOMAIN g} \/ f \in {"dot", "dotShot"}
=============================================================================
