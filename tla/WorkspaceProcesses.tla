--------------------------- MODULE WorkspaceProcesses ---------------------------
(***************************************************************************)
(* Processes that agents start in a workspace: shell commands with the     *)
(* set-up of Node packages and browsers before them (tools/shell.py) and   *)
(* snippets of code (tools/code_executor.py).  Commands of parallel tasks  *)
(* share a package directory; nothing locks it.                            *)
(***************************************************************************)
EXTENDS Naturals, Sequences, FiniteSets

CONSTANTS
  Commands,    \* bound: calls of the two tools
  Versions,    \* bound: versions of Playwright
  NoVersion,   \* a model value: no readable version
  Jobs,        \* bound: what the commands are, see JobsAssumption
  MaxStops,    \* bound: commands whose caller is cancelled
  Outputs,     \* bound: what a process may print, as text and parts of secrets
  MaxOutput    \* _MAX_OUTPUT

ASSUME JobsAssumption ==
  /\ NoVersion \notin Versions /\ Versions # {} /\ {MaxStops, MaxOutput} \subseteq Nat
  /\ \A j \in Jobs :
       /\ j.kind \in [Commands -> {"npm", "playwright", "plain", "code"}]
       /\ j.writable \in BOOLEAN /\ j.modules \in {"none", "part", "full"} /\ j.tools \in BOOLEAN
       /\ \A i \in DOMAIN j.caches : j.caches[i] \in [allowed : BOOLEAN, writable : BOOLEAN]

\* A process prints a secret as a whole; text has no parts.
ASSUME OutputsAssumption ==
  \A out \in Outputs :
    /\ out \in Seq([of : {out[i].of : i \in DOMAIN out}, part : 0..2])
    /\ \A i \in DOMAIN out :
         /\ out[i].part = 1 => i < Len(out) /\ out[i + 1] = [out[i] EXCEPT !.part = 2]
         /\ out[i].part = 2 => i > 1 /\ out[i - 1] = [out[i] EXCEPT !.part = 1]

VARIABLES
  job,       \* the workload
  package,   \* node_modules: what is there, its links, its Playwright; the version package.json wants
  stage,     \* where each command is
  readAs,    \* the version a command read before its preflight
  verified,  \* _browsers_verified
  browsers,  \* versions whose browser is installed
  alive,     \* processes: the command, and whether it is the one waited for or a child of it
  removing,  \* threads that remove node_modules for commands whose caller is gone
  scratch,   \* snippets whose scratch directory exists
  outputTold,      \* how a command ended for its caller, and what it showed
  found,     \* commands that found all they need when they ran
  stops,
  headless,  \* commands whose process exited while a child of it held the pipes
  disturbed, \* commands under which someone else changed node_modules
  jobsCrossed    \* versions that were verified while the package changed

processVars == <<job, package, stage, readAs, verified, browsers, alive, removing, scratch, outputTold,
                 found, stops, headless, disturbed, jobsCrossed>>

OldVersion == CHOOSE v \in Versions : TRUE
NothingTold == [how |-> "none", shown |-> <<>>]
Kind(c) == job.kind[c]
OfNode(c) == Kind(c) \in {"npm", "playwright"}

ProcessInit ==
  /\ job \in Jobs
  /\ package = [modules |-> job.modules, links |-> job.modules = "full", writable |-> job.writable,
                version |-> IF job.modules = "none" THEN NoVersion ELSE OldVersion,
                wanted |-> OldVersion]
  /\ stage = [c \in Commands |-> "idle"] /\ readAs = [c \in Commands |-> NoVersion]
  /\ verified = {} /\ browsers = {} /\ alive = {} /\ removing = 0 /\ scratch = {} /\ found = {}
  /\ outputTold = [c \in Commands |-> NothingTold] /\ stops = 0 /\ headless = {} /\ disturbed = {} /\ jobsCrossed = {}

-----------------------------------------------------------------------------
(***************************************************************************)
(* What is read between two awaits.                                        *)
(***************************************************************************)
\* _required_node_bins; a package without the known tools asks for nothing.
Missing(c, p) == (job.tools \/ Kind(c) = "playwright") /\ (p.modules # "full" \/ ~p.links)
Usable(p) == p.modules # "none" /\ p.writable

\* _resolve_npm_cache_dir
Caches == {i \in DOMAIN job.caches : job.caches[i].allowed /\ job.caches[i].writable}

\* The stage after the package is in order: the browser is checked once per version.
AfterDeps(c, p) ==
  IF Kind(c) # "playwright" \/ ~p.links \/ p.version \in verified THEN "probe" ELSE "preflight"

\* The stage ensure_node_deps begins with.
FirstStage(c) ==
  CASE ~OfNode(c) -> "probe"
    [] OfNode(c) /\ Usable(package) /\ ~Missing(c, package) -> AfterDeps(c, package)
    [] OfNode(c) /\ package.modules # "none" /\ ~package.writable -> "clean"
    [] OTHER -> "install"

Waiting == {"clean", "install", "cleanAgain", "reinstall", "rebuild", "preflight", "probe", "run"}
Installing == {"clean", "install", "cleanAgain", "reinstall", "rebuild"}
Spawns == {"install", "reinstall", "rebuild", "preflight", "run"}

Main(c) == <<c, "main">>
OthersPreparing(c) == {d \in Commands \ {c} : stage[d] \in Waiting /\ OfNode(d)}

\* A command enters a stage; a process is started for it.
EnterStage(c, s) ==
  /\ stage' = [stage EXCEPT ![c] = s]
  /\ alive' = IF s \in Spawns THEN alive \cup {Main(c)} ELSE alive \ {Main(c)}
  /\ readAs' = [readAs EXCEPT ![c] = IF s = "preflight" THEN package'.version ELSE @]
  /\ found' = IF s = "run" /\ (OfNode(c) => ~Missing(c, package')) THEN found \cup {c} ELSE found
  /\ UNCHANGED outputTold

\* It is over for its caller; what it had started is killed, or only what it was waited for is gone.
End(c, how, killed) ==
  /\ stage' = [stage EXCEPT ![c] = "ended"]
  /\ outputTold' = [outputTold EXCEPT ![c].how = how]
  /\ alive' = {p \in alive : p[1] # c \/ (~killed /\ p # Main(c))}
  /\ UNCHANGED <<readAs, found>>

\* Without a cache npm is not called, and a process may not start.
GoOn(c, s) ==
  \/ (s = "install" => Caches # {}) /\ EnterStage(c, s)
  \/ ((s = "install" /\ Caches = {}) \/ s \in Spawns) /\ End(c, "error", FALSE)

\* Someone changed node_modules: other commands may have read it before.
Disturb(c) == disturbed' = disturbed \cup OthersPreparing(c)

-----------------------------------------------------------------------------
(***************************************************************************)
(* A call is checked, its secrets are resolved, then it begins.            *)
(***************************************************************************)
SubmitCommand(c) ==
  /\ stage[c] = "idle"
  /\ UNCHANGED package
  /\ \/ End(c, "refused", FALSE) /\ UNCHANGED scratch
     \/ Kind(c) = "code" /\ EnterStage(c, "run") /\ scratch' = scratch \cup {c}
     \/ Kind(c) # "code" /\ GoOn(c, FirstStage(c)) /\ UNCHANGED scratch
  /\ UNCHANGED <<job, verified, browsers, removing, stops, headless, disturbed, jobsCrossed>>

\* node_modules was removed, wholly or not.
Cleaned(c) ==
  /\ stage[c] \in {"clean", "cleanAgain"}
  /\ \/ /\ package' = [package EXCEPT !.modules = "none", !.links = FALSE, !.writable = TRUE, !.version = NoVersion]
        /\ GoOn(c, IF stage[c] = "clean" THEN "install" ELSE "reinstall")
     \/ /\ package' = [package EXCEPT !.modules = "part", !.links = FALSE] /\ End(c, "error", FALSE)
  /\ Disturb(c)
  /\ UNCHANGED <<job, verified, browsers, removing, scratch, stops, headless, jobsCrossed>>

\* npm is at work: others may see what is half done.
Torn == \E left \in {package.modules, "part"} :
          package' = [package EXCEPT !.modules = left, !.links = FALSE,
                                     !.version = IF left = "part" THEN NoVersion ELSE @]
Unpacks(c) ==
  /\ stage[c] \in {"install", "reinstall"} /\ Torn /\ Disturb(c)
  /\ UNCHANGED <<job, stage, readAs, verified, browsers, alive, removing, scratch, outputTold, found,
                 stops, headless, jobsCrossed>>

\* npm ci or npm install ended: well, with a corrupt directory, or otherwise badly.
Installed(c) ==
  /\ stage[c] \in {"install", "reinstall"}
  /\ \/ \E linked \in BOOLEAN, whole \in {"full"} \cup (IF c \in disturbed THEN {"part"} ELSE {}) :
          /\ package' = [package EXCEPT !.modules = whole, !.links = linked, !.writable = TRUE,
                                        !.version = package.wanted]
          /\ GoOn(c, IF Missing(c, package') THEN "rebuild" ELSE AfterDeps(c, package'))
     \/ /\ package.modules = "part" \/ c \in disturbed
        /\ package' = [package EXCEPT !.modules = "part"]
        /\ IF stage[c] = "install" THEN GoOn(c, "cleanAgain") ELSE End(c, "error", FALSE)
     \/ Torn /\ End(c, "error", FALSE)
  /\ Disturb(c)
  /\ UNCHANGED <<job, verified, browsers, removing, scratch, stops, headless, jobsCrossed>>

\* Variant: the command goes on without another look.
RebuiltUnchecked(c) ==
  /\ stage[c] = "rebuild"
  /\ \E linked \in {package.links, package.modules = "full"} : package' = [package EXCEPT !.links = linked]
  /\ GoOn(c, AfterDeps(c, package'))
  /\ Disturb(c)
  /\ UNCHANGED <<job, verified, browsers, removing, scratch, stops, headless, jobsCrossed>>

\* npm rebuild ended, however: what counts is whether anything is missing still.
Rebuilt(c) ==
  /\ stage[c] = "rebuild"
  /\ \E linked \in {package.links, package.modules = "full"} : package' = [package EXCEPT !.links = linked]
  /\ IF Missing(c, package') THEN End(c, "error", FALSE) ELSE GoOn(c, AfterDeps(c, package'))
  /\ Disturb(c)
  /\ UNCHANGED <<job, verified, browsers, removing, scratch, stops, headless, jobsCrossed>>

\* The browser of the version that is installed now is there; the version read before is noted.
PreflightEnds(c) ==
  /\ stage[c] = "preflight"
  /\ \/ /\ GoOn(c, "probe")
        /\ browsers' = IF package.version \in Versions THEN browsers \cup {package.version} ELSE browsers
        /\ verified' = IF readAs[c] \in Versions THEN verified \cup {readAs[c]} ELSE verified
        /\ jobsCrossed' = IF c \in disturbed THEN jobsCrossed \cup {readAs[c]} ELSE jobsCrossed
     \/ End(c, "error", FALSE) /\ UNCHANGED <<browsers, verified, jobsCrossed>>
  /\ UNCHANGED <<job, package, removing, scratch, stops, headless, disturbed>>

\* A thread asked git for an identity; then the command itself starts.
Probed(c) ==
  /\ stage[c] = "probe" /\ UNCHANGED package /\ GoOn(c, "run")
  /\ UNCHANGED <<job, verified, browsers, removing, scratch, stops, headless, disturbed, jobsCrossed>>

-----------------------------------------------------------------------------
(***************************************************************************)
(* A process and its children, and their end.                              *)
(***************************************************************************)
\* Bound: one child at a time, and none of npm.  A child either writes to the pipes of the command or has let go of them.
Fork(c) ==
  /\ Main(c) \in alive /\ stage[c] = "run" /\ ~OfNode(c) /\ \A p \in alive : p[1] = c => p = Main(c)
  /\ \E how \in {"piped", "detached"} : alive' = alive \cup {<<c, how>>}
  /\ UNCHANGED <<job, package, stage, readAs, verified, browsers, removing, scratch, outputTold, found, stops,
                 headless, disturbed, jobsCrossed>>

ChildExits(c) ==
  /\ \E p \in alive : p[1] = c /\ p # Main(c) /\ alive' = alive \ {p}
  /\ UNCHANGED <<job, package, stage, readAs, verified, browsers, removing, scratch, outputTold, found, stops,
                 headless, disturbed, jobsCrossed>>

\* The process is reaped, its child writes on: communicate() waits for it.
MainExits(c) ==
  /\ stage[c] = "run" /\ {Main(c), <<c, "piped">>} \subseteq alive
  /\ alive' = alive \ {Main(c)} /\ headless' = headless \cup {c}
  /\ UNCHANGED <<job, package, stage, readAs, verified, browsers, removing, scratch, outputTold, found, stops,
                 disturbed, jobsCrossed>>

\* redact_secrets: a value that is there as a whole gives way to its name (part 0), which is
\* given the room of the value.
Ends(out, i) == i \in 2..Len(out) /\ out[i].part = 2 /\ out[i - 1] = [out[i] EXCEPT !.part = 1]
Masked(out) == [i \in DOMAIN out |-> IF Ends(out, i) \/ Ends(out, i + 1) THEN [out[i] EXCEPT !.part = 0] ELSE out[i]]

Cut(out) == SubSeq(out, 1, IF Len(out) < MaxOutput THEN Len(out) ELSE MaxOutput)
Shown(out) == Cut(Masked(out))

\* communicate() returns when the process is over and nobody holds its pipes.
Exits(c) ==
  /\ stage[c] = "run" /\ <<c, "piped">> \notin alive
  /\ stage' = [stage EXCEPT ![c] = "ended"] /\ alive' = alive \ {Main(c)} /\ scratch' = scratch \ {c}
  /\ \E out \in Outputs : outputTold' = [outputTold EXCEPT ![c] = [how |-> "result", shown |-> Shown(out)]]
  /\ UNCHANGED <<job, package, readAs, verified, browsers, removing, found, stops, headless, disturbed,
                 jobsCrossed>>

\* terminate_process_tree: the session of the process is killed, if the process is still there.
\* npm leaves what it had done.
Kill(c, how) ==
  /\ stage[c] \in Spawns /\ End(c, how, c \notin headless) /\ scratch' = scratch \ {c}
  /\ IF stage[c] \in Installing THEN Torn /\ Disturb(c) ELSE UNCHANGED <<package, disturbed>>
  /\ UNCHANGED <<job, verified, browsers, headless, jobsCrossed>>

\* A time-out of npm rebuild counts as any result of it.
TimesOut(c) == stage[c] # "rebuild" /\ Kill(c, "timeout") /\ UNCHANGED <<removing, stops>>

\* A thread that removes node_modules goes on without its caller.
Stop(c) ==
  /\ stops < MaxStops /\ stops' = stops + 1
  /\ \/ Kill(c, "stopped") /\ UNCHANGED removing
     \/ /\ stage[c] \in {"clean", "cleanAgain", "probe"} /\ End(c, "stopped", TRUE)
        /\ removing' = removing + (IF stage[c] = "probe" THEN 0 ELSE 1)
        /\ UNCHANGED <<job, package, verified, browsers, scratch, headless, disturbed, jobsCrossed>>

RemovalEnds ==
  /\ removing > 0 /\ removing' = removing - 1
  /\ \E left \in {"none", "part"} :
       package' = [package EXCEPT !.modules = left, !.links = FALSE, !.version = NoVersion]
  /\ disturbed' = disturbed \cup {c \in Commands : stage[c] \in Waiting /\ OfNode(c)}
  /\ UNCHANGED <<job, stage, readAs, verified, browsers, alive, scratch, outputTold, found, stops,
                 headless, jobsCrossed>>

\* An agent asks for another version in package.json.
Bump ==
  /\ \E c \in Commands : stage[c] # "idle"
  /\ package.wanted = OldVersion /\ \E v \in Versions : package' = [package EXCEPT !.wanted = v]
  /\ UNCHANGED <<job, stage, readAs, verified, browsers, alive, removing, scratch, outputTold, found, stops,
                 headless, disturbed, jobsCrossed>>

CommandMoves(c) ==
  \/ Cleaned(c) \/ Unpacks(c) \/ Installed(c) \/ Rebuilt(c) \/ PreflightEnds(c) \/ Probed(c)
  \/ MainExits(c) \/ Exits(c) \/ TimesOut(c)

ProcessNext ==
  \/ \E c \in Commands : SubmitCommand(c) \/ CommandMoves(c) \/ Fork(c) \/ ChildExits(c) \/ Stop(c)
  \/ RemovalEnds \/ Bump

\* Every wait of a command for a process has a time-out; a thread that removes files ends.
ProcessFairness ==
  /\ \A c \in Commands : WF_processVars(Cleaned(c) \/ Installed(c) \/ Rebuilt(c) \/ PreflightEnds(c) \/ Probed(c)
                                        \/ TimesOut(c))
  /\ WF_processVars(RemovalEnds)

-----------------------------------------------------------------------------
(***************************************************************************)
(* Properties.                                                             *)
(***************************************************************************)
ProcessTypeOK ==
  /\ job \in Jobs /\ stage \in [Commands -> Waiting \cup {"idle", "ended"}]
  /\ package.modules \in {"none", "part", "full"} /\ package.version \in Versions \cup {NoVersion}
  /\ alive \subseteq Commands \X {"main", "piped", "detached"} /\ removing \in 0..MaxStops
  /\ {scratch, found, headless, disturbed} \subseteq SUBSET Commands /\ stops \in 0..MaxStops
  /\ verified \cup browsers \subseteq Versions /\ jobsCrossed \subseteq Versions \cup {NoVersion}
  /\ readAs \in [Commands -> Versions \cup {NoVersion}]

Stopped(c) == outputTold[c].how \in {"timeout", "stopped"}

\* ... if its own process lived to be killed; otherwise nothing but a child that let go of the
\* pipes outlives its command, and a snippet runs over files that exist.
NothingRunsOn ==
  /\ \A p \in alive : Stopped(p[1]) => p[1] \in headless
  /\ \A p \in alive : p[2] # "detached" /\ stage[p[1]] = "ended" => p[1] \in headless /\ Stopped(p[1])
  /\ \A c \in Commands : Kind(c) = "code" /\ Main(c) \in alive => c \in scratch
  /\ scratch = {c \in Commands : Kind(c) = "code" /\ stage[c] = "run"}

\* A command of Node runs with all it needs, unless another one changed the directory meanwhile.
RunsPrepared == \A c \in Commands : stage[c] = "run" => c \in found \cup disturbed

\* The browser of a verified version is there, unless the package changed under the check.
VerifiedHasBrowser == verified \ jobsCrossed \subseteq browsers

\* No part of a secret is shown, wherever the output is cut.
SecretsAreMasked == \A c \in Commands : \A i \in DOMAIN outputTold[c].shown : outputTold[c].shown[i].part = 0

\* What commands start stays contained: processes end with their command and run in a package
\* that was prepared for them, and no secret is shown.
CommandsAreContained == NothingRunsOn /\ RunsPrepared /\ VerifiedHasBrowser /\ SecretsAreMasked

\* Every command ends, and so does what a stopped one left behind.
CommandsEnd == []<>(removing = 0 /\ \A c \in Commands : stage[c] \notin Waiting)
=============================================================================
