----------------------------- MODULE KnowledgeBase -----------------------------
(***************************************************************************)
(* The knowledge of a project: Markdown files, the index rows made from    *)
(* them, the process-wide cache of the rows, and the files a conversation  *)
(* holds in its context (tools/knowledge_rw.py, knowledge/index.py,        *)
(* loader.py, cache.py, routers/knowledge.py).  A parent file "p" lists    *)
(* its child "c"; "c" and "d" are detail files, loaded on demand.          *)
(***************************************************************************)
EXTENDS Naturals, Sequences, FiniteSets, SequencesExt

CONSTANTS
  AgentTasks,       \* bound: tasks of the agent, who share one context
  Editors,          \* bound: requests of the web interface
  KnowledgeLoads,   \* bound: what they do, see KnowledgeAssumption
  MaxLoaded,        \* files a conversation may hold (DYNAMIC_LOAD_MAX_FILES)
  MaxTurns,         \* bound: times the context is built
  MaxIndexFaults    \* bound: statements that fail

Details == {"c", "d"}
Slugs == Details \cup {"p"}
KnowledgeOps == {"write", "delete", "load", "unload", "refresh", "put", "copy", "reindex", "purge", "remove"}
Doers == AgentTasks \cup Editors

ASSUME KnowledgeAssumption ==
  /\ MaxLoaded \in Nat /\ MaxTurns \in Nat /\ MaxIndexFaults \in Nat /\ "build" \notin Doers
  /\ \A l \in KnowledgeLoads : l \in [Doers -> Seq([op : KnowledgeOps, slug : Slugs])]

VARIABLES
  kload,
  file, listed,   \* the version of each file, 0 without one; "p" lists "c"
  stamp,          \* the last version written
  fileRows, rowIds,   \* index rows: [id, ver, listed]; identifiers used
  loadEvents,         \* load events: [id, slug, kind]
  rowCache,          \* {} or the rows as the cache holds them
  context,        \* the conversation's: detail files on offer, and those loaded with their version
  contextBuild,          \* the context being built: step, what it found
  work,           \* per doer: operations left, step, what it read
  turns, indexFaults,
  mixedRow,          \* doers, and "build", that another one crossed
  doubt           \* files whose rows, and "list" if the list, may be out of step

knowledgeVars ==
  <<kload, file, listed, stamp, fileRows, rowIds, loadEvents, rowCache, context, contextBuild, work, turns,
    indexFaults, mixedRow, doubt>>
diskVars == <<file, listed, stamp>>
indexVars == <<fileRows, rowIds, loadEvents>>
contextVars == <<context, contextBuild, turns>>

NoRow == [id |-> 0, ver |-> 0, listed |-> FALSE]
Resting(todo) == [left |-> todo, at |-> "none", seen |-> [s \in Slugs |-> 0], list |-> FALSE, synced |-> FALSE, ok |-> TRUE]

KnowledgeInit ==
  /\ kload \in KnowledgeLoads
  /\ file = [s \in Slugs |-> IF s = "c" THEN 0 ELSE 1] /\ listed = FALSE /\ stamp = 1
  /\ fileRows = [s \in Slugs |-> CASE s = "p" -> [id |-> 1, ver |-> 1, listed |-> FALSE]
                               [] s = "d" -> [id |-> 2, ver |-> 1, listed |-> FALSE] [] OTHER -> NoRow]
  /\ rowIds = 2 /\ loadEvents = <<>> /\ rowCache = {}
  /\ context = [offered |-> {"d"}, loaded |-> [s \in Details |-> 0]]
  /\ contextBuild = [at |-> "none", onDisk |-> {}, indexed |-> {}]
  /\ work = [a \in Doers |-> Resting(kload[a])]
  /\ turns = 0 /\ indexFaults = 0 /\ mixedRow = {} /\ doubt = {}

-----------------------------------------------------------------------------
Doing(a) == work[a].left[1].op
About(a) == work[a].left[1].slug
StepOf(a) == work[a].at
Moves(a, s) == work' = [work EXCEPT ![a].at = s]
Mixes(a) == mixedRow' = mixedRow \cup ((Doers \cup {"build"}) \ {a})
Failing == indexFaults < MaxIndexFaults /\ indexFaults' = indexFaults + 1

\* What an operation that was crossed, or of which a part failed, leaves in doubt.
Ends(a, more) ==
  /\ work' = [work EXCEPT ![a] = Resting(Tail(work[a].left))]
  /\ LET its == {About(a)} \cup IF work[a].synced THEN {"p", "list"} ELSE {}
     IN doubt' = IF a \in mixedRow \/ ~work[a].ok THEN doubt \cup {About(a), "p", "list"} \cup more
                 ELSE IF work[a].seen[About(a)] = file[About(a)] THEN (doubt \ its) \cup more ELSE doubt \cup more

CachedRows == {[slug |-> s, ver |-> fileRows[s].ver] : s \in {t \in Details : fileRows[t] # NoRow}}

\* The row of s from what was read: the row that is there is updated, else a new one inserted.
RowFrom(s, a) ==
  fileRows' = [fileRows EXCEPT ![s] = [id |-> IF @ = NoRow THEN rowIds + 1 ELSE @.id, ver |-> work[a].seen[s],
                               listed |-> s = "p" /\ work[a].list]]
NewId(s) == rowIds' = IF fileRows[s] = NoRow THEN rowIds + 1 ELSE rowIds
Without(ids) == SelectSeq(loadEvents, LAMBDA e : e.id \notin ids)

BeginWork(a) ==
  /\ work[a].left # <<>> /\ StepOf(a) = "none" /\ (a \in AgentTasks => contextBuild.at = "none")
  /\ mixedRow' = mixedRow \ {a}
  /\ Moves(a, CASE Doing(a) = "write" -> "file" [] Doing(a) = "delete" -> "unlink" [] Doing(a) = "load" -> "check"
                [] Doing(a) = "put" -> "old" [] Doing(a) = "reindex" -> "scan" [] OTHER -> Doing(a))
  /\ UNCHANGED <<kload, diskVars, indexVars, rowCache, contextVars, indexFaults, doubt>>

-----------------------------------------------------------------------------
(***************************************************************************)
(* write: the file, the list of its parent and the parent's row, its row,  *)
(* then the cache and the context.                                         *)
(***************************************************************************)
WriteFile(a) ==
  /\ StepOf(a) = "file" /\ Moves(a, "sync") /\ Mixes(a)
  /\ stamp' = stamp + 1 /\ file' = [file EXCEPT ![About(a)] = stamp + 1]
  /\ UNCHANGED <<kload, listed, indexVars, rowCache, contextVars, indexFaults, doubt>>

\* The child is put on the list of its parent, or taken off it.
SyncParent(a) ==
  /\ StepOf(a) \in {"sync", "unsync"}
  /\ LET on == StepOf(a) = "sync"
         after == IF on THEN "read" ELSE "row"
         change == About(a) = "c" /\ listed # on /\ (on \/ work[a].synced)
     IN IF change
        THEN /\ listed' = on /\ stamp' = stamp + 1 /\ file' = [file EXCEPT !["p"] = stamp + 1] /\ Mixes(a)
             /\ work' = [work EXCEPT ![a].at = "parent", ![a].seen["p"] = stamp + 1, ![a].list = on, ![a].synced = TRUE]
        ELSE /\ work' = [work EXCEPT ![a].at = after, ![a].synced = FALSE]
             /\ UNCHANGED <<diskVars, mixedRow>>
  /\ UNCHANGED <<kload, indexVars, rowCache, contextVars, indexFaults, doubt>>

ParentRow(a) ==
  /\ StepOf(a) = "parent"
  /\ LET after == IF Doing(a) = "write" THEN "read" ELSE "row"
     IN \/ RowFrom("p", a) /\ NewId("p") /\ Mixes(a) /\ Moves(a, after) /\ UNCHANGED indexFaults
        \/ Failing /\ work' = [work EXCEPT ![a].at = after, ![a].ok = FALSE] /\ UNCHANGED <<fileRows,
                                                                                            rowIds, mixedRow>>
  /\ UNCHANGED <<kload, diskVars, loadEvents, rowCache, contextVars, doubt>>

ReadForIndex(a) ==
  /\ StepOf(a) = "read"
  /\ work' = [work EXCEPT ![a].at = IF file[About(a)] = 0 THEN "told" ELSE "index", ![a].ok = @ /\ file[About(a)] # 0,
                          ![a].seen[About(a)] = file[About(a)], ![a].list = IF About(a) = "p" THEN listed ELSE @]
  /\ UNCHANGED <<kload, diskVars, indexVars, rowCache, contextVars, indexFaults, mixedRow, doubt>>

IndexRow(a) ==
  /\ StepOf(a) = "index"
  /\ \/ RowFrom(About(a), a) /\ NewId(About(a)) /\ Mixes(a) /\ Moves(a, "told") /\ UNCHANGED indexFaults
     \/ Failing /\ work' = [work EXCEPT ![a].at = "told", ![a].ok = FALSE] /\ UNCHANGED <<fileRows, rowIds,
                                                                                          mixedRow>>
  /\ UNCHANGED <<kload, diskVars, loadEvents, rowCache, contextVars, doubt>>

\* A detail file that is loaded gets the new text, another is on offer.
WriteTold(a) ==
  /\ StepOf(a) = "told"
  /\ rowCache' = IF work[a].ok \/ a \in Editors THEN {} ELSE rowCache
  /\ LET s == About(a)
     IN context' = IF a \in Editors \/ s \notin Details THEN context
                   ELSE IF context.loaded[s] # 0 THEN [context EXCEPT !.loaded[s] = work[a].seen[s]]
                   ELSE [context EXCEPT !.offered = @ \cup {s}]
  /\ Mixes(a) /\ Ends(a, {}) /\ UNCHANGED <<kload, diskVars, indexVars, contextBuild, turns, indexFaults>>

-----------------------------------------------------------------------------
(***************************************************************************)
(* delete: the file, the parent's list, the row with its events, then the  *)
(* context and the cache.  purge: the rows without a file.                 *)
(***************************************************************************)
Unlink(a) ==
  /\ StepOf(a) = "unlink" /\ Mixes(a) /\ file' = [file EXCEPT ![About(a)] = 0]
  /\ work' = [work EXCEPT ![a].at = "unsync", ![a].synced = (file[About(a)] # 0)]
  /\ UNCHANGED <<kload, listed, stamp, indexVars, rowCache, contextVars, indexFaults, doubt>>

DropRow(a) ==
  /\ StepOf(a) = "row"
  /\ \/ /\ fileRows' = [fileRows EXCEPT ![About(a)] = NoRow] /\ loadEvents' = Without({fileRows[About(a)].id})
        /\ Mixes(a) /\ Moves(a, "forget") /\ UNCHANGED indexFaults
     \/ Failing /\ work' = [work EXCEPT ![a].at = "forget", ![a].ok = FALSE] /\ UNCHANGED <<fileRows,
                                                                                            loadEvents,
                                                                                            mixedRow>>
  /\ UNCHANGED <<kload, diskVars, rowIds, rowCache, contextVars, doubt>>

\* Without the eviction a row that is gone stays on offer.
EmptiedNot == UNCHANGED rowCache
Emptied == rowCache' = {}

ForgetFile(a) ==
  /\ StepOf(a) = "forget" /\ Emptied /\ Mixes(a) /\ Ends(a, {})
  /\ context' = IF a \in AgentTasks /\ About(a) \in Details
                THEN [offered |-> context.offered \ {About(a)}, loaded |-> [context.loaded EXCEPT ![About(a)] = 0]]
                ELSE context
  /\ UNCHANGED <<kload, diskVars, indexVars, contextBuild, turns, indexFaults>>

Purge(a) ==
  /\ StepOf(a) = "purge" /\ Mixes(a)
  /\ LET gone == {s \in Slugs : fileRows[s] # NoRow /\ file[s] = 0}
     IN /\ fileRows' = [s \in Slugs |-> IF s \in gone THEN NoRow ELSE fileRows[s]]
        /\ loadEvents' = Without({fileRows[s].id : s \in gone})
        /\ rowCache' = IF gone = {} THEN rowCache ELSE {}
  /\ work' = [work EXCEPT ![a] = Resting(Tail(work[a].left))]
  /\ UNCHANGED <<kload, diskVars, rowIds, contextVars, indexFaults, doubt>>

\* Another tool removes the file; nobody tells the index.
RemoveOutside(a) ==
  /\ StepOf(a) = "remove" /\ Mixes(a) /\ file' = [file EXCEPT ![About(a)] = 0]
  /\ work' = [work EXCEPT ![a] = Resting(Tail(work[a].left))] /\ doubt' = doubt \cup {About(a), "list"}
  /\ UNCHANGED <<kload, listed, stamp, indexVars, rowCache, contextVars, indexFaults>>

-----------------------------------------------------------------------------
(***************************************************************************)
(* The editor: save the body under the frontmatter that was read, copy a   *)
(* template unless there is a file, index the whole directory.             *)
(***************************************************************************)
\* What has neither a row nor a file is not found.
ReadOld(a) ==
  /\ StepOf(a) = "old"
  /\ work' = IF fileRows[About(a)] = NoRow /\ file[About(a)] = 0 THEN [work EXCEPT ![a] = Resting(Tail(work[a].left))]
             ELSE [work EXCEPT ![a].at = "save", ![a].list = listed]
  /\ UNCHANGED <<kload, diskVars, indexVars, rowCache, contextVars, indexFaults, mixedRow, doubt>>

\* Only a file with a row is indexed again.
SaveBody(a) ==
  /\ StepOf(a) = "save" /\ Mixes(a)
  /\ stamp' = stamp + 1 /\ file' = [file EXCEPT ![About(a)] = stamp + 1]
  /\ listed' = IF About(a) = "p" THEN work[a].list ELSE listed
  /\ work' = [work EXCEPT ![a].at = IF fileRows[About(a)] = NoRow THEN "told" ELSE "read",
                          ![a].ok = fileRows[About(a)] # NoRow]
  /\ UNCHANGED <<kload, indexVars, rowCache, contextVars, indexFaults, doubt>>

CopyTemplate(a) ==
  /\ StepOf(a) = "copy"
  /\ IF file[About(a)] = 0
     THEN /\ stamp' = stamp + 1 /\ file' = [file EXCEPT ![About(a)] = stamp + 1] /\ Mixes(a)
          /\ Moves(a, "read") /\ UNCHANGED <<rowCache, doubt>>
     ELSE /\ rowCache' = {} /\ Mixes(a) /\ work' = [work EXCEPT ![a] = Resting(Tail(work[a].left))]
          /\ UNCHANGED <<stamp, file, doubt>>
  /\ UNCHANGED <<kload, listed, indexVars, contextVars, indexFaults>>

\* All files are read before the first row is looked at.
ScanDirectory(a) ==
  /\ StepOf(a) = "scan" /\ work' = [work EXCEPT ![a].at = "rows", ![a].seen = file, ![a].list = listed]
  /\ UNCHANGED <<kload, diskVars, indexVars, rowCache, contextVars, indexFaults, mixedRow, doubt>>

IndexAll(a) ==
  /\ StepOf(a) = "rows" /\ Mixes(a) /\ work' = [work EXCEPT ![a].at = "evict"]
  /\ LET new == {s \in Slugs : work[a].seen[s] # 0 /\ fileRows[s] = NoRow}
         idOf == CHOOSE f \in [new -> rowIds + 1 .. rowIds + Cardinality(new)] : \A s, t \in new : s # t => f[s] # f[t]
     IN /\ fileRows' = [s \in Slugs |-> IF work[a].seen[s] = 0 THEN fileRows[s]
                                    ELSE [id |-> IF s \in new THEN idOf[s] ELSE fileRows[s].id,
                                          ver |-> work[a].seen[s], listed |-> s = "p" /\ work[a].list]]
        /\ rowIds' = rowIds + Cardinality(new)
  /\ UNCHANGED <<kload, diskVars, loadEvents, rowCache, contextVars, indexFaults, doubt>>

EvictAfterIndex(a) ==
  /\ StepOf(a) = "evict" /\ rowCache' = {} /\ Mixes(a)
  /\ doubt' = IF a \in mixedRow THEN doubt \cup Slugs ELSE {s \in Slugs : file[s] = 0} \cup (doubt \cap {"list"})
  /\ work' = [work EXCEPT ![a] = Resting(Tail(work[a].left))]
  /\ UNCHANGED <<kload, diskVars, indexVars, contextVars, indexFaults>>

-----------------------------------------------------------------------------
(***************************************************************************)
(* load, unload and refresh; what is loaded is also recorded as an event.  *)
(***************************************************************************)
HeldFiles == {s \in Details : context.loaded[s] # 0}
WithinBudget == Cardinality(HeldFiles) < MaxLoaded

CheckLoad(a) ==
  /\ StepOf(a) = "check"
  /\ work' = IF context.loaded[About(a)] # 0 \/ file[About(a)] = 0 THEN [work EXCEPT ![a] = Resting(Tail(work[a].left))]
             ELSE [work EXCEPT ![a].at = "take", ![a].ok = WithinBudget]
  /\ UNCHANGED <<kload, diskVars, indexVars, rowCache, contextVars, indexFaults, mixedRow, doubt>>

HasRoom(a) == WithinBudget

TakeLoad(a) ==
  /\ StepOf(a) = "take"
  /\ IF file[About(a)] # 0 /\ HasRoom(a)
     THEN /\ context' = [offered |-> context.offered \ {About(a)},
                         loaded |-> [context.loaded EXCEPT ![About(a)] = IF @ # 0 THEN @ ELSE file[About(a)]]]
          /\ Moves(a, "loaded")
     ELSE UNCHANGED context /\ work' = [work EXCEPT ![a] = Resting(Tail(work[a].left))]
  /\ UNCHANGED <<kload, diskVars, indexVars, rowCache, contextBuild, turns, indexFaults, mixedRow, doubt>>

Unload(a) ==
  /\ StepOf(a) = "unload" /\ UNCHANGED contextBuild
  /\ IF context.loaded[About(a)] # 0
     THEN /\ context' = [context EXCEPT !.loaded[About(a)] = 0] /\ Moves(a, "unloaded")
          /\ mixedRow' = mixedRow \cup {"build"}
     ELSE UNCHANGED <<context, mixedRow>> /\ work' = [work EXCEPT ![a] = Resting(Tail(work[a].left))]
  /\ UNCHANGED <<kload, diskVars, indexVars, rowCache, turns, indexFaults, doubt>>

RecordEvent(a) ==
  /\ StepOf(a) \in {"loaded", "unloaded"}
  /\ LET row == fileRows[About(a)]
     IN loadEvents' = IF row = NoRow THEN loadEvents
                  ELSE Append(loadEvents, [id |-> row.id, slug |-> About(a), on |-> StepOf(a) = "loaded"])
  /\ work' = [work EXCEPT ![a] = Resting(Tail(work[a].left))]
  /\ UNCHANGED <<kload, diskVars, fileRows, rowIds, rowCache, contextVars, indexFaults, mixedRow, doubt>>

RefreshEntry(a) ==
  /\ StepOf(a) = "refresh" /\ work' = [work EXCEPT ![a] = Resting(Tail(work[a].left))]
  /\ context' = IF file[About(a)] # 0 /\ context.loaded[About(a)] # 0
                THEN [context EXCEPT !.loaded[About(a)] = file[About(a)]] ELSE context
  /\ UNCHANGED <<kload, diskVars, indexVars, rowCache, contextBuild, turns, indexFaults, mixedRow, doubt>>

-----------------------------------------------------------------------------
(***************************************************************************)
(* A turn builds its context anew: files, rows through the cache, events.  *)
(***************************************************************************)
BuildScan ==
  /\ contextBuild.at = "none" /\ turns < MaxTurns /\ \A t \in AgentTasks : StepOf(t) = "none"
  /\ contextBuild' = [at |-> "rows", onDisk |-> {s \in Details : file[s] # 0}, indexed |-> {}]
  /\ mixedRow' = mixedRow \ {"build"} /\ turns' = turns + 1
  /\ UNCHANGED <<kload, diskVars, indexVars, rowCache, context, work, indexFaults, doubt>>

BuildRows ==
  /\ contextBuild.at = "rows"
  /\ contextBuild' = [contextBuild EXCEPT !.at = IF rowCache # {} THEN "restore" ELSE "store",
                                          !.indexed = IF rowCache # {} THEN rowCache ELSE CachedRows]
  /\ UNCHANGED <<kload, diskVars, indexVars, rowCache, context, work, turns, indexFaults, mixedRow, doubt>>

\* Whatever was written or evicted meanwhile.
BuildStore ==
  /\ contextBuild.at = "store" /\ contextBuild' = [contextBuild EXCEPT !.at = "restore"] /\ rowCache' = contextBuild.indexed
  /\ doubt' = IF "build" \in mixedRow THEN doubt \cup {"cache"} ELSE doubt \ {"cache"}
  /\ UNCHANGED <<kload, diskVars, indexVars, context, work, turns, indexFaults, mixedRow>>

\* The last event of a file decides.
LoadedByEvents ==
  LET known == SelectSeq(loadEvents, LAMBDA e : \E s \in Slugs : fileRows[s].id = e.id)
      LastOf(s) == {i \in DOMAIN known : known[i].slug = s /\ \A j \in DOMAIN known : known[j].slug = s => j <= i}
  IN {s \in Details : \E i \in LastOf(s) : known[i].on}
Offered(held) == (contextBuild.onDisk \cup {e.slug : e \in contextBuild.indexed}) \ held

BuildRestore ==
  /\ contextBuild.at = "restore" /\ contextBuild' = [contextBuild EXCEPT !.at = "none"]
  /\ LET held == {s \in LoadedByEvents : file[s] # 0}
         stale == SetToSeq({s \in LoadedByEvents : file[s] = 0})
     IN /\ \E kept \in SUBSET held :
             /\ Cardinality(kept) <= MaxLoaded /\ (Cardinality(kept) = MaxLoaded \/ kept = held)
             /\ context' = [offered |-> Offered(kept), loaded |-> [s \in Details |-> IF s \in kept THEN file[s] ELSE 0]]
        /\ loadEvents' = loadEvents \o
             [i \in DOMAIN stale |-> [id |-> fileRows[stale[i]].id, slug |-> stale[i], on |-> FALSE]]
  /\ UNCHANGED <<kload, diskVars, fileRows, rowIds, rowCache, work, turns, indexFaults, mixedRow, doubt>>

KnowledgeNext ==
  \/ \E a \in Doers :
       \/ BeginWork(a) \/ WriteFile(a) \/ SyncParent(a) \/ ParentRow(a) \/ ReadForIndex(a) \/ IndexRow(a) \/ WriteTold(a)
       \/ Unlink(a) \/ DropRow(a) \/ ForgetFile(a) \/ Purge(a) \/ RemoveOutside(a)
       \/ ReadOld(a) \/ SaveBody(a) \/ CopyTemplate(a) \/ ScanDirectory(a) \/ IndexAll(a) \/ EvictAfterIndex(a)
       \/ CheckLoad(a) \/ TakeLoad(a) \/ Unload(a) \/ RecordEvent(a) \/ RefreshEntry(a)
  \/ BuildScan \/ BuildRows \/ BuildStore \/ BuildRestore

-----------------------------------------------------------------------------
KnowledgeAtRest == contextBuild.at = "none" /\ \A a \in Doers : StepOf(a) = "none"

KnowledgeTypeOK ==
  /\ file \in [Slugs -> 0 .. stamp] /\ listed \in BOOLEAN
  /\ fileRows \in [Slugs -> [id : 0 .. rowIds, ver : 0 .. stamp, listed : BOOLEAN]]
  /\ context.offered \subseteq Details /\ context.loaded \in [Details -> 0 .. stamp]
  /\ mixedRow \subseteq Doers \cup {"build"} /\ doubt \subseteq Slugs \cup {"list", "cache"}

\* Between operations the rows say what the files say, unless the last operation on a file was
\* crossed by another, had a statement fail, or went past the index.
IndexFollowsFiles ==
  KnowledgeAtRest => \A s \in Slugs \ doubt : /\ fileRows[s].ver = file[s] /\ (fileRows[s] = NoRow <=> file[s] = 0)
                                              /\ s = "p" => fileRows[s].listed = listed
\* The parent lists its child exactly when there is one.
ListFollowsFiles == KnowledgeAtRest /\ "list" \notin doubt => (listed <=> file["c"] # 0)

\* The cache holds the rows.
CacheIsCurrent ==
  KnowledgeAtRest /\ rowCache # {} /\ doubt = {} => rowCache = CachedRows

\* A turn that nobody crosses is offered every detail file, indexed or not, and holds the present
\* text of those it had loaded.
NothingVanishes ==
  contextBuild.at = "none" /\ turns > 0 /\ "build" \notin mixedRow
    => \A s \in Details : /\ file[s] # 0 => s \in context.offered \/ context.loaded[s] # 0
                          /\ context.loaded[s] \in {0, file[s]}

\* However tasks load at once, the context stays within its budget.
BudgetIsKept == Cardinality(HeldFiles) <= MaxLoaded
=============================================================================
