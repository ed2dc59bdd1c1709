------------------------------- MODULE Memories -------------------------------
(***************************************************************************)
(* What agents and users keep for later: personal memories (rows, which    *)
(* the tool memory_rw and the settings page write), the notes of a         *)
(* conversation (one list, shared by its turns) and the one episode that   *)
(* sums a conversation up when its last tab leaves.                        *)
(***************************************************************************)
EXTENDS Naturals, Sequences, FiniteSets

CONSTANTS
  MemoryLoads,   \* bound: what the tool and the page do; see MemoryAssumption
  MaxShown,      \* the limit of a recall
  MaxNotes,      \* the notes of a conversation
  MaxTabs,       \* bound: tabs
  MinSaid        \* user messages that make a conversation worth an episode

MemoryWork ==
  [op : {"save", "update", "archive", "recall"}, row : Nat, place : {"here", "global", "all"},
   secret : BOOLEAN, tagged : BOOLEAN]
\* The models a user may have: one of his own, with or without an endpoint, the system's, an old key.
ModelSources == [own : {"none", "public", "custom", "illegal"}, system : {"none", "public", "custom"},
                 legacy : {"none", "plain", "azure"}, tier : BOOLEAN]

ASSUME MemoryAssumption ==
  /\ MaxShown \in Nat \ {0} /\ MaxNotes \in Nat \ {0} /\ MaxTabs \in Nat /\ MinSaid \in Nat
  /\ \A l \in MemoryLoads :
       l.tool \in Seq(MemoryWork) /\ l.page \in Seq(MemoryWork) /\ l.models \in ModelSources
       /\ l.talks \in Nat  \* bound: turns

VARIABLES
  memoryLoad,
  memories,      \* the rows, oldest first
  memoryWork,    \* per writer: its operations left, and the row it has checked
  recalled,      \* what the last recall returned: "note" and rows, with the rows as they were then
  notes,         \* the list of the conversation: its identity, 0 if there is none
  noteLists,     \* the lists there have been
  tabs,          \* sockets
  watched,       \* a tab was evicted, or left while a turn let go of its claim, or the notes were read
  talk,          \* the turn: its step, the list it holds
  userSaid,      \* the user's messages in the conversation
  summing,       \* per generation of an episode: its step
  episode,       \* the episodes of the conversation
  summedBy       \* whose key, endpoint and model the summary used

memoryVars == <<memoryLoad, memories, memoryWork, recalled, notes, noteLists, tabs, watched, talk, userSaid,
                summing, episode, summedBy>>

MemoryWriters == {"tool", "page"}
NoRecall == [rows |-> <<>>, then |-> <<>>, notes |-> 0, tagged |-> FALSE]
NoTalk == [at |-> "none", list |-> 0]
NotAsked == [key |-> "none", base |-> "none", model |-> "none"]

MemoryInit ==
  /\ memoryLoad \in MemoryLoads /\ memories = <<>> /\ recalled = NoRecall
  /\ memoryWork = [w \in MemoryWriters |-> [left |-> IF w = "tool" THEN memoryLoad.tool ELSE memoryLoad.page, row |-> 0]]
  /\ notes = 0 /\ noteLists = <<>> /\ tabs = 0 /\ watched = FALSE /\ talk = NoTalk /\ userSaid = 0
  /\ summing = <<>> /\ episode = 0 /\ summedBy = NotAsked

-----------------------------------------------------------------------------
(***************************************************************************)
(* Personal memories of one user; the other projects are one other place.  *)
(***************************************************************************)
MemoryJob(w) == memoryWork[w].left[1]
HasJob(w) == memoryWork[w].left # <<>>
JobDone(w) == memoryWork' = [memoryWork EXCEPT ![w] = [left |-> Tail(@.left), row |-> 0]]
NotTalking == UNCHANGED <<memoryLoad, notes, noteLists, tabs, watched, talk, userSaid, summing, episode,
                          summedBy>>

\* The tool refuses what looks like a secret; the page takes it.
Guarded(w) == w = "tool" /\ MemoryJob(w).secret
SaveMemory(w) ==
  /\ HasJob(w) /\ MemoryJob(w).op = "save" /\ JobDone(w)
  /\ IF Guarded(w) \/ MemoryJob(w).place = "all" THEN UNCHANGED memories
     ELSE memories' = Append(memories, [place |-> MemoryJob(w).place, tagged |-> MemoryJob(w).tagged,
                                        secret |-> MemoryJob(w).secret, by |-> w, archived |-> FALSE])
  /\ NotTalking /\ UNCHANGED recalled

MemoryFound(w) == MemoryJob(w).row \in DOMAIN memories
CheckMemory(w) ==
  /\ HasJob(w) /\ MemoryJob(w).op \in {"update", "archive"} /\ memoryWork[w].row = 0
  /\ IF MemoryFound(w) /\ ~(MemoryJob(w).op = "update" /\ Guarded(w))
     THEN memoryWork' = [memoryWork EXCEPT ![w].row = MemoryJob(w).row]
     ELSE JobDone(w)
  /\ NotTalking /\ UNCHANGED <<memories, recalled>>
\* Only the columns that were given are written: an update does not bring an archived row back.
WriteMemory(w) ==
  /\ HasJob(w) /\ memoryWork[w].row # 0 /\ JobDone(w)
  /\ memories' = [memories EXCEPT ![memoryWork[w].row] =
       IF MemoryJob(w).op = "archive" THEN [@ EXCEPT !.archived = TRUE]
       ELSE [@ EXCEPT !.secret = MemoryJob(w).secret, !.tagged = MemoryJob(w).tagged, !.by = w]]
  /\ NotTalking /\ UNCHANGED recalled

\* Notes carry no tags; they come first and count towards the limit.
NotesShown(tagged) == IF tagged \/ notes = 0 THEN 0 ELSE Len(noteLists[notes])
Matches(i, tagged) == ~memories[i].archived /\ (tagged => memories[i].tagged)
Newest(n, tagged) ==
  SelectSeq([k \in 1 .. Len(memories) |-> Len(memories) + 1 - k],
            LAMBDA i : Matches(i, tagged) /\ Cardinality({j \in i .. Len(memories) : Matches(j, tagged)}) <= n)
Room(tagged) == IF NotesShown(tagged) < MaxShown THEN MaxShown - NotesShown(tagged) ELSE 0
Recall(w) ==
  /\ w = "tool" /\ HasJob(w) /\ MemoryJob(w).op = "recall" /\ JobDone(w)
  /\ recalled' = [rows |-> Newest(Room(MemoryJob(w).tagged), MemoryJob(w).tagged), then |-> memories,
                  notes |-> NotesShown(MemoryJob(w).tagged), tagged |-> MemoryJob(w).tagged]
  /\ NotTalking /\ UNCHANGED memories

-----------------------------------------------------------------------------
(***************************************************************************)
(* The notes of the conversation, kept while it has a tab or a turn.       *)
(***************************************************************************)
NotWriting == UNCHANGED <<memoryLoad, memories, memoryWork, recalled, summedBy>>
Talking == talk.at # "none"

\* The list of the conversation, made when there is none yet.
TakeNotes ==
  IF notes # 0 THEN UNCHANGED <<notes, noteLists>>
  ELSE notes' = Len(noteLists) + 1 /\ noteLists' = Append(noteLists, <<>>)
HeldList == IF notes # 0 THEN notes ELSE Len(noteLists) + 1

OpenTab ==
  /\ memoryLoad.talks > 0 /\ tabs < MaxTabs /\ tabs' = tabs + 1
  /\ NotWriting /\ UNCHANGED <<notes, noteLists, watched, talk, userSaid, summing, episode>>

\* The claim is taken before the message is stored, the list when the turn is set up.
BeginTalk ==
  /\ tabs > 0 /\ ~Talking /\ userSaid < memoryLoad.talks
  /\ talk' = [at |-> "claimed", list |-> 0] /\ userSaid' = userSaid + 1
  /\ NotWriting /\ UNCHANGED <<notes, noteLists, tabs, watched, summing, episode>>
SetUpTalk ==
  /\ talk.at = "claimed" /\ TakeNotes /\ talk' = [at |-> "running", list |-> HeldList]
  /\ NotWriting /\ UNCHANGED <<tabs, watched, userSaid, summing, episode>>
NoteDown ==
  /\ talk.at = "running"
  /\ noteLists' = [noteLists EXCEPT ![talk.list] =
       Append(IF Len(@) >= MaxNotes THEN Tail(@) ELSE @, userSaid)]
  /\ talk' = [talk EXCEPT !.at = "noted"] /\ NotWriting /\ UNCHANGED <<notes, tabs, watched, userSaid,
                                                                       summing, episode>>
\* The session is deregistered: without a tab nothing is kept.
EndTalk ==
  /\ talk.at \in {"running", "noted"} /\ talk' = [at |-> "released", list |-> 0]
  /\ notes' = IF tabs = 0 THEN 0 ELSE notes
  /\ NotWriting /\ UNCHANGED <<noteLists, tabs, watched, userSaid, summing, episode>>
ReleaseTalk ==
  /\ talk.at = "released" /\ talk' = NoTalk
  /\ NotWriting /\ UNCHANGED <<notes, noteLists, tabs, watched, userSaid, summing, episode>>

\* The tab that leaves starts the episode unless a turn runs, the last one drops the notes.
\* Bound: two generations.
CloseTab ==
  /\ tabs > 0 /\ tabs' = tabs - 1 /\ notes' = IF tabs = 1 /\ ~Talking THEN 0 ELSE notes
  /\ summing' = IF Talking \/ Len(summing) = 2 THEN summing ELSE Append(summing, "check")
  /\ watched' = (watched \/ talk.at = "released")
  /\ NotWriting /\ UNCHANGED <<noteLists, talk, userSaid, episode>>

\* An eviction drops a tab only, a REST read makes a list.
EvictTab ==
  /\ tabs > 0 /\ tabs' = tabs - 1 /\ watched' = TRUE
  /\ NotWriting /\ UNCHANGED <<notes, noteLists, talk, userSaid, summing, episode>>
ReadNotes ==
  /\ memoryLoad.talks > 0 /\ ~watched /\ watched' = TRUE /\ TakeNotes
  /\ NotWriting /\ UNCHANGED <<tabs, talk, userSaid, summing, episode>>

-----------------------------------------------------------------------------
(***************************************************************************)
(* The episode: generated in the background, by the user's model.          *)
(***************************************************************************)
Summing == UNCHANGED <<memoryLoad, memories, memoryWork, recalled, notes, noteLists, tabs, watched, talk,
                       userSaid>>
SumTo(g, s) == summing' = [summing EXCEPT ![g] = s]

\* One that exists stays as it is; too short a conversation gets none.
BeginEpisode(g) ==
  /\ summing[g] = "check" /\ Summing /\ UNCHANGED <<episode, summedBy>>
  /\ SumTo(g, IF episode > 0 \/ userSaid < MinSaid THEN "done" ELSE "ask")

\* Key, endpoint and model come from one place; an old key has the public endpoint of its provider.
SummaryModel ==
  LET m == memoryLoad.models IN
  IF m.own = "illegal" THEN {}
  ELSE IF m.own # "none" THEN {[key |-> "own", base |-> IF m.own = "custom" THEN "own" ELSE "public", model |-> "own"]}
  ELSE IF m.system # "none"
       THEN {[key |-> "system", base |-> IF m.system = "custom" THEN "system" ELSE "public", model |-> "system"]}
  ELSE IF m.legacy = "plain"
       THEN {[key |-> "legacy", base |-> "public", model |-> IF m.tier THEN "legacy" ELSE "provider"]}
  ELSE {}

\* A failing call, an illegal key and a reply that is not the JSON summedBy for end it without one.
Summarise(g) ==
  /\ summing[g] = "ask" /\ Summing /\ UNCHANGED episode
  /\ \/ \E k \in SummaryModel : summedBy' = k /\ SumTo(g, "save")
     \/ UNCHANGED summedBy /\ SumTo(g, "done")
\* The unique index lets the first one win.
SaveEpisode(g) ==
  /\ summing[g] = "save" /\ SumTo(g, "done") /\ Summing /\ UNCHANGED summedBy
  /\ episode' = IF episode = 0 THEN 1 ELSE episode

MemoryNext ==
  \/ \E w \in MemoryWriters : SaveMemory(w) \/ CheckMemory(w) \/ WriteMemory(w) \/ Recall(w)
  \/ OpenTab \/ BeginTalk \/ SetUpTalk \/ NoteDown \/ EndTalk \/ ReleaseTalk \/ CloseTab \/ EvictTab \/ ReadNotes
  \/ \E g \in DOMAIN summing : BeginEpisode(g) \/ Summarise(g) \/ SaveEpisode(g)

-----------------------------------------------------------------------------
\* Every variable has its type.
MemoryTypeOK ==
  /\ memories \in Seq([place : {"here", "global"}, tagged : BOOLEAN, secret : BOOLEAN, by : MemoryWriters,
                       archived : BOOLEAN])
  /\ recalled.rows \in Seq(Nat) /\ recalled.notes \in Nat /\ notes \in 0 .. Len(noteLists)
  /\ tabs \in 0 .. MaxTabs /\ watched \in BOOLEAN /\ talk.at \in {"none", "claimed", "running", "noted", "released"}
  /\ \A g \in DOMAIN summing : summing[g] \in {"check", "ask", "save", "done"}
  /\ summedBy.key \in {"none", "own", "system", "legacy"}

\* What an agent writes is no secret, whether it saves or changes a row.
SecretsAreKeptOut == \A i \in DOMAIN memories : memories[i].by = "tool" => ~memories[i].secret

\* A recall returns no archived row, the newest first and no more than its limit, and leaves a
\* matching row out only when notes and newer rows fill the limit.
RecallIsRight ==
  LET rows == {recalled.rows[k] : k \in DOMAIN recalled.rows}
      fits(i) == ~recalled.then[i].archived /\ (recalled.tagged => recalled.then[i].tagged)
  IN  /\ \A i \in rows : fits(i)
      /\ Len(recalled.rows) <= MaxShown
      /\ \A k \in DOMAIN recalled.rows : \A l \in DOMAIN recalled.rows : k < l => recalled.rows[k] > recalled.rows[l]
      /\ \A i \in DOMAIN recalled.then \ rows :
           fits(i) => recalled.notes + Cardinality({j \in rows : j > i}) >= MaxShown

\* What a turn notes down is in the list of its conversation, for the next turns to read, and that
\* list has its limit.
NotesAreShared ==
  /\ talk.list # 0 => talk.list = notes
  /\ \A n \in DOMAIN noteLists : Len(noteLists[n]) <= MaxNotes

\* Nothing is kept of a conversation that nobody looks at, unless a tab was evicted or left while
\* a turn let go of its claim, or its notes were read over REST.
NotesEnd == tabs = 0 /\ ~Talking /\ ~watched => notes = 0

\* A conversation has one episode, whoever else generated one meanwhile.
EpisodeIsOne == episode <= 1

\* A key goes only to the endpoint it was given for, and with its model.
KeysStayHome == summedBy.base \in {summedBy.key, "public", "none"} /\ (summedBy.key = "own" => summedBy.model = "own")
=============================================================================
