------------------------------ MODULE SkillSources ------------------------------
(***************************************************************************)
(* Skills from git repositories (tools/skill_source.py): one cached clone, *)
(* which tasks fetch, read and clean up, and one skill that they install   *)
(* from it after the user has confirmed.  Nothing locks the cache.         *)
(***************************************************************************)
EXTENDS Naturals, Sequences, FiniteSets

CONSTANTS
  SkillTasks,     \* bound: tasks with the tool
  SkillLoads,     \* bound: what they do, see SkillAssumption
  FilesOf,        \* the files of the skill in each commit of the source, "SKILL.md" its text
  MaxBundle,      \* files that are copied (bound: of one size, for the limit of bytes)
  MaxSkillFaults  \* bound: commands, removals, copies and writes that fail, callers that are cancelled

SkillOps == {"fetch", "read", "install", "cleanup"}
SourceCommits == DOMAIN FilesOf
SkillFiles == UNION {FilesOf[c] : c \in SourceCommits}
Checkout(c) == {[file |-> f, commit |-> c] : f \in FilesOf[c]}

ASSUME SkillAssumption ==
  /\ MaxSkillFaults \in Nat /\ MaxBundle \in Nat /\ SourceCommits \subseteq Nat \ {0} /\ 1 \in SourceCommits
  /\ \A l \in SkillLoads : l.ops \in [SkillTasks -> Seq(SkillOps)] /\ l.interactive \in BOOLEAN

VARIABLES
  skillLoad, upstream,
  skillCache,   \* the clone: whether .git is a directory, its HEAD (0: none), the files in its tree
  skillOp,      \* per task: operations left, the step of the current one
  skillTold,    \* per task: what the user was told in the dialog, and whether he confirmed
  taken,        \* per task: the commit whose text was read, how many files were copied
  skill,        \* the installed skill: the commit of its text, the one it names, the files it was told to have
  bundle,       \* the files beside it, with their commits
  fetched,      \* per task: the commit its last fetch reported, if any
  skillCrossed, \* tasks under which another changed the cache or the skill
  torn,         \* the skill is not one install's: see WriteSkill
  skillFaults

skillVars == <<skillLoad, upstream, skillCache, skillOp, skillTold, taken, skill, bundle, fetched,
               skillCrossed, torn, skillFaults>>

NoCache == [git |-> FALSE, head |-> 0, tree |-> {}]
Cached(c) == [git |-> TRUE, head |-> c, tree |-> Checkout(c)]
NoSkill == [there |-> FALSE, text |-> 0, names |-> 0, copied |-> 0]
NotTold == [commit |-> 0, overwrite |-> FALSE, confirmed |-> FALSE]

SkillInit ==
  /\ skillLoad \in SkillLoads /\ upstream = 1 /\ skillCache = NoCache
  /\ skillOp = [t \in SkillTasks |-> [left |-> skillLoad.ops[t], at |-> "none"]]
  /\ skillTold = [t \in SkillTasks |-> NotTold] /\ taken = [t \in SkillTasks |-> [text |-> 0, copied |-> 0]]
  /\ skill = NoSkill /\ bundle = {} /\ fetched = [t \in SkillTasks |-> {}]
  /\ skillCrossed = {} /\ torn = FALSE /\ skillFaults = 0

-----------------------------------------------------------------------------
SkillAt(t) == skillOp[t].at
Op(t) == skillOp[t].left[1]
GoTo(t, s) == skillOp' = [skillOp EXCEPT ![t].at = s]
OpEnds(t) == skillOp' = [skillOp EXCEPT ![t] = [left |-> Tail(@.left), at |-> "none"]]
InProgress(t) == SkillAt(t) # "none"

\* A change of the cache or the skill crosses what others do, or have just done.
Crosses(t) == skillCrossed' = skillCrossed \cup (SkillTasks \ {t})
Fault == skillFaults < MaxSkillFaults /\ skillFaults' = skillFaults + 1
NoFault == UNCHANGED skillFaults

\* What a killed checkout leaves, of the old files and the new; and a removal that fails midway.
CutOff(old, new) ==
  {{e \in old : e.file \notin done} \cup {e \in new : e.file \in done} : done \in SUBSET SkillFiles}
HalfCloned ==
  {[git |-> TRUE, head |-> 0, tree |-> {}]}
  \cup {[git |-> TRUE, head |-> upstream, tree |-> s] : s \in SUBSET Checkout(upstream)}
HalfReset == {[skillCache EXCEPT !.tree = s] : s \in CutOff(skillCache.tree, Checkout(upstream))}
HalfRemoved ==
  {[git |-> g, head |-> h, tree |-> s] :
     g \in {FALSE, skillCache.git}, h \in {0, skillCache.head}, s \in SUBSET skillCache.tree}

StartSkillOp(t) ==
  /\ skillOp[t].left # <<>> /\ SkillAt(t) = "none" /\ skillCrossed' = skillCrossed \ {t}
  /\ skillTold' = [skillTold EXCEPT ![t] = NotTold] /\ fetched' = [fetched EXCEPT ![t] = {}]
  /\ CASE Op(t) = "fetch" -> GoTo(t, IF skillCache.git THEN "refresh" ELSE "clone")
       [] Op(t) = "cleanup" -> GoTo(t, "remove")
       [] Op(t) \in {"read", "install"} -> IF skillCache.git THEN GoTo(t, Op(t)) ELSE OpEnds(t)
  /\ UNCHANGED <<skillLoad, upstream, skillCache, taken, skill, bundle, torn, skillFaults>>

Publish ==
  /\ upstream + 1 \in SourceCommits /\ upstream' = upstream + 1
  /\ UNCHANGED <<skillLoad, skillCache, skillOp, skillTold, taken, skill, bundle, fetched, skillCrossed,
                 torn, skillFaults>>

-----------------------------------------------------------------------------
(***************************************************************************)
(* fetch: refresh the clone, or remove it and clone again.                 *)
(***************************************************************************)
SkillApart == UNCHANGED <<skillLoad, upstream, skillTold, taken, skill, bundle, torn>>
Whole == skillCache.head \in SourceCommits /\ skillCache = Cached(skillCache.head)

\* git fetch, then git reset --hard, which may stop halfway.
RefreshCache(t) ==
  /\ SkillAt(t) = "refresh" /\ SkillApart /\ UNCHANGED fetched
  /\ \/ skillCache.git /\ skillCache' = Cached(upstream) /\ GoTo(t, "revision") /\ Crosses(t) /\ NoFault
     \/ GoTo(t, "discard") /\ (Fault \/ (~Whole /\ NoFault)) /\ UNCHANGED <<skillCache, skillCrossed>>
     \/ skillCache.git /\ GoTo(t, "discard") /\ Fault /\ skillCache' \in HalfReset /\ Crosses(t)

\* A directory that cannot be removed, or is gone, ends the fetch.
Discard(t) ==
  /\ SkillAt(t) = "discard" /\ SkillApart /\ UNCHANGED fetched /\ Crosses(t)
  /\ \/ skillCache' = NoCache /\ GoTo(t, "clone") /\ NoFault
     \/ OpEnds(t) /\ Fault /\ skillCache' \in HalfRemoved
     \/ OpEnds(t) /\ skillCache = NoCache /\ UNCHANGED <<skillCache, skillFaults>>

\* git makes .git first, and refuses a directory that is not empty; a clone that another has begun
\* by then is taken for the cache, and one begun between the look and git's is the refused one.
Clone(t) ==
  /\ SkillApart /\ UNCHANGED fetched /\ NoFault
  /\ \/ SkillAt(t) = "clone" /\ GoTo(t, IF skillCache.git THEN "revision" ELSE "begin") /\ UNCHANGED <<skillCache, skillCrossed>>
     \/ /\ SkillAt(t) = "begin" /\ skillCache = NoCache
        /\ skillCache' = [NoCache EXCEPT !.git = TRUE] /\ GoTo(t, "checkout") /\ Crosses(t)
     \/ SkillAt(t) = "begin" /\ skillCache # NoCache /\ GoTo(t, "sweep") /\ UNCHANGED <<skillCache, skillCrossed>>
FinishClone(t) ==
  /\ SkillAt(t) = "checkout" /\ SkillApart /\ UNCHANGED fetched /\ Crosses(t)
  /\ \/ skillCache.git /\ skillCache' = Cached(upstream) /\ GoTo(t, "revision") /\ NoFault
     \/ skillCache.git /\ Fault /\ skillCache' \in HalfCloned /\ GoTo(t, "sweep")
     \/ ~skillCache.git /\ NoFault /\ UNCHANGED skillCache /\ GoTo(t, "sweep")

\* git rev-parse; when it fails there is no commit to name, and the caller goes on without.
Names(c) == (c = skillCache.head /\ NoFault) \/ (c = 0 /\ Fault)
Revision(t) ==
  /\ SkillAt(t) = "revision" /\ OpEnds(t) /\ SkillApart /\ UNCHANGED <<skillCache, skillCrossed>>
  /\ \E c \in {0, skillCache.head} : Names(c) /\ fetched' = [fetched EXCEPT ![t] = {c}]

\* cleanup, and what a failed clone leaves: whatever is there, another's clone too.
RemoveCache(t) ==
  /\ SkillAt(t) \in {"remove", "sweep"} /\ SkillApart /\ UNCHANGED fetched /\ OpEnds(t) /\ Crosses(t)
  /\ \/ skillCache' = NoCache /\ NoFault
     \/ skillCache' \in HalfRemoved /\ Fault

HasText == \E e \in skillCache.tree : e.file = "SKILL.md"
TextCommit == (CHOOSE e \in skillCache.tree : e.file = "SKILL.md").commit
Takes(t) == taken' = [taken EXCEPT ![t] = [text |-> TextCommit, copied |-> 0]]

ReadSkill(t) ==
  /\ SkillAt(t) = "read" /\ OpEnds(t) /\ IF HasText THEN Takes(t) ELSE UNCHANGED taken
  /\ UNCHANGED <<skillLoad, upstream, skillCache, skillTold, skill, bundle, fetched, skillCrossed, torn,
                 skillFaults>>

-----------------------------------------------------------------------------
(***************************************************************************)
(* install: ask, read the text, replace the bundle, write the skill.       *)
(***************************************************************************)
\* The text has to be there; whether the rest is, nobody looks.
Offer(t) ==
  /\ SkillAt(t) = "install"
  /\ IF HasText /\ skillLoad.interactive
     THEN /\ \E c \in {0, skillCache.head} :
               Names(c) /\ skillTold' = [skillTold EXCEPT ![t] = [commit |-> c, overwrite |-> skill.there,
                                                                 confirmed |-> FALSE]]
          /\ GoTo(t, "dialog")
     ELSE OpEnds(t) /\ UNCHANGED <<skillTold, skillFaults>>
  /\ UNCHANGED <<skillLoad, upstream, skillCache, taken, skill, bundle, fetched, skillCrossed, torn>>

UserAnswers(t) ==
  /\ SkillAt(t) = "dialog"
  /\ \/ skillTold' = [skillTold EXCEPT ![t].confirmed = TRUE] /\ GoTo(t, "text")
     \/ OpEnds(t) /\ UNCHANGED skillTold
  /\ UNCHANGED <<skillLoad, upstream, skillCache, taken, skill, bundle, fetched, skillCrossed, torn,
                 skillFaults>>

TakeText(t) ==
  /\ SkillAt(t) = "text"
  /\ IF HasText THEN Takes(t) /\ GoTo(t, "clear") ELSE OpEnds(t) /\ UNCHANGED taken
  /\ UNCHANGED <<skillLoad, upstream, skillCache, skillTold, skill, bundle, fetched, skillCrossed, torn,
                 skillFaults>>

ClearBundle(t) ==
  /\ SkillAt(t) = "clear"
  /\ \/ GoTo(t, "copy") /\ bundle' = (IF skillTold[t].overwrite THEN {} ELSE bundle)
        /\ UNCHANGED <<skillCrossed, torn, skillFaults>>
     \/ skillTold[t].overwrite /\ Fault /\ OpEnds(t) /\ Crosses(t) /\ torn' = TRUE /\ bundle' \in SUBSET bundle
  /\ UNCHANGED <<skillLoad, upstream, skillCache, skillTold, taken, skill, fetched>>

\* A file that cannot be read or written is left out, and so are those beyond the limits.
Copied(got) == {e \in bundle : \A n \in got : n.file # e.file} \cup got
CopyBundle(t) ==
  /\ SkillAt(t) = "copy" /\ GoTo(t, "write")
  /\ \E got \in SUBSET skillCache.tree :
       /\ Cardinality(got) \in 0 .. MaxBundle
       /\ \/ (got = skillCache.tree \/ Cardinality(got) = MaxBundle) /\ NoFault
          \/ Fault
       /\ bundle' = Copied(got) /\ taken' = [taken EXCEPT ![t].copied = Cardinality(got)]
  /\ UNCHANGED <<skillLoad, upstream, skillCache, skillTold, skill, fetched, skillCrossed, torn>>

\* The skill is torn if its install was crossed, or its clone was damaged, HEAD not being the commit
\* of its files; or if it was torn and its remains were not cleared.
Installed(t) == [there |-> TRUE, text |-> taken[t].text, names |-> skillTold[t].commit, copied |-> taken[t].copied]
Damaged == \E e \in skillCache.tree : e.commit # skillCache.head
WriteSkill(t) ==
  /\ SkillAt(t) = "write" /\ OpEnds(t) /\ Crosses(t)
  /\ \/ /\ skill' = Installed(t) /\ NoFault
        /\ torn' = (t \in skillCrossed \/ Damaged \/ (torn /\ ~skillTold[t].overwrite))
     \/ skill' \in {skill, [Installed(t) EXCEPT !.text = 0]} /\ Fault /\ torn' = TRUE
  /\ UNCHANGED <<skillLoad, upstream, skillCache, skillTold, taken, bundle, fetched>>

\* The caller is cancelled: git is killed, and a thread that was begun ends its work; or an exception
\* that nobody expected ends the operation, such as a directory that cannot be made for the copies.
CancelSkillOp(t) ==
  /\ InProgress(t) /\ Fault /\ OpEnds(t) /\ Crosses(t)
  /\ skillCache' \in {skillCache} \cup
       (CASE SkillAt(t) = "refresh" /\ skillCache.git -> HalfReset
          [] SkillAt(t) = "checkout" /\ skillCache.git -> HalfCloned
          [] SkillAt(t) \in {"discard", "remove", "sweep"} -> {NoCache}
          [] OTHER -> {})
  /\ bundle' \in {bundle} \cup
       (CASE SkillAt(t) = "clear" /\ skillTold[t].overwrite -> {{}}
          [] SkillAt(t) = "copy" -> {Copied(got) : got \in SUBSET skillCache.tree}
          [] OTHER -> {})
  /\ skill' \in {skill} \cup (IF SkillAt(t) = "write" THEN {Installed(t)} ELSE {})
  /\ torn' = (torn \/ SkillAt(t) \in {"clear", "copy", "write"})
  /\ UNCHANGED <<skillLoad, upstream, skillTold, taken, fetched>>

SkillNext ==
  \/ Publish
  \/ \E t \in SkillTasks :
       \/ StartSkillOp(t) \/ RefreshCache(t) \/ Discard(t) \/ Clone(t) \/ FinishClone(t) \/ Revision(t)
       \/ RemoveCache(t) \/ ReadSkill(t) \/ Offer(t) \/ UserAnswers(t) \/ TakeText(t) \/ ClearBundle(t)
       \/ CopyBundle(t) \/ WriteSkill(t) \/ CancelSkillOp(t)

-----------------------------------------------------------------------------
(***************************************************************************)
(* Properties.                                                             *)
(***************************************************************************)
SkillTypeOK ==
  /\ skillCache.git \in BOOLEAN /\ skillCache.head \in SourceCommits \cup {0} /\ upstream \in SourceCommits
  /\ \A e \in skillCache.tree : e.commit \in SourceCommits /\ e.file \in FilesOf[e.commit]
  /\ skill.there \in BOOLEAN /\ skillCrossed \subseteq SkillTasks /\ skillFaults \in 0 .. MaxSkillFaults
  /\ \A t \in SkillTasks : fetched[t] \subseteq SourceCommits \cup {0}

\* A skill has the text of the commit it names and its user confirmed, if one could be named, and beside
\* it are files of that commit alone, as many as its installer was told: nothing of what it replaced, though files of the
\* source may be missing.  A confirmed install also mends what earlier ones left.
SkillIsAsConfirmed ==
  skill.there /\ ~torn =>
    /\ skill.names \in {0, skill.text}
    /\ \/ \E t \in SkillTasks : SkillAt(t) \in {"copy", "write"}
       \/ bundle \subseteq Checkout(skill.text) /\ skill.copied = Cardinality(bundle)

\* A fetch that nobody crosses repairs whatever a killed clone left, and reports what it got.
FetchHeals ==
  \A t \in SkillTasks :
    fetched[t] # {} /\ t \notin skillCrossed => Whole /\ fetched[t] \subseteq {0, skillCache.head}
=============================================================================
