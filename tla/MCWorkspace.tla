------------------------------ MODULE MCWorkspace ------------------------------
(***************************************************************************)
(* One run for the parts of the system that only keep books: the messages  *)
(* of a request and the reply to it, the skills, knowledge and clones of a *)
(* project, calls to other services, memories, and what scripts are given  *)
(* and leave.  They share no state: a behaviour is one of a single part,   *)
(* the others stay in an initial state.                                    *)
(***************************************************************************)
EXTENDS RequestMessages, ReplyStreams, SkillSources, KnowledgeBase, GitRepos, RemoteCalls, Memories,
        SpecRuns, ScriptTools

MCKnowledge == <<1, 2>>

SkillLoad(a, b) ==
  [ops |-> [t \in SkillTasks |-> IF t = "t1" THEN a ELSE b], interactive |-> TRUE]
MCSkillLoads ==
  {SkillLoad(<<"fetch", "install", "fetch", "install">>, <<"cleanup">>),
   SkillLoad(<<"fetch", "install">>, <<"fetch", "install">>),
   SkillLoad(<<"fetch", "fetch", "read">>, <<>>)}
\* The second commit of the skill has a file less.
MCFilesOf == <<{"SKILL.md", "f", "g"}, {"SKILL.md", "f"}>>

MCBodies ==
  {[items |-> <<Says("think"), Says("sign"), Says("text"), Item("begin", 1, "keys")>>, stop |-> "tool_use",
    usage |-> 1],
   [items |-> <<Says("think"), Says("text")>>, stop |-> "refusal", usage |-> 1]}

On(o, s) == [op |-> o, slug |-> s]
KnowledgeLoad(a, b, e) == [x \in Doers |-> IF x = "t1" THEN a ELSE IF x = "t2" THEN b ELSE e]
MCKnowledgeLoads == {
  KnowledgeLoad(<<On("write", "c")>>, <<On("write", "c")>>, <<>>),
  KnowledgeLoad(<<On("write", "c")>>, <<>>, <<On("put", "p")>>),
  KnowledgeLoad(<<On("delete", "d")>>, <<>>, <<On("put", "d")>>),
  KnowledgeLoad(<<On("write", "c"), On("delete", "c")>>, <<>>, <<On("reindex", "p")>>),
  KnowledgeLoad(<<On("write", "c"), On("load", "c"), On("unload", "c")>>,
                <<On("load", "d"), On("refresh", "d")>>, <<>>),
  KnowledgeLoad(<<On("remove", "d"), On("purge", "d")>>, <<On("load", "d")>>, <<On("copy", "d")>>)}

GitLoad(a, b, there, s, e, st) ==
  [ops |-> [t \in GitTasks |-> IF t = "t1" THEN a ELSE b], cloned |-> there, size |-> s,
   edits |-> [t \in GitTasks |-> IF t = "t1" THEN e ELSE {}], staged |-> st]
MCGitLoads ==
  {GitLoad(<<"clone", "commit">>, <<"clone">>, FALSE, "small", {"f"}, {}),
   GitLoad(<<"commit">>, <<"pull">>, TRUE, "huge", {"f"}, {"g"}),
   GitLoad(<<"pull", "checkoutFeature">>, <<"prepare">>, TRUE, "large", {}, {}),
   GitLoad(<<"prepare", "commit", "push">>, <<"pull">>, TRUE, "small", {"f"}, {}),
   GitLoad(<<"prepare", "commit", "sync">>, <<"build">>, TRUE, "small", {"f"}, {}),
   GitLoad(<<"prepare", "commit", "build">>, <<"prepare">>, TRUE, "small", {"f"}, {}),
   GitLoad(<<"commit">>, <<"remove", "clone">>, TRUE, "large", {"f"}, {})}

Plain == [tool |-> "request", endpoint |-> "none", first |-> "uat", method |-> "GET", env |-> "none", based |-> TRUE,
  safe |-> TRUE, body |-> "none", files |-> <<>>, auth |-> "bearer", keys |-> <<1>>, scope |-> "project",
  mode |-> "text", must |-> FALSE, quiet |-> FALSE, present |-> TRUE]
File(s, n, h) == [source |-> s, size |-> n, hidden |-> h, there |-> TRUE]
Row(k, e, v, a) == [key |-> k, env |-> e, value |-> v, active |-> a]
Gated ==
  {[Plain EXCEPT !.endpoint = n, !.first = f, !.method = m, !.env = e, !.must = u, !.quiet = q, !.present = p,
                 !.auth = "none", !.mode = "status"] :
     n \in {"none", "missing", "plain", "effect"}, f \in {"uat", "prd"}, m \in {"GET", "POST"},
     e \in {"none", "prd"}, u \in BOOLEAN, q \in BOOLEAN, p \in BOOLEAN}
WithBody ==
  {[Plain EXCEPT !.body = b, !.auth = a, !.keys = k, !.method = m, !.quiet = TRUE, !.files = f, !.mode = "json"] :
     b \in {"none", "json", "files", "both", "form"}, a \in {"bearer", "basic", "template", "body_field"},
     k \in {<<1>>, <<1, 2>>}, m \in {"GET", "POST"},
     f \in {<<File("path", 1, FALSE), File("inline", 1, FALSE)>>, <<File("path", 1, TRUE)>>,
            <<File("inline", 2, FALSE)>>}}
Stores == {{}, {Row(1, "null", "old", TRUE)}, {Row(1, "null", "corrupt", TRUE), Row(1, "", "old", FALSE)},
  {Row(1, "uat", "corrupt", TRUE), Row(1, "user", "old", TRUE)},
  {Row(1, "user", "corrupt", TRUE), Row(1, "null", "old", FALSE)}}
MCRemoteLoads ==
  {[call |-> c, rows |-> {}, page |-> "none"] : c \in Gated}
  \cup {[call |-> c, rows |-> {Row(1, "", "old", TRUE), Row(2, "", "old", TRUE)}, page |-> "none"] : c \in WithBody}
  \cup {[call |-> [Plain EXCEPT !.scope = s, !.env = e, !.keys = k], rows |-> r, page |-> p] :
          s \in {"project", "user"}, e \in {"none", "uat"}, k \in {<<1>>, <<1, 2>>}, r \in Stores,
          p \in {"create", "update", "delete"}}
  \cup {[call |-> [Plain EXCEPT !.tool = t], rows |-> r, page |-> "create"] : t \in {"save", "delete"}, r \in Stores}
MCReplies ==
  {[kind |-> k, text |-> t] : k \in {"answer", "broken", "tooLarge"},
                              t \in {<<"x", "s", "t">>, <<"s", "t", "x", "s", "t">>, <<"x", "x", "x">>}}

Do(o, r, p, s, t) == [op |-> o, row |-> r, place |-> p, secret |-> s, tagged |-> t]
Save(p, s, t) == Do("save", 0, p, s, t)
Recalls(t) == Do("recall", 0, "here", FALSE, t)
NoModels == [own |-> "none", system |-> "none", legacy |-> "none", tier |-> FALSE]
MemLoad(a, b) == [tool |-> a, page |-> b, models |-> NoModels, talks |-> 0]
MCMemoryLoads ==
  {MemLoad(<<Save("here", FALSE, TRUE), Save("global", FALSE, FALSE), Recalls(t),
             Do("update", 1, "here", s, FALSE), Recalls(FALSE)>>,
           <<Save("here", TRUE, TRUE), Do("archive", r, "here", FALSE, FALSE)>>) : t \in BOOLEAN, s \in BOOLEAN, r \in 1..2}
  \cup {MemLoad(<<Save("here", TRUE, FALSE), Save("all", FALSE, FALSE), Save("here", FALSE, FALSE),
                   Do("archive", 1, "here", FALSE, FALSE), Recalls(FALSE)>>,
           <<Do("update", 1, "here", FALSE, TRUE), Save("global", FALSE, FALSE)>>)}
  \cup {[tool |-> <<Save("here", FALSE, FALSE), Recalls(FALSE)>>, page |-> <<>>, models |-> NoModels, talks |-> 2]}
  \cup {[tool |-> <<>>, page |-> <<>>, models |-> m, talks |-> 1] : m \in
     {[own |-> "custom", system |-> "custom", legacy |-> "plain", tier |-> TRUE],
      [own |-> "public", system |-> "custom", legacy |-> "none", tier |-> TRUE],
      [own |-> "none", system |-> "public", legacy |-> "plain", tier |-> TRUE],
      [own |-> "none", system |-> "none", legacy |-> "plain", tier |-> FALSE],
      [own |-> "none", system |-> "none", legacy |-> "azure", tier |-> TRUE],
      [own |-> "illegal", system |-> "custom", legacy |-> "plain", tier |-> TRUE]}}

GreenRun == [meets |-> "ok", ends |-> "zero", report |-> "own", specs |-> <<<<"passed">>, <<"flaky">>>>,
  files |-> {"shot", "download", "dot", "html"}, attached |-> <<"shot", "outside", "shot">>, size |-> 1,
  cancelled |-> FALSE]
RedRun == [GreenRun EXCEPT !.ends = "one", !.specs = <<<<"failed">>, <<"passed">>, <<"failed">>>>, !.size = 3,
  !.files = @ \cup {"dotShot"}, !.attached = <<"dotShot">>]
Three(a, b, c) == [x \in SpecCalls |-> IF x = "s1" THEN a ELSE IF x = "s2" THEN b ELSE c]
Invalid == [GreenRun EXCEPT !.meets = "invalid"]
MCSpecLoads ==
  {Three(GreenRun, [RedRun EXCEPT !.size = 1], [GreenRun EXCEPT !.meets = "noTarget"])}
  \cup {Three([GreenRun EXCEPT !.meets = m], RedRun, Invalid) :
          m \in {"noSpec", "noPackage", "noDeps", "slowBrowser", "noTarget", "noRunner"}}
  \cup {Three([RedRun EXCEPT !.report = r, !.ends = e, !.cancelled = x], GreenRun, Invalid) :
          r \in {"own", "elsewhere"}, e \in {"one", "timeout"}, x \in BOOLEAN}
  \cup {Three([GreenRun EXCEPT !.specs = s], Invalid, Invalid) :
          s \in {<<>>, <<<<"failed", "passed">>>>, <<<<"failed">>>>, <<<<"failed">>, <<"flaky">>>>, <<<<"skipped">>>>}}

Edits(o, f) == [op |-> o, sets |-> f]
Runs == Edits("run", <<>>)
Needs(p, t, k) == [pin |-> p, tool |-> t, takes |-> k]
OneRun == [there |-> TRUE, tools |-> {"api", "mcp"}, page |-> <<Runs>>, agent |-> <<>>, kind |-> "python",
  clean |-> TRUE, vault |-> "full",
  calls |-> <<Needs(TRUE, "api", "quick"), Needs(TRUE, "mcp", "slow"), Needs(FALSE, "api", "quick")>>,
  lines |-> <<"pin", "plain", "piece">>, ends |-> "exit", mcp |-> "up", waits |-> TRUE, cancelled |-> FALSE]
MCToolLoads ==
  {[OneRun EXCEPT !.ends = e, !.mcp = m, !.waits = w, !.cancelled = c] :
     e \in {"exit", "fails", "timeout"}, m \in {"up", "broken"}, w \in BOOLEAN, c \in BOOLEAN}
  \cup {[OneRun EXCEPT !.vault = v, !.page = <<Edits("patch", [tools |-> u]), Runs>>,
           !.agent = <<Edits("update", [content |-> 2, tools |-> t]), Edits("update", [secrets |-> TRUE])>>,
           !.calls = <<Needs(TRUE, "api", "fails"), Needs(TRUE, "shell", "quick")>>,
           !.lines = <<"secret", "long", "plain">>] :
         t \in {{"api"}, {"shell"}}, u \in {{}, {"api", "mcp", "web"}, {"shell"}}, v \in {"full", "empty"}}
  \cup {[OneRun EXCEPT !.there = FALSE, !.kind = k, !.clean = c,
           !.agent = <<Edits("create", [content |-> 1, secrets |-> TRUE, tools |-> t]), Runs>>,
           !.page = <<Edits("patch", [secrets |-> FALSE, tools |-> {"api"}])>>,
           !.lines = <<"plain", "secret", "short">>, !.calls = <<Needs(TRUE, "api", "quick")>>] :
         t \in {{"api"}, {"shell"}, {}}, k \in {"python", "bash", "other"}, c \in BOOLEAN}
  \cup {[OneRun EXCEPT !.tools = {"api", "shell"}, !.page = <<Edits("patch", [secrets |-> TRUE]), Runs>>,
           !.calls = <<Needs(TRUE, "shell", "quick"), Needs(TRUE, "api", "quick")>>]}

-----------------------------------------------------------------------------
VARIABLE part

Parts == {"messages", "replies", "skills", "knowledge", "git", "calls", "memories", "specs", "scripts"}

\* A part that is not looked at begins in one state only.
WorkspaceInit ==
  /\ part \in Parts
  /\ IF part = "messages" THEN TRUE ELSE limit = CHOOSE n \in ByteLimits : \A l \in ByteLimits : n <= l
  /\ IF part = "replies" THEN TRUE ELSE family = "sdk" /\ mode = "stream"
  /\ IF part = "skills" THEN TRUE ELSE skillLoad = CHOOSE l \in SkillLoads : TRUE
  /\ IF part = "knowledge" THEN TRUE ELSE kload = CHOOSE l \in KnowledgeLoads : TRUE
  /\ IF part = "git" THEN TRUE ELSE load = CHOOSE l \in GitLoads : TRUE
  /\ IF part = "calls" THEN TRUE ELSE remoteLoad = CHOOSE l \in RemoteLoads : TRUE
  /\ IF part = "memories" THEN TRUE ELSE memoryLoad = CHOOSE l \in MemoryLoads : TRUE
  /\ IF part = "specs" THEN TRUE ELSE specLoad = CHOOSE l \in SpecLoads : TRUE
  /\ IF part = "scripts" THEN TRUE ELSE toolLoad = CHOOSE l \in ToolLoads : TRUE
  /\ RequestInit /\ ReplyInit /\ SkillInit /\ KnowledgeInit /\ GitInit /\ RemoteInit /\ MemoryInit
  /\ SpecInit /\ ToolInit

\* What the steps of part p leave alone.
Apart(p) ==
  /\ part = p /\ UNCHANGED part
  /\ IF p = "messages" THEN TRUE ELSE UNCHANGED requestMessageVars
  /\ IF p = "replies" THEN TRUE ELSE UNCHANGED replyVars
  /\ IF p = "skills" THEN TRUE ELSE UNCHANGED skillVars
  /\ IF p = "knowledge" THEN TRUE ELSE UNCHANGED knowledgeVars
  /\ IF p = "git" THEN TRUE ELSE UNCHANGED gitVars
  /\ IF p = "calls" THEN TRUE ELSE UNCHANGED remoteVars
  /\ IF p = "memories" THEN TRUE ELSE UNCHANGED memoryVars
  /\ IF p = "specs" THEN TRUE ELSE UNCHANGED specVars
  /\ IF p = "scripts" THEN TRUE ELSE UNCHANGED toolVars

WorkspaceNext ==
  \/ Apart("messages") /\ RequestNext
  \/ Apart("replies") /\ ReplyNext
  \/ Apart("skills") /\ SkillNext
  \/ Apart("knowledge") /\ KnowledgeNext
  \/ Apart("git") /\ GitNext
  \/ Apart("calls") /\ RemoteNext
  \/ Apart("memories") /\ MemoryNext
  \/ Apart("specs") /\ SpecNext
  \/ Apart("scripts") /\ ToolNext

workspaceVars == <<part, requestMessageVars, replyVars, skillVars, knowledgeVars, gitVars,
                   remoteVars, memoryVars, specVars, toolVars>>

WorkspaceSpec == WorkspaceInit /\ [][WorkspaceNext]_workspaceVars

-----------------------------------------------------------------------------
(***************************************************************************)
(* The properties of the parts, stated where they are defined.             *)
(***************************************************************************)
\* Every variable has its type.
WorkspaceTypeOK ==
  /\ part \in Parts
  /\ RequestTypeOK /\ ReplyTypeOK /\ SkillTypeOK /\ KnowledgeTypeOK
  /\ GitTypeOK /\ RemoteTypeOK /\ MemoryTypeOK /\ SpecTypeOK /\ ToolTypeOK

\* However history is read, compressed and cut, a request is one its provider accepts, and its
\* reply is told once, whole and counted, or the loss is told; what is listed, recalled and shown is
\* what there is to list: the knowledge files, the matching memories, the runs that are kept and
\* their pictures.
RequestsAreSound ==
  /\ part = "messages" => CallsAreAnswered /\ WireIsWellFormed /\ CutIsLeast
  /\ part = "replies" => NothingTwice /\ RequestsAreFew /\ CallsAreWhole /\ CutIsTold
                         /\ BlocksAreSigned /\ TokensCountedOnce
  /\ part = "knowledge" => IndexFollowsFiles /\ ListFollowsFiles
  /\ part = "memories" => RecallIsRight
  /\ part = "specs" => RetentionHolds /\ GalleryIsWhole

\* The skill that is installed is of the commit confirmed; the cache of knowledge files is current, and
\* none of them disappears from a context; work in clones is not lost, a commit holds what was
\* selected, and graphs follow their HEAD; a call to another service is sent as agreed, with the
\* credential that was typed for it, and its answer masked; memories, the results of spec runs and
\* the accepted edits of scripts are kept, and nothing else of them is; a script calls the tools it
\* declares, and its log is masked.
BooksAreKept ==
  /\ part = "skills" => SkillIsAsConfirmed /\ FetchHeals
  /\ part = "knowledge" => CacheIsCurrent /\ NothingVanishes /\ BudgetIsKept
  /\ part = "calls" => SentAsAgreed /\ TypedIsUsed /\ OneRowIsLeft /\ RequestIsWhole /\ RepliesAreMasked
  /\ part = "git" => WorkIsKept /\ CloneIsWhole /\ CommitHoldsSelection /\ OneBuild /\ GraphIsCurrent
  /\ part = "memories" => SecretsAreKeptOut /\ NotesAreShared /\ NotesEnd /\ EpisodeIsOne /\ KeysStayHome
  /\ part = "specs" => OneAnchor /\ ResultIsOwn /\ StoppedIsNotPassed /\ FailuresAreNamed
  /\ part = "scripts" => EditsAreKept /\ CallsAreDeclared /\ ContextIsShared /\ NothingOutlivesScript
                         /\ LogIsMasked
=============================================================================
