-------------------------- MODULE WorkspaceProofs ---------------------------
(***************************************************************************)
(* Proofs about calls to other services and about the run of all parts     *)
(* that keep books (MCWorkspace):                                          *)
(*                                                                         *)
(*   - RemoteInv (RemoteCalls): what was agreed and is in hand at each step*)
(*     of a call; a save has all rows of its tag or is alone with it; what *)
(*     was typed is found, and what the page changed is found again.       *)
(*   - KeptInv: a step of one part leaves the others alone, so that what   *)
(*     BookProofs proves of each holds of them side by side.               *)
(***************************************************************************)
EXTENDS MCWorkspace, BookProofs

-----------------------------------------------------------------------------
(***************************************************************************)
(* Calls to other services (RemoteCalls)                                   *)
(***************************************************************************)
VaultRows == [key : {1, 2}, env : RowKeys, value : {"old", "corrupt", "typed", "edited"}, active : BOOLEAN]
Tags == RowKeys \ {"null"}
WriterStates ==
  [at : {"idle", "found", "saved"}, key : {1, 2}, env : Tags, locked : SUBSET VaultRows, ok : BOOLEAN]

RemoteTypes ==
  /\ remoteLoad \in RemoteLoads /\ vault \subseteq VaultRows
  /\ callAt \in {"prepare", "confirm", "deleting", "lookup", "dialog", "send", "sent", "finished", "refused", "late"}
  /\ look \in [place : Nat, candidate : Nat, again : BOOLEAN] /\ found \in Seq({"old", "typed", "edited"})
  /\ writer \in [Writers -> WriterStates]

\* Which tool is at which step, and what was agreed and sent.
GateInv ==
  /\ agreed.yes => agreed.env = Env /\ agreed.method = call.method
  /\ callAt \in {"lookup", "send", "sent"} => call.tool = "request"
  /\ callAt = "dialog" => call.tool \in {"request", "save"}
  /\ callAt = "confirm" => call.tool \in {"request", "delete"}
  /\ callAt = "deleting" => call.tool = "delete"
  /\ call.tool = "request" /\ callAt \in {"lookup", "dialog", "send", "sent", "finished"} /\ NeedsConfirmation
       => agreed.yes
  /\ IsSent =>
       /\ call.tool = "request" /\ callAt \in {"sent", "finished"}
       /\ request = [form |-> BodyForm, files |-> IF BodyForm = "multipart" THEN call.files ELSE <<>>,
                     carries |-> Carries, using |-> found, env |-> Env, method |-> call.method]

RowsAreOne == \A r, s \in vault : r.key = s.key /\ r.env = s.env => r = s
\* A writer that found rows has all of them; one that found none is alone with rows of its very tag.
LocksHold ==
  \A w \in Writers :
    /\ \A r \in writer[w].locked :
         /\ r \in vault /\ r.key = writer[w].key /\ r.env \in Envs(writer[w].env)
         /\ writer[w].at = "found" /\ \A u \in Writers : u # w => r \notin writer[u].locked
    /\ writer[w].at = "found" =>
         \A r \in vault : r.key = writer[w].key /\ r.env \in Envs(writer[w].env) =>
           r \in writer[w].locked \/ (writer[w].locked = {} /\ r.env = writer[w].env)
StoredIsOne ==
  \A s \in stored :
    /\ s[1] \in {1, 2} /\ s[2] \in Tags
    /\ \A r \in vault : r.key = s[1] /\ r.env \in Envs(s[2]) =>
         r.active /\ \A q \in vault : q.key = s[1] /\ q.env \in Envs(s[2]) => q = r
VaultInv == RowsAreOne /\ LocksHold /\ StoredIsOne

\* A dialog belongs to the place that is looked at, and the tab to the dialog.
LookInv ==
  /\ callAt \in {"prepare", "confirm", "deleting"} =>
       look = [place |-> 1, candidate |-> 1, again |-> FALSE] /\ found = <<>> /\ typed = {}
  /\ callAt \in {"lookup", "dialog", "late"} => look.place \in 1 .. Len(call.keys)
  /\ callAt \in {"lookup", "dialog"} /\ call.tool = "request" =>
       /\ Len(found) = look.place - 1 /\ look.candidate \in 1 .. Len(Candidates)
       /\ (\A i \in typed : i \in 1 .. look.place) /\ (look.place \in typed => look.again)
  /\ callAt = "dialog" => ~look.again
  /\ call.tool # "request" => found = <<>>
  /\ writer["tab"].at # "idle" => callAt \in {"dialog", "late"}
  /\ writer["tab"].at # "idle" /\ callAt = "dialog" => writer["tab"].key = Key /\ writer["tab"].env = DialogEnv

\* The one row of k under the tag e is what the user typed.
IsTyped(k, e) ==
  \E r \in vault : r.key = k /\ r.env \in Envs(e) /\ r.value = "typed" /\ r.active
                   /\ \A q \in vault : q.key = k /\ q.env \in Envs(e) => q = r
Nothing(k, c) == \A r \in vault : r.key = k /\ r.env \in Candidates[c] => ~r.active
\* The first candidate with a row of k, and that row can be read.
KnownAt(k, c) ==
  /\ ~Nothing(k, c) /\ Preferred(Stored(k, Candidates[c])).value # "corrupt"
  /\ \A d \in 1 .. c - 1 : Nothing(k, d)

\* The page acts once, and the tab is not yet told while it writes.
PageActsOnce ==
  /\ rewritten # {} => writer["page"].at = "saved"
  /\ writer["tab"].at = "found" => ~writer["tab"].ok
DialogStores ==
  callAt = "dialog" /\ writer["tab"].at = "saved" /\ writer["tab"].ok /\ Key \notin rewritten => IsTyped(Key, DialogEnv)
LookupFinds ==
  callAt = "lookup" /\ look.place \in typed =>
    /\ Key \notin rewritten => look.candidate = 1 /\ IsTyped(Key, DialogEnv)
    /\ \A c \in 1 .. look.candidate - 1 : Nothing(Key, c)
TypedFound ==
  callAt \in {"lookup", "dialog", "send", "sent", "finished"} =>
    \A i \in typed : i \in DOMAIN found => found[i] = "typed" \/ call.keys[i] \in rewritten
\* What the page changed before it was found is found again, so that nobody asks for it again.
FoundAgain ==
  callAt \in {"lookup", "dialog"} => \A i \in typed : i \in DOMAIN found /\ found[i] # "typed" =>
    /\ callAt = "dialog" => Key # call.keys[i]
    /\ \E c \in 1 .. Len(Candidates) :
         KnownAt(call.keys[i], c) /\ (callAt = "lookup" /\ Key = call.keys[i] => look.candidate <= c)
TypedInv == PageActsOnce /\ DialogStores /\ LookupFinds /\ TypedFound /\ FoundAgain

RemoteInv == RemoteTypes /\ GateInv /\ VaultInv /\ LookInv /\ TypedInv /\ RepliesAreMasked

-----------------------------------------------------------------------------
\* What the checks leave of a call.
LEMMA CallsAreTyped ==
  ASSUME remoteLoad \in RemoteLoads
  PROVE  /\ call.keys \in Seq({1, 2}) /\ call.tool \in {"request", "save", "delete"} /\ Env \in Environments
         /\ call.files \in Seq(Uploads) /\ call.scope \in {"project", "user"} /\ call.method \in {"GET", "POST"}
         /\ DialogEnv \in Tags
         /\ call.tool = "save" => call.keys # <<>>
<1>1. remoteLoad.call \in CallForms /\ (remoteLoad.call.tool = "save" => remoteLoad.call.keys # <<>>)
  BY RemoteAssumption
<1>2. call.env \in Environments /\ call.first \in Environments
  BY <1>1 DEF CallForms, call
<1>3. Env \in Environments
  BY <1>2 DEF Env
<1>4. DialogEnv \in Tags
  BY <1>3 DEF DialogEnv, Tags, RowKeys, Environments
<1>5. call.keys \in Seq({1, 2}) /\ call.tool \in {"request", "save", "delete"}
  BY <1>1 DEF CallForms, call
<1>6. call.files \in Seq(Uploads) /\ call.scope \in {"project", "user"} /\ call.method \in {"GET", "POST"}
  BY <1>1 DEF CallForms, call
<1> QED
  BY <1>1, <1>3, <1>4, <1>5, <1>6 DEF call

\* The rows of two tags have none in common.
LEMMA TagsApart ==
  ASSUME NEW e \in Tags
  PROVE  /\ e \in Envs(e) /\ Envs(e) \subseteq RowKeys
         /\ \A f \in Tags : \A x : x \in Envs(e) /\ x \in Envs(f) => e = f
BY DEF Tags, RowKeys, Envs

\* A short list before another.
LEMMA ListsJoin ==
  ASSUME NEW a, NEW b, NEW c
  PROVE  /\ <<>> \o <<b, c>> = <<b, c>>
         /\ Len(<<a>> \o <<b, c>>) = 3 /\ (<<a>> \o <<b, c>>)[1] = a
         /\ (<<a>> \o <<b, c>>)[2] = b /\ (<<a>> \o <<b, c>>)[3] = c
<1> DEFINE S == {a, b, c}
<1>1. <<>> \in Seq(S) /\ <<a>> \in Seq(S) /\ <<b, c>> \in Seq(S)
  OBVIOUS
<1>2. Len(<<a>>) = 1 /\ Len(<<b, c>>) = 2 /\ <<a>>[1] = a /\ <<b, c>>[1] = b /\ <<b, c>>[2] = c
  OBVIOUS
<1> HIDE DEF S
<1>3. <<>> \o <<b, c>> = <<b, c>>
  BY <1>1, ConcatEmptySeq
<1>4. /\ Len(<<a>> \o <<b, c>>) = Len(<<a>>) + Len(<<b, c>>)
      /\ \A i \in 1 .. Len(<<a>>) + Len(<<b, c>>) :
           (<<a>> \o <<b, c>>)[i] = IF i <= Len(<<a>>) THEN <<a>>[i] ELSE <<b, c>>[i - Len(<<a>>)]
  BY <1>1, ConcatProperties
<1>5. Len(<<a>> \o <<b, c>>) = 3
  BY <1>2, <1>4
<1>6. \A i \in {1, 2, 3} : (<<a>> \o <<b, c>>)[i] = IF i <= 1 THEN <<a>>[i] ELSE <<b, c>>[i - 1]
  BY <1>2, <1>4
<1>7. (<<a>> \o <<b, c>>)[1] = <<a>>[1] /\ (<<a>> \o <<b, c>>)[2] = <<b, c>>[1] /\ (<<a>> \o <<b, c>>)[3] = <<b, c>>[2]
  BY <1>6
<1> QED
  BY <1>2, <1>3, <1>5, <1>7

\* A candidate list is not empty and starts with what a dialog stores.
LEMMA CandidatesStart ==
  ASSUME remoteLoad \in RemoteLoads, call.tool = "request"
  PROVE  /\ Len(Candidates) \in 1 .. 3 /\ Candidates[1] = Envs(DialogEnv)
         /\ \A c \in 1 .. Len(Candidates) : Candidates[c] \subseteq RowKeys
<1>1. Env \in Environments /\ call.scope \in {"project", "user"}
  BY CallsAreTyped
<1>2. CASE call.scope = "user"
  <2>1. Candidates = <<{"user"}>> /\ DialogEnv = "user"
    BY <1>2 DEF Candidates, DialogEnv
  <2>2. Len(Candidates) = 1 /\ Candidates[1] = {"user"}
    BY <2>1
  <2>3. Len(Candidates) \in 1 .. 3 /\ 1 .. Len(Candidates) = 1 .. 1
    BY ONLY <2>2
  <2>4. Envs(DialogEnv) = {"user"}
    BY <2>1 DEF Envs
  <2>6. {"user"} \subseteq RowKeys
    BY DEF RowKeys
  <2>7. \A c \in 1 .. 1 : c = 1
    OBVIOUS
  <2>8. \A c \in 1 .. Len(Candidates) : Candidates[c] \subseteq RowKeys
    BY ONLY <2>2, <2>3, <2>4, <2>6, <2>7
  <2> QED
    BY ONLY <2>2, <2>3, <2>4, <2>8
<1>3. CASE call.scope # "user" /\ Env = "none"
  <2>1. Candidates = <<>> \o <<{"", "null"}, {"user"}>> /\ DialogEnv = ""
    BY <1>3 DEF Candidates, DialogEnv
  <2>2. Candidates = <<{"", "null"}, {"user"}>>
    BY <2>1, ListsJoin
  <2>3. Len(Candidates) = 2 /\ Candidates[1] = {"", "null"} /\ Candidates[2] = {"user"}
    BY <2>2
  <2>4. Len(Candidates) \in 1 .. 3 /\ 1 .. Len(Candidates) = 1 .. 2
    <3>1. Len(Candidates) = 2
      BY ONLY <2>3, Zenon
    <3> QED
      BY ONLY <3>1
  <2>5. Envs(DialogEnv) = {"", "null"}
    BY <2>1 DEF Envs
  <2>6. {"", "null"} \subseteq RowKeys /\ {"user"} \subseteq RowKeys
    BY DEF RowKeys
  <2>7. \A c \in 1 .. 2 : c = 1 \/ c = 2
    OBVIOUS
  <2>8. \A c \in 1 .. Len(Candidates) : Candidates[c] \subseteq RowKeys
    BY ONLY <2>3, <2>4, <2>5, <2>6, <2>7
  <2> QED
    BY ONLY <2>3, <2>4, <2>5, <2>8
<1>4. CASE call.scope # "user" /\ Env # "none"
  <2>1. Candidates = <<{Env}>> \o <<{"", "null"}, {"user"}>> /\ DialogEnv = Env
    BY <1>4 DEF Candidates, DialogEnv
  <2>2. Len(Candidates) = 3 /\ Candidates[1] = {Env} /\ Candidates[2] = {"", "null"} /\ Candidates[3] = {"user"}
    <3> DEFINE a == {Env}
               b == {"", "null"}
               d == {"user"}
    <3> HIDE DEF a, b, d
    <3>1. Len(<<a>> \o <<b, d>>) = 3 /\ (<<a>> \o <<b, d>>)[1] = a
          /\ (<<a>> \o <<b, d>>)[2] = b /\ (<<a>> \o <<b, d>>)[3] = d
      BY ListsJoin
    <3>2. Candidates = <<a>> \o <<b, d>>
      BY <2>1 DEF a, b, d
    <3>3. Len(Candidates) = 3 /\ Candidates[1] = a /\ Candidates[2] = b /\ Candidates[3] = d
      BY <3>1, <3>2
    <3> QED
      BY <3>3 DEF a, b, d
  <2>3. Len(Candidates) \in 1 .. 3 /\ 1 .. Len(Candidates) = 1 .. 3
    <3>1. Len(Candidates) = 3
      BY ONLY <2>2, Zenon
    <3> QED
      BY ONLY <3>1
  <2>4. Envs(DialogEnv) = {Env} /\ {Env} \subseteq RowKeys
    BY <1>1, <1>4, <2>1 DEF Envs, RowKeys, Environments
  <2>6. {"", "null"} \subseteq RowKeys /\ {"user"} \subseteq RowKeys
    BY DEF RowKeys
  <2>7. \A c \in 1 .. 3 : c = 1 \/ c = 2 \/ c = 3
    OBVIOUS
  <2>8. \A c \in 1 .. Len(Candidates) : Candidates[c] \subseteq RowKeys
    BY ONLY <2>2, <2>3, <2>4, <2>6, <2>7
  <2> QED
    BY ONLY <2>2, <2>3, <2>4, <2>8
<1> QED
  BY <1>2, <1>3, <1>4

\* The preferred row is one of the rows.
LEMMA PreferredIsOne ==
  ASSUME NEW those, those # {}, \A r, s \in those : r.env = s.env => r = s
  PROVE  Preferred(those) \in those
<1>1. CASE \E r \in those : r.env # "null"
  BY <1>1 DEF Preferred
<1>2. CASE \A r \in those : r.env = "null"
  <2>1. PICK r \in those : TRUE
    OBVIOUS
  <2>2. those = {r}
    BY <1>2, <2>1
  <2>3. Cardinality(those) = 1
    BY <2>2, FS_Singleton
  <2> QED
    BY <2>1, <2>3 DEF Preferred
<1> QED
  BY <1>1, <1>2

-----------------------------------------------------------------------------
\* What a writer that looks for the rows of its key has then.
LEMMA FindEffect ==
  ASSUME RemoteTypes, NEW w \in Writers, NEW k \in {1, 2}, NEW e \in Tags, FindRows(w, k, e)
  PROVE  /\ writer' \in [Writers -> WriterStates]
         /\ writer'[w].at = "found" /\ writer'[w].key = k /\ writer'[w].env = e /\ ~writer'[w].ok
         /\ \A r : r \in writer'[w].locked <=> r \in vault /\ r.key = k /\ r.env \in Envs(e)
         /\ \A u \in Writers : u # w => writer'[u] = writer[u]
         /\ \A r \in vault : r.key = k /\ r.env \in Envs(e) => \A u \in Writers : r \notin writer[u].locked
<1> DEFINE new == [at |-> "found", key |-> k, env |-> e, locked |-> Rows(k, e), ok |-> FALSE]
<1>1. writer' = [writer EXCEPT ![w] = new]
  BY DEF FindRows
<1>2. Rows(k, e) \in SUBSET VaultRows
  BY DEF Rows, RemoteTypes
<1>3. new \in WriterStates
  BY <1>2 DEF WriterStates
<1>4. new.at = "found" /\ new.key = k /\ new.env = e /\ new.ok = FALSE /\ new.locked = Rows(k, e)
  OBVIOUS
<1>5. \A u \in Writers : \A r : r \in Rows(k, e) => r \notin writer[u].locked
  BY DEF FindRows, Locked
<1>6. \A r : r \in Rows(k, e) <=> r \in vault /\ r.key = k /\ r.env \in Envs(e)
  BY DEF Rows
<1> HIDE DEF new
<1>7. writer \in [Writers -> WriterStates]
  BY DEF RemoteTypes
<1>8. writer'[w] = new /\ \A u \in Writers : u # w => writer'[u] = writer[u]
  BY <1>1, <1>7
<1>9. writer' \in [Writers -> WriterStates]
  BY <1>1, <1>3, <1>7
<1> QED
  BY <1>4, <1>5, <1>6, <1>8, <1>9

\* The end of a save, whether it commits or fails.
LEMMA SaveEffect ==
  ASSUME RemoteTypes, NEW w \in Writers, SaveFails(w) \/ SaveCommits(w)
  PROVE  /\ writer' \in [Writers -> WriterStates]
         /\ writer[w].at = "found" /\ writer'[w].at = "saved" /\ writer'[w].locked = {}
         /\ writer'[w].key = writer[w].key /\ writer'[w].env = writer[w].env
         /\ writer'[w].ok => SaveCommits(w) \/ writer[w].ok
         /\ \A u \in Writers : u # w => writer'[u] = writer[u]
<1>1. writer \in [Writers -> WriterStates]
  BY DEF RemoteTypes
<1>2. writer[w] \in WriterStates
  BY <1>1
<1>3. CASE SaveFails(w)
  <2> DEFINE new == [writer[w] EXCEPT !.at = "saved", !.locked = {}]
  <2>1. writer' = [writer EXCEPT ![w] = new]
    BY <1>3 DEF SaveFails
  <2>2. new \in WriterStates /\ new.at = "saved" /\ new.locked = {} /\ new.key = writer[w].key
        /\ new.env = writer[w].env /\ new.ok = writer[w].ok
    BY <1>2 DEF WriterStates
  <2> HIDE DEF new
  <2>3. writer' \in [Writers -> WriterStates] /\ writer'[w] = new
        /\ \A u \in Writers : u # w => writer'[u] = writer[u]
    BY <1>1, <2>1, <2>2
  <2> QED
    BY <1>3, <2>2, <2>3 DEF SaveFails
<1>4. CASE SaveCommits(w)
  <2> DEFINE new == [writer[w] EXCEPT !.at = "saved", !.locked = {}, !.ok = TRUE]
  <2>1. writer' = [writer EXCEPT ![w] = new]
    BY <1>4 DEF SaveCommits
  <2>2. new \in WriterStates /\ new.at = "saved" /\ new.locked = {} /\ new.key = writer[w].key
        /\ new.env = writer[w].env
    BY <1>2 DEF WriterStates
  <2> HIDE DEF new
  <2>3. writer' \in [Writers -> WriterStates] /\ writer'[w] = new
        /\ \A u \in Writers : u # w => writer'[u] = writer[u]
    BY <1>1, <2>1, <2>2
  <2>4. writer[w].at = "found"
    BY <1>4 DEF SaveCommits
  <2> QED
    BY <1>4, <2>2, <2>3, <2>4
<1> QED
  BY <1>3, <1>4

\* The row that a save writes, and what is stored after it.
LEMMA CommitEffect ==
  ASSUME RemoteTypes, NEW w \in Writers, SaveCommits(w)
  PROVE  /\ NewRow(w) \in VaultRows /\ NewRow(w).key = writer[w].key /\ NewRow(w).env = writer[w].env
         /\ NewRow(w).active /\ (w = "tab" => NewRow(w).value = "typed")
         /\ \A r : r \in vault' <=> (r \in vault /\ r \notin writer[w].locked) \/ r = NewRow(w)
         /\ writer[w].locked = {} => \A r \in vault : ~(r.key = writer[w].key /\ r.env = writer[w].env)
<1>1. writer[w] \in WriterStates
  BY DEF RemoteTypes
<1>2. writer[w].key \in {1, 2} /\ writer[w].env \in RowKeys
  BY <1>1 DEF WriterStates, Tags
<1>3. NewRow(w) \in VaultRows
  BY <1>2 DEF NewRow, VaultRows
<1>4. NewRow(w).key = writer[w].key /\ NewRow(w).env = writer[w].env /\ NewRow(w).active
      /\ (w = "tab" => NewRow(w).value = "typed")
  BY DEF NewRow
<1>5. vault' = (vault \ writer[w].locked) \cup {NewRow(w)}
  BY DEF SaveCommits, Written
<1>6. ~Taken(w)
  BY DEF SaveCommits
<1> QED
  BY <1>3, <1>4, <1>5, <1>6 DEF Taken

\* The tab has answered.
LEMMA ResolveEffect ==
  ASSUME RemoteTypes, TabResolves
  PROVE  /\ writer' \in [Writers -> WriterStates] /\ writer["tab"].at = "saved"
         /\ writer'["tab"].at = "idle" /\ writer'["tab"].locked = {} /\ writer'["page"] = writer["page"]
<1>1. IdleWriter \in WriterStates /\ IdleWriter.at = "idle" /\ IdleWriter.locked = {}
  BY DEF IdleWriter, WriterStates, Tags, RowKeys
<1>2. writer \in [Writers -> WriterStates] /\ "tab" \in Writers /\ "page" \in Writers
  BY DEF RemoteTypes, Writers
<1>3. writer' = [writer EXCEPT !["tab"] = IdleWriter] /\ writer["tab"].at = "saved"
  BY DEF TabResolves
<1> HIDE DEF IdleWriter
<1>4. writer' \in [Writers -> WriterStates] /\ writer'["tab"] = IdleWriter /\ writer'["page"] = writer["page"]
  BY <1>1, <1>2, <1>3
<1> QED
  BY <1>1, <1>3, <1>4

\* The page changed or deleted the row r.
ChangedRow(r) ==
  /\ r \in vault /\ r.active /\ rewritten' = rewritten \cup {r.key}
  /\ \A w \in Writers : r \notin writer[w].locked
  /\ \A q \in vault' : (q \in vault /\ q # r) \/ (q \in VaultRows /\ q.key = r.key /\ q.env = r.env /\ q.active)
  /\ \A q \in vault : q # r => q \in vault'
  /\ \A p, q \in vault' : p.key = r.key /\ p.env = r.env /\ p \notin vault \ {r} /\ q \notin vault \ {r} => p = q

LEMMA ChangeEffect ==
  ASSUME RemoteTypes, PageChanges
  PROVE  /\ writer' \in [Writers -> WriterStates] /\ writer["page"].at = "idle"
         /\ writer'["page"].at = "saved" /\ writer'["page"].locked = writer["page"].locked
         /\ writer'["page"].key = writer["page"].key /\ writer'["page"].env = writer["page"].env
         /\ writer'["tab"] = writer["tab"] /\ \E r : ChangedRow(r)
<1>1. writer \in [Writers -> WriterStates] /\ "tab" \in Writers /\ "page" \in Writers
  BY DEF RemoteTypes, Writers
<1>2. writer["page"] \in WriterStates
  BY <1>1
<1> DEFINE new == [writer["page"] EXCEPT !.at = "saved"]
<1>3. writer' = [writer EXCEPT !["page"] = new]
  BY DEF PageChanges, PageDone
<1>4. new \in WriterStates /\ new.at = "saved" /\ new.locked = writer["page"].locked
      /\ new.key = writer["page"].key /\ new.env = writer["page"].env
  BY <1>2 DEF WriterStates
<1> HIDE DEF new
<1>5. writer' \in [Writers -> WriterStates] /\ writer'["page"] = new /\ writer'["tab"] = writer["tab"]
  BY <1>1, <1>3, <1>4
<1>6. \E r : ChangedRow(r)
  <2>1. PICK r \in vault :
          /\ r.active /\ ~Locked(r) /\ rewritten' = rewritten \cup {r.key}
          /\ vault' = (vault \ {r}) \cup (IF remoteLoad.page = "update" THEN {[r EXCEPT !.value = "edited"]} ELSE {})
    BY DEF PageChanges
  <2>2. r \in VaultRows
    BY <2>1 DEF RemoteTypes
  <2> DEFINE q == [r EXCEPT !.value = "edited"]
  <2>3. q \in VaultRows /\ q.key = r.key /\ q.env = r.env /\ q.active = r.active
    BY <2>2 DEF VaultRows
  <2>4. vault' = (vault \ {r}) \cup (IF remoteLoad.page = "update" THEN {q} ELSE {})
    BY <2>1
  <2>5. \A w \in Writers : r \notin writer[w].locked
    BY <2>1 DEF Locked
  <2> HIDE DEF q
  <2>6. ChangedRow(r)
    BY <2>1, <2>3, <2>4, <2>5 DEF ChangedRow
  <2> QED
    BY <2>6
<1> QED
  BY <1>4, <1>5, <1>6 DEF PageChanges

-----------------------------------------------------------------------------
\* Where the checks and the confirmation lead.
GateVars == <<remoteLoad, vault, writer, rewritten, stored, look, found, typed, request, shown>>
AfterGatesIs ==
  \/ CallKeys = <<>> /\ callAt' = "send"
  \/ CallKeys # <<>> /\ callAt' = "lookup"

LEMMA PrepareEffect ==
  ASSUME remoteLoad \in RemoteLoads, Prepare
  PROVE  /\ UNCHANGED GateVars /\ agreed' = agreed /\ callAt = "prepare"
         /\ \/ callAt' = "refused"
            \/ call.tool = "save" /\ callAt' = "dialog"
            \/ call.tool = "delete" /\ callAt' = "confirm"
            \/ call.tool = "request" /\ NeedsConfirmation /\ callAt' = "confirm"
            \/ call.tool = "request" /\ ~NeedsConfirmation /\ AfterGatesIs
<1>1. UNCHANGED GateVars /\ agreed' = agreed /\ callAt = "prepare"
  BY DEF Prepare, Keeping, GateVars
<1>2. CASE ~CallIsSound
  BY <1>1, <1>2 DEF Prepare, CallGoesTo
<1>3. CASE CallIsSound
  <2>1. call.tool \in {"request", "save", "delete"}
    BY CallsAreTyped
  <2>2. CASE call.tool = "save"
    BY <1>1, <1>3, <2>2 DEF Prepare, CallGoesTo
  <2>3. CASE call.tool = "delete"
    BY <1>1, <1>3, <2>3 DEF Prepare, CallGoesTo
  <2>4. CASE call.tool = "request"
    <3>1. IF NeedsConfirmation THEN callAt' = "confirm" ELSE AfterGates
      BY <1>3, <2>4 DEF Prepare, CallGoesTo
    <3>2. AfterGates => AfterGatesIs
      BY DEF AfterGates, AfterGatesIs, CallGoesTo
    <3> QED
      BY <1>1, <2>4, <3>1, <3>2
  <2> QED
    BY <2>1, <2>2, <2>3, <2>4
<1> QED
  BY <1>2, <1>3

LEMMA AllowEffect ==
  ASSUME Allow
  PROVE  /\ UNCHANGED GateVars /\ callAt = "confirm"
         /\ agreed'.yes /\ agreed'.env = Env /\ agreed'.method = call.method
         /\ \/ call.tool = "delete" /\ callAt' = "deleting"
            \/ call.tool # "delete" /\ AfterGatesIs
<1>1. UNCHANGED GateVars /\ callAt = "confirm"
  BY DEF Allow, Keeping, GateVars
<1>2. agreed' = [yes |-> TRUE, env |-> Env, method |-> call.method]
  BY DEF Allow
<1>3. agreed'.yes /\ agreed'.env = Env /\ agreed'.method = call.method
  BY <1>2
<1>4. AfterGates => AfterGatesIs
  BY DEF AfterGates, AfterGatesIs, CallGoesTo
<1> QED
  BY <1>1, <1>3, <1>4 DEF Allow, CallGoesTo

\* What a look at one candidate finds.
LEMMA LookUpEffect ==
  ASSUME RemoteInv, LookUp
  PROVE  /\ callAt = "lookup" /\ UNCHANGED <<remoteLoad, vault, writer, rewritten, stored, agreed, typed, request, shown>>
         /\ \/ /\ Nothing(Key, look.candidate) /\ look.candidate < Len(Candidates) /\ callAt' = callAt /\ found' = found
               /\ look' = [place |-> look.place, candidate |-> look.candidate + 1, again |-> look.again]
            \/ /\ look' = look /\ found' = found
               /\ \/ Nothing(Key, look.candidate) /\ look.candidate = Len(Candidates)
                  \/ ~Nothing(Key, look.candidate)
                     /\ Preferred(Stored(Key, Candidates[look.candidate])).value = "corrupt"
               /\ callAt' = "refused" \/ (callAt' = "dialog" /\ ~look.again)
            \/ /\ ~Nothing(Key, look.candidate) /\ \E r \in vault :
                    /\ r = Preferred(Stored(Key, Candidates[look.candidate])) /\ r.value # "corrupt"
                    /\ r.key = Key /\ r.env \in Candidates[look.candidate] /\ r.active
                    /\ found' = Append(found, r.value)
               /\ \/ look.place = Len(call.keys) /\ callAt' = "send" /\ look' = look
                  \/ /\ look.place # Len(call.keys) /\ callAt' = callAt
                     /\ look' = [place |-> look.place + 1, candidate |-> 1, again |-> FALSE]
<1> DEFINE those == Stored(Key, Candidates[look.candidate])
<1>1. callAt = "lookup" /\ UNCHANGED <<remoteLoad, vault, writer, rewritten, stored, agreed, typed, request, shown>>
  BY DEF LookUp, Keeping
<1>2. /\ look \in [place : Nat, candidate : Nat, again : BOOLEAN]
      /\ look.candidate \in 1 .. Len(Candidates) /\ remoteLoad \in RemoteLoads /\ call.tool = "request"
  BY <1>1 DEF RemoteInv, RemoteTypes, GateInv, LookInv
<1>3. \A r : r \in those <=> r \in vault /\ r.key = Key /\ r.env \in Candidates[look.candidate] /\ r.active
  BY DEF Stored
<1>4. those = {} <=> Nothing(Key, look.candidate)
  BY <1>3 DEF Nothing
<1>5. those # {} => Preferred(those) \in those
  <2>1. \A r, s \in those : r.env = s.env => r = s
    BY <1>3 DEF RemoteInv, VaultInv, RowsAreOne
  <2> HIDE DEF those
  <2> QED
    BY <2>1, PreferredIsOne
<1>6. IF those = {} /\ look.candidate < Len(Candidates)
      THEN look' = [look EXCEPT !.candidate = @ + 1] /\ UNCHANGED <<callAt, found>>
      ELSE IF those = {} \/ (those # {} /\ Preferred(those).value = "corrupt") THEN Unknown
      ELSE found' = Append(found, Preferred(those).value) /\ NextCredential
  BY DEF LookUp
<1> HIDE DEF those
<1>7. CASE those = {} /\ look.candidate < Len(Candidates)
  <2>1. look' = [look EXCEPT !.candidate = @ + 1] /\ UNCHANGED <<callAt, found>>
    BY <1>6, <1>7
  <2>2. look' = [place |-> look.place, candidate |-> look.candidate + 1, again |-> look.again]
    BY <1>2, <2>1
  <2> QED
    BY <1>1, <1>4, <1>7, <2>1, <2>2
<1>8. CASE those = {} /\ ~(look.candidate < Len(Candidates))
  <2>1. Unknown
    BY <1>6, <1>8
  <2>2. look.candidate = Len(Candidates)
    BY <1>2, <1>8
  <2>3. look' = look /\ found' = found /\ (callAt' = "refused" \/ (callAt' = "dialog" /\ ~look.again))
    BY <2>1 DEF Unknown, CallGoesTo
  <2> QED
    BY <1>1, <1>4, <1>8, <2>2, <2>3
<1>9. CASE those # {} /\ Preferred(those).value = "corrupt"
  <2>1. Unknown
    BY <1>6, <1>9
  <2>2. look' = look /\ found' = found /\ (callAt' = "refused" \/ (callAt' = "dialog" /\ ~look.again))
    BY <2>1 DEF Unknown, CallGoesTo
  <2>3. Preferred(Stored(Key, Candidates[look.candidate])).value = "corrupt"
    BY <1>9 DEF those
  <2> QED
    BY <1>1, <1>4, <1>9, <2>2, <2>3
<1>10. CASE those # {} /\ Preferred(those).value # "corrupt"
  <2>1. found' = Append(found, Preferred(those).value) /\ NextCredential
    BY <1>6, <1>10
  <2>2. \/ look.place = Len(call.keys) /\ callAt' = "send" /\ look' = look
        \/ /\ look.place # Len(call.keys) /\ callAt' = callAt
           /\ look' = [place |-> look.place + 1, candidate |-> 1, again |-> FALSE]
    BY <2>1 DEF NextCredential, CallGoesTo
  <2>3. PICK r : r = Preferred(those)
    OBVIOUS
  <2>4. r \in vault /\ r.value # "corrupt" /\ r.key = Key /\ r.env \in Candidates[look.candidate] /\ r.active
        /\ found' = Append(found, r.value)
    BY <1>3, <1>5, <1>10, <2>1, <2>3
  <2>5. r = Preferred(Stored(Key, Candidates[look.candidate]))
    BY <2>3 DEF those
  <2>6. ~Nothing(Key, look.candidate)
    BY <1>4, <1>10
  <2> QED
    BY <1>1, <2>2, <2>4, <2>5, <2>6
<1> QED
  BY <1>7, <1>8, <1>9, <1>10

\* What the tab's answer does to the call.
LEMMA AnswerEffect ==
  ASSUME RemoteTypes, TabResolves
  PROVE  /\ UNCHANGED <<remoteLoad, agreed, found, request, shown, vault, rewritten, stored>>
         /\ \/ callAt # "dialog" /\ callAt' = callAt /\ look' = look /\ typed' = typed
            \/ callAt = "dialog" /\ callAt' = "refused" /\ look' = look /\ typed' = typed
            \/ callAt = "dialog" /\ call.tool = "save" /\ callAt' = "finished" /\ look' = look
            \/ /\ callAt = "dialog" /\ call.tool # "save" /\ writer["tab"].ok /\ callAt' = "lookup"
               /\ typed' = typed \cup {look.place}
               /\ look' = [place |-> look.place, candidate |-> 1, again |-> TRUE]
<1>1. UNCHANGED <<remoteLoad, agreed, found, request, shown, vault, rewritten, stored>>
  BY DEF TabResolves, NotCalling
<1>2. look \in [place : Nat, candidate : Nat, again : BOOLEAN]
  BY DEF RemoteTypes
<1>3. CASE callAt # "dialog"
  BY <1>1, <1>3 DEF TabResolves
<1>4. CASE callAt = "dialog" /\ ~writer["tab"].ok
  BY <1>1, <1>4 DEF TabResolves, CallGoesTo
<1>5. CASE callAt = "dialog" /\ writer["tab"].ok /\ call.tool = "save"
  BY <1>1, <1>5 DEF TabResolves, CallGoesTo
<1>6. CASE callAt = "dialog" /\ writer["tab"].ok /\ call.tool # "save"
  <2>1. callAt' = "lookup" /\ typed' = typed \cup {look.place}
        /\ look' = [look EXCEPT !.candidate = 1, !.again = TRUE]
    BY <1>6 DEF TabResolves, CallGoesTo
  <2>2. look' = [place |-> look.place, candidate |-> 1, again |-> TRUE]
    BY <1>2, <2>1
  <2> QED
    BY <1>1, <1>6, <2>1, <2>2
<1> QED
  BY <1>3, <1>4, <1>5, <1>6

-----------------------------------------------------------------------------
LEMMA RemoteInitKeeps ==
  ASSUME RemoteInit
  PROVE  RemoteInv
<1>1. \A w \in Writers : writer[w] = IdleWriter
  BY DEF RemoteInit
<1>2. IdleWriter \in WriterStates /\ IdleWriter.at = "idle" /\ IdleWriter.locked = {}
  BY DEF IdleWriter, WriterStates, Tags, RowKeys
<1>3. writer \in [Writers -> WriterStates]
  <2>1. writer = [w \in Writers |-> IdleWriter]
    BY DEF RemoteInit
  <2> QED
    BY <1>2, <2>1
<1>4. "tab" \in Writers /\ "page" \in Writers
  BY DEF Writers
<1>5. RemoteTypes
  <2>1. vault = remoteLoad.rows /\ remoteLoad \in RemoteLoads
    BY DEF RemoteInit
  <2>2. remoteLoad.rows \subseteq
          [key : {1, 2}, env : RowKeys, value : {"old", "corrupt"}, active : BOOLEAN]
    BY <2>1, RemoteAssumption
  <2>3. vault \subseteq VaultRows
    BY <2>1, <2>2 DEF VaultRows
  <2>4. look \in [place : Nat, candidate : Nat, again : BOOLEAN]
    BY DEF RemoteInit
  <2>5. found \in Seq({"old", "typed", "edited"}) /\ callAt = "prepare"
    BY DEF RemoteInit
  <2> QED
    BY <1>3, <2>1, <2>3, <2>4, <2>5 DEF RemoteTypes
<1>6. GateInv
  BY DEF RemoteInit, GateInv, NotAgreed, Unsent, IsSent
<1>7. VaultInv
  <2>1. RowsAreOne
    BY RemoteAssumption DEF RemoteInit, RowsAreOne
  <2>2. StoredIsOne
    BY DEF RemoteInit, StoredIsOne
  <2> HIDE DEF IdleWriter
  <2>3. LocksHold
    BY <1>1, <1>2 DEF LocksHold
  <2> QED
    BY <2>1, <2>2, <2>3 DEF VaultInv
<1>8. LookInv
  <2>1. callAt = "prepare" /\ look = [place |-> 1, candidate |-> 1, again |-> FALSE] /\ found = <<>> /\ typed = {}
    BY DEF RemoteInit
  <2> HIDE DEF IdleWriter
  <2> QED
    BY <1>1, <1>2, <1>4, <2>1 DEF LookInv
<1>9. TypedInv
  <2>1. rewritten = {} /\ callAt = "prepare" /\ typed = {} /\ writer["tab"].at = "idle"
    BY <1>1, <1>2, <1>4 DEF RemoteInit
  <2> QED
    BY <2>1 DEF TypedInv, PageActsOnce, DialogStores, LookupFinds, TypedFound, FoundAgain
<1>10. RepliesAreMasked
  BY DEF RemoteInit, RepliesAreMasked
<1> QED
  BY <1>5, <1>6, <1>7, <1>8, <1>9, <1>10 DEF RemoteInv

LEMMA KeyIsTyped ==
  ASSUME RemoteInv, callAt \in {"lookup", "dialog", "late"}
  PROVE  Key \in {1, 2} /\ DialogEnv \in Tags
<1>1. look.place \in 1 .. Len(call.keys) /\ remoteLoad \in RemoteLoads
  BY DEF RemoteInv, LookInv, RemoteTypes
<1>2. call.keys \in Seq({1, 2}) /\ DialogEnv \in Tags
  BY <1>1, CallsAreTyped
<1>3. call.keys[look.place] \in {1, 2}
  BY <1>1, <1>2, ElementOfSeq
<1> QED
  BY <1>2, <1>3 DEF Key

\* The steps that leave the writers and the rows alone.
LEMMA VaultRests ==
  ASSUME UNCHANGED <<vault, writer, stored>>, VaultInv
  PROVE  VaultInv'
BY DEF VaultInv, RowsAreOne, LocksHold, StoredIsOne

LEMMA RemoteTypesStep ==
  ASSUME RemoteInv, RemoteNext
  PROVE  RemoteTypes'
<1> DEFINE Steps == {"prepare", "confirm", "deleting", "lookup", "dialog", "send", "sent", "finished", "refused", "late"}
           Looks == [place : Nat, candidate : Nat, again : BOOLEAN]
           Values == Seq({"old", "typed", "edited"})
<1>1. /\ remoteLoad \in RemoteLoads /\ vault \subseteq VaultRows /\ callAt \in Steps /\ look \in Looks
      /\ found \in Values /\ writer \in [Writers -> WriterStates]
  BY DEF RemoteInv, RemoteTypes
<1>2. RemoteTypes' <=>
        /\ remoteLoad' \in RemoteLoads /\ vault' \subseteq VaultRows /\ callAt' \in Steps /\ look' \in Looks
        /\ found' \in Values /\ writer' \in [Writers -> WriterStates]
  BY DEF RemoteTypes
<1>3. \A s \in {"refused", "dialog", "confirm", "send", "lookup", "deleting", "late", "finished", "sent"} : s \in Steps
  OBVIOUS
<1>4. "tab" \in Writers /\ "page" \in Writers /\ RemoteTypes
  BY DEF Writers, RemoteInv
<1>5. \A p, c \in Nat : \A b \in BOOLEAN : [place |-> p, candidate |-> c, again |-> b] \in Looks
  OBVIOUS
<1>6. look.place \in Nat /\ look.candidate \in Nat /\ look.again \in BOOLEAN
  BY <1>1
<1>7. look.place + 1 \in Nat /\ look.candidate + 1 \in Nat
  BY <1>6
<1>20. \A v \in {"old", "typed", "edited"} : Append(found, v) \in Values
  BY <1>1
<1> HIDE DEF Steps, Looks, Values
<1>8. CASE Prepare
  <2>1. UNCHANGED GateVars /\ callAt' \in {"refused", "dialog", "confirm", "send", "lookup"}
    BY <1>1, <1>8, PrepareEffect DEF AfterGatesIs
  <2> QED
    BY <1>1, <1>2, <1>3, <2>1 DEF GateVars
<1>9. CASE Allow
  <2>1. UNCHANGED GateVars /\ callAt' \in {"deleting", "send", "lookup"}
    BY <1>9, AllowEffect DEF AfterGatesIs
  <2> QED
    BY <1>1, <1>2, <1>3, <2>1 DEF GateVars
<1>10. CASE Decline
  <2>1. callAt' \in {"late", "refused"} /\ UNCHANGED <<remoteLoad, vault, look, found, writer>>
    BY <1>10 DEF Decline, Keeping, CallGoesTo
  <2> QED
    BY <1>1, <1>2, <1>3, <2>1
<1>11. CASE LookUp
  <2>1. UNCHANGED <<remoteLoad, vault, writer>> /\ callAt' \in {callAt, "refused", "dialog", "send"}
    BY <1>11, LookUpEffect
  <2>2. look' \in Looks
    BY <1>1, <1>5, <1>6, <1>7, <1>11, LookUpEffect
  <2>3. found' = found \/ \E r \in vault : r.value # "corrupt" /\ found' = Append(found, r.value)
    BY <1>11, LookUpEffect
  <2>4. \A r \in vault : r.value # "corrupt" => r.value \in {"old", "typed", "edited"}
    BY <1>1 DEF VaultRows
  <2>5. found' \in Values
    BY <1>1, <1>20, <2>3, <2>4
  <2> QED
    BY <1>1, <1>2, <1>3, <2>1, <2>2, <2>5
<1>12. CASE TabAnswers \/ PageCreates
  <2>1. \E w \in Writers, k \in {1, 2}, e \in Tags : FindRows(w, k, e)
    <3>1. CASE TabAnswers
      <4>1. Key \in {1, 2} /\ DialogEnv \in Tags
        BY <3>1, KeyIsTyped DEF TabAnswers
      <4> QED
        BY <1>4, <3>1, <4>1 DEF TabAnswers
    <3>2. CASE PageCreates
      <4>1. {"", "uat", "user"} \subseteq Tags
        BY DEF Tags, RowKeys
      <4> QED
        BY <1>4, <3>2, <4>1 DEF PageCreates
    <3> QED
      BY <1>12, <3>1, <3>2
  <2>2. PICK w \in Writers, k \in {1, 2}, e \in Tags : FindRows(w, k, e)
    BY <2>1
  <2>3. writer' \in [Writers -> WriterStates]
    BY <1>4, <2>2, FindEffect
  <2>4. UNCHANGED <<remoteLoad, vault, callAt, look, found>>
    BY <2>2 DEF FindRows, NotCalling
  <2> QED
    BY <1>1, <1>2, <2>3, <2>4
<1>13. CASE TabResolves
  <2>1. writer' \in [Writers -> WriterStates]
    BY <1>4, <1>13, ResolveEffect
  <2>2. UNCHANGED <<remoteLoad, vault, found>> /\ callAt' \in {callAt, "refused", "finished", "lookup"}
    BY <1>4, <1>13, AnswerEffect
  <2>3. 1 \in Nat /\ TRUE \in BOOLEAN
    OBVIOUS
  <2>4. look' = look \/ look' = [place |-> look.place, candidate |-> 1, again |-> TRUE]
    BY <1>4, <1>13, AnswerEffect
  <2>5. look' \in Looks
    BY <1>1, <1>5, <1>6, <2>3, <2>4
  <2> QED
    BY <1>1, <1>2, <1>3, <2>1, <2>2, <2>5
<1>14. CASE PageChanges
  <2>1. writer' \in [Writers -> WriterStates] /\ \E r : ChangedRow(r)
    BY <1>4, <1>14, ChangeEffect
  <2>2. vault' \subseteq VaultRows
    BY <1>1, <2>1 DEF ChangedRow
  <2>3. UNCHANGED <<remoteLoad, callAt, look, found>>
    BY <1>14 DEF PageChanges, NotCalling
  <2> QED
    BY <1>1, <1>2, <2>1, <2>2, <2>3
<1>15. CASE VaultDeletes
  <2>1. vault' \subseteq vault /\ callAt' = "finished" /\ UNCHANGED <<remoteLoad, look, found, writer>>
    BY <1>15 DEF VaultDeletes, CallGoesTo
  <2> QED
    BY <1>1, <1>2, <1>3, <2>1
<1>16. CASE Send \/ Receive
  <2>1. callAt' \in {"refused", "sent", "finished"} /\ UNCHANGED <<remoteLoad, vault, look, found, writer>>
    BY <1>16 DEF Send, Receive, CallGoesTo, Keeping
  <2> QED
    BY <1>1, <1>2, <1>3, <2>1
<1>17. CASE \E w \in Writers : SaveFails(w) \/ SaveCommits(w)
  <2>1. PICK w \in Writers : SaveFails(w) \/ SaveCommits(w)
    BY <1>17
  <2>2. writer' \in [Writers -> WriterStates]
    BY <1>4, <2>1, SaveEffect
  <2>3. vault' \subseteq VaultRows
    <3>1. CASE SaveFails(w)
      BY <1>1, <3>1 DEF SaveFails
    <3>2. CASE SaveCommits(w)
      BY <1>1, <1>4, <3>2, CommitEffect
    <3> QED
      BY <2>1, <3>1, <3>2
  <2>4. UNCHANGED <<remoteLoad, callAt, look, found>>
    BY <2>1 DEF SaveFails, SaveCommits, NotCalling
  <2> QED
    BY <1>1, <1>2, <2>2, <2>3, <2>4
<1> QED
  BY <1>8, <1>9, <1>10, <1>11, <1>12, <1>13, <1>14, <1>15, <1>16, <1>17 DEF RemoteNext

-----------------------------------------------------------------------------
\* A call keeps its values.
LEMMA CallStays ==
  ASSUME UNCHANGED remoteLoad
  PROVE  /\ call' = call /\ Env' = Env /\ NeedsConfirmation' = NeedsConfirmation /\ DialogEnv' = DialogEnv
         /\ BodyForm' = BodyForm \/ found' # found
         /\ Carries' = Carries \/ found' # found
         /\ Candidates' = Candidates /\ HasFiles' = HasFiles /\ Writes' = Writes /\ CallKeys' = CallKeys
<1>1. call' = call
  BY DEF call
<1>2. Env' = Env /\ Writes' = Writes /\ HasFiles' = HasFiles /\ CallKeys' = CallKeys
  BY <1>1 DEF Env, InCatalog, Writes, HasFiles, CallKeys
<1>3. NeedsConfirmation' = NeedsConfirmation
  BY <1>1, <1>2 DEF NeedsConfirmation, Forced
<1>4. DialogEnv' = DialogEnv /\ Candidates' = Candidates
  BY <1>1, <1>2 DEF DialogEnv, Candidates
<1>5. BodyForm' = BodyForm \/ found' # found
  BY <1>1, <1>2 DEF BodyForm, InBody
<1>6. Carries' = Carries \/ found' # found
  BY <1>1, <1>5 DEF Carries
<1> QED
  BY <1>1, <1>2, <1>3, <1>4, <1>5, <1>6

LEMMA GateStep ==
  ASSUME RemoteInv, RemoteNext
  PROVE  GateInv'
<1>1. GateInv /\ RemoteTypes /\ remoteLoad \in RemoteLoads
  BY DEF RemoteInv, RemoteTypes
<1>2. call.tool \in {"request", "save", "delete"}
  BY <1>1, CallsAreTyped
<1>3. ASSUME UNCHANGED <<remoteLoad, agreed, found, request>>,
             callAt' = callAt \/ callAt' \in {"refused", "late"}
             \/ (callAt' = "finished" /\ (call.tool # "request" \/ callAt = "sent"))
             \/ (callAt' = "dialog" /\ callAt = "lookup")
             \/ (callAt' = "lookup" /\ callAt \in {"dialog", "lookup"} /\ call.tool = "request"),
             IsSent => callAt' \in {"sent", "finished"}
      PROVE  GateInv'
  <2>1. call' = call /\ Env' = Env /\ NeedsConfirmation' = NeedsConfirmation /\ BodyForm' = BodyForm /\ Carries' = Carries
    BY <1>3, CallStays
  <2>2. IsSent' = IsSent
    BY <1>3 DEF IsSent
  <2>3. agreed'.yes => agreed'.env = Env /\ agreed'.method = call.method
    BY <1>1, <1>3 DEF GateInv
  <2>4. /\ callAt' \in {"lookup", "send", "sent"} => call.tool = "request"
        /\ callAt' = "dialog" => call.tool \in {"request", "save"}
        /\ callAt' = "confirm" => call.tool \in {"request", "delete"}
        /\ callAt' = "deleting" => call.tool = "delete"
    BY <1>1, <1>3 DEF GateInv
  <2>5. call.tool = "request" /\ callAt' \in {"lookup", "dialog", "send", "sent", "finished"} /\ NeedsConfirmation
          => agreed'.yes
    BY <1>1, <1>3 DEF GateInv
  <2>6. IsSent => /\ call.tool = "request" /\ callAt' \in {"sent", "finished"}
                  /\ request' = [form |-> BodyForm, files |-> IF BodyForm = "multipart" THEN call.files ELSE <<>>,
                       carries |-> Carries, using |-> found', env |-> Env, method |-> call.method]
    BY <1>1, <1>3 DEF GateInv
  <2> QED
    BY <2>1, <2>2, <2>3, <2>4, <2>5, <2>6 DEF GateInv
<1>4. ~IsSent \/ callAt \in {"sent", "finished"}
  BY <1>1 DEF GateInv
<1>5. CASE Prepare
  <2>1. UNCHANGED <<remoteLoad, agreed, found, request>> /\ callAt = "prepare"
    BY <1>1, <1>5, PrepareEffect DEF GateVars
  <2>2. call' = call /\ Env' = Env /\ NeedsConfirmation' = NeedsConfirmation
    BY <2>1, CallStays
  <2>3. ~IsSent'
    BY <1>4, <2>1 DEF IsSent
  <2>4. agreed'.yes => agreed'.env = Env /\ agreed'.method = call.method
    BY <1>1, <2>1 DEF GateInv
  <2>5. \/ callAt' = "refused"
        \/ call.tool = "save" /\ callAt' = "dialog"
        \/ call.tool = "delete" /\ callAt' = "confirm"
        \/ call.tool = "request" /\ callAt' = "confirm"
        \/ call.tool = "request" /\ ~NeedsConfirmation /\ callAt' \in {"send", "lookup"}
    BY <1>1, <1>5, PrepareEffect DEF AfterGatesIs
  <2> QED
    BY <2>2, <2>3, <2>4, <2>5 DEF GateInv
<1>6. CASE Allow
  <2>1. UNCHANGED <<remoteLoad, found, request>> /\ callAt = "confirm" /\ agreed'.yes
        /\ agreed'.env = Env /\ agreed'.method = call.method
    BY <1>6, AllowEffect DEF GateVars
  <2>2. call' = call /\ Env' = Env /\ NeedsConfirmation' = NeedsConfirmation
    BY <2>1, CallStays
  <2>3. ~IsSent'
    BY <1>4, <2>1 DEF IsSent
  <2>4. call.tool \in {"request", "delete"}
    BY <1>1, <2>1 DEF GateInv
  <2>5. (call.tool = "delete" /\ callAt' = "deleting") \/ (call.tool # "delete" /\ callAt' \in {"send", "lookup"})
    BY <1>6, AllowEffect DEF AfterGatesIs
  <2> QED
    BY <2>1, <2>2, <2>3, <2>4, <2>5 DEF GateInv
<1>7. CASE Decline
  <2>1. UNCHANGED <<remoteLoad, agreed, found, request>> /\ callAt' \in {"late", "refused"}
        /\ callAt \in {"confirm", "dialog"}
    BY <1>7 DEF Decline, Keeping, CallGoesTo
  <2> QED
    BY <1>3, <1>4, <2>1
<1>8. CASE LookUp
  <2>1. callAt = "lookup" /\ UNCHANGED <<remoteLoad, agreed, request>> /\ callAt' \in {"lookup", "refused", "dialog", "send"}
    BY <1>8, LookUpEffect
  <2>2. call' = call /\ Env' = Env /\ NeedsConfirmation' = NeedsConfirmation
    BY <2>1, CallStays
  <2>3. ~IsSent'
    BY <1>4, <2>1 DEF IsSent
  <2>4. call.tool = "request" /\ (NeedsConfirmation => agreed.yes)
        /\ (agreed.yes => agreed.env = Env /\ agreed.method = call.method)
    BY <1>1, <2>1 DEF GateInv
  <2> QED
    BY <2>1, <2>2, <2>3, <2>4 DEF GateInv
<1>9. CASE TabResolves
  <2>1. UNCHANGED <<remoteLoad, agreed, found, request>>
    BY <1>1, <1>9, AnswerEffect
  <2>2. \/ callAt' = callAt
        \/ callAt = "dialog" /\ callAt' = "refused"
        \/ callAt = "dialog" /\ callAt' = "finished" /\ call.tool = "save"
        \/ callAt = "dialog" /\ callAt' = "lookup" /\ call.tool # "save"
    BY <1>1, <1>9, AnswerEffect
  <2>3. callAt = "dialog" => call.tool \in {"request", "save"}
    BY <1>1 DEF GateInv
  <2> QED
    BY <1>3, <1>4, <2>1, <2>2, <2>3
<1>10. CASE VaultDeletes
  <2>1. UNCHANGED <<remoteLoad, agreed, found, request>> /\ callAt = "deleting" /\ callAt' = "finished"
    BY <1>10 DEF VaultDeletes, CallGoesTo
  <2>2. call.tool = "delete"
    BY <1>1, <2>1 DEF GateInv
  <2> QED
    BY <1>3, <1>4, <2>1, <2>2
<1>11. CASE Receive
  <2>1. UNCHANGED <<remoteLoad, agreed, found, request>> /\ callAt = "sent" /\ callAt' = "finished"
    BY <1>11 DEF Receive, CallGoesTo, Keeping
  <2> QED
    BY <1>3, <2>1
<1>12. CASE Send
  <2>1. UNCHANGED <<remoteLoad, agreed, found>> /\ callAt = "send"
    BY <1>12 DEF Send, Keeping
  <2>2. CASE ~AuthFits
    <3>1. callAt' = "refused" /\ request' = request
      BY <1>12, <2>2 DEF Send, CallGoesTo
    <3> QED
      BY <1>3, <1>4, <2>1, <3>1
  <2>3. CASE AuthFits
    <3>1. callAt' = "sent"
          /\ request' = [form |-> BodyForm, files |-> IF BodyForm = "multipart" THEN call.files ELSE <<>>,
                         carries |-> Carries, using |-> found, env |-> Env, method |-> call.method]
      BY <1>12, <2>3 DEF Send, CallGoesTo
    <3>2. call' = call /\ Env' = Env /\ NeedsConfirmation' = NeedsConfirmation /\ BodyForm' = BodyForm /\ Carries' = Carries
      BY <2>1, CallStays
    <3>3. call.tool = "request" /\ (NeedsConfirmation => agreed.yes)
          /\ (agreed.yes => agreed.env = Env /\ agreed.method = call.method)
      BY <1>1, <2>1 DEF GateInv
    <3> QED
      BY <2>1, <3>1, <3>2, <3>3 DEF GateInv
  <2> QED
    BY <2>2, <2>3
<1>13. CASE TabAnswers \/ PageCreates \/ PageChanges \/ \E w \in Writers : SaveFails(w) \/ SaveCommits(w)
  <2>1. UNCHANGED <<remoteLoad, agreed, found, request>> /\ callAt' = callAt
    BY <1>13 DEF TabAnswers, PageCreates, PageChanges, SaveFails, SaveCommits, FindRows, NotCalling
  <2> QED
    BY <1>3, <1>4, <2>1
<1> QED
  BY <1>5, <1>6, <1>7, <1>8, <1>9, <1>10, <1>11, <1>12, <1>13 DEF RemoteNext

-----------------------------------------------------------------------------
LEMMA FindKeepsVault ==
  ASSUME RemoteTypes, VaultInv, NEW w \in Writers, NEW k \in {1, 2}, NEW e \in Tags, FindRows(w, k, e)
  PROVE  VaultInv'
<1>1. vault' = vault /\ stored' = stored
  BY DEF FindRows
<1>2. /\ writer'[w].at = "found" /\ writer'[w].key = k /\ writer'[w].env = e
      /\ \A r : r \in writer'[w].locked <=> r \in vault /\ r.key = k /\ r.env \in Envs(e)
      /\ \A u \in Writers : u # w => writer'[u] = writer[u]
      /\ \A r \in vault : r.key = k /\ r.env \in Envs(e) => \A u \in Writers : r \notin writer[u].locked
  BY FindEffect
<1>3. LocksHold'
  BY <1>1, <1>2 DEF LocksHold, VaultInv
<1>4. RowsAreOne' /\ StoredIsOne'
  BY <1>1 DEF RowsAreOne, StoredIsOne, VaultInv
<1> QED
  BY <1>3, <1>4 DEF VaultInv

LEMMA FailKeepsVault ==
  ASSUME RemoteTypes, VaultInv, NEW w \in Writers, SaveFails(w)
  PROVE  VaultInv'
<1>1. vault' = vault /\ stored' = stored
  BY DEF SaveFails
<1>2. writer'[w].at = "saved" /\ writer'[w].locked = {} /\ \A u \in Writers : u # w => writer'[u] = writer[u]
  BY SaveEffect
<1>3. LocksHold'
  BY <1>1, <1>2 DEF LocksHold, VaultInv
<1>4. RowsAreOne' /\ StoredIsOne'
  BY <1>1 DEF RowsAreOne, StoredIsOne, VaultInv
<1> QED
  BY <1>3, <1>4 DEF VaultInv

LEMMA ResolveKeepsVault ==
  ASSUME RemoteTypes, VaultInv, TabResolves
  PROVE  VaultInv'
<1>1. vault' = vault /\ stored' = stored
  BY DEF TabResolves
<1>2. writer'["tab"].at = "idle" /\ writer'["tab"].locked = {} /\ writer'["page"] = writer["page"]
  BY ResolveEffect
<1>3. LocksHold'
  BY <1>1, <1>2 DEF LocksHold, VaultInv, Writers
<1>4. RowsAreOne' /\ StoredIsOne'
  BY <1>1 DEF RowsAreOne, StoredIsOne, VaultInv
<1> QED
  BY <1>3, <1>4 DEF VaultInv

LEMMA DeleteKeepsVault ==
  ASSUME RemoteTypes, VaultInv, VaultDeletes
  PROVE  VaultInv'
<1>1. writer' = writer /\ stored' = stored
  BY DEF VaultDeletes
<1>2. vault' \subseteq vault /\ \A w \in Writers : \A r \in writer[w].locked : r \in vault => r \in vault'
  BY DEF VaultDeletes, Locked
<1>3. LocksHold'
  BY <1>1, <1>2 DEF LocksHold, VaultInv
<1>4. RowsAreOne'
  BY <1>2 DEF RowsAreOne, VaultInv
<1>5. StoredIsOne'
  BY <1>1, <1>2 DEF StoredIsOne, VaultInv
<1> QED
  BY <1>3, <1>4, <1>5 DEF VaultInv

LEMMA CommitKeepsVault ==
  ASSUME RemoteTypes, VaultInv, NEW w \in Writers, SaveCommits(w)
  PROVE  VaultInv'
<1>1. PICK n, k, e, l :
        n = NewRow(w) /\ k = writer[w].key /\ e = writer[w].env /\ l = writer[w].locked
  OBVIOUS
<1>2. /\ n.key = k /\ n.env = e /\ n.active
      /\ \A r : r \in vault' <=> (r \in vault /\ r \notin l) \/ r = n
      /\ l = {} => \A r \in vault : ~(r.key = k /\ r.env = e)
  BY <1>1, CommitEffect
<1>3. /\ writer[w].at = "found" /\ writer'[w].at = "saved" /\ writer'[w].locked = {}
      /\ \A u \in Writers : u # w => writer'[u] = writer[u]
  BY SaveEffect
<1>4. writer \in [Writers -> WriterStates] /\ e \in Tags /\ k \in {1, 2}
  BY <1>1 DEF RemoteTypes, WriterStates
<1>5. e \in Envs(e) /\ \A f \in Tags : \A x : x \in Envs(e) /\ x \in Envs(f) => e = f
  BY <1>4, TagsApart
<1>6. /\ \A r \in l : r \in vault /\ r.key = k /\ r.env \in Envs(e)
      /\ \A r \in vault : r.key = k /\ r.env \in Envs(e) => r \in l
  BY <1>1, <1>2, <1>3 DEF VaultInv, LocksHold
<1>7. \A r \in vault' : r.key = k /\ r.env \in Envs(e) => r = n
  BY <1>2, <1>6
<1>8. RowsAreOne'
  BY <1>2, <1>5, <1>7 DEF VaultInv, RowsAreOne
<1>9. \A f \in Tags : \A r : r \in vault' /\ r # n => r \in vault
  BY <1>2
<1>10. LocksHold'
  <2> SUFFICES ASSUME NEW u \in Writers
               PROVE  /\ \A r \in writer'[u].locked :
                           /\ r \in vault' /\ r.key = writer'[u].key /\ r.env \in Envs(writer'[u].env)
                           /\ writer'[u].at = "found" /\ \A x \in Writers : x # u => r \notin writer'[x].locked
                      /\ writer'[u].at = "found" =>
                           \A r \in vault' : r.key = writer'[u].key /\ r.env \in Envs(writer'[u].env) =>
                             r \in writer'[u].locked \/ (writer'[u].locked = {} /\ r.env = writer'[u].env)
    BY DEF LocksHold
  <2>1. CASE u = w
    BY <1>3, <2>1
  <2>2. CASE u # w
    <3>1. writer'[u] = writer[u] /\ writer[u].env \in Tags
      BY <1>3, <1>4, <2>2 DEF WriterStates
    <3>2. \A r \in writer[u].locked :
            /\ r \in vault /\ r.key = writer[u].key /\ r.env \in Envs(writer[u].env) /\ r \notin l
            /\ writer[u].at = "found" /\ \A x \in Writers : x # u => r \notin writer[x].locked
      BY <1>1, <2>2 DEF VaultInv, LocksHold
    <3>3. \A x \in Writers : \A r : r \in writer'[x].locked => r \in writer[x].locked
      BY <1>3
    <3>4. \A r \in writer'[u].locked :
            /\ r \in vault' /\ r.key = writer'[u].key /\ r.env \in Envs(writer'[u].env)
            /\ writer'[u].at = "found" /\ \A x \in Writers : x # u => r \notin writer'[x].locked
      BY <1>2, <3>1, <3>2, <3>3
    <3>5. ASSUME writer'[u].at = "found", NEW r \in vault', r.key = writer'[u].key, r.env \in Envs(writer'[u].env)
          PROVE  r \in writer'[u].locked \/ (writer'[u].locked = {} /\ r.env = writer'[u].env)
      <4>1. CASE r # n
        <5>1. r \in vault
          BY <1>2, <4>1
        <5> QED
          BY <3>1, <3>5, <5>1 DEF VaultInv, LocksHold
      <4>2. CASE r = n
        <5>1. writer[u].key = k /\ writer[u].env = e
          BY <1>2, <1>5, <3>1, <3>5, <4>2
        \* Rows that the other has locked are rows that this writer found.
        <5>2. writer[u].locked = {}
          BY <1>6, <3>2, <5>1
        <5> QED
          BY <1>2, <3>1, <4>2, <5>1, <5>2
      <4> QED
        BY <4>1, <4>2
    <3> QED
      BY <3>4, <3>5
  <2> QED
    BY <2>1, <2>2
<1>11. StoredIsOne'
  <2>1. stored' = stored \cup {<<k, e>>}
    BY <1>1 DEF SaveCommits
  <2> SUFFICES ASSUME NEW s \in stored'
               PROVE  /\ s[1] \in {1, 2} /\ s[2] \in Tags
                      /\ \A r \in vault' : r.key = s[1] /\ r.env \in Envs(s[2]) =>
                           r.active /\ \A q \in vault' : q.key = s[1] /\ q.env \in Envs(s[2]) => q = r
    BY DEF StoredIsOne
  <2>2. CASE s[1] = k /\ s[2] = e
    BY <1>2, <1>4, <1>7, <2>2
  <2>3. CASE ~(s[1] = k /\ s[2] = e)
    <3>1. s \in stored
      BY <2>1, <2>3
    <3>2. s[1] \in {1, 2} /\ s[2] \in Tags
      BY <3>1 DEF VaultInv, StoredIsOne
    <3>3. \A r \in vault' : r.key = s[1] /\ r.env \in Envs(s[2]) => r \in vault
      BY <1>2, <1>5, <2>3, <3>2
    <3> QED
      BY <3>1, <3>2, <3>3 DEF VaultInv, StoredIsOne
  <2> QED
    BY <2>2, <2>3
<1> QED
  BY <1>8, <1>10, <1>11 DEF VaultInv

LEMMA ChangeKeepsVault ==
  ASSUME RemoteTypes, VaultInv, PageChanges
  PROVE  VaultInv'
<1>1. stored' = stored
  BY DEF PageChanges
<1>2. PICK r : ChangedRow(r)
  BY ChangeEffect
<1>3. /\ writer["page"].at = "idle" /\ writer'["page"].at = "saved" /\ writer'["page"].locked = writer["page"].locked
      /\ writer'["tab"] = writer["tab"]
  BY ChangeEffect
<1>4. writer'["page"].locked = {}
  BY <1>3 DEF VaultInv, LocksHold, Writers
<1>5. LocksHold'
  <2>1. \A q \in writer["tab"].locked : q \in vault'
    BY <1>2 DEF VaultInv, LocksHold, ChangedRow, Writers
  <2>2. ASSUME writer["tab"].at = "found", NEW q \in vault', q.key = writer["tab"].key, q.env \in Envs(writer["tab"].env)
        PROVE  q \in writer["tab"].locked \/ (writer["tab"].locked = {} /\ q.env = writer["tab"].env)
    <3>1. CASE q \in vault
      BY <2>2, <3>1 DEF VaultInv, LocksHold, Writers
    <3>2. CASE q \notin vault
      <4>1. q.key = r.key /\ q.env = r.env /\ r \in vault /\ r \notin writer["tab"].locked
        BY <1>2, <2>2, <3>2 DEF ChangedRow, Writers
      <4> QED
        BY <2>2, <4>1 DEF VaultInv, LocksHold, Writers
    <3> QED
      BY <3>1, <3>2
  <2> QED
    BY <1>3, <1>4, <2>1, <2>2 DEF VaultInv, LocksHold, Writers
<1>6. RowsAreOne'
  <2> SUFFICES ASSUME NEW p \in vault', NEW q \in vault', p.key = q.key, p.env = q.env
               PROVE  p = q
    BY DEF RowsAreOne
  <2>1. \A x \in vault' : x \notin vault \ {r} => x.key = r.key /\ x.env = r.env
    BY <1>2 DEF ChangedRow
  <2>2. \A x \in vault \ {r} : ~(x.key = r.key /\ x.env = r.env)
    BY <1>2 DEF ChangedRow, VaultInv, RowsAreOne
  <2>3. CASE p \in vault \ {r} /\ q \in vault \ {r}
    BY <2>3 DEF VaultInv, RowsAreOne
  <2>4. CASE p \notin vault \ {r} /\ q \notin vault \ {r}
    BY <1>2, <2>1, <2>4 DEF ChangedRow
  <2> QED
    BY <2>1, <2>2, <2>3, <2>4
<1>7. StoredIsOne'
  <2> SUFFICES ASSUME NEW s \in stored
               PROVE  \A p \in vault' : p.key = s[1] /\ p.env \in Envs(s[2]) =>
                        p.active /\ \A q \in vault' : q.key = s[1] /\ q.env \in Envs(s[2]) => q = p
    BY <1>1 DEF VaultInv, StoredIsOne
  <2>1. \A p \in vault : p.key = s[1] /\ p.env \in Envs(s[2]) =>
           p.active /\ \A q \in vault : q.key = s[1] /\ q.env \in Envs(s[2]) => q = p
    BY DEF VaultInv, StoredIsOne
  <2>2. \A p \in vault' : (p \in vault /\ p # r) \/ (p.key = r.key /\ p.env = r.env /\ p.active)
    BY <1>2 DEF ChangedRow
  <2>3. r \in vault
    BY <1>2 DEF ChangedRow
  <2>4. \A p \in vault' : p.key = s[1] /\ p.env \in Envs(s[2]) => p.active
    BY <2>1, <2>2
  <2>5. ASSUME NEW p \in vault', NEW q \in vault', p.key = s[1], p.env \in Envs(s[2]), q.key = s[1], q.env \in Envs(s[2])
        PROVE  q = p
    <3>1. CASE r.key = s[1] /\ r.env \in Envs(s[2])
      <4>1. \A x \in vault' : x.key = s[1] /\ x.env \in Envs(s[2]) => x.key = r.key /\ x.env = r.env
        BY <2>1, <2>2, <2>3, <3>1
      <4> QED
        BY <1>6, <2>5, <4>1 DEF RowsAreOne
    <3>2. CASE ~(r.key = s[1] /\ r.env \in Envs(s[2]))
      <4>1. p \in vault /\ q \in vault
        BY <2>2, <2>5, <3>2
      <4> QED
        BY <2>1, <2>5, <4>1
    <3> QED
      BY <3>1, <3>2
  <2> QED
    BY <2>4, <2>5
<1> QED
  BY <1>5, <1>6, <1>7 DEF VaultInv

LEMMA VaultStep ==
  ASSUME RemoteInv, RemoteNext
  PROVE  VaultInv'
<1>1. VaultInv /\ RemoteTypes /\ remoteLoad \in RemoteLoads
  BY DEF RemoteInv, RemoteTypes
<1>2. CASE Prepare \/ Allow \/ Decline \/ LookUp \/ Send \/ Receive
  <2>1. UNCHANGED <<vault, writer, stored>>
    BY <1>2 DEF Prepare, Allow, Decline, LookUp, Send, Receive, Keeping
  <2> QED
    BY <1>1, <2>1, VaultRests
<1>3. CASE TabAnswers
  <2>1. Key \in {1, 2} /\ DialogEnv \in Tags /\ "tab" \in Writers
    BY <1>3, KeyIsTyped DEF TabAnswers, Writers
  <2> QED
    BY <1>1, <1>3, <2>1, FindKeepsVault DEF TabAnswers
<1>4. CASE PageCreates
  <2>1. {"", "uat", "user"} \subseteq Tags /\ "page" \in Writers
    BY DEF Tags, RowKeys, Writers
  <2> QED
    BY <1>1, <1>4, <2>1, FindKeepsVault DEF PageCreates
<1>5. CASE \E w \in Writers : SaveFails(w) \/ SaveCommits(w)
  BY <1>1, <1>5, FailKeepsVault, CommitKeepsVault
<1> QED
  BY <1>1, <1>2, <1>3, <1>4, <1>5, ResolveKeepsVault, ChangeKeepsVault, DeleteKeepsVault DEF RemoteNext

-----------------------------------------------------------------------------
\* A step that leaves the call where it is and the tab alone keeps what is looked at.
LEMMA LookRests ==
  ASSUME RemoteInv, UNCHANGED <<remoteLoad, callAt, look, found, typed>>, writer'["tab"] = writer["tab"]
  PROVE  LookInv'
<1>1. call' = call /\ DialogEnv' = DialogEnv /\ Candidates' = Candidates
  BY CallStays
<1>2. Key' = Key
  BY <1>1 DEF Key
<1> QED
  BY <1>1, <1>2 DEF LookInv, RemoteInv

LEMMA LookStep ==
  ASSUME RemoteInv, RemoteNext
  PROVE  LookInv'
<1>1. RemoteTypes /\ GateInv /\ VaultInv /\ LookInv /\ remoteLoad \in RemoteLoads
  BY DEF RemoteInv, RemoteTypes
<1>2. /\ call.keys \in Seq({1, 2}) /\ call.tool \in {"request", "save", "delete"}
      /\ call.tool = "save" => call.keys # <<>>
  BY <1>1, CallsAreTyped
<1>3. Len(call.keys) \in Nat /\ (call.keys # <<>> => 1 \in 1 .. Len(call.keys))
  BY <1>2, EmptySeq, LenProperties
<1>4. remoteLoad' = remoteLoad
  BY PrepareEffect, AllowEffect, LookUpEffect, AnswerEffect, <1>1
     DEF RemoteNext, Prepare, Allow, Decline, LookUp, Send, Receive, TabResolves, TabAnswers, PageCreates, PageChanges,
         VaultDeletes, SaveFails, SaveCommits, FindRows, Keeping, NotCalling
<1>5. call' = call /\ DialogEnv' = DialogEnv /\ Candidates' = Candidates
  BY <1>4, CallStays
<1>6. CallKeys # <<>> => call.keys # <<>>
  BY DEF CallKeys
<1>7. "tab" \in Writers /\ "page" \in Writers
  BY DEF Writers
<1> USE <1>5
\* The call enters the lookup of its first credential, or goes past it.
<1>8. ASSUME UNCHANGED <<look, found, typed, writer>>, callAt \in {"prepare", "confirm"},
             \/ callAt' \in {"refused", "confirm", "send", "deleting"}
             \/ callAt' = "lookup" /\ call.keys # <<>> /\ call.tool = "request"
             \/ callAt' = "dialog" /\ call.tool = "save"
      PROVE  LookInv'
  <2>1. look = [place |-> 1, candidate |-> 1, again |-> FALSE] /\ found = <<>> /\ typed = {}
    BY <1>1, <1>8 DEF LookInv
  <2>2. look.place = 1 /\ look.candidate = 1 /\ ~look.again /\ Len(found) = 0
    BY <2>1
  <2>3. writer["tab"].at = "idle"
    BY <1>1, <1>8 DEF LookInv
  <2>4. callAt' \in {"lookup", "dialog"} => look.place \in 1 .. Len(call.keys)
    BY <1>2, <1>3, <1>8, <2>2
  <2>5. call.tool = "request" => look.candidate \in 1 .. Len(Candidates)
    BY <1>1, <2>2, CandidatesStart
  <2> QED
    BY <1>8, <2>1, <2>2, <2>3, <2>4, <2>5 DEF LookInv
<1>9. CASE Prepare
  <2>1. UNCHANGED <<look, found, typed, writer>> /\ callAt = "prepare"
    BY <1>1, <1>9, PrepareEffect DEF GateVars
  <2>2. \/ callAt' \in {"refused", "confirm", "send", "deleting"}
        \/ callAt' = "lookup" /\ call.keys # <<>> /\ call.tool = "request"
        \/ callAt' = "dialog" /\ call.tool = "save"
    BY <1>1, <1>6, <1>9, PrepareEffect DEF AfterGatesIs
  <2> QED
    BY <1>8, <2>1, <2>2
<1>10. CASE Allow
  <2>1. UNCHANGED <<look, found, typed, writer>> /\ callAt = "confirm"
    BY <1>10, AllowEffect DEF GateVars
  <2>2. call.tool \in {"request", "delete"}
    BY <1>1, <2>1 DEF GateInv
  <2>3. \/ callAt' \in {"refused", "confirm", "send", "deleting"}
        \/ callAt' = "lookup" /\ call.keys # <<>> /\ call.tool = "request"
    BY <1>6, <1>10, <2>2, AllowEffect DEF AfterGatesIs
  <2> QED
    BY <1>8, <2>1, <2>3
\* The call goes to where nothing is looked up.
<1>11. ASSUME UNCHANGED <<look, found>>, callAt' \in {"send", "sent", "finished", "refused", "late"},
              writer'["tab"] = writer["tab"] \/ writer'["tab"].at = "idle",
              callAt' = "late" => callAt = "dialog",
              callAt = "dialog" => callAt' = "late" \/ writer'["tab"].at = "idle",
              callAt # "late"
       PROVE  LookInv'
  <2>1. writer["tab"].at # "idle" => callAt = "dialog"
    BY <1>1, <1>11 DEF LookInv
  <2>2. writer'["tab"].at # "idle" => callAt' = "late"
    BY <1>11, <2>1
  <2>3. callAt' = "late" => look.place \in 1 .. Len(call.keys)
    BY <1>1, <1>11 DEF LookInv
  <2>4. call.tool # "request" => found = <<>>
    BY <1>1 DEF LookInv
  <2> QED
    BY <1>11, <2>2, <2>3, <2>4 DEF LookInv
<1>12. CASE Decline
  <2>1. UNCHANGED <<look, found, writer>> /\ callAt \in {"confirm", "dialog"}
        /\ callAt' = (IF callAt = "dialog" THEN "late" ELSE "refused")
    BY <1>12 DEF Decline, Keeping, CallGoesTo
  <2> QED
    BY <1>11, <2>1
<1>13. CASE Send \/ Receive
  <2>1. UNCHANGED <<look, found, writer>> /\ callAt \in {"send", "sent"} /\ callAt' \in {"refused", "sent", "finished"}
    BY <1>13 DEF Send, Receive, Keeping, CallGoesTo
  <2> QED
    BY <1>11, <2>1
<1>14. CASE VaultDeletes
  <2>1. UNCHANGED <<look, found, writer>> /\ callAt = "deleting" /\ callAt' = "finished"
    BY <1>14 DEF VaultDeletes, CallGoesTo
  <2> QED
    BY <1>11, <2>1
<1>15. CASE LookUp
  <2>1. callAt = "lookup" /\ typed' = typed /\ writer' = writer
    BY <1>15, LookUpEffect
  <2>2. call.tool = "request" /\ writer["tab"].at = "idle"
    BY <1>1, <2>1 DEF LookInv, GateInv
  <2>3. /\ look.place \in 1 .. Len(call.keys) /\ Len(found) = look.place - 1 /\ look.candidate \in 1 .. Len(Candidates)
        /\ (\A i \in typed : i \in 1 .. look.place) /\ (look.place \in typed => look.again)
    BY <1>1, <2>1, <2>2 DEF LookInv
  <2>4. Len(Candidates) \in 1 .. 3
    BY <1>1, <2>2, CandidatesStart
  <2>5. CASE callAt' = callAt /\ found' = found /\ look.candidate < Len(Candidates)
             /\ look' = [place |-> look.place, candidate |-> look.candidate + 1, again |-> look.again]
    <3>1. look'.place = look.place /\ look'.candidate = look.candidate + 1 /\ look'.again = look.again
      BY <2>5
    <3>2. look'.candidate \in 1 .. Len(Candidates)
      BY <2>3, <2>4, <2>5, <3>1
    <3> QED
      BY <2>1, <2>2, <2>3, <2>5, <3>1, <3>2 DEF LookInv
  <2>6. CASE look' = look /\ found' = found /\ (callAt' = "refused" \/ (callAt' = "dialog" /\ ~look.again))
    BY <2>1, <2>2, <2>3, <2>6 DEF LookInv
  <2>7. CASE look' = look /\ callAt' = "send"
    BY <2>1, <2>2, <2>7 DEF LookInv
  <2>8. ASSUME look.place # Len(call.keys), callAt' = callAt,
               look' = [place |-> look.place + 1, candidate |-> 1, again |-> FALSE],
               NEW r \in vault, r.value # "corrupt", found' = Append(found, r.value)
        PROVE  LookInv'
    <3>1. look'.place = look.place + 1 /\ look'.candidate = 1 /\ ~look'.again
      BY <2>8
    <3>2. r.value \in {"old", "typed", "edited"} /\ found \in Seq({"old", "typed", "edited"})
      BY <1>1, <2>8 DEF RemoteTypes, VaultRows
    <3>3. Len(found') = Len(found) + 1
      BY <2>8, <3>2, AppendProperties
    <3>4. look'.place \in 1 .. Len(call.keys) /\ Len(found') = look'.place - 1 /\ look'.candidate \in 1 .. Len(Candidates)
      BY <1>3, <2>3, <2>4, <2>8, <3>1, <3>3
    <3>5. (\A i \in typed' : i \in 1 .. look'.place) /\ look'.place \notin typed'
      BY <1>3, <2>1, <2>3, <3>1
    <3> QED
      BY <2>1, <2>2, <2>8, <3>1, <3>4, <3>5 DEF LookInv
  <2>9. \/ /\ callAt' = callAt /\ found' = found /\ look.candidate < Len(Candidates)
           /\ look' = [place |-> look.place, candidate |-> look.candidate + 1, again |-> look.again]
        \/ look' = look /\ found' = found /\ (callAt' = "refused" \/ (callAt' = "dialog" /\ ~look.again))
        \/ look' = look /\ callAt' = "send"
        \/ /\ look.place # Len(call.keys) /\ callAt' = callAt
           /\ look' = [place |-> look.place + 1, candidate |-> 1, again |-> FALSE]
           /\ \E r \in vault : r.value # "corrupt" /\ found' = Append(found, r.value)
    BY <1>15, LookUpEffect
  <2> QED
    BY <2>5, <2>6, <2>7, <2>8, <2>9
<1>16. CASE TabResolves
  <2>1. writer'["tab"].at = "idle" /\ writer["tab"].at = "saved"
    BY <1>1, <1>16, ResolveEffect
  <2>2. found' = found /\ callAt \in {"dialog", "late"}
    BY <1>1, <1>16, <2>1, AnswerEffect DEF LookInv
  <2>3. CASE callAt # "dialog" /\ callAt' = callAt /\ look' = look /\ typed' = typed
    BY <1>1, <2>1, <2>2, <2>3 DEF LookInv
  <2>4. CASE callAt = "dialog" /\ callAt' \in {"refused", "finished"} /\ look' = look
    BY <1>11, <2>1, <2>2, <2>4
  <2>5. CASE callAt = "dialog" /\ call.tool # "save" /\ callAt' = "lookup" /\ typed' = typed \cup {look.place}
             /\ look' = [place |-> look.place, candidate |-> 1, again |-> TRUE]
    <3>1. look'.place = look.place /\ look'.candidate = 1 /\ look'.again
      BY <2>5
    <3>2. call.tool = "request"
      BY <1>1, <1>2, <2>5 DEF GateInv
    <3>3. /\ look.place \in 1 .. Len(call.keys) /\ Len(found) = look.place - 1
          /\ \A i \in typed : i \in 1 .. look.place
      BY <1>1, <2>5, <3>2 DEF LookInv
    <3>4. 1 \in 1 .. Len(Candidates)
      BY <1>1, <3>2, CandidatesStart
    <3>5. \A i \in typed' : i \in 1 .. look.place
      BY <1>3, <2>5, <3>3
    <3> QED
      BY <2>1, <2>2, <2>5, <3>1, <3>2, <3>3, <3>4, <3>5 DEF LookInv
  <2> QED
    BY <1>1, <1>16, <2>3, <2>4, <2>5, AnswerEffect
<1>17. CASE TabAnswers
  <2>1. Key \in {1, 2} /\ DialogEnv \in Tags /\ FindRows("tab", Key, DialogEnv) /\ callAt \in {"dialog", "late"}
    BY <1>17, KeyIsTyped DEF TabAnswers
  <2>2. UNCHANGED <<callAt, look, found, typed>>
    BY <2>1 DEF FindRows, NotCalling
  <2>3. writer'["tab"].key = Key /\ writer'["tab"].env = DialogEnv
    BY <1>1, <1>7, <2>1, FindEffect
  <2>4. Key' = Key
    BY <2>2 DEF Key
  <2> QED
    BY <1>1, <2>1, <2>2, <2>3, <2>4 DEF LookInv
<1>18. CASE PageCreates
  <2>1. {"", "uat", "user"} \subseteq Tags /\ 1 \in {1, 2}
    BY DEF Tags, RowKeys
  <2>2. PICK e \in Tags : FindRows("page", 1, e)
    BY <1>18, <2>1 DEF PageCreates
  <2>3. UNCHANGED <<callAt, look, found, typed>>
    BY <2>2 DEF FindRows, NotCalling
  <2>4. writer'["tab"] = writer["tab"]
    <3>1. \A u \in Writers : u # "page" => writer'[u] = writer[u]
      BY <1>1, <1>7, <2>1, <2>2, FindEffect
    <3> QED
      BY <1>7, <3>1
  <2> QED
    BY <1>4, <2>3, <2>4, LookRests
<1>19. CASE PageChanges
  <2>1. UNCHANGED <<callAt, look, found, typed>>
    BY <1>19 DEF PageChanges, NotCalling
  <2>2. writer'["tab"] = writer["tab"]
    BY <1>1, <1>19, ChangeEffect
  <2> QED
    BY <1>4, <2>1, <2>2, LookRests
<1>20. CASE \E w \in Writers : SaveFails(w) \/ SaveCommits(w)
  <2>1. PICK w \in Writers : SaveFails(w) \/ SaveCommits(w)
    BY <1>20
  <2>2. UNCHANGED <<callAt, look, found, typed>>
    BY <2>1 DEF SaveFails, SaveCommits, NotCalling
  <2>3. Key' = Key
    BY <2>2 DEF Key
  <2>4. /\ writer[w].at = "found" /\ writer'[w].key = writer[w].key /\ writer'[w].env = writer[w].env
        /\ \A u \in Writers : u # w => writer'[u] = writer[u]
    BY <1>1, <2>1, SaveEffect
  <2>5. CASE w = "page"
    BY <1>4, <1>7, <2>2, <2>4, <2>5, LookRests
  <2>6. CASE w = "tab"
    BY <1>1, <2>2, <2>3, <2>4, <2>6 DEF LookInv
  <2> QED
    BY <2>5, <2>6 DEF Writers
<1> QED
  BY <1>9, <1>10, <1>12, <1>13, <1>14, <1>15, <1>16, <1>17, <1>18, <1>19, <1>20 DEF RemoteNext

-----------------------------------------------------------------------------
\* What is known of a key stays while its rows stay.
LEMMA KeyRests ==
  ASSUME remoteLoad' = remoteLoad, NEW k, \A r : r.key = k => (r \in vault' <=> r \in vault)
  PROVE  /\ \A e : IsTyped(k, e) => IsTyped(k, e)'
         /\ \A c : Nothing(k, c) => Nothing(k, c)'
         /\ \A c : KnownAt(k, c) => KnownAt(k, c)'
<1>1. Candidates' = Candidates
  BY CallStays
<1>2. \A e : IsTyped(k, e) => IsTyped(k, e)'
  BY DEF IsTyped
<1>3. \A c : Nothing(k, c)' <=> Nothing(k, c)
  BY <1>1 DEF Nothing
<1>4. \A c : Stored(k, Candidates[c])' = Stored(k, Candidates[c])
  BY <1>1 DEF Stored
<1>5. \A c : KnownAt(k, c) => KnownAt(k, c)'
  BY <1>3, <1>4 DEF KnownAt
<1> QED
  BY <1>2, <1>3, <1>5

\* The rows and the call rest, the tab does not get to its end.
LEMMA TypedRests ==
  ASSUME RemoteInv, UNCHANGED <<remoteLoad, vault, callAt, look, found, typed, rewritten>>,
         writer'["page"].at = writer["page"].at \/ writer["page"].at # "saved",
         writer'["tab"] = writer["tab"] \/ ~writer'["tab"].ok
  PROVE  TypedInv'
<1>1. call' = call /\ DialogEnv' = DialogEnv /\ Candidates' = Candidates
  BY CallStays
<1>2. Key' = Key
  BY <1>1 DEF Key
<1>3. /\ \A k, e : IsTyped(k, e) => IsTyped(k, e)'
      /\ \A k, c : Nothing(k, c) => Nothing(k, c)'
      /\ \A k, c : KnownAt(k, c) => KnownAt(k, c)'
  BY KeyRests
<1>4. PageActsOnce'
  BY DEF PageActsOnce, RemoteInv, TypedInv
<1>5. DialogStores'
  BY <1>1, <1>2, <1>3 DEF DialogStores, RemoteInv, TypedInv
<1>6. LookupFinds'
  BY <1>1, <1>2, <1>3 DEF LookupFinds, RemoteInv, TypedInv
<1>7. TypedFound'
  BY <1>1 DEF TypedFound, RemoteInv, TypedInv
<1>8. FoundAgain'
  BY <1>1, <1>2, <1>3 DEF FoundAgain, RemoteInv, TypedInv
<1> QED
  BY <1>4, <1>5, <1>6, <1>7, <1>8 DEF TypedInv

\* The call leaves its lookups and its dialog.
LEMMA TypedEnds ==
  ASSUME RemoteInv, UNCHANGED <<remoteLoad, rewritten>>, writer'["page"].at = writer["page"].at,
         writer'["tab"] = writer["tab"] \/ writer'["tab"].at = "idle",
         \/ callAt' \in {"prepare", "confirm", "deleting", "refused", "late"}
         \/ callAt' \in {"send", "sent", "finished"} /\ found' = found
            /\ (found = <<>> \/ (typed' = typed /\ callAt \in {"lookup", "dialog", "send", "sent", "finished"}))
  PROVE  TypedInv'
<1>1. call' = call
  BY CallStays
<1>2. PageActsOnce'
  BY DEF PageActsOnce, RemoteInv, TypedInv
<1>3. DialogStores' /\ LookupFinds' /\ FoundAgain'
  BY DEF DialogStores, LookupFinds, FoundAgain
<1>4. TypedFound'
  <2>1. DOMAIN <<>> = {}
    OBVIOUS
  <2> QED
    BY <1>1, <2>1 DEF TypedFound, RemoteInv, TypedInv
<1> QED
  BY <1>2, <1>3, <1>4 DEF TypedInv

\* The page has changed the rows of a key, before which nothing typed had been changed.
LEMMA PageKeepsTyped ==
  ASSUME RemoteInv, UNCHANGED <<remoteLoad, callAt, look, found, typed>>, NEW k, rewritten' = rewritten \cup {k},
         writer["page"].at # "saved", writer'["page"].at = "saved", writer'["tab"] = writer["tab"],
         \A r : r.key # k => (r \in vault' <=> r \in vault)
  PROVE  TypedInv'
<1>1. call' = call /\ DialogEnv' = DialogEnv /\ Candidates' = Candidates
  BY CallStays
<1>2. Key' = Key
  BY <1>1 DEF Key
<1>3. rewritten = {} /\ rewritten' = {k}
  BY DEF RemoteInv, TypedInv, PageActsOnce
<1>4. \A j, e : j # k /\ IsTyped(j, e) => IsTyped(j, e)'
  <2> SUFFICES ASSUME NEW j, NEW e, j # k, IsTyped(j, e)
               PROVE  IsTyped(j, e)'
    OBVIOUS
  <2>1. \A r : r.key = j => (r \in vault' <=> r \in vault)
    OBVIOUS
  <2> QED
    BY <2>1, KeyRests
<1>5. PageActsOnce'
  BY DEF PageActsOnce, RemoteInv, TypedInv
<1>6. DialogStores'
  BY <1>1, <1>2, <1>3, <1>4 DEF DialogStores, RemoteInv, TypedInv
<1>7. LookupFinds'
  <2>1. ASSUME callAt = "lookup", look.place \in typed
        PROVE  look.candidate = 1 /\ IsTyped(Key, DialogEnv)
    BY <1>3, <2>1 DEF LookupFinds, RemoteInv, TypedInv
  <2>2. \A c : c \notin 1 .. 1 - 1
    OBVIOUS
  <2> QED
    BY <1>1, <1>2, <1>3, <1>4, <2>1, <2>2 DEF LookupFinds
<1>8. TypedFound'
  BY <1>1, <1>3 DEF TypedFound, RemoteInv, TypedInv
<1>9. FoundAgain'
  BY <1>1, <1>3 DEF FoundAgain, TypedFound, RemoteInv, TypedInv
<1> QED
  BY <1>5, <1>6, <1>7, <1>8, <1>9 DEF TypedInv

\* What the tab writes for the dialog is what is then found.
LEMMA TabKeepsTyped ==
  ASSUME RemoteInv, SaveCommits("tab")
  PROVE  TypedInv'
<1>1. UNCHANGED <<remoteLoad, callAt, look, found, typed>> /\ rewritten' = rewritten \ {writer["tab"].key}
  BY DEF SaveCommits, NotCalling
<1>2. call' = call /\ DialogEnv' = DialogEnv /\ Candidates' = Candidates
  BY <1>1, CallStays
<1>3. Key' = Key
  BY <1>1, <1>2 DEF Key
<1>4. RemoteTypes /\ VaultInv /\ "tab" \in Writers /\ "page" \in Writers
  BY DEF RemoteInv, Writers
<1>5. writer["tab"].at = "found" /\ writer'["tab"].at = "saved" /\ writer'["page"] = writer["page"]
  BY <1>4, SaveEffect DEF Writers
<1>6. PageActsOnce'
  BY <1>1, <1>5 DEF PageActsOnce, RemoteInv, TypedInv
<1>7. callAt \in {"dialog", "late"}
  BY <1>5 DEF RemoteInv, LookInv
<1>8. CASE callAt = "late"
  BY <1>1, <1>6, <1>8 DEF TypedInv, DialogStores, LookupFinds, TypedFound, FoundAgain
<1>9. CASE callAt = "dialog"
  <2>1. writer["tab"].key = Key /\ writer["tab"].env = DialogEnv
    BY <1>5, <1>9 DEF RemoteInv, LookInv
  <2>2. PICK n : n = NewRow("tab")
    OBVIOUS
  <2>3. /\ n.key = Key /\ n.env = DialogEnv /\ n.active /\ n.value = "typed"
        /\ \A r : r \in vault' <=> (r \in vault /\ r \notin writer["tab"].locked) \/ r = n
        /\ writer["tab"].locked = {} => \A r \in vault : ~(r.key = Key /\ r.env = DialogEnv)
    BY <1>4, <2>1, <2>2, CommitEffect
  <2>4. /\ \A r \in writer["tab"].locked : r.key = Key
        /\ \A r \in vault : r.key = Key /\ r.env \in Envs(DialogEnv) => r \in writer["tab"].locked
    BY <1>4, <1>5, <2>1, <2>3 DEF VaultInv, LocksHold
  <2>5. DialogEnv \in Envs(DialogEnv)
    BY <1>4, TagsApart, CallsAreTyped DEF RemoteTypes
  <2>6. IsTyped(Key, DialogEnv)'
    BY <1>2, <1>3, <2>3, <2>4, <2>5 DEF IsTyped
  <2>7. DialogStores'
    BY <2>6 DEF DialogStores
  <2>8. LookupFinds'
    BY <1>1, <1>9 DEF LookupFinds
  <2>9. \A i \in typed : i \in DOMAIN found /\ found[i] # "typed" => call.keys[i] \in rewritten /\ Key # call.keys[i]
    BY <1>9 DEF RemoteInv, TypedInv, TypedFound, FoundAgain
  <2>10. TypedFound'
    BY <1>1, <1>2, <2>1, <2>9 DEF TypedFound
  <2>11. \A k, c : k # Key /\ KnownAt(k, c) => KnownAt(k, c)'
    <3> SUFFICES ASSUME NEW k, NEW c, k # Key, KnownAt(k, c)
                 PROVE  KnownAt(k, c)'
      OBVIOUS
    <3>1. \A r : r.key = k => (r \in vault' <=> r \in vault)
      BY <2>3, <2>4
    <3> QED
      BY <1>1, <3>1, KeyRests
  <2>12. FoundAgain'
    <3> SUFFICES ASSUME NEW i \in typed, i \in DOMAIN found, found[i] # "typed", NEW k, k = call.keys[i]
                 PROVE  Key # k /\ \E c \in 1 .. Len(Candidates) : KnownAt(k, c)'
      BY <1>1, <1>2, <1>3, <1>9 DEF FoundAgain
    <3>1. Key # k /\ \E c \in 1 .. Len(Candidates) : KnownAt(k, c)
      BY <1>9 DEF RemoteInv, TypedInv, FoundAgain
    <3> QED
      BY <2>11, <3>1
  <2> QED
    BY <1>6, <2>7, <2>8, <2>10, <2>12 DEF TypedInv
<1> QED
  BY <1>7, <1>8, <1>9

\* A lookup finds what was typed and finds again what it found.
LEMMA LookUpKeepsTyped ==
  ASSUME RemoteInv, LookUp
  PROVE  TypedInv'
<1>1. callAt = "lookup" /\ UNCHANGED <<remoteLoad, vault, writer, rewritten, typed>>
  BY LookUpEffect
<1>2. call' = call /\ DialogEnv' = DialogEnv /\ Candidates' = Candidates
  BY <1>1, CallStays
<1>3. /\ \A k, e : IsTyped(k, e) => IsTyped(k, e)'
      /\ \A k, c : Nothing(k, c) => Nothing(k, c)'
      /\ \A k, c : KnownAt(k, c) => KnownAt(k, c)'
  BY <1>1, KeyRests
<1>4. call.tool = "request" /\ remoteLoad \in RemoteLoads /\ RemoteTypes
  BY <1>1 DEF RemoteInv, GateInv, RemoteTypes
<1>5. /\ look.place \in 1 .. Len(call.keys) /\ Len(found) = look.place - 1 /\ look.candidate \in 1 .. Len(Candidates)
      /\ (\A i \in typed : i \in 1 .. look.place) /\ writer["tab"].at = "idle"
  BY <1>1, <1>4 DEF RemoteInv, LookInv
<1>6. Len(Candidates) \in 1 .. 3 /\ Candidates[1] = Envs(DialogEnv)
  BY <1>4, CandidatesStart
<1>7. PageActsOnce'
  BY <1>1 DEF PageActsOnce, RemoteInv, TypedInv
<1>8. DialogStores'
  BY <1>1, <1>5 DEF DialogStores
<1>9. found \in Seq({"old", "typed", "edited"}) /\ DOMAIN found = 1 .. Len(found) /\ look.place \in Nat
  BY <1>4, <1>5 DEF RemoteTypes
<1> DEFINE k == Key
           p == look.place
           n == look.candidate
<1>10. look.place \in typed /\ k \notin rewritten => n = 1 /\ IsTyped(k, DialogEnv)
  BY <1>1 DEF RemoteInv, TypedInv, LookupFinds
<1>11. look.place \in typed => \A c \in 1 .. n - 1 : Nothing(k, c)
  BY <1>1 DEF RemoteInv, TypedInv, LookupFinds
<1>12. \A i \in typed : i \in DOMAIN found => found[i] = "typed" \/ call.keys[i] \in rewritten
  BY <1>1 DEF RemoteInv, TypedInv, TypedFound
<1>13. \A i \in typed : i \in DOMAIN found /\ found[i] # "typed" =>
         \E c \in 1 .. Len(Candidates) : KnownAt(call.keys[i], c) /\ (k = call.keys[i] => n <= c)
  BY <1>1 DEF RemoteInv, TypedInv, FoundAgain
<1>14. IsTyped(k, DialogEnv) => ~Nothing(k, 1)
  BY <1>6 DEF IsTyped, Nothing
<1>15. n \in Nat /\ p \in Nat /\ n \in 1 .. Len(Candidates) /\ k = call.keys[p]
  BY <1>5, <1>6, <1>9 DEF Key
<1> HIDE DEF k, p, n
<1>16. CASE /\ Nothing(Key, look.candidate) /\ look.candidate < Len(Candidates) /\ callAt' = callAt /\ found' = found
            /\ look' = [place |-> look.place, candidate |-> look.candidate + 1, again |-> look.again]
  <2>1. look'.place = p /\ look'.candidate = n + 1 /\ Nothing(k, n)
    BY <1>16 DEF k, p, n
  <2>2. Key' = k
    BY <1>2, <2>1 DEF Key, k, p
  <2>3. p \in typed => k \in rewritten
    BY <1>10, <1>14, <2>1 DEF p
  <2>4. \A c \in 1 .. n : c \in 1 .. n - 1 \/ c = n
    BY <1>15
  <2>5. p \in typed => \A c \in 1 .. n : Nothing(k, c)
    BY <1>11, <2>1, <2>4 DEF p
  <2>6. 1 .. look'.candidate - 1 = 1 .. n
    BY <1>15, <2>1
  <2>7. LookupFinds'
    BY <1>1, <1>3, <2>1, <2>2, <2>3, <2>5, <2>6 DEF LookupFinds
  <2>8. TypedFound'
    BY <1>1, <1>2, <1>12, <1>16 DEF TypedFound
  <2>9. ASSUME NEW i \in typed, i \in DOMAIN found, found[i] # "typed", NEW j, j = call.keys[i]
        PROVE  \E c \in 1 .. Len(Candidates) : KnownAt(j, c)' /\ (k = j => n + 1 <= c)
    <3>1. PICK c \in 1 .. Len(Candidates) : KnownAt(j, c) /\ (k = j => n <= c)
      BY <1>13, <2>9
    <3>2. k = j => c # n
      BY <2>1, <3>1 DEF KnownAt
    <3>3. k = j => n + 1 <= c
      BY <1>15, <3>1, <3>2
    <3> QED
      BY <1>3, <3>1, <3>3
  <2>10. FoundAgain'
    <3> SUFFICES ASSUME NEW i \in typed, i \in DOMAIN found, found[i] # "typed", NEW j, j = call.keys[i]
                 PROVE  \E c \in 1 .. Len(Candidates) : KnownAt(j, c)' /\ (k = j => look'.candidate <= c)
      BY <1>1, <1>2, <1>16, <2>2 DEF FoundAgain
    <3> QED
      BY <2>1, <2>9
  <2> QED
    BY <1>7, <1>8, <2>7, <2>8, <2>10 DEF TypedInv
<1>17. CASE callAt' = "refused"
  BY <1>1, <1>17, TypedEnds
<1>18. CASE /\ look' = look /\ found' = found /\ callAt' = "dialog"
            /\ \/ Nothing(Key, look.candidate) /\ look.candidate = Len(Candidates)
               \/ ~Nothing(Key, look.candidate) /\ Preferred(Stored(Key, Candidates[look.candidate])).value = "corrupt"
  <2>1. \/ Nothing(k, n) /\ n = Len(Candidates)
        \/ ~Nothing(k, n) /\ Preferred(Stored(k, Candidates[n])).value = "corrupt"
    BY <1>18 DEF k, n
  <2>2. Key' = k
    BY <1>2, <1>18 DEF Key, k
  <2>3. LookupFinds'
    BY <1>18 DEF LookupFinds
  <2>4. TypedFound'
    BY <1>1, <1>2, <1>12, <1>18 DEF TypedFound
  <2>5. ASSUME NEW i \in typed, i \in DOMAIN found, found[i] # "typed", NEW j, j = call.keys[i]
        PROVE  k # j /\ \E c \in 1 .. Len(Candidates) : KnownAt(j, c)'
    <3>1. PICK c \in 1 .. Len(Candidates) : KnownAt(j, c) /\ (k = j => n <= c)
      BY <1>13, <2>5
    <3>2. ASSUME k = j
          PROVE  FALSE
      <4>1. c = n \/ n \in 1 .. c - 1
        BY <1>6, <1>15, <3>1, <3>2
      <4>2. ~Nothing(k, c) /\ Preferred(Stored(k, Candidates[c])).value # "corrupt" /\ \A d \in 1 .. c - 1 : Nothing(k, d)
        BY <3>1, <3>2 DEF KnownAt
      <4>3. n = Len(Candidates) => c = n
        BY <1>6, <1>15, <3>1, <3>2
      <4> QED
        BY <2>1, <4>1, <4>2, <4>3
    <3> QED
      BY <1>3, <3>1, <3>2
  <2>6. FoundAgain'
    <3> SUFFICES ASSUME NEW i \in typed, i \in DOMAIN found, found[i] # "typed", NEW j, j = call.keys[i]
                 PROVE  k # j /\ \E c \in 1 .. Len(Candidates) : KnownAt(j, c)'
      BY <1>1, <1>2, <1>18, <2>2 DEF FoundAgain
    <3> QED
      BY <2>5
  <2> QED
    BY <1>7, <1>8, <2>3, <2>4, <2>6 DEF TypedInv
<1>19. ASSUME NEW r \in vault, r = Preferred(Stored(Key, Candidates[look.candidate])), r.value # "corrupt", r.key = Key,
              r.env \in Candidates[look.candidate], r.active, found' = Append(found, r.value),
              ~Nothing(Key, look.candidate),
              \/ callAt' = "send"
              \/ callAt' = callAt /\ look' = [place |-> look.place + 1, candidate |-> 1, again |-> FALSE]
       PROVE  TypedInv'
  <2>1. r.value \in {"old", "typed", "edited"}
    BY <1>4, <1>19 DEF RemoteTypes, VaultRows
  <2>2. /\ DOMAIN found' = 1 .. p /\ found'[p] = r.value
        /\ \A i \in 1 .. p - 1 : i \in DOMAIN found /\ found'[i] = found[i]
    BY <1>5, <1>9, <1>15, <1>19, <2>1 DEF p
  <2>3. \A i \in 1 .. p : i = p \/ i \in 1 .. p - 1
    BY <1>15
  <2>4. p \in typed /\ k \notin rewritten => r.value = "typed"
    BY <1>6, <1>10, <1>19 DEF IsTyped, k, p, n
  <2>5. \A i \in typed : i \in DOMAIN found' => found'[i] = "typed" \/ call.keys[i] \in rewritten
    BY <1>12, <1>15, <2>2, <2>3, <2>4
  <2>6. TypedFound'
    BY <1>1, <1>2, <2>5 DEF TypedFound
  <2>7. CASE callAt' = "send"
    <3>1. LookupFinds' /\ FoundAgain'
      BY <2>7 DEF LookupFinds, FoundAgain
    <3> QED
      BY <1>7, <1>8, <2>6, <3>1 DEF TypedInv
  <2>8. CASE callAt' = callAt /\ look' = [place |-> look.place + 1, candidate |-> 1, again |-> FALSE]
    <3>1. look'.place = p + 1 /\ look'.candidate = 1
      BY <2>8 DEF p
    <3>2. look'.place \notin typed'
      BY <1>1, <1>5, <1>15, <3>1 DEF p
    <3>3. LookupFinds'
      BY <3>2 DEF LookupFinds
    <3>4. p \in typed => KnownAt(k, n)
      BY <1>11, <1>19 DEF KnownAt, k, n, p
    <3>5. ASSUME NEW i \in typed, i \in DOMAIN found', found'[i] # "typed", NEW j, j = call.keys[i]
          PROVE  \E c \in 1 .. Len(Candidates) : KnownAt(j, c)' /\ 1 <= c
      <4>1. CASE i = p
        BY <1>3, <1>15, <3>4, <3>5, <4>1
      <4>2. CASE i # p
        <5>1. i \in DOMAIN found /\ found[i] # "typed"
          BY <2>2, <2>3, <3>5, <4>2
        <5>2. PICK c \in 1 .. Len(Candidates) : KnownAt(j, c)
          BY <1>13, <3>5, <5>1
        <5>3. 1 <= c
          BY <1>6, <5>2
        <5> QED
          BY <1>3, <5>2, <5>3
      <4> QED
        BY <4>1, <4>2
    <3>6. FoundAgain'
      <4> SUFFICES ASSUME NEW i \in typed, i \in DOMAIN found', found'[i] # "typed", NEW j, j = call.keys[i]
                   PROVE  \E c \in 1 .. Len(Candidates) : KnownAt(j, c)' /\ look'.candidate <= c
        BY <1>1, <1>2, <2>8 DEF FoundAgain
      <4> QED
        BY <3>1, <3>5
    <3> QED
      BY <1>7, <1>8, <2>6, <3>3, <3>6 DEF TypedInv
  <2> QED
    BY <1>19, <2>7, <2>8
<1>20. \/ /\ Nothing(Key, look.candidate) /\ look.candidate < Len(Candidates) /\ callAt' = callAt /\ found' = found
          /\ look' = [place |-> look.place, candidate |-> look.candidate + 1, again |-> look.again]
       \/ callAt' = "refused"
       \/ /\ look' = look /\ found' = found /\ callAt' = "dialog"
          /\ \/ Nothing(Key, look.candidate) /\ look.candidate = Len(Candidates)
             \/ ~Nothing(Key, look.candidate) /\ Preferred(Stored(Key, Candidates[look.candidate])).value = "corrupt"
       \/ \E r \in vault :
            /\ r = Preferred(Stored(Key, Candidates[look.candidate])) /\ r.value # "corrupt" /\ r.key = Key
            /\ r.env \in Candidates[look.candidate] /\ r.active /\ found' = Append(found, r.value)
            /\ ~Nothing(Key, look.candidate)
            /\ \/ callAt' = "send"
               \/ callAt' = callAt /\ look' = [place |-> look.place + 1, candidate |-> 1, again |-> FALSE]
  BY LookUpEffect
<1> QED
  BY <1>16, <1>17, <1>18, <1>19, <1>20

\* The answer leads to a lookup of what is stored.
LEMMA AnswerKeepsTyped ==
  ASSUME RemoteInv, TabResolves
  PROVE  TypedInv'
<1>1. RemoteTypes /\ UNCHANGED <<remoteLoad, found, vault, rewritten>>
  BY AnswerEffect DEF RemoteInv
<1>2. call' = call /\ DialogEnv' = DialogEnv /\ Candidates' = Candidates
  BY <1>1, CallStays
<1>3. writer["tab"].at = "saved" /\ writer'["tab"].at = "idle" /\ writer'["page"] = writer["page"]
  BY <1>1, ResolveEffect
<1>4. callAt \in {"dialog", "late"} /\ (call.tool # "request" => found = <<>>)
  BY <1>3 DEF RemoteInv, LookInv
<1>5. CASE callAt' = callAt /\ callAt # "dialog"
  BY <1>1, <1>3, <1>4, <1>5, TypedEnds
<1>6. CASE callAt = "dialog" /\ callAt' = "refused"
  BY <1>1, <1>3, <1>6, TypedEnds
<1>7. CASE callAt = "dialog" /\ callAt' = "finished" /\ call.tool = "save"
  BY <1>1, <1>3, <1>4, <1>7, TypedEnds
<1>8. CASE /\ callAt = "dialog" /\ call.tool # "save" /\ writer["tab"].ok /\ callAt' = "lookup"
           /\ typed' = typed \cup {look.place} /\ look' = [place |-> look.place, candidate |-> 1, again |-> TRUE]
  <2>1. look'.place = look.place /\ look'.candidate = 1
    BY <1>8
  <2>2. Key' = Key
    BY <1>2, <2>1 DEF Key
  <2>3. call.tool = "request"
    BY <1>8 DEF RemoteInv, GateInv, RemoteTypes
  <2>4. Len(found) = look.place - 1 /\ look.place \in 1 .. Len(call.keys) /\ found \in Seq({"old", "typed", "edited"})
    BY <1>8, <2>3 DEF RemoteInv, LookInv, RemoteTypes
  <2>5. look.place \notin DOMAIN found
    BY <2>4
  <2>6. Key \notin rewritten => IsTyped(Key, DialogEnv)
    BY <1>3, <1>8 DEF RemoteInv, TypedInv, DialogStores
  <2>7. /\ \A k, e : IsTyped(k, e) => IsTyped(k, e)'
        /\ \A k, c : KnownAt(k, c) => KnownAt(k, c)'
    BY <1>1, KeyRests
  <2>8. PageActsOnce'
    BY <1>1, <1>3 DEF PageActsOnce, RemoteInv, TypedInv
  <2>9. DialogStores'
    BY <1>8 DEF DialogStores
  <2>10. \A c : c \notin 1 .. 1 - 1
    OBVIOUS
  <2>11. LookupFinds'
    BY <1>1, <1>2, <2>1, <2>2, <2>6, <2>7, <2>10 DEF LookupFinds
  <2>12. TypedFound'
    BY <1>1, <1>2, <1>8, <2>5 DEF TypedFound, RemoteInv, TypedInv
  <2>13. FoundAgain'
    <3> SUFFICES ASSUME NEW i \in typed, i \in DOMAIN found, found[i] # "typed", NEW j, j = call.keys[i]
                 PROVE  Key # j /\ \E c \in 1 .. Len(Candidates) : KnownAt(j, c)'
      BY <1>1, <1>2, <1>8, <2>2, <2>5 DEF FoundAgain
    <3>1. Key # j /\ \E c \in 1 .. Len(Candidates) : KnownAt(j, c)
      BY <1>8 DEF RemoteInv, TypedInv, FoundAgain
    <3> QED
      BY <2>7, <3>1
  <2> QED
    BY <2>8, <2>9, <2>11, <2>12, <2>13 DEF TypedInv
<1> QED
  BY <1>1, <1>5, <1>6, <1>7, <1>8, AnswerEffect

LEMMA TypedStep ==
  ASSUME RemoteInv, RemoteNext
  PROVE  TypedInv'
<1>1. RemoteTypes /\ remoteLoad \in RemoteLoads /\ "tab" \in Writers /\ "page" \in Writers
  BY DEF RemoteInv, RemoteTypes, Writers
\* Before anything is looked up there is nothing typed and no dialog.
<1>2. ASSUME callAt \in {"prepare", "confirm", "deleting"}, UNCHANGED <<remoteLoad, look, found, typed, writer, rewritten>>
      PROVE  TypedInv'
  <2>1. typed' = {} /\ writer'["tab"].at = "idle"
    BY <1>2 DEF RemoteInv, LookInv
  <2>2. PageActsOnce'
    BY <1>2 DEF PageActsOnce, RemoteInv, TypedInv
  <2>3. DialogStores' /\ LookupFinds' /\ TypedFound' /\ FoundAgain'
    BY <2>1 DEF DialogStores, LookupFinds, TypedFound, FoundAgain
  <2> QED
    BY <2>2, <2>3 DEF TypedInv
<1>3. CASE Prepare
  <2>1. callAt = "prepare" /\ UNCHANGED <<remoteLoad, look, found, typed, writer, rewritten>>
    BY <1>1, <1>3, PrepareEffect DEF GateVars
  <2> QED
    BY <1>2, <2>1
<1>4. CASE Allow
  <2>1. callAt = "confirm" /\ UNCHANGED <<remoteLoad, look, found, typed, writer, rewritten>>
    BY <1>4, AllowEffect DEF GateVars
  <2> QED
    BY <1>2, <2>1
<1>5. CASE Decline
  <2>1. UNCHANGED <<remoteLoad, rewritten, writer>> /\ callAt' \in {"late", "refused"}
    BY <1>5 DEF Decline, Keeping, CallGoesTo
  <2> QED
    BY <2>1, TypedEnds
<1>6. CASE VaultDeletes
  <2>1. callAt = "deleting" /\ UNCHANGED <<remoteLoad, look, found, typed, writer, rewritten>>
    BY <1>6 DEF VaultDeletes
  <2> QED
    BY <1>2, <2>1
<1>7. CASE Send \/ Receive
  <2>1. UNCHANGED <<remoteLoad, rewritten, writer, found, typed>> /\ callAt \in {"send", "sent"}
        /\ callAt' \in {"refused", "sent", "finished"}
    BY <1>7 DEF Send, Receive, Keeping, CallGoesTo
  <2> QED
    BY <2>1, TypedEnds
<1>8. CASE TabAnswers
  <2>1. Key \in {1, 2} /\ DialogEnv \in Tags /\ FindRows("tab", Key, DialogEnv)
    BY <1>8, KeyIsTyped DEF TabAnswers
  <2>2. UNCHANGED <<remoteLoad, vault, callAt, look, found, typed, rewritten>>
    BY <2>1 DEF FindRows, NotCalling
  <2>3. ~writer'["tab"].ok /\ \A u \in Writers : u # "tab" => writer'[u] = writer[u]
    BY <1>1, <2>1, FindEffect
  <2>4. writer'["page"] = writer["page"]
    BY <1>1, <2>3
  <2> QED
    BY <2>2, <2>3, <2>4, TypedRests
<1>9. CASE PageCreates
  <2>1. {"", "uat", "user"} \subseteq Tags /\ 1 \in {1, 2}
    BY DEF Tags, RowKeys
  <2>2. PICK e \in Tags : FindRows("page", 1, e)
    BY <1>9, <2>1 DEF PageCreates
  <2>3. UNCHANGED <<remoteLoad, vault, callAt, look, found, typed, rewritten>> /\ writer["page"].at # "saved"
    BY <1>9, <2>2 DEF FindRows, NotCalling, PageCreates
  <2>4. \A u \in Writers : u # "page" => writer'[u] = writer[u]
    BY <1>1, <2>1, <2>2, FindEffect
  <2>5. writer'["tab"] = writer["tab"]
    BY <1>1, <2>4
  <2> QED
    BY <2>3, <2>5, TypedRests
<1>10. CASE PageChanges
  <2>1. PICK r : ChangedRow(r)
    BY <1>1, <1>10, ChangeEffect
  <2>2. /\ writer["page"].at = "idle" /\ writer'["page"].at = "saved" /\ writer'["tab"] = writer["tab"]
        /\ UNCHANGED <<remoteLoad, callAt, look, found, typed>>
    BY <1>1, <1>10, ChangeEffect DEF PageChanges, NotCalling
  <2>3. rewritten' = rewritten \cup {r.key} /\ \A q : q.key # r.key => (q \in vault' <=> q \in vault)
    BY <2>1 DEF ChangedRow
  <2> QED
    BY <2>2, <2>3, PageKeepsTyped
<1>11. ASSUME NEW w \in Writers, SaveFails(w)
       PROVE  TypedInv'
  <2>1. UNCHANGED <<remoteLoad, vault, callAt, look, found, typed, rewritten>>
    BY <1>11 DEF SaveFails, NotCalling
  <2>2. writer[w].at = "found" /\ (writer'[w].ok => SaveCommits(w) \/ writer[w].ok)
        /\ \A u \in Writers : u # w => writer'[u] = writer[u]
    BY <1>1, <1>11, SaveEffect
  <2>3. CASE w = "page"
    <3>1. writer'["tab"] = writer["tab"] /\ writer["page"].at # "saved"
      BY <1>1, <2>2, <2>3
    <3> QED
      BY <2>1, <3>1, TypedRests
  <2>4. CASE w = "tab"
    <3>1. writer'["page"] = writer["page"]
      BY <1>1, <2>2, <2>4
    <3>2. writer'[w] = [writer[w] EXCEPT !.at = "saved", !.locked = {}]
      BY <1>1, <1>11 DEF SaveFails, RemoteTypes
    <3>3. writer[w] \in WriterStates
      BY <1>1 DEF RemoteTypes
    <3>4. writer'[w].ok = writer[w].ok
      BY <3>2, <3>3 DEF WriterStates
    <3>5. ~writer[w].ok
      BY <2>2, <2>4 DEF RemoteInv, TypedInv, PageActsOnce
    <3> QED
      BY <2>1, <2>4, <3>1, <3>4, <3>5, TypedRests
  <2> QED
    BY <2>3, <2>4 DEF Writers
<1>12. CASE SaveCommits("page")
  <2>1. UNCHANGED <<remoteLoad, callAt, look, found, typed>> /\ rewritten' = rewritten \cup {writer["page"].key}
    BY <1>12 DEF SaveCommits, NotCalling
  <2>2. writer["page"].at = "found" /\ writer'["page"].at = "saved" /\ \A u \in Writers : u # "page" => writer'[u] = writer[u]
    BY <1>1, <1>12, SaveEffect
  <2>3. writer'["tab"] = writer["tab"]
    BY <1>1, <2>2
  <2>4. PICK n, k : n = NewRow("page") /\ k = writer["page"].key
    OBVIOUS
  <2>5. n.key = k /\ \A r : r \in vault' <=> (r \in vault /\ r \notin writer["page"].locked) \/ r = n
    BY <1>1, <1>12, <2>4, CommitEffect
  <2>6. \A r \in writer["page"].locked : r.key = k
    BY <1>1, <2>4 DEF RemoteInv, VaultInv, LocksHold
  <2>7. \A r : r.key # k => (r \in vault' <=> r \in vault)
    BY <2>5, <2>6
  <2> QED
    BY <2>1, <2>2, <2>3, <2>4, <2>7, PageKeepsTyped
<1>13. CASE \E w \in Writers : SaveFails(w) \/ SaveCommits(w)
  BY <1>11, <1>12, <1>13, TabKeepsTyped DEF Writers
<1> QED
  BY <1>3, <1>4, <1>5, <1>6, <1>7, <1>8, <1>9, <1>10, <1>13, LookUpKeepsTyped, AnswerKeepsTyped DEF RemoteNext

-----------------------------------------------------------------------------
\* A mask leaves nothing of credentials that are quoted whole.
LEMMA MaskHides ==
  ASSUME NEW text \in Seq({"x", "s", "t"}),
         \A i \in DOMAIN text : text[i] = "x" \/ Secret(text, i) \/ Secret(text, i - 1)
  PROVE  /\ Masked(text) \in Seq({"x", "s", "t", "mask"})
         /\ \A i \in DOMAIN Masked(text) : Masked(text)[i] \notin {"s", "t"}
<1>1. DOMAIN text = 1 .. Len(text) /\ Len(text) \in Nat /\ \A i \in 1 .. Len(text) : text[i] \in {"x", "s", "t"}
  OBVIOUS
<1>2. /\ DOMAIN Masked(text) = 1 .. Len(text)
      /\ \A i \in 1 .. Len(text) :
           Masked(text)[i] = IF Secret(text, i) \/ Secret(text, i - 1) THEN "mask" ELSE text[i]
  BY <1>1 DEF Masked
<1>3. Masked(text) \in [1 .. Len(text) -> {"x", "s", "t", "mask"}]
  BY <1>1 DEF Masked
<1>4. Masked(text) \in Seq({"x", "s", "t", "mask"})
  BY <1>1, <1>3
<1>5. \A i \in 1 .. Len(text) : Masked(text)[i] \in {"mask", "x"}
  BY <1>1, <1>2
<1> QED
  BY <1>2, <1>4, <1>5

\* A text without a part of a credential is cut to one.
LEMMA CutHides ==
  ASSUME NEW text \in Seq({"x", "s", "t", "mask"}), \A i \in DOMAIN text : text[i] \notin {"s", "t"}
  PROVE  \A i \in DOMAIN Cut(text) : Cut(text)[i] \notin {"s", "t"}
<1> DEFINE n == IF Len(text) < MaxChars THEN Len(text) ELSE MaxChars
<1>1. n \in 0 .. Len(text) /\ DOMAIN text = 1 .. Len(text)
  BY RemoteAssumption
<1>2. Cut(text) = SubSeq(text, 1, n)
  BY DEF Cut
<1> HIDE DEF n
<1>3. DOMAIN SubSeq(text, 1, n) = 1 .. n /\ \A i \in 1 .. n : SubSeq(text, 1, n)[i] = text[i] /\ i \in DOMAIN text
  BY <1>1
<1> QED
  BY <1>2, <1>3

LEMMA ReplyStep ==
  ASSUME RemoteInv, RemoteNext
  PROVE  RepliesAreMasked'
<1>1. CASE Receive
  <2>1. PICK reply \in CallReplies :
          /\ found = <<>> => \A i \in DOMAIN reply.text : reply.text[i] = "x"
          /\ shown' = CASE reply.kind = "tooLarge" -> <<>>
                        [] reply.kind = "broken" -> IF found = <<>> THEN reply.text ELSE Masked(reply.text)
                        [] reply.kind = "answer" -> IF call.mode = "status" THEN <<>> ELSE ShownOf(reply.text)
    BY <1>1 DEF Receive
  <2> DEFINE text == reply.text
             full == IF found = <<>> THEN text ELSE Masked(text)
  <2>2. /\ reply.kind \in {"answer", "broken", "tooLarge"} /\ text \in Seq({"x", "s", "t"})
        /\ \A i \in DOMAIN text : text[i] = "x" \/ Secret(text, i) \/ Secret(text, i - 1)
    BY RemoteAssumption
  <2>3. found = <<>> => \A i \in DOMAIN text : text[i] = "x"
    BY <2>1
  <2>4. shown' = <<>> \/ shown' = full \/ shown' = Cut(full)
    BY <2>1, <2>2 DEF ShownOf
  <2> HIDE DEF text
  <2>5. full \in Seq({"x", "s", "t", "mask"}) /\ \A i \in DOMAIN full : full[i] \notin {"s", "t"}
    <3>1. CASE found = <<>>
      BY <2>2, <2>3, <3>1
    <3>2. CASE found # <<>>
      BY <2>2, <3>2, MaskHides
    <3> QED
      BY <3>1, <3>2
  <2> HIDE DEF full
  <2>6. \A i \in DOMAIN Cut(full) : Cut(full)[i] \notin {"s", "t"}
    BY <2>5, CutHides
  <2>7. DOMAIN <<>> = {}
    OBVIOUS
  <2> QED
    BY <2>4, <2>5, <2>6, <2>7 DEF RepliesAreMasked
<1>2. CASE ~Receive
  <2>1. shown' = shown
    BY <1>2, PrepareEffect, AllowEffect, LookUpEffect
       DEF RemoteInv, RemoteTypes, RemoteNext, GateVars, Decline, Send, TabResolves, TabAnswers, PageCreates, PageChanges,
           VaultDeletes, SaveFails, SaveCommits, FindRows, Keeping, NotCalling
  <2> QED
    BY <2>1 DEF RemoteInv, RepliesAreMasked
<1> QED
  BY <1>1, <1>2

LEMMA RemoteStepKeeps ==
  ASSUME RemoteInv, [RemoteNext]_remoteVars
  PROVE  RemoteInv'
<1>1. CASE RemoteNext
  BY <1>1, RemoteTypesStep, GateStep, VaultStep, LookStep, TypedStep, ReplyStep DEF RemoteInv
<1>2. CASE UNCHANGED remoteVars
  <2>1. UNCHANGED <<remoteLoad, vault, callAt, agreed, look, found, typed, writer, rewritten, stored, request, shown>>
    BY <1>2 DEF remoteVars
  <2>2. call' = call /\ Env' = Env /\ NeedsConfirmation' = NeedsConfirmation /\ BodyForm' = BodyForm /\ Carries' = Carries
    BY <2>1, CallStays
  <2>3. RemoteTypes'
    BY <2>1 DEF RemoteInv, RemoteTypes
  <2>4. GateInv'
    BY <2>1, <2>2 DEF RemoteInv, GateInv, IsSent
  <2>5. VaultInv'
    BY <2>1, VaultRests DEF RemoteInv
  <2>6. LookInv'
    BY <2>1, LookRests
  <2>7. TypedInv'
    BY <2>1, TypedRests
  <2>8. RepliesAreMasked'
    BY <2>1 DEF RemoteInv, RepliesAreMasked
  <2> QED
    BY <2>3, <2>4, <2>5, <2>6, <2>7, <2>8 DEF RemoteInv
<1> QED
  BY <1>1, <1>2

\* What the invariant says of a call.
LEMMA CallsAreSound ==
  ASSUME RemoteInv
  PROVE  SentAsAgreed /\ TypedIsUsed /\ OneRowIsLeft /\ RequestIsWhole /\ RepliesAreMasked
<1>1. ASSUME IsSent
      PROVE  /\ call.tool = "request" /\ callAt \in {"sent", "finished"} /\ request.form = BodyForm
             /\ request.files = (IF BodyForm = "multipart" THEN call.files ELSE <<>>) /\ request.carries = Carries
             /\ request.using = found /\ request.env = Env /\ request.method = call.method
  BY <1>1 DEF RemoteInv, GateInv
<1>2. SentAsAgreed
  <2> SUFFICES ASSUME IsSent, request.env = "prd" \/ (~call.quiet /\ (request.method = "POST" \/ Forced))
               PROVE  agreed.yes /\ agreed.env = request.env /\ agreed.method = request.method
    BY DEF SentAsAgreed
  <2>1. NeedsConfirmation
    BY <1>1 DEF NeedsConfirmation, Writes
  <2> QED
    BY <1>1, <2>1 DEF RemoteInv, GateInv
<1>3. TypedIsUsed
  BY <1>1 DEF TypedIsUsed, RemoteInv, TypedInv, TypedFound
<1>4. OneRowIsLeft
  <2> SUFFICES ASSUME NEW s \in stored
               PROVE  Cardinality(Rows(s[1], s[2])) <= 1 /\ \A r \in Rows(s[1], s[2]) : r.active
    BY DEF OneRowIsLeft
  <2> DEFINE R == Rows(s[1], s[2])
  <2>1. \A r \in R : r.active /\ \A q \in R : q = r
    BY DEF RemoteInv, VaultInv, StoredIsOne, Rows
  <2> HIDE DEF R
  <2>2. Cardinality(R) <= 1
    <3>1. CASE R = {}
      BY <3>1, FS_EmptySet
    <3>2. CASE R # {}
      <4>1. PICK r : R = {r}
        BY <2>1, <3>2
      <4>2. Cardinality(R) = 1
        BY <4>1, FS_Singleton
      <4> QED
        BY <4>2
    <3> QED
      BY <3>1, <3>2
  <2> QED
    BY <2>1, <2>2 DEF R
<1>5. RequestIsWhole
  <2> SUFFICES ASSUME IsSent
               PROVE  /\ request.files = (IF HasFiles THEN call.files ELSE <<>>)
                      /\ found # <<>> /\ (Writes \/ call.auth # "body_field") => request.carries
    BY DEF RequestIsWhole
  <2>1. HasFiles <=> BodyForm = "multipart"
    BY DEF BodyForm
  <2>2. found # <<>> /\ (Writes \/ call.auth # "body_field") => Carries
    BY DEF Carries, BodyForm, InBody
  <2> QED
    BY <1>1, <2>1, <2>2
<1> QED
  BY <1>2, <1>3, <1>4, <1>5 DEF RemoteInv

\* A call of a customer's service leaves as the user agreed, with the credential that he typed for
\* it and all of its files; a save leaves one row; the answer shows no part of a credential.
THEOREM RemoteCallsStaySound ==
  RemoteInit /\ [][RemoteNext]_remoteVars
    => [](SentAsAgreed /\ TypedIsUsed /\ OneRowIsLeft /\ RequestIsWhole /\ RepliesAreMasked)
<1>1. RemoteInit => RemoteInv
  BY RemoteInitKeeps
<1>2. RemoteInv /\ [RemoteNext]_remoteVars => RemoteInv'
  BY RemoteStepKeeps
<1>3. RemoteInv => SentAsAgreed /\ TypedIsUsed /\ OneRowIsLeft /\ RequestIsWhole /\ RepliesAreMasked
  BY CallsAreSound
<1> QED
  BY <1>1, <1>2, <1>3, PTL

-----------------------------------------------------------------------------
(***************************************************************************)
(* All parts (MCWorkspace)                                                 *)
(***************************************************************************)
KeptInv == SkillInv /\ KnowInv /\ GitInv /\ RemoteInv /\ MemoryInv /\ SpecInv /\ ToolInv

\* Each part moves by itself or stays.
LEMMA PartsMove ==
  ASSUME [WorkspaceNext]_workspaceVars
  PROVE  /\ [SkillNext]_skillVars /\ [KnowledgeNext]_knowledgeVars /\ [GitNext]_gitVars /\ [RemoteNext]_remoteVars
         /\ [MemoryNext]_memoryVars /\ [SpecNext]_specVars /\ [ToolNext]_toolVars
<1>1. CASE UNCHANGED workspaceVars
  BY <1>1 DEF workspaceVars
<1>2. CASE Apart("messages") /\ RequestNext
  BY <1>2 DEF Apart
<1>3. CASE Apart("replies") /\ ReplyNext
  BY <1>3 DEF Apart
<1>4. CASE Apart("skills") /\ SkillNext
  BY <1>4 DEF Apart
<1>5. CASE Apart("knowledge") /\ KnowledgeNext
  BY <1>5 DEF Apart
<1>6. CASE Apart("git") /\ GitNext
  BY <1>6 DEF Apart
<1>7. CASE Apart("calls") /\ RemoteNext
  BY <1>7 DEF Apart
<1>8. CASE Apart("memories") /\ MemoryNext
  BY <1>8 DEF Apart
<1>9. CASE Apart("specs") /\ SpecNext
  BY <1>9 DEF Apart
<1>10. CASE Apart("scripts") /\ ToolNext
  BY <1>10 DEF Apart
<1> QED
  BY <1>1, <1>2, <1>3, <1>4, <1>5, <1>6, <1>7, <1>8, <1>9, <1>10 DEF WorkspaceNext

\* What a project keeps beside its conversations stays kept, part by part, for any loads of tasks,
\* calls, edits, runs and mishaps (skills, knowledge, clones, calls to other services, memories,
\* spec runs, scripts).
THEOREM BooksStayKept == WorkspaceSpec => []BooksAreKept
<1>1. ASSUME WorkspaceInit
      PROVE  KeptInv
  <2>1. SkillInit /\ KnowledgeInit /\ GitInit /\ RemoteInit /\ MemoryInit /\ SpecInit /\ ToolInit
    BY <1>1 DEF WorkspaceInit
  <2> QED
    BY <2>1, SkillInitKeeps, KnowInitKeeps, GitInitKeeps, RemoteInitKeeps, MemoryInitKeeps, SpecInitKeeps,
       ToolInitKeeps DEF KeptInv
<1>2. ASSUME KeptInv, [WorkspaceNext]_workspaceVars
      PROVE  KeptInv'
  <2>1. SkillInv'
    BY <1>2, PartsMove, SkillStepKeeps DEF KeptInv
  <2>2. KnowInv'
    BY <1>2, PartsMove, KnowStepKeeps DEF KeptInv
  <2>3. GitInv'
    BY <1>2, PartsMove, GitStepKeeps DEF KeptInv
  <2>4. MemoryInv'
    BY <1>2, PartsMove, MemoryStepKeeps DEF KeptInv
  <2>5. SpecInv'
    BY <1>2, PartsMove, SpecStepKeeps DEF KeptInv
  <2>6. ToolInv'
    BY <1>2, PartsMove, ToolStepKeeps, ToolStutterKeeps DEF KeptInv
  <2>7. RemoteInv'
    BY <1>2, PartsMove, RemoteStepKeeps DEF KeptInv
  <2> QED
    BY <2>1, <2>2, <2>3, <2>4, <2>5, <2>6, <2>7 DEF KeptInv
<1>3. KeptInv => BooksAreKept
  BY SkillsAreSound, KnowledgeIsSound, GitIsSound, CallsAreSound, MemoriesAreSound, SpecsAreSound, ToolsAreSound
     DEF KeptInv, BooksAreKept
<1> QED
  BY <1>1, <1>2, <1>3, PTL DEF WorkspaceSpec
=============================================================================
