------------------------------ MODULE RemoteCalls ------------------------------
(***************************************************************************)
(* One call of a customer's HTTP API (tools/api_request.py) or of the      *)
(* user's key vault (tools/secret_vault.py): checks, the confirmation, the *)
(* credentials and the dialogs that ask for missing ones, the request and  *)
(* what the model is shown of the reply.  Beside it the user's tab stores  *)
(* what he types and the settings page changes the same rows.              *)
(***************************************************************************)
EXTENDS Naturals, Sequences, FiniteSets

CONSTANTS
  RemoteLoads,    \* bound: the call, the stored rows, what the page does; see RemoteAssumption
  CallReplies,    \* bound: what the other side answers: its kind, the pieces of its text
  MaxChars,       \* the pieces of a text that the model is shown
  MaxFileSize, MaxInlineSize, MaxFiles

Environments == {"none", "uat", "prd"}
\* The environment of a row: "null" is an untagged row of an older version, "user" a user's token.
RowKeys == {"null", "", "uat", "prd", "user"}
Uploads == [source : {"path", "attachment", "inline"}, size : Nat, hidden : BOOLEAN, there : BOOLEAN]
CallForms ==
  [tool : {"request", "save", "delete"}, endpoint : {"none", "missing", "plain", "effect"}, first : Environments,
   method : {"GET", "POST"}, env : Environments, based : BOOLEAN, safe : BOOLEAN,
   body : {"none", "json", "files", "both", "form"}, files : Seq(Uploads),
   auth : {"none", "bearer", "basic", "template", "body_field"}, keys : Seq({1, 2}),
   scope : {"project", "user"}, mode : {"status", "text", "json"}, must : BOOLEAN, quiet : BOOLEAN,
   present : BOOLEAN]

\* A credential in a text is the pieces "s", "t", one after the other.
Secret(text, i) == {i, i + 1} \subseteq DOMAIN text /\ text[i] = "s" /\ text[i + 1] = "t"

ASSUME RemoteAssumption ==
  /\ MaxChars \in Nat /\ MaxFileSize \in Nat /\ MaxInlineSize \in Nat /\ MaxFiles \in Nat
  \* The other side quotes a credential as a whole or not at all.
  /\ \A r \in CallReplies :
       /\ r.kind \in {"answer", "broken", "tooLarge"} /\ r.text \in Seq({"x", "s", "t"})
       /\ \A i \in DOMAIN r.text : r.text[i] = "x" \/ Secret(r.text, i) \/ Secret(r.text, i - 1)
  /\ \A l \in RemoteLoads :
       /\ l.call \in CallForms /\ l.page \in {"none", "create", "update", "delete"}
       /\ l.call.tool = "save" => l.call.keys # <<>>
       /\ l.rows \subseteq [key : {1, 2}, env : RowKeys, value : {"old", "corrupt"}, active : BOOLEAN]
       \* The unique index tells no two untagged rows apart, but none was ever written twice.
       /\ \A r, s \in l.rows : r.key = s.key /\ r.env = s.env => r = s

VARIABLES
  remoteLoad,
  vault,        \* the stored credentials
  callAt,       \* the step of the call
  agreed,       \* what the user was shown and allowed: the method and the environment
  look,         \* the credential looked for: its place, the candidate, the attempt
  found,        \* the credentials in hand
  typed,        \* the places of those the user typed in a dialog of this call
  writer,       \* per writer of the vault: its step, key, row, the rows it has locked, outcome
  rewritten,    \* keys that the page has changed since the dialog stored them
  stored,       \* <<key, environment>> of the saves that succeeded
  request,      \* what left the process
  shown         \* the pieces of the reply that the model is shown

remoteVars == <<remoteLoad, vault, callAt, agreed, look, found, typed, writer, rewritten, stored, request,
                shown>>

Writers == {"tab", "page"}
Unsent == [form |-> "unsent", files |-> <<>>, carries |-> FALSE, using |-> <<>>, env |-> "none", method |-> "GET"]
IdleWriter == [at |-> "idle", key |-> 1, env |-> "", locked |-> {}, ok |-> FALSE]
NotAgreed == [yes |-> FALSE, env |-> "none", method |-> "GET"]

RemoteInit ==
  /\ remoteLoad \in RemoteLoads /\ vault = remoteLoad.rows /\ callAt = "prepare" /\ agreed = NotAgreed
  /\ look = [place |-> 1, candidate |-> 1, again |-> FALSE] /\ found = <<>> /\ typed = {}
  /\ writer = [w \in Writers |-> IdleWriter] /\ rewritten = {} /\ stored = {} /\ request = Unsent /\ shown = <<>>

-----------------------------------------------------------------------------
(***************************************************************************)
(* The checks before anything is asked, on what the catalog completes.     *)
(***************************************************************************)
call == remoteLoad.call
InCatalog == call.endpoint # "none"
\* No environment: the first of the catalog's.
Env == IF call.env = "none" /\ InCatalog THEN call.first ELSE call.env
CallKeys == IF call.auth = "none" THEN <<>> ELSE call.keys
Writes == call.method = "POST"
Forced == call.must \/ call.endpoint = "effect"
NeedsConfirmation == ((Writes \/ Forced) /\ ~call.quiet) \/ Env = "prd"

UploadIsSound(f) ==
  IF f.source = "inline" THEN f.size <= MaxInlineSize
  ELSE f.there /\ f.size <= MaxFileSize /\ (f.source = "path" => ~f.hidden)
BodyIsSound ==
  /\ call.body # "form"
  /\ call.body \in {"files", "both"} =>
       /\ Writes /\ call.body = "files" /\ Len(call.files) \in 1 .. MaxFiles
       /\ \A i \in DOMAIN call.files : UploadIsSound(call.files[i])
CallIsSound ==
  IF call.tool = "request"
  THEN call.endpoint # "missing" /\ BodyIsSound /\ (call.based \/ InCatalog) /\ call.safe
       /\ (NeedsConfirmation => call.present)
  ELSE call.present

CallGoesTo(s) == callAt' = s
AfterGates == CallGoesTo(IF CallKeys = <<>> THEN "send" ELSE "lookup")
Keeping == UNCHANGED <<remoteLoad, vault, writer, rewritten, stored>>

Prepare ==
  /\ callAt = "prepare" /\ Keeping /\ UNCHANGED <<agreed, look, found, typed, request, shown>>
  /\ IF ~CallIsSound THEN CallGoesTo("refused")
     ELSE CASE call.tool = "save" -> CallGoesTo("dialog")
            [] call.tool = "delete" -> CallGoesTo("confirm")
            [] call.tool = "request" -> IF NeedsConfirmation THEN CallGoesTo("confirm") ELSE AfterGates

Allow ==
  /\ callAt = "confirm" /\ agreed' = [yes |-> TRUE, env |-> Env, method |-> call.method]
  /\ IF call.tool = "delete" THEN CallGoesTo("deleting") ELSE AfterGates
  /\ Keeping /\ UNCHANGED <<look, found, typed, request, shown>>

\* Denied, or not answered in time: 120 s for a confirmation, 300 s for a credential, which may
\* still be typed and stored later.
Decline ==
  /\ callAt \in {"confirm", "dialog"} /\ CallGoesTo(IF callAt = "dialog" THEN "late" ELSE "refused")
  /\ Keeping /\ UNCHANGED <<agreed, look, found, typed, request, shown>>

-----------------------------------------------------------------------------
(***************************************************************************)
(* The credentials, each from the most specific row that has it.           *)
(***************************************************************************)
Key == call.keys[look.place]
Candidates ==
  IF call.scope = "user" THEN <<{"user"}>>
  ELSE (IF Env = "none" THEN <<>> ELSE <<{Env}>>) \o <<{"", "null"}, {"user"}>>
Stored(k, envs) == {r \in vault : r.key = k /\ r.env \in envs /\ r.active}
\* The row tagged "" before the untagged one.
Preferred(rows) == CHOOSE r \in rows : r.env # "null" \/ Cardinality(rows) = 1

NextCredential ==
  IF look.place = Len(call.keys) THEN CallGoesTo("send") /\ UNCHANGED look
  ELSE look' = [place |-> look.place + 1, candidate |-> 1, again |-> FALSE] /\ UNCHANGED callAt

\* Nobody knows the credential: ask once, if there is somebody to ask.
Unknown == UNCHANGED <<look, found>> /\ CallGoesTo(IF look.again \/ ~call.present THEN "refused" ELSE "dialog")

LookUp ==
  /\ callAt = "lookup" /\ Keeping /\ UNCHANGED <<agreed, typed, request, shown>>
  /\ LET rows == Stored(Key, Candidates[look.candidate]) IN
     IF rows = {} /\ look.candidate < Len(Candidates)
     THEN look' = [look EXCEPT !.candidate = @ + 1] /\ UNCHANGED <<callAt, found>>
     ELSE IF rows = {} \/ (rows # {} /\ Preferred(rows).value = "corrupt") THEN Unknown
     ELSE found' = Append(found, Preferred(rows).value) /\ NextCredential

-----------------------------------------------------------------------------
(***************************************************************************)
(* Writers: the tab stores what was typed, also for a call that no longer  *)
(* waits; the settings page creates, changes and deletes rows.             *)
(***************************************************************************)
NotCalling == UNCHANGED <<remoteLoad, agreed, found, request, shown>>
Locked(r) == \E w \in Writers : r \in writer[w].locked
\* A missing environment is stored as "", beside which an untagged row may exist.
Envs(e) == IF e = "" THEN {"", "null"} ELSE {e}
Rows(k, e) == {r \in vault : r.key = k /\ r.env \in Envs(e)}
DialogEnv == IF call.tool = "save" \/ call.scope = "user" THEN "user" ELSE IF Env = "none" THEN "" ELSE Env

FindRows(w, k, e) ==
  /\ \A r \in Rows(k, e) : ~Locked(r)
  /\ writer' = [writer EXCEPT ![w] = [at |-> "found", key |-> k, env |-> e, locked |-> Rows(k, e), ok |-> FALSE]]
  /\ NotCalling /\ UNCHANGED <<vault, callAt, look, typed, rewritten, stored>>

TabAnswers == callAt \in {"dialog", "late"} /\ writer["tab"].at = "idle" /\ FindRows("tab", Key, DialogEnv)
PageCreates ==
  /\ remoteLoad.page = "create" /\ writer["page"].at = "idle"
  /\ \E e \in {"", "uat", "user"} : FindRows("page", 1, e)

NewRow(w) ==
  [key |-> writer[w].key, env |-> writer[w].env, value |-> IF w = "tab" THEN "typed" ELSE "edited", active |-> TRUE]
\* One row is left: the one with this very tag, or the only one, which gets the tag.
Written(w) == (vault \ writer[w].locked) \cup {NewRow(w)}
Taken(w) == writer[w].locked = {} /\ \E r \in vault : r.key = writer[w].key /\ r.env = writer[w].env

\* Another writer inserted the row after this one found none, or the commit fails.
SaveFails(w) ==
  /\ writer[w].at = "found" /\ writer' = [writer EXCEPT ![w] = [@ EXCEPT !.at = "saved", !.locked = {}]]
  /\ NotCalling /\ UNCHANGED <<vault, callAt, look, typed, rewritten, stored>>
SaveCommits(w) ==
  /\ writer[w].at = "found" /\ ~Taken(w) /\ vault' = Written(w)
  /\ writer' = [writer EXCEPT ![w] = [@ EXCEPT !.at = "saved", !.locked = {}, !.ok = TRUE]]
  /\ rewritten' = IF w = "page" THEN rewritten \cup {writer[w].key} ELSE rewritten \ {writer[w].key}
  /\ stored' = stored \cup {<<writer[w].key, writer[w].env>>}
  /\ NotCalling /\ UNCHANGED <<callAt, look, typed>>

\* The call hears whether it is stored, never what; it looks the value up again.
TabResolves ==
  /\ writer["tab"].at = "saved" /\ writer' = [writer EXCEPT !["tab"] = IdleWriter]
  /\ IF callAt # "dialog" THEN UNCHANGED <<callAt, look, typed>>
     ELSE IF ~writer["tab"].ok THEN CallGoesTo("refused") /\ UNCHANGED <<look, typed>>
     ELSE IF call.tool = "save" THEN CallGoesTo("finished") /\ typed' = {1} /\ UNCHANGED look
     ELSE CallGoesTo("lookup") /\ typed' = typed \cup {look.place}
          /\ look' = [look EXCEPT !.candidate = 1, !.again = TRUE]
  /\ NotCalling /\ UNCHANGED <<vault, rewritten, stored>>

PageDone == writer' = [writer EXCEPT !["page"].at = "saved"]
PageChanges ==
  /\ writer["page"].at = "idle" /\ remoteLoad.page \in {"update", "delete"} /\ PageDone
  /\ \E r \in vault :
       /\ r.active /\ ~Locked(r) /\ rewritten' = rewritten \cup {r.key}
       /\ vault' = (vault \ {r}) \cup (IF remoteLoad.page = "update" THEN {[r EXCEPT !.value = "edited"]} ELSE {})
  /\ NotCalling /\ UNCHANGED <<callAt, look, typed, stored>>

VaultDeletes ==
  /\ callAt = "deleting" /\ \A r \in Rows(1, "user") : ~Locked(r)
  /\ vault' = vault \ Rows(1, "user") /\ CallGoesTo("finished")
  /\ UNCHANGED <<remoteLoad, agreed, look, found, typed, writer, rewritten, stored, request, shown>>

-----------------------------------------------------------------------------
(***************************************************************************)
(* The request, and the reply as the model is shown it.                    *)
(***************************************************************************)
\* Two named credentials need an authentication that names them.
AuthFits == Len(found) = 2 => call.auth \in {"basic", "template"}
HasFiles == call.body = "files"
InBody == call.auth = "body_field" /\ found # <<>>
BodyForm ==
  IF HasFiles THEN "multipart" ELSE IF (call.body = "json" \/ InBody) /\ Writes THEN "json" ELSE "none"
Carries == found # <<>> /\ (call.auth = "body_field" => BodyForm # "none")

Send ==
  /\ callAt = "send"
  /\ IF ~AuthFits THEN CallGoesTo("refused") /\ UNCHANGED request
     ELSE /\ CallGoesTo("sent")
          /\ request' = [form |-> BodyForm, files |-> IF BodyForm = "multipart" THEN call.files ELSE <<>>,
                         carries |-> Carries, using |-> found, env |-> Env, method |-> call.method]
  /\ Keeping /\ UNCHANGED <<agreed, look, found, typed, shown>>

\* Each piece of a credential becomes one of the mask.
Masked(text) == [i \in DOMAIN text |-> IF Secret(text, i) \/ Secret(text, i - 1) THEN "mask" ELSE text[i]]
Cut(text) == SubSeq(text, 1, IF Len(text) < MaxChars THEN Len(text) ELSE MaxChars)
ShownOf(text) == IF found = <<>> THEN Cut(text) ELSE Cut(Masked(text))

\* A body over the limit, a time-out and a failing connection end it with an error, which quotes
\* its cause without the credential and is not cut.
Receive ==
  /\ callAt = "sent"
  /\ \E reply \in CallReplies :
       /\ (found = <<>> => \A i \in DOMAIN reply.text : reply.text[i] = "x")
       /\ shown' = CASE reply.kind = "tooLarge" -> <<>>
                     [] reply.kind = "broken" -> IF found = <<>> THEN reply.text ELSE Masked(reply.text)
                     [] reply.kind = "answer" -> IF call.mode = "status" THEN <<>> ELSE ShownOf(reply.text)
  /\ CallGoesTo("finished") /\ Keeping /\ UNCHANGED <<agreed, look, found, typed, request>>

RemoteNext ==
  \/ Prepare \/ Allow \/ Decline \/ LookUp \/ TabAnswers \/ TabResolves \/ PageCreates \/ PageChanges
  \/ VaultDeletes \/ Send \/ Receive
  \/ \E w \in Writers : SaveFails(w) \/ SaveCommits(w)

-----------------------------------------------------------------------------
\* Every variable has its type.
RemoteTypeOK ==
  /\ agreed.yes \in BOOLEAN /\ typed \subseteq 1 .. 2 /\ rewritten \subseteq {1, 2}
  /\ vault \subseteq [key : {1, 2}, env : RowKeys, value : {"old", "corrupt", "typed", "edited"}, active : BOOLEAN]
  /\ callAt \in {"prepare", "confirm", "deleting", "lookup", "dialog", "send", "sent", "finished", "refused", "late"}
  /\ look \in [place : 1 .. 2, candidate : 1 .. 3, again : BOOLEAN] /\ found \in Seq({"old", "typed", "edited"})
  /\ \A w \in Writers : writer[w].at \in {"idle", "found", "saved"} /\ writer[w].locked \subseteq vault
  /\ stored \subseteq {1, 2} \X RowKeys /\ request.form \in {"unsent", "none", "json", "multipart"}
  /\ shown \in Seq({"x", "s", "t", "mask"})

IsSent == request.form # "unsent"

\* A request to production, and one that changes something unless the agent was freed from
\* asking, leaves only after the user allowed this method in this environment.
SentAsAgreed ==
  IsSent /\ (request.env = "prd" \/ (~call.quiet /\ (request.method = "POST" \/ Forced))) =>
    agreed.yes /\ agreed.env = request.env /\ agreed.method = request.method

\* A credential that the user typed for this call is the one it uses, whatever other rows there
\* were and however broken they are, unless the page changed it after that.
TypedIsUsed ==
  IsSent => \A i \in DOMAIN request.using : i \in typed /\ call.keys[i] \notin rewritten => request.using[i] = "typed"

\* A save leaves one row of its key and environment, which is active: no stale duplicate stays
\* behind to be found later.
OneRowIsLeft ==
  \A s \in stored : Cardinality(Rows(s[1], s[2])) <= 1 /\ \A r \in Rows(s[1], s[2]) : r.active

\* What leaves has every file that was asked for, and the credential when one was found, except
\* in the body of a request that has none.
RequestIsWhole ==
  IsSent => /\ request.files = (IF HasFiles THEN call.files ELSE <<>>)
            /\ found # <<>> /\ (Writes \/ call.auth # "body_field") => request.carries

\* The model sees no part of a credential that the other side sends back.
RepliesAreMasked == \A i \in DOMAIN shown : shown[i] \notin {"s", "t"}
=============================================================================
