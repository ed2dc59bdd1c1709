----------------------------- MODULE SessionPrompts -----------------------------
(***************************************************************************)
(* Questions an agent asks the user (session.py, tools/user_confirm.py and *)
(* the answer branch of websocket/handlers.py): callers ask in parallel,   *)
(* in the session of the turn or in that of a delegated turn, which        *)
(* registers its prompts with the turn's; tabs show dialogs and answer     *)
(* them; a prompt ends by an answer, its time-out, the abort of its session*)
(* or the cancellation of its task.  A caller stands for one call of       *)
(* user_confirm and for its prompt; a question asked again is another      *)
(* caller.  Secrets are left out: they take this path without the ledger.  *)
(***************************************************************************)
EXTENDS Naturals, Sequences

CONSTANTS
  Callers,      \* calls of user_confirm, all with the same question
  Casts,        \* which of them are nested, which forced, and which of Turmoils may come
  Tabs, Values, \* sockets of the conversation; answers a user may choose
  Cancelled, NoAnswer, NoCaller,
  Unsaved       \* in place of a row whose write failed: only the log says so

\* The event queue fills, tabs lose their socket, sessions are aborted, rows cannot be written.
Turmoils == {"full", "drop", "abort", "disk"}

ASSUME PromptAssumption ==
  /\ Casts \subseteq [nested : SUBSET Callers, forced : SUBSET Callers, turmoil : SUBSET Turmoils]
  /\ Cancelled # NoAnswer /\ {Cancelled, NoAnswer} \cap Values = {} /\ NoCaller \notin Callers
  /\ Unsaved \notin Values \cup {Cancelled, NoAnswer}

VARIABLES
  cast,        \* the cast of this behaviour
  asking,      \* where each caller is, and how its prompt ended
  registered,  \* _pending_prompts and _pending_prompt_events of the turn's session
  future,      \* what was set on each prompt's Future
  ledger,      \* _prompt_outcomes of each session for the question
  paused,      \* sessions whose _prompts_paused is set
  locked,      \* prompt_lock of each session: its holder
  aborted,     \* sessions whose abort_event is set
  events,      \* events of each prompt not yet delivered to the tabs
  dialogs,     \* the prompts each tab shows
  connected,   \* tabs with a live socket
  answering,   \* the answer frame each tab's socket is handling
  promptRow    \* the recorded answer of each prompt

promptVars == <<cast, asking, registered, future, ledger, paused, locked, aborted,
                events, dialogs, connected, answering, promptRow>>

Answers == Values \cup {Cancelled}
SessionsOfTurn == {"turn", "nested"}
SessionFor(c) == IF c \in cast.nested THEN "nested" ELSE "turn"
NoFrame == [prompt |-> NoCaller, value |-> NoAnswer, at |-> "none"]
Awaiting == {"emitting", "waiting", "expiring"}
Asking == Awaiting \cup {"locking"}
Over == {"answered", "dismissed", "dead"}   \* dead: timed out, aborted or cancelled

PromptTypeOK ==
  /\ cast \in Casts /\ asking \in [Callers -> Asking \cup Over \cup {"idle"}]
  /\ registered \in SUBSET Callers
  /\ future \in [Callers -> Answers \cup {NoAnswer}] /\ promptRow \in [Callers -> Answers \cup {NoAnswer, Unsaved}]
  /\ ledger \in [SessionsOfTurn -> {"none", "answered", "timed_out", "dismissed"}]
  /\ paused \in SUBSET SessionsOfTurn /\ aborted \in SUBSET SessionsOfTurn
  /\ locked \in [SessionsOfTurn -> Callers \cup {NoCaller}]
  /\ events \in [Callers -> Seq({"required", "cancelled"})] /\ \A p \in Callers : Len(events[p]) <= 2
  /\ dialogs \in [Tabs -> SUBSET Callers] /\ connected \in SUBSET Tabs
  /\ answering \in [Tabs -> [prompt : Callers \cup {NoCaller}, value : Answers \cup {NoAnswer},
                             at : {"none", "persist", "resolve"}]]

PromptInit ==
  /\ cast \in Casts /\ asking = [c \in Callers |-> "idle"]
  /\ registered = {} /\ future = [p \in Callers |-> NoAnswer] /\ promptRow = [p \in Callers |-> NoAnswer]
  /\ ledger = [s \in SessionsOfTurn |-> "none"] /\ paused = {} /\ aborted = {}
  /\ locked = [s \in SessionsOfTurn |-> NoCaller]
  /\ events = [p \in Callers |-> <<>>]
  /\ dialogs = [t \in Tabs |-> {}] /\ connected = Tabs
  /\ answering = [t \in Tabs |-> NoFrame]

callerSide == <<cast, asking, locked, aborted>>
tabSide == <<cast, dialogs, connected, answering, promptRow>>
Move(c, at) == asking' = [asking EXCEPT ![c] = at]
Tell(p, event) == events' = [events EXCEPT ![p] = Append(@, event)]

-----------------------------------------------------------------------------
(***************************************************************************)
(* Asking.                                                                 *)
(***************************************************************************)
\* _suppression_result: a recorded outcome, or the pause after a time-out.
\* A suppressed caller has its result at once and may ask again later.
Suppressed(c) ==
  \/ c \notin cast.forced /\ ledger[SessionFor(c)] # "none"
  \/ SessionFor(c) \in paused

\* The prompt is registered, then its event is queued; a full queue makes the caller wait.
Register(c) ==
  /\ registered' = registered \cup {c}
  /\ \/ Move(c, "waiting") /\ Tell(c, "required")
     \/ "full" \in cast.turmoil /\ Move(c, "emitting") /\ UNCHANGED events
  /\ UNCHANGED <<future, ledger, paused, aborted, tabSide>>

Ask(c) ==
  /\ asking[c] = "idle" /\ ~Suppressed(c)
  /\ IF c \in cast.forced
     THEN Register(c) /\ UNCHANGED locked
     ELSE Move(c, "locking")
          /\ UNCHANGED <<registered, future, ledger, paused, locked, aborted, events, tabSide>>

TakeLock(c) == locked[SessionFor(c)] = NoCaller /\ locked' = [locked EXCEPT ![SessionFor(c)] = c]
DropLock(c) == locked' = [locked EXCEPT ![SessionFor(c)] = IF @ = c THEN NoCaller ELSE @]

\* Variant: the ledger is not read again under the lock.
LockedAskUnchecked(c) == asking[c] = "locking" /\ TakeLock(c) /\ Register(c)

LockedAsk(c) ==
  /\ asking[c] = "locking"
  /\ IF Suppressed(c)
     THEN /\ locked[SessionFor(c)] = NoCaller /\ Move(c, "idle")
          /\ UNCHANGED <<registered, future, ledger, paused, locked, aborted, events, tabSide>>
     ELSE TakeLock(c) /\ Register(c)

\* The queue has room again, or stays full until the emit gives up and aborts the session.
EmitPrompt(c) ==
  /\ asking[c] = "emitting" /\ Move(c, "waiting")
  /\ \/ Tell(c, "required") /\ UNCHANGED aborted
     \/ aborted' = aborted \cup {SessionFor(c)} /\ UNCHANGED events
  /\ UNCHANGED <<registered, future, ledger, paused, locked, tabSide>>

-----------------------------------------------------------------------------
(***************************************************************************)
(* How a prompt ends for its caller.                                       *)
(***************************************************************************)
Record(c, status) ==
  ledger' = [ledger EXCEPT ![SessionFor(c)] = IF @ = "answered" THEN @ ELSE status]

End(c, how) ==
  /\ registered' = registered \ {c} /\ future' = [future EXCEPT ![c] = NoAnswer]
  /\ Move(c, how) /\ DropLock(c) /\ UNCHANGED <<aborted, tabSide>>

\* The answer is read when the caller runs again: also one that came in the step of the time-out.
HearAnswer(c) ==
  /\ asking[c] \in {"waiting", "expiring"} /\ future[c] # NoAnswer
  /\ IF future[c] = Cancelled THEN End(c, "dismissed") /\ Record(c, "dismissed")
                              ELSE End(c, "answered") /\ Record(c, "answered")
  /\ UNCHANGED <<paused, events>>

\* The timer of asyncio.wait fires; the caller runs one step of the loop later.
TimerFires(c) ==
  /\ asking[c] = "waiting" /\ future[c] = NoAnswer /\ SessionFor(c) \notin aborted
  /\ Move(c, "expiring")
  /\ UNCHANGED <<registered, future, ledger, paused, locked, aborted, events, tabSide>>

TimeOut(c) ==
  /\ asking[c] = "expiring" /\ End(c, "dead") /\ Record(c, "timed_out")
  /\ paused' = paused \cup {SessionFor(c)} /\ Tell(c, "cancelled")

\* An abort is reported rather than an answer that came with it.
SeeAbort(c) ==
  /\ asking[c] = "waiting" /\ SessionFor(c) \in aborted
  /\ End(c, "dead") /\ Tell(c, "cancelled") /\ UNCHANGED <<ledger, paused>>

\* Its session was aborted or, for a nested one, its parent torn down.
MayBeCancelled(c) == asking[c] \notin Over /\ (SessionFor(c) \in aborted \/ "turn" \in aborted)

\* The task of the caller is cancelled; a prompt whose event was not queued goes silently.
CancelCaller(c) ==
  /\ MayBeCancelled(c) /\ End(c, "dead")
  /\ IF asking[c] \in {"waiting", "expiring"} THEN Tell(c, "cancelled") ELSE UNCHANGED events
  /\ UNCHANGED <<ledger, paused>>

\* A Stop aborts both sessions, each by its own watcher; a time-out of the delegation the nested one.
AbortSession(s) ==
  /\ "abort" \in cast.turmoil /\ s \notin aborted /\ aborted' = aborted \cup {s}
  /\ UNCHANGED <<asking, registered, future, ledger, paused, locked, events, tabSide>>

-----------------------------------------------------------------------------
(***************************************************************************)
(* The tabs and their sockets.                                             *)
(***************************************************************************)
\* forward_events: to every socket of the conversation.
Deliver(p) ==
  /\ events[p] # <<>> /\ events' = [events EXCEPT ![p] = Tail(@)]
  /\ dialogs' = [t \in Tabs |-> IF t \notin connected THEN dialogs[t]
                                ELSE IF Head(events[p]) = "required" THEN dialogs[t] \cup {p}
                                ELSE dialogs[t] \ {p}]
  /\ UNCHANGED <<callerSide, registered, future, ledger, paused, connected, answering, promptRow>>

\* The client clears its dialogs before it connects again.
Drop(t) ==
  /\ "drop" \in cast.turmoil /\ t \in connected /\ connected' = connected \ {t} /\ dialogs' = [dialogs EXCEPT ![t] = {}]
  /\ UNCHANGED <<callerSide, registered, future, ledger, paused, events, answering, promptRow>>

\* The sync frame carries the prompts still registered.
Connect(t) ==
  /\ t \notin connected /\ connected' = connected \cup {t}
  /\ dialogs' = [dialogs EXCEPT ![t] = registered]
  /\ UNCHANGED <<callerSide, registered, future, ledger, paused, events, answering, promptRow>>

answerSide == <<callerSide, events, connected>>

\* The dialog closes when its answer left the client.  The handler captures the
\* payload first: without it, when the prompt is gone, there is nothing to record.
Answer(t, p, v) ==
  /\ t \in connected /\ p \in dialogs[t] /\ answering[t] = NoFrame
  /\ dialogs' = [dialogs EXCEPT ![t] = @ \ {p}]
  /\ answering' = [answering EXCEPT ![t] =
       [prompt |-> p, value |-> v, at |-> IF p \in registered THEN "persist" ELSE "resolve"]]
  /\ UNCHANGED <<answerSide, registered, future, ledger, paused, promptRow>>

\* One row per prompt: the second answer finds the first.  Every socket is told of a row that
\* is there.  A write that fails holds nothing up: the prompt is resolved without a row.
Written(t) == IF promptRow[answering[t].prompt] \in {NoAnswer, Unsaved} THEN answering[t].value
              ELSE promptRow[answering[t].prompt]
Unwritten(t) == IF promptRow[answering[t].prompt] = NoAnswer THEN Unsaved ELSE promptRow[answering[t].prompt]

PersistAnswer(t) ==
  LET p == answering[t].prompt IN
  /\ answering[t].at = "persist" /\ answering' = [answering EXCEPT ![t].at = "resolve"]
  /\ \/ /\ promptRow' = [promptRow EXCEPT ![p] = Written(t)]
        /\ dialogs' = [u \in Tabs |-> IF u \in connected THEN dialogs[u] \ {p} ELSE dialogs[u]]
     \/ /\ "disk" \in cast.turmoil /\ promptRow' = [promptRow EXCEPT ![p] = Unwritten(t)]
        /\ UNCHANGED dialogs
  /\ UNCHANGED <<answerSide, registered, future, ledger, paused>>

\* _note_user_present lifts the pause and forgets what was not answered.
Present(S) ==
  /\ paused' = paused \ S
  /\ ledger' = [s \in SessionsOfTurn |-> IF s \in S /\ ledger[s] # "answered" THEN "none" ELSE ledger[s]]

\* resolve_user_selection; an answer to a prompt that is gone is refused.
ResolveAnswer(t) ==
  LET p == answering[t].prompt IN
  /\ answering[t].at = "resolve" /\ answering' = [answering EXCEPT ![t] = NoFrame]
  /\ IF p \in registered /\ future[p] = NoAnswer
     THEN future' = [future EXCEPT ![p] = answering[t].value] /\ Present({"turn", SessionFor(p)})
     ELSE UNCHANGED <<future, ledger, paused>>
  /\ UNCHANGED <<answerSide, registered, dialogs, promptRow>>

\* enqueue_user_input: a message sent while the turn runs.
UserSpeaks ==
  /\ "turn" \in paused /\ Present({"turn"})
  /\ UNCHANGED <<callerSide, registered, future, events, dialogs, connected, answering, promptRow>>

CallerStep(c) ==
  \/ LockedAsk(c) \/ EmitPrompt(c) \/ HearAnswer(c) \/ TimerFires(c) \/ TimeOut(c) \/ SeeAbort(c)

PromptNext ==
  \/ \E c \in Callers : Ask(c) \/ CallerStep(c) \/ CancelCaller(c)
  \/ \E s \in SessionsOfTurn : AbortSession(s)
  \/ \E p \in Callers : Deliver(p)
  \/ \E t \in Tabs : Drop(t) \/ Connect(t) \/ PersistAnswer(t) \/ ResolveAnswer(t)
  \/ \E t \in Tabs, p \in Callers, v \in Answers : Answer(t, p, v)
  \/ UserSpeaks

PromptSpec == PromptInit /\ [][PromptNext]_promptVars

\* The loop runs what is ready and its timers fire; nobody needs to answer.
PromptFairness == \A c \in Callers : WF_promptVars(CallerStep(c))

-----------------------------------------------------------------------------
(***************************************************************************)
(* Properties.                                                             *)
(***************************************************************************)
\* A prompt is registered exactly while its caller waits for it: a tab that
\* connects is never shown a question nobody hears the answer of, nor denied
\* one (the cancellation handlers of request_user_selection).
RegisteredIsAwaited == registered = {c \in Callers : asking[c] \in Awaiting}

\* Callers of one session with the same question never show two dialogs, and
\* no two of them are answered (user_confirm's lock and second look; force apart).
AskedOnce ==
  \A c, d \in Callers \ cast.forced :
    c # d /\ SessionFor(c) = SessionFor(d) /\ asking[c] \in Awaiting \cup {"answered"}
    => asking[d] \notin Awaiting \cup {"answered"}

\* The dialog of a prompt that died is closed in every connected tab once its
\* events are delivered.  (The exception: a tab that was replayed a prompt
\* whose own event was still waiting for room in the queue.)
DeadDialogCloses ==
  "full" \notin cast.turmoil => \A t \in connected : \A p \in dialogs[t] : asking[p] = "dead" => events[p] # <<>>

\* An answer the agent has heard is in the transcript, unless its row could not be written:
\* the write is tried before the Future is resolved.  The row holds what the agent heard if the
\* user has one tab; of two tabs the one may write its row first and the other resolve first,
\* and after a failed write a second answer may get the row of a prompt that has heard the first.
OneTab == \A t, u \in Tabs : t = u
RowsHold == "disk" \notin cast.turmoil

HeardIsRecorded ==
  \A p \in Callers : asking[p] = "answered" =>
    promptRow[p] # NoAnswer /\ (RowsHold => promptRow[p] # Unsaved /\ (OneTab => promptRow[p] \in Values))

\* What the user answered is not forgotten, nor turned into a failure, for the
\* rest of the turn, whatever parallel callers with the same question do.
AnswersStay == [][\A s \in SessionsOfTurn : ledger[s] = "answered" => ledger'[s] = "answered"]_promptVars

\* A question is registered while its caller waits, asked once, its dialogs close with it,
\* and the answer the caller hears is in the transcript, if rows can be written, and stays given.
PromptsAreSound ==
  /\ [](RegisteredIsAwaited /\ AskedOnce /\ DeadDialogCloses /\ HeardIsRecorded)
  /\ AnswersStay

\* Nobody has to answer: every caller that asks goes on, thanks to the time-out.
AskEnds == \A c \in Callers : []<>(asking[c] \notin Asking)
=============================================================================
