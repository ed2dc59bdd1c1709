---------------------------- MODULE PublishedStreams ----------------------------
(***************************************************************************)
(* Published agents (routers/publish.py, services/publish.py): access by   *)
(* key or from the embedded page, one conversation per thread or viewer,   *)
(* the slots of concurrent runs, the bounded stream of frames, clients     *)
(* that vanish, aborts.  The turn itself is in TurnLifecycle; here it      *)
(* sends frames, ends, raises, is stopped or cancelled.                    *)
(***************************************************************************)
EXTENDS Naturals, FiniteSets, Sequences, SequencesExt

CONSTANTS
  StreamRequests, \* bound: requests for a run or for a page
  Scopes,         \* threads of the API and viewers of the page
  PageScopes,     \* the viewers
  Members,        \* viewers with access to the private project
  FrameLimit,     \* maxsize of SSEStream.queue
  Situations      \* bounds: the scope of each request, those that only load the page, those whose
                  \* agent hangs, slots of the semaphore, frames of a run before its last one, calls
                  \* of the abort endpoints, changes by the publisher

ASSUME PublishedAssumption ==
  /\ IsFiniteSet(StreamRequests)
  /\ Members \subseteq PageScopes /\ PageScopes \subseteq Scopes /\ FrameLimit \in Nat \ {0}
  /\ Situations \subseteq [scope : [StreamRequests -> Scopes], loads : SUBSET StreamRequests, slots : Nat \ {0},
                             hang : SUBSET StreamRequests, frames : Nat, aborts : Nat, switches : Nat]

VARIABLES
  situation,   \* the bounds of this behaviour
  grants,      \* what holds of the publish: its row, an active key, api and page enabled, an open project
  threads,     \* conversations in the order of creation: their scopes
  permits,     \* _publish_semaphore
  claimed,     \* conversations with a claimed turn
  halted,      \* conversations whose abort Event is set
  asking,      \* of a request: where its handler is
  conversation,\* of a request: the conversation it resolved, 0 before
  turn,        \* of a request: its run task
  outcome,     \* how the run ended
  frames,      \* SSEStream.queue
  client,      \* the response: fresh, read, flushed, ended; the client gone or lost before it was read
  seen,        \* kinds of frames the client got
  dropped,     \* requests whose stream dropped a frame
  halts,       \* requests on whose conversation a Stop fell while they ran
  budget       \* frames sent, aborts called and switches made

publishedVars ==
  <<situation, grants, threads, permits, claimed, halted, asking, conversation, turn, outcome, frames,
    client, seen, dropped, halts, budget>>

Granted == {"row", "key", "api", "page", "open"}
Working == {"working", "closing", "leaking", "released"}

PublishedTypeOK ==
  /\ situation \in Situations /\ grants \subseteq Granted /\ threads \in SeqOf(Scopes, Cardinality(StreamRequests))
  /\ permits \in 0..situation.slots /\ {claimed, halted} \subseteq SUBSET (1..Len(threads))
  /\ asking \in [StreamRequests -> {"idle", "slot", "find", "insert", "claim", "answered", "refused"}]
  /\ conversation \in [StreamRequests -> 0..Len(threads)]
  /\ turn \in [StreamRequests -> {"none", "done"} \cup Working]
  /\ outcome \in [StreamRequests -> {"none", "answered", "raised", "stopped", "cancelled"}]
  /\ frames \in [StreamRequests -> SeqOf({"text", "part", "end"}, FrameLimit)]
  /\ client \in [StreamRequests -> {"none", "fresh", "reading", "flushing", "ended", "gone", "lost"}]
  /\ seen \in [StreamRequests -> SUBSET {"text", "part", "end", "error"}]
  /\ {dropped, halts} \subseteq SUBSET StreamRequests
  /\ budget \in [sent : [StreamRequests -> 0..situation.frames], aborts : 0..situation.aborts,
                switches : 0..situation.switches]

PublishedInit ==
  /\ situation \in Situations /\ grants = Granted /\ threads = <<>> /\ permits = situation.slots
  /\ claimed = {} /\ halted = {} /\ dropped = {} /\ halts = {}
  /\ asking = [r \in StreamRequests |-> "idle"] /\ conversation = [r \in StreamRequests |-> 0]
  /\ turn = [r \in StreamRequests |-> "none"] /\ outcome = [r \in StreamRequests |-> "none"]
  /\ frames = [r \in StreamRequests |-> <<>>] /\ client = [r \in StreamRequests |-> "none"]
  /\ seen = [r \in StreamRequests |-> {}]
  /\ budget = [sent |-> [r \in StreamRequests |-> 0], aborts |-> 0, switches |-> 0]

turnVars == <<turn, outcome, frames, client, seen, dropped>>

-----------------------------------------------------------------------------
(***************************************************************************)
(* Requests.  Access is checked when a request begins, and not again.      *)
(***************************************************************************)
ScopeOf(r) == situation.scope[r]
Loads == situation.loads

KeyIsActive == {"row", "key"} \subseteq grants
ProjectIsOpen(s) == "open" \in grants \/ s \in Members
KeyOpens == KeyIsActive /\ "api" \in grants /\ "open" \in grants
PageOpens(s) == {"row", "page"} \subseteq grants /\ ProjectIsOpen(s)
MayUse(s) == IF s \in PageScopes THEN PageOpens(s) ELSE KeyOpens

\* The newest conversation of a scope, 0 if there is none.
Newest(s) == SelectLastInSeq(threads, LAMBDA t : t = s)

AskRun(r) ==
  /\ asking[r] = "idle" /\ r \notin Loads
  /\ asking' = [asking EXCEPT ![r] = IF MayUse(ScopeOf(r)) THEN "slot" ELSE "refused"]
  /\ UNCHANGED <<situation, grants, threads, permits, claimed, halted, conversation, turnVars, halts, budget>>

LoadPage(r) ==
  /\ asking[r] = "idle" /\ r \in Loads
  /\ asking' = [asking EXCEPT ![r] = IF PageOpens(ScopeOf(r)) THEN "find" ELSE "refused"]
  /\ UNCHANGED <<situation, grants, threads, permits, claimed, halted, conversation, turnVars, halts, budget>>

\* acquire(), or its 10 seconds run out (429).
TakePermit(r) ==
  /\ asking[r] = "slot" /\ permits > 0
  /\ permits' = permits - 1 /\ asking' = [asking EXCEPT ![r] = "find"]
  /\ UNCHANGED <<situation, grants, threads, claimed, halted, conversation, turnVars, halts, budget>>

TooManyRuns(r) ==
  /\ asking[r] = "slot" /\ permits = 0 /\ asking' = [asking EXCEPT ![r] = "refused"]
  /\ UNCHANGED <<situation, grants, threads, permits, claimed, halted, conversation, turnVars, halts, budget>>

\* get_or_create_publish_conversation: find, then insert, each a transaction of its own.
Found(r) == asking' = [asking EXCEPT ![r] = IF r \in Loads THEN "answered" ELSE "claim"]

FindThread(r) ==
  /\ asking[r] = "find"
  /\ IF Newest(ScopeOf(r)) = 0
     THEN asking' = [asking EXCEPT ![r] = "insert"] /\ UNCHANGED conversation
     ELSE Found(r) /\ conversation' = [conversation EXCEPT ![r] = Newest(ScopeOf(r))]
  /\ UNCHANGED <<situation, grants, threads, permits, claimed, halted, turnVars, halts, budget>>

CreateThread(r) ==
  /\ asking[r] = "insert"
  /\ threads' = Append(threads, ScopeOf(r)) /\ Found(r)
  /\ conversation' = [conversation EXCEPT ![r] = Len(threads')]
  /\ UNCHANGED <<situation, grants, permits, claimed, halted, turnVars, halts, budget>>

\* A failing query or a cancelled request gives the slot back.
FailRequest(r) ==
  /\ asking[r] \in {"slot", "find", "insert", "claim"} /\ asking' = [asking EXCEPT ![r] = "refused"]
  /\ permits' = IF asking[r] = "slot" \/ r \in Loads THEN permits ELSE permits + 1
  /\ UNCHANGED <<situation, grants, threads, claimed, halted, conversation, turnVars, halts, budget>>

\* claim_turn; without an await in between the Event is made and cleared and the run begins.
BeginRunTask(r) ==
  LET c == conversation[r] IN
  /\ asking[r] = "claim" /\ c \notin claimed
  /\ claimed' = claimed \cup {c} /\ halted' = halted \ {c}
  /\ asking' = [asking EXCEPT ![r] = "answered"] /\ turn' = [turn EXCEPT ![r] = "working"]
  /\ client' = [client EXCEPT ![r] = "fresh"]
  /\ UNCHANGED <<situation, grants, threads, permits, conversation, outcome, frames, seen, dropped, halts,
                 budget>>

\* Variant: the refused request keeps its slot.
AlreadyRunningKeeps(r) ==
  /\ asking[r] = "claim" /\ conversation[r] \in claimed
  /\ asking' = [asking EXCEPT ![r] = "refused"]
  /\ UNCHANGED <<situation, grants, threads, permits, claimed, halted, conversation, turnVars, halts, budget>>

AlreadyRunning(r) ==
  /\ asking[r] = "claim" /\ conversation[r] \in claimed
  /\ asking' = [asking EXCEPT ![r] = "refused"] /\ permits' = permits + 1
  /\ UNCHANGED <<situation, grants, threads, claimed, halted, conversation, turnVars, halts, budget>>

-----------------------------------------------------------------------------
(***************************************************************************)
(* The run and its stream.  A frame is dropped when the queue is full.     *)
(***************************************************************************)
requestVars == <<situation, grants, threads, asking, conversation>>

Push(r, f) ==
  IF Len(frames[r]) < FrameLimit
  THEN frames' = [frames EXCEPT ![r] = Append(@, f)] /\ UNCHANGED dropped
  ELSE dropped' = dropped \cup {r} /\ UNCHANGED frames

\* A piece of the answer, or the end of a subtask or of a message interrupted by input.
SendFrame(r, f) ==
  /\ turn[r] = "working" /\ f \in {"text", "part"} /\ budget.sent[r] < situation.frames
  /\ Push(r, f) /\ budget' = [budget EXCEPT !.sent[r] = @ + 1]
  /\ UNCHANGED <<requestVars, permits, claimed, halted, turn, outcome, client, seen, halts>>

EndRun(r, how) ==
  /\ turn[r] = "working"
  /\ turn' = [turn EXCEPT ![r] = "closing"] /\ outcome' = [outcome EXCEPT ![r] = how]
  /\ UNCHANGED <<requestVars, permits, claimed, halted, client, seen, halts, budget>>

Answered(r) == r \notin situation.hang /\ EndRun(r, "answered") /\ Push(r, "end")
Raises(r) == r \notin situation.hang /\ EndRun(r, "raised") /\ UNCHANGED <<frames, dropped>>
SeesHalt(r) == conversation[r] \in halted /\ EndRun(r, "stopped") /\ Push(r, "end")

\* The finally of run_turn; a cancellation that lands in it skips the release.
GiveBackTurn(r) ==
  /\ \/ turn[r] = "closing" /\ claimed' = claimed \ {conversation[r]}
     \/ turn[r] = "leaking" /\ UNCHANGED claimed
  /\ turn' = [turn EXCEPT ![r] = "released"]
  /\ UNCHANGED <<requestVars, permits, halted, outcome, frames, client, seen, dropped, halts, budget>>

\* The finally of _run.
GiveBackPermit(r) ==
  /\ turn[r] = "released" /\ turn' = [turn EXCEPT ![r] = "done"] /\ permits' = permits + 1
  /\ UNCHANGED <<requestVars, claimed, halted, outcome, frames, client, seen, dropped, halts, budget>>

-----------------------------------------------------------------------------
(***************************************************************************)
(* The response: _drain_publish_stream.                                    *)
(***************************************************************************)
runVars == <<requestVars, permits, turn, outcome, dropped, budget>>

OpenResponse(r) ==
  /\ client[r] = "fresh" /\ client' = [client EXCEPT ![r] = "reading"]
  /\ UNCHANGED <<runVars, claimed, halted, frames, seen, halts>>

YieldFrame(r) ==
  /\ client[r] \in {"reading", "flushing"} /\ frames[r] # <<>>
  /\ seen' = [seen EXCEPT ![r] = @ \cup {Head(frames[r])}] /\ frames' = [frames EXCEPT ![r] = Tail(@)]
  /\ client' = [client EXCEPT ![r] = IF Head(frames[r]) = "end" THEN "flushing" ELSE @]
  /\ UNCHANGED <<runVars, claimed, halted, halts>>

\* Half a second without a frame, and the task is over.
StopWaiting(r) ==
  /\ client[r] = "reading" /\ frames[r] = <<>> /\ turn[r] = "done"
  /\ client' = [client EXCEPT ![r] = "flushing"]
  /\ UNCHANGED <<runVars, claimed, halted, frames, seen, halts>>

EndResponse(r) ==
  /\ client[r] = "flushing" /\ frames[r] = <<>> /\ client' = [client EXCEPT ![r] = "ended"]
  /\ seen' = IF "end" \notin seen[r] /\ turn[r] = "done" /\ outcome[r] = "raised"
             THEN [seen EXCEPT ![r] = @ \cup {"error"}] ELSE seen
  /\ UNCHANGED <<runVars, claimed, halted, frames, halts>>

\* signal_abort: the turns that run on the conversation are stopped.
Halt(c) ==
  /\ halted' = halted \cup {c}
  /\ halts' = halts \cup {r \in StreamRequests : turn[r] = "working" /\ conversation[r] = c}

\* The client is gone: signal_abort and task.cancel().
VanishClient(r) ==
  /\ client[r] \in {"reading", "flushing"} /\ client' = [client EXCEPT ![r] = "gone"]
  /\ Halt(conversation[r])
  /\ \/ /\ turn[r] = "working"
        /\ turn' = [turn EXCEPT ![r] = "closing"] /\ outcome' = [outcome EXCEPT ![r] = "cancelled"]
     \/ /\ turn[r] = "closing"
        /\ turn' = [turn EXCEPT ![r] = "leaking"] /\ UNCHANGED outcome
     \/ turn[r] # "working" /\ UNCHANGED <<turn, outcome>>
  /\ UNCHANGED <<requestVars, permits, claimed, frames, seen, dropped, budget>>

\* A response that was never iterated is closed without running its except clause.
LoseResponse(r) ==
  /\ client[r] = "fresh" /\ client' = [client EXCEPT ![r] = "lost"]
  /\ UNCHANGED <<runVars, claimed, halted, frames, seen, halts>>

-----------------------------------------------------------------------------
(***************************************************************************)
(* Abort calls and the publisher.                                          *)
(***************************************************************************)
AbortCall(s) ==
  /\ budget.aborts < situation.aborts /\ budget' = [budget EXCEPT !.aborts = @ + 1]
  /\ IF Newest(s) = 0 THEN UNCHANGED <<halted, halts>> ELSE Halt(Newest(s))
  /\ UNCHANGED <<requestVars, permits, claimed, turnVars>>

AbortThread(s) == s \notin PageScopes /\ KeyOpens /\ AbortCall(s)
AbortPage(s) == s \in PageScopes /\ PageOpens(s) /\ AbortCall(s)

Manage(G) ==
  /\ budget.switches < situation.switches /\ "row" \in grants /\ grants' = G
  /\ budget' = [budget EXCEPT !.switches = @ + 1]
  /\ UNCHANGED <<situation, threads, permits, claimed, halted, asking, conversation, turnVars, halts>>

SwitchSurface(g) == Manage(IF g \in grants THEN grants \ {g} ELSE grants \cup {g})
RevokeKey == Manage(grants \ {"key"})
IssueKey == Manage(grants \cup {"key"})
DeletePublish == Manage({})

PublishedNext ==
  \/ \E r \in StreamRequests :
       \/ AskRun(r) \/ LoadPage(r) \/ TakePermit(r) \/ TooManyRuns(r) \/ FindThread(r) \/ CreateThread(r)
       \/ FailRequest(r) \/ BeginRunTask(r) \/ AlreadyRunning(r)
       \/ \E f \in {"text", "part"} : SendFrame(r, f)
       \/ Answered(r) \/ Raises(r) \/ SeesHalt(r) \/ GiveBackTurn(r) \/ GiveBackPermit(r)
       \/ OpenResponse(r) \/ YieldFrame(r) \/ StopWaiting(r) \/ EndResponse(r)
       \/ VanishClient(r) \/ LoseResponse(r)
  \/ \E s \in Scopes : AbortThread(s) \/ AbortPage(s)
  \/ \E g \in {"api", "page", "open"} : SwitchSurface(g)
  \/ RevokeKey \/ IssueKey \/ DeletePublish

\* The event loop: a handler goes on, an agent that does not hang ends, the watcher sees the
\* Event, a client that stays reads.
PublishedFairness ==
  \A r \in StreamRequests :
    /\ WF_publishedVars(TakePermit(r) \/ TooManyRuns(r) \/ FindThread(r) \/ CreateThread(r)
                          \/ BeginRunTask(r) \/ AlreadyRunning(r))
    /\ WF_publishedVars(Answered(r) \/ SeesHalt(r)) /\ WF_publishedVars(GiveBackTurn(r) \/ GiveBackPermit(r))
    /\ WF_publishedVars(OpenResponse(r) \/ YieldFrame(r) \/ StopWaiting(r) \/ EndResponse(r))

-----------------------------------------------------------------------------
(***************************************************************************)
(* Properties.                                                             *)
(***************************************************************************)
\* Every slot is free, held by a handler or held by a run: no refusal, failure, crash or
\* vanished client loses one or frees it twice.
PermitsAreCounted ==
  permits + Cardinality({r \in StreamRequests \ Loads : asking[r] \in {"find", "insert", "claim"}
                                                         \/ turn[r] \in Working}) = situation.slots

\* Two runs never share a conversation, nor a conversation two scopes.
ThreadsAreApart ==
  /\ \A r, s \in StreamRequests :
       r # s /\ {turn[r], turn[s]} \subseteq {"working", "closing"} => conversation[r] # conversation[s]
  /\ \A r \in StreamRequests : conversation[r] # 0 => threads[conversation[r]] = ScopeOf(r)

\* A run is stopped only by a Stop that fell on its conversation while it ran, not by one
\* left behind by an earlier run.
HaltIsForThisRun == \A r \in StreamRequests : outcome[r] = "stopped" => r \in halts

\* A response that ended has said how: the last frame, an error, or its queue overflowed.
EndIsExplained ==
  \A r \in StreamRequests : client[r] = "ended" => seen[r] \cap {"end", "error"} # {} \/ r \in dropped

\* Published runs keep slots, threads and Stops apart, and tell how they ended.
PublishedRunsAreApart == PermitsAreCounted /\ ThreadsAreApart /\ HaltIsForThisRun /\ EndIsExplained

\* The run of a client that is gone ends, even if its agent hangs, and with it the slot;
\* a response of an agent that does not hang ends.
StreamsEnd ==
  /\ []<>(\A r \in StreamRequests : client[r] = "gone" => turn[r] = "done")
  /\ []<>(\A r \in StreamRequests : r \notin situation.hang => client[r] \notin {"fresh", "reading", "flushing"})
  /\ []<>(\A r \in StreamRequests : asking[r] \in {"idle", "answered", "refused"})
=============================================================================
