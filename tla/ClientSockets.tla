------------------------------ MODULE ClientSockets ------------------------------
(***************************************************************************)
(* The sockets of one browser tab: a table of at most MaxConnections       *)
(* connections with reconnection, parking, eviction and the watchdog of    *)
(* half-open connections (composables/useWebSocket.ts).                    *)
(*                                                                         *)
(* Delays are not modelled: a timer that is armed may fire at any time.    *)
(* The time-outs of the ladder are kept as the number of retries.          *)
(***************************************************************************)
EXTENDS Naturals, FiniteSets, Sequences, SequencesExt, FiniteSetsExt

CONSTANTS
  Chats,           \* conversations the tab may show
  NoChat,          \* none is shown
  MaxConnections,  \* MAX_CONNECTIONS
  MaxRetries,      \* MAX_RETRIES, the fast phase of the ladder
  MaxFaults,       \* bound: how often the network or the server fails
  MaxBusy          \* bound: how many turns are noticed

ASSUME ClientSocketsAssumption ==
  /\ IsFiniteSet(Chats) /\ NoChat \notin Chats
  /\ MaxConnections \in Nat \ {0} /\ MaxRetries \in Nat /\ MaxFaults \in Nat /\ MaxBusy \in Nat

VARIABLES
  pool,       \* the table _connections with its entries, and _failedConversations
  shown,      \* the conversation on screen
  streaming,  \* streamingIds: conversations with a live turn
  silent,     \* open sockets on which no frame came for STALE_MS
  dead,       \* of those, the ones that are half-open: no frame will come
  faults, busy

socketVars == <<pool, shown, streaming, silent, dead, faults, busy>>

\* "none": the entry holds no socket; "down": its socket is closed, not replaced.
SocketStates == {"none", "connecting", "open", "closing", "down"}
Timers == {"off", "backoff", "poll"}

SocketTypeOK ==
  /\ pool.order \in SeqOf(Chats, Cardinality(Chats)) /\ IsInjective(pool.order)
  /\ pool.ws \in [Chats -> SocketStates] /\ pool.timer \in [Chats -> Timers]
  /\ pool.stable \in [Chats -> BOOLEAN] /\ pool.retries \in [Chats -> 0..MaxRetries]
  /\ pool.terminal \in [Chats -> BOOLEAN] /\ pool.probe \in [Chats -> BOOLEAN]
  /\ pool.failed \subseteq Chats
  /\ shown \in Chats \cup {NoChat} /\ streaming \subseteq Chats
  /\ dead \subseteq silent /\ silent \subseteq Chats
  /\ faults \in 0..MaxFaults /\ busy \in 0..MaxBusy

SocketInit ==
  /\ pool = [order |-> <<>>, failed |-> {},
             ws |-> [c \in Chats |-> "none"], timer |-> [c \in Chats |-> "off"],
             stable |-> [c \in Chats |-> FALSE], retries |-> [c \in Chats |-> 0],
             terminal |-> [c \in Chats |-> FALSE], probe |-> [c \in Chats |-> FALSE]]
  /\ shown = NoChat /\ streaming = {} /\ silent = {} /\ dead = {} /\ faults = 0 /\ busy = 0

-----------------------------------------------------------------------------
(***************************************************************************)
(* The functions of the composable, on a table p.                          *)
(***************************************************************************)
Known(p) == ToSet(p.order)

SocketCount(p) == Cardinality({c \in Known(p) : p.ws[c] # "none"})

\* Variant: the timer of the entry stays armed.
CloseSocketOnly(p, c) == [p EXCEPT !.ws[c] = "none", !.stable[c] = FALSE]

CloseSocket(p, c) == [p EXCEPT !.ws[c] = "none", !.timer[c] = "off", !.stable[c] = FALSE]

CleanUp(p, c) == IF c \in Known(p) THEN [CloseSocket(p, c) EXCEPT !.order = RemoveFirst(@, c)] ELSE p

NewEntry(p, c) ==
  [p EXCEPT !.order = Append(@, c), !.ws[c] = "none", !.retries[c] = 0,
            !.terminal[c] = FALSE, !.probe[c] = FALSE]

\* The entry keeps its place in the table and polls for a slot.
Park(p, c) == [CloseSocket(p, c) EXCEPT !.retries[c] = 0, !.timer[c] = "poll"]

\* Variant: a conversation with a live turn counts as idle.
IdleOthersBusy(p, c, on) == {i \in DOMAIN p.order : p.order[i] \notin {c, on} /\ p.ws[p.order[i]] = "open"}

\* Whom c may evict while the conversation on is on screen.
IdleOthers(p, c, on) ==
  {i \in DOMAIN p.order : /\ p.order[i] \notin {c, on} \cup streaming
                          /\ p.ws[p.order[i]] = "open"}

Full(p, c, on) == SocketCount(p) >= MaxConnections /\ IdleOthers(p, c, on) = {}

\* A slot for c: the oldest idle connection is parked if all slots are taken.
MakeRoom(p, c, on) ==
  IF SocketCount(p) >= MaxConnections THEN Park(p, p.order[Min(IdleOthers(p, c, on))]) ELSE p

OpenSocket(p, c) == [p EXCEPT !.ws[c] = "connecting", !.stable[c] = FALSE]

Connect(p, c, on) ==
  LET slotless == c \notin Known(p) \/ p.ws[c] = "none"
      fresh(q) == OpenSocket(NewEntry([CleanUp(q, c) EXCEPT !.failed = @ \ {c}], c), c)
  IN CASE p.ws[c] = "open" -> p
       [] slotless /\ Full(p, c, on) -> IF c \in Known(p) THEN p ELSE Park(NewEntry(p, c), c)
       [] slotless /\ ~Full(p, c, on) -> fresh(MakeRoom(p, c, on))
       [] OTHER -> fresh(p)

\* Variant: after the fast phase no retry is armed.
ScheduleRetryFew(p, c) ==
  IF p.terminal[c] \/ p.retries[c] >= MaxRetries THEN p
  ELSE [p EXCEPT !.timer[c] = IF @ = "off" THEN "backoff" ELSE @]

ScheduleRetry(p, c) ==
  IF p.terminal[c] THEN p
  ELSE [p EXCEPT !.failed = IF p.retries[c] >= MaxRetries THEN @ \cup {c} ELSE @,
                 !.timer[c] = IF @ = "off" THEN "backoff" ELSE @]

CountRetry(p, c) == [p EXCEPT !.timer[c] = "off", !.retries[c] = Min({@ + 1, MaxRetries})]

\* What a table p that replaces the present one leaves of the open sockets.
Becomes(p) ==
  /\ pool' = p
  /\ silent' = {d \in silent : p.ws[d] = "open"} /\ dead' = dead \cap silent'

-----------------------------------------------------------------------------
(***************************************************************************)
(* Timers.                                                                 *)
(***************************************************************************)
RetryFires(c) ==
  /\ pool.timer[c] = "backoff"
  /\ pool' = OpenSocket(CountRetry(pool, c), c)
  /\ UNCHANGED <<shown, streaming, silent, dead, faults, busy>>

PollFires(c) ==
  /\ pool.timer[c] = "poll"
  /\ LET p == CountRetry([pool EXCEPT !.failed = IF pool.retries[c] >= MaxRetries
                                                 THEN @ \cup {c} ELSE @], c)
     IN Becomes(IF Full(p, c, shown) THEN [p EXCEPT !.timer[c] = "poll"]
                ELSE OpenSocket(MakeRoom(p, c, shown), c))
  /\ UNCHANGED <<shown, streaming, faults, busy>>

StableFires(c) ==
  /\ pool.stable[c]
  /\ pool' = [pool EXCEPT !.stable[c] = FALSE, !.retries[c] = 0]
  /\ UNCHANGED <<shown, streaming, silent, dead, faults, busy>>

\* The second stale tick without a frame gives the connection up.
PingFires(c) ==
  /\ c \in silent
  /\ IF pool.probe[c]
     THEN /\ pool' = [pool EXCEPT !.ws[c] = "closing"]
          /\ silent' = silent \ {c} /\ dead' = dead \ {c}
     ELSE pool' = [pool EXCEPT !.probe[c] = TRUE] /\ UNCHANGED <<silent, dead>>
  /\ UNCHANGED <<shown, streaming, faults, busy>>

-----------------------------------------------------------------------------
(***************************************************************************)
(* Events of a socket.                                                     *)
(***************************************************************************)
Opened(c) ==
  /\ pool.ws[c] = "connecting"
  /\ pool' = [pool EXCEPT !.ws[c] = "open", !.timer[c] = "off", !.stable[c] = TRUE,
                          !.probe[c] = FALSE, !.failed = @ \ {c}]
  /\ streaming' = streaming \ {c}
  /\ UNCHANGED <<shown, silent, dead, faults, busy>>

\* onerror does not touch the stability timer; the close event that follows is ignored.
Errors(c) ==
  /\ pool.ws[c] \in {"connecting", "open"} /\ faults < MaxFaults
  /\ pool' = ScheduleRetry([pool EXCEPT !.ws[c] = "down"], c)
  /\ faults' = faults + 1 /\ silent' = silent \ {c} /\ dead' = dead \ {c}
  /\ UNCHANGED <<shown, streaming, busy>>

Drop(c) == ScheduleRetry([pool EXCEPT !.ws[c] = "down", !.stable[c] = FALSE], c)

Closed(c) ==
  /\ pool.ws[c] = "closing" /\ pool' = Drop(c)
  /\ UNCHANGED <<shown, streaming, silent, dead, faults, busy>>

\* The server or a proxy closes.
Dropped(c) ==
  /\ pool.ws[c] = "open" /\ c \notin dead /\ faults < MaxFaults
  /\ pool' = Drop(c)
  /\ faults' = faults + 1 /\ silent' = silent \ {c}
  /\ UNCHANGED <<shown, streaming, dead, busy>>

\* 4001 and 4403.
Refused(c) ==
  /\ pool.ws[c] = "open" /\ c \notin dead /\ faults < MaxFaults
  /\ pool' = [pool EXCEPT !.ws[c] = "down", !.stable[c] = FALSE, !.timer[c] = "off",
                          !.terminal[c] = TRUE]
  /\ faults' = faults + 1 /\ silent' = silent \ {c}
  /\ UNCHANGED <<shown, streaming, dead, busy>>

\* No frame for a while: the connection is half-open, or the tab is throttled.
GoesSilent(c) ==
  /\ pool.ws[c] = "open" /\ c \notin silent /\ faults < MaxFaults
  /\ silent' = silent \cup {c} /\ \E half \in {{}, {c}} : dead' = dead \cup half
  /\ faults' = faults + 1
  /\ UNCHANGED <<pool, shown, streaming, busy>>

FrameArrives(c) ==
  /\ c \in silent \ dead
  /\ silent' = silent \ {c} /\ pool' = [pool EXCEPT !.probe[c] = FALSE]
  /\ UNCHANGED <<shown, streaming, dead, faults, busy>>

\* Frames of a turn raise and clear the flag (stores/conversation.ts).
TurnShows(c) ==
  /\ pool.ws[c] = "open" /\ c \notin silent \cup streaming /\ busy < MaxBusy
  /\ streaming' = streaming \cup {c} /\ busy' = busy + 1
  /\ UNCHANGED <<pool, shown, silent, dead, faults>>

TurnWindsDown(c) ==
  /\ pool.ws[c] = "open" /\ c \in streaming \ silent
  /\ streaming' = streaming \ {c}
  /\ UNCHANGED <<pool, shown, silent, dead, faults, busy>>

-----------------------------------------------------------------------------
(***************************************************************************)
(* The user.                                                               *)
(***************************************************************************)
\* The store already names the new conversation when the watcher connects it.
Show(c) ==
  /\ shown # c /\ shown' = c
  /\ Becomes(Connect(pool, c, c))
  /\ UNCHANGED <<streaming, faults, busy>>

\* The table when the first i connections have been tried again.
Tried[i \in 0..Len(pool.order)] ==
  IF i = 0 THEN pool ELSE Connect(Tried[i - 1], pool.order[i], shown)

\* Network back, tab visible, window focused: every known connection is tried.
Kick ==
  /\ Becomes(Tried[Len(pool.order)])
  /\ UNCHANGED <<shown, streaming, faults, busy>>

\* A message: sent if the socket is open, else it makes sure that an attempt is under way.
Submit ==
  /\ shown # NoChat
  /\ IF pool.ws[shown] = "open"
     THEN /\ shown \notin streaming /\ busy < MaxBusy
          /\ streaming' = streaming \cup {shown} /\ busy' = busy + 1
          /\ UNCHANGED <<pool, silent, dead>>
     ELSE /\ ~pool.terminal[shown] /\ pool.ws[shown] # "connecting" /\ pool.timer[shown] = "off"
          /\ Becomes(Connect(pool, shown, shown)) /\ UNCHANGED <<streaming, busy>>
  /\ UNCHANGED <<shown, faults>>

Reconnect ==
  /\ shown # NoChat /\ pool.ws[shown] # "open"
  /\ Becomes(Connect(pool, shown, shown))
  /\ UNCHANGED <<shown, streaming, faults, busy>>

Forget(p, c) == [CleanUp(p, c) EXCEPT !.failed = @ \ {c}]

\* A conversation is deleted; its name stands for a new one from then on.
DeleteChat(c) ==
  /\ c \in Known(pool)
  /\ Becomes(Forget(pool, c))
  /\ streaming' = streaming \ {c} /\ shown' = IF shown = c THEN NoChat ELSE shown
  /\ UNCHANGED <<faults, busy>>

\* Another project or agent: every connection is closed and the store reset.
LeaveAll ==
  /\ pool.order # <<>>
  /\ Becomes([pool EXCEPT !.order = <<>>, !.failed = {}, !.ws = [c \in Chats |-> "none"],
                          !.timer = [c \in Chats |-> "off"], !.stable = [c \in Chats |-> FALSE]])
  /\ streaming' = {} /\ shown' = NoChat
  /\ UNCHANGED <<faults, busy>>

SocketNext ==
  \/ \E c \in Chats :
       \/ RetryFires(c) \/ PollFires(c) \/ StableFires(c) \/ PingFires(c)
       \/ Opened(c) \/ Errors(c) \/ Closed(c) \/ Dropped(c) \/ Refused(c)
       \/ GoesSilent(c) \/ FrameArrives(c) \/ TurnShows(c) \/ TurnWindsDown(c)
       \/ Show(c) \/ DeleteChat(c)
  \/ Kick \/ Submit \/ Reconnect \/ LeaveAll

\* Timers fire and live turns end. A handshake may be started over by a kick and a poll
\* may find the slots taken, but not for ever.
SocketFairness ==
  \A c \in Chats :
    /\ WF_socketVars(RetryFires(c)) /\ WF_socketVars(PingFires(c)) /\ WF_socketVars(Closed(c))
    /\ WF_socketVars(TurnWindsDown(c))
    /\ SF_socketVars(Opened(c) \/ (~Full(pool, c, shown) /\ PollFires(c)))

-----------------------------------------------------------------------------
\* No more sockets than the server is asked to serve, whoever connects, polls or is kicked
\* (the cap of connect, _parkWaiter and the lifecycle kick).
CapIsKept == SocketCount(pool) <= MaxConnections

\* A connection that is down has a retry or a poll armed, unless the server has refused it
\* for good: reconnection never gives up (_scheduleRetry, _parkWaiter).
NobodyIsStranded ==
  \A c \in Known(pool) :
    pool.ws[c] \in {"none", "down"} => pool.timer[c] # "off" \/ pool.terminal[c]

\* No timer is armed beside a live socket, or of an entry that was replaced: it would open a
\* second socket and every delta would arrive twice.
OneAttemptAtATime ==
  \A c \in Chats :
    pool.timer[c] # "off" => c \in Known(pool) /\ pool.ws[c] \in {"none", "down"}

\* The degraded marker is shown of connections the tab still has and that are not up.
FailedIsDown == \A c \in pool.failed : c \in Known(pool) /\ pool.ws[c] # "open"

\* The tab keeps its connections within the cap, loses none for good and never opens two for
\* one conversation.
TabStaysConnected == CapIsKept /\ NobodyIsStranded /\ OneAttemptAtATime /\ FailedIsDown

\* The tab itself closes the socket of the conversation on screen or of a live turn only when
\* the watchdog gives it up or the conversation is left; on a switch, the one that is shown next.
LiveIsNotEvicted ==
  [][\A c \in Chats :
       pool.ws[c] = "open" /\ pool'.ws[c] = "none" /\ (c = shown' \/ c \in streaming)
         => c \notin Known(pool')]_socketVars

\* Half-open connections are noticed, and the conversation on screen gets its connection if
\* the user stays with it, unless one was refused for good: its entry goes on counting as a
\* socket.
SocketsRecover ==
  \/ []<>(dead = {} /\ (\/ shown = NoChat \/ pool.ws[shown] = "open"
                        \/ \E d \in Chats : pool.terminal[d]))
  \/ []<><<shown' # shown>>_socketVars
=============================================================================
