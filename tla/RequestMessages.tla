----------------------------- MODULE RequestMessages -----------------------------
(***************************************************************************)
(* What the model is asked: rows of a conversation become messages         *)
(* (agent_turn.py), are compressed (compressor.py), repaired, grow with    *)
(* the tool loop and are cut down to the byte limit (agent.py), and become *)
(* the turns of a wire format (providers/).  Sizes stand for bytes.        *)
(***************************************************************************)
EXTENDS Naturals, FiniteSets, Sequences, SequencesExt, FiniteSetsExt

CONSTANTS
  MaxRows,     \* bound: rows of the conversation
  RowKinds,    \* bound: kinds of rows, see Row
  LoadLimit,   \* max_messages of _load_history
  LoadBytes,   \* MAX_HISTORY_BYTES
  ImageTurns,  \* _REHYDRATE_IMAGE_TURNS
  TurnsKept,   \* RECENT_TURNS_KEEP
  MaxCalls,    \* bound: replies with tool calls in the turn
  Knowledge,   \* bound: sizes of the knowledge files in the system prompt
  ByteLimits   \* values of MAX_REQUEST_BYTES

ASSUME RequestAssumption ==
  /\ RowKinds \subseteq {"user", "image", "reply", "call", "calls", "big", "legacy", "result"}
  /\ {MaxRows, LoadLimit, LoadBytes, ImageTurns, TurnsKept, MaxCalls} \subseteq Nat \ {0}
  /\ ByteLimits \subseteq Nat /\ Knowledge \in Seq(Nat \ {0})

VARIABLES
  limit,     \* MAX_REQUEST_BYTES
  rows,      \* kinds of the rows of the conversation
  asked,     \* where the turn is
  messages,  \* what goes to the provider, without the system prompt
  loaded,    \* number of knowledge files in the system prompt, the smallest first
  forks,     \* replies with tool calls so far
  midway     \* the early history was summarized after a tool call of this turn

requestMessageVars == <<limit, rows, asked, messages, loaded, forks, midway>>

\* A message: ids of its calls, the call it answers, its size, whether it shows an image.
Spoken(role) == [role |-> role, calls |-> <<>>, of |-> <<0, 0>>, size |-> 1, image |-> FALSE, now |-> FALSE]
Calling(ids) == [Spoken("assistant") EXCEPT !.calls = ids]
Result(id, size) == [Spoken("tool") EXCEPT !.of = id, !.size = size]
BigSize == 3
CutSize == 2
ImageSize == 2
ReplySize == 2

RequestInit ==
  /\ limit \in ByteLimits /\ rows = <<>> /\ asked = "rows" /\ messages = <<>>
  /\ loaded = Len(Knowledge) /\ forks = 0 /\ midway = FALSE

-----------------------------------------------------------------------------
(***************************************************************************)
(* _load_history: the newest rows within the budget; results stored with   *)
(* the calls become messages of their own; the newest images are shown.    *)
(***************************************************************************)
RowSize(kind) == IF kind = "reply" THEN ReplySize ELSE 1   \* the text: what tools returned is not counted
ResultSize(kind) == IF kind = "big" THEN BigSize ELSE 1

Total(s) == FoldLeft(LAMBDA n, x : n + x, 0, s)
SizeOf(s) == Total([i \in DOMAIN s |-> s[i].size])

\* The first row of the newest contiguous rows within both limits.
FirstKept(rs) ==
  LET fits(i) == /\ Len(rs) - i < LoadLimit
                 /\ Total([j \in 1..(Len(rs) - i + 1) |-> RowSize(rs[i + j - 1])]) <= LoadBytes
  IN Min({i \in 1..(Len(rs) + 1) : \A j \in i..Len(rs) : fits(j)})

SeesImage(rs, i) ==
  Cardinality({j \in i..Len(rs) : rs[j] = "image"}) <= ImageTurns

IdsOf(kind, i) == CASE kind = "calls" -> <<<<i, 1>>, <<i, 2>>>> [] kind \in {"call", "big", "legacy"} -> <<<<i, 1>>>>
                    [] OTHER -> <<>>

\* The result of an older row may be in a row of its own, too.
MessagesOf(rs, i) ==
  LET ids == IdsOf(rs[i], i)
      results == [k \in DOMAIN ids |-> Result(ids[k], ResultSize(rs[i]))]
  IN CASE rs[i] = "user" -> <<Spoken("user")>>
       [] rs[i] = "image" -> <<IF SeesImage(rs, i) THEN [Spoken("user") EXCEPT !.image = TRUE, !.size = ImageSize]
                               ELSE Spoken("user")>>
       [] rs[i] = "reply" -> <<[Spoken("assistant") EXCEPT !.size = ReplySize]>>
       [] rs[i] = "result" -> <<Result(<<i - 1, 1>>, 1)>>
       [] OTHER -> <<Calling(ids)>> \o results

\* Rows beyond the limit are not read; rows beyond the budget are announced.
LoadedHistory(rs) ==
  LET read == SubSeq(rs, IF Len(rs) > LoadLimit THEN Len(rs) - LoadLimit + 1 ELSE 1, Len(rs))
      first == FirstKept(read)
      kept == SubSeq(read, first, Len(read))
      notice == IF first > 1 THEN <<Spoken("user"), Spoken("assistant")>> ELSE <<>>
  IN notice \o FlattenSeq([i \in DOMAIN kept |-> MessagesOf(kept, i)])

AddRow(kind) ==
  /\ asked = "rows" /\ Len(rows) < MaxRows /\ rows' = Append(rows, kind)
  /\ kind = "result" => rows # <<>> /\ Last(rows) = "legacy"
  /\ UNCHANGED <<limit, asked, messages, loaded, forks, midway>>

LoadRows ==
  /\ asked = "rows" /\ messages' = LoadedHistory(rows) /\ asked' = "loaded"
  /\ UNCHANGED <<limit, rows, loaded, forks, midway>>

-----------------------------------------------------------------------------
(***************************************************************************)
(* compress_history.  A message that would dangle goes with the early      *)
(* ones.                                                                   *)
(***************************************************************************)
Leads(m) == m.role = "tool" \/ m.calls # <<>>

RecentStart(s) ==
  LET cut == IF Len(s) > TurnsKept THEN Len(s) - TurnsKept + 1 ELSE 1
  IN Min({i \in cut..(Len(s) + 1) : i = Len(s) + 1 \/ ~Leads(s[i])})

Recent(s) == SubSeq(s, RecentStart(s), Len(s))
SummaryPair == <<Spoken("user"), Spoken("assistant")>>

CutTools(s) == [i \in DOMAIN s |-> IF s[i].role = "tool" /\ s[i].size > CutSize
                                   THEN [s[i] EXCEPT !.size = CutSize] ELSE s[i]]

\* force: the request is over the byte limit though its tokens are not over the threshold.
Compressed(s, summary) ==
  CASE Len(s) <= TurnsKept -> CutTools(s)
    [] summary = "failed" -> s
    [] OTHER -> SummaryPair \o Recent(s)

SystemSize == 1 + Total(SubSeq(Knowledge, 1, loaded))
RequestSize(s) == SystemSize + SizeOf(s)
OverLimit(s) == RequestSize(s) > limit

\* The current message of the user ends the request; it has not been appended yet.
CompressAtStart ==
  /\ asked = "loaded" /\ asked' = "loop"
  /\ \E h \in {messages, Compressed(messages, "failed"), Compressed(messages, "told"),
               \* the time-out keeps the recent messages only
               IF Len(messages) > TurnsKept THEN Recent(messages) ELSE messages} :
       messages' = Append(h, [Spoken("user") EXCEPT !.now = TRUE])
  /\ UNCHANGED <<limit, rows, loaded, forks, midway>>

-----------------------------------------------------------------------------
(***************************************************************************)
(* _run_loop: orphans are dropped once, replies and results are appended.  *)
(***************************************************************************)
\* A result without its call, or with a result before it, is dropped; so are calls at the end.
\* Variant: only results without a call anywhere are dropped.
OrphansByCall(s) ==
  LET called == UNION {ToSet(s[j].calls) : j \in DOMAIN s}
  IN SelectSeq(s, LAMBDA m : m.role = "tool" => m.of \in called)

OrphansDropped(s) ==
  LET pendingAt(i) == {id \in UNION {ToSet(s[j].calls) : j \in 1..(i - 1)} :
                         ~\E j \in 1..(i - 1) : s[j].role = "tool" /\ s[j].of = id}
      cleaned == FoldLeftDomain(LAMBDA acc, i : IF s[i].role = "tool" /\ s[i].of \notin pendingAt(i)
                                                THEN acc ELSE Append(acc, s[i]), <<>>, s)
      last == Max({0} \cup {i \in DOMAIN cleaned : cleaned[i].calls = <<>>})
  IN SubSeq(cleaned, 1, last)

EnterLoop ==
  /\ asked = "loop" /\ asked' = "guard" /\ messages' = OrphansDropped(messages)
  /\ UNCHANGED <<limit, rows, loaded, forks, midway>>

\* The model replies with calls, and each gets its result; or it answers and the turn is over.
CallTools(kind) ==
  LET ids == IdsOf(kind, MaxRows + 1 + forks)
      results == [k \in DOMAIN ids |-> Result(ids[k], ResultSize(kind))]
  IN /\ asked = "sent" /\ forks < MaxCalls /\ kind \in {"call", "calls", "big"} \cap RowKinds
     /\ messages' = messages \o <<Calling(ids)>> \o results /\ forks' = forks + 1 /\ asked' = "guard"
     /\ UNCHANGED <<limit, rows, loaded, midway>>

\* A planned task works on a copy in which its plan is answered.
ForkTask ==
  LET id == <<MaxRows + 1 + forks, 1>> IN
  /\ asked = "sent" /\ forks < MaxCalls
  /\ messages' = messages \o <<Calling(<<id>>), Result(id, 1), Spoken("user")>>
  /\ forks' = forks + 1 /\ asked' = "guard"
  /\ UNCHANGED <<limit, rows, loaded, midway>>

-----------------------------------------------------------------------------
(***************************************************************************)
(* The byte guard before every request: big results are cut, then the      *)
(* early history is summarized, knowledge taken out, images taken out.     *)
(***************************************************************************)
Guard ==
  /\ asked = "guard"
  /\ IF ~OverLimit(messages) THEN asked' = "sent" /\ UNCHANGED messages
     ELSE /\ messages' = CutTools(messages)
          /\ asked' = IF OverLimit(CutTools(messages)) THEN "summarize" ELSE "sent"
  /\ UNCHANGED <<limit, rows, loaded, forks, midway>>

IsSummary(s) == s # <<>> /\ Len(s) > 1 /\ SubSeq(s, 1, 2) = SummaryPair

SummarizeEarly ==
  /\ asked = "summarize"
  /\ \E summary \in {"told", "failed"} :
       LET s == IF Len(messages) > TurnsKept /\ ~IsSummary(messages) THEN Compressed(messages, summary)
                ELSE messages
       IN /\ messages' = s /\ asked' = IF OverLimit(s) THEN "demote" ELSE "sent"
          /\ midway' = (midway \/ (s # messages /\ forks > 0))
  /\ UNCHANGED <<limit, rows, loaded, forks>>

\* A loop that does not ask whether a file is left.
DemoteBelow ==
  /\ asked = "demote"
  /\ IF OverLimit(messages) THEN loaded' = loaded - 1 /\ UNCHANGED asked ELSE asked' = "sent" /\ UNCHANGED loaded
  /\ UNCHANGED <<limit, rows, messages, forks, midway>>

\* The largest file first, measured again after each.
DemoteKnowledge ==
  /\ asked = "demote"
  /\ IF OverLimit(messages) /\ loaded > 0 THEN loaded' = loaded - 1 /\ UNCHANGED asked
     ELSE asked' = (IF OverLimit(messages) THEN "blind" ELSE "sent") /\ UNCHANGED loaded
  /\ UNCHANGED <<limit, rows, messages, forks, midway>>

ImagesOut(s) == [i \in DOMAIN s |-> IF s[i].image THEN [s[i] EXCEPT !.image = FALSE, !.size = 1] ELSE s[i]]

DemoteImages ==
  /\ asked = "blind" /\ messages' = ImagesOut(messages)
  /\ asked' = IF OverLimit(ImagesOut(messages)) THEN "refused" ELSE "sent"
  /\ UNCHANGED <<limit, rows, loaded, forks, midway>>

RequestNext ==
  \/ \E kind \in RowKinds : AddRow(kind) \/ CallTools(kind)
  \/ LoadRows \/ CompressAtStart \/ EnterLoop \/ ForkTask
  \/ Guard \/ SummarizeEarly \/ DemoteKnowledge \/ DemoteImages

-----------------------------------------------------------------------------
(***************************************************************************)
(* The wire formats: turns of parts.                                       *)
(***************************************************************************)
PartsOf(m) ==
  (IF m.role = "tool" THEN <<[kind |-> "result", of |-> m.of]>>
   ELSE IF m.image THEN <<[kind |-> "text"], [kind |-> "image"]>> ELSE <<[kind |-> "text"]>>)
  \o [k \in DOMAIN m.calls |-> [kind |-> "call", of |-> m.calls[k]]]

WireRole(m) == IF m.role = "assistant" THEN "assistant" ELSE "user"
TurnOf(m) == [role |-> WireRole(m), parts |-> PartsOf(m)]
OnlyResults(t) == \A k \in DOMAIN t.parts : t.parts[k].kind = "result"

\* A result joins a turn of results; other turns are made as they come...
AnthropicEntries(s) ==
  FoldLeft(LAMBDA out, m :
             IF m.role = "tool" /\ out # <<>> /\ Last(out).role = "user" /\ OnlyResults(Last(out))
             THEN [out EXCEPT ![Len(out)].parts = @ \o PartsOf(m)] ELSE Append(out, TurnOf(m)), <<>>, s)

\* ... and adjacent turns of one role are merged.
SameRolesMerged(turns) ==
  FoldLeft(LAMBDA out, t :
             IF out # <<>> /\ Last(out).role = t.role
             THEN [out EXCEPT ![Len(out)].parts = @ \o t.parts] ELSE Append(out, t), <<>>, turns)

AnthropicTurns(s) == SameRolesMerged(AnthropicEntries(s))

GeminiTurns(s) ==
  FoldLeft(LAMBDA out, m :
             LET joins == out # <<>> /\ Last(out).role = WireRole(m)
                            /\ (m.role = "tool" => OnlyResults(Last(out)))
             IN IF joins THEN [out EXCEPT ![Len(out)].parts = @ \o PartsOf(m)] ELSE Append(out, TurnOf(m)),
           <<>>, s)

OpenAiEntries(s) == [i \in DOMAIN s |-> TurnOf(s[i])]

-----------------------------------------------------------------------------
(***************************************************************************)
(* Properties.                                                             *)
(***************************************************************************)
RequestTypeOK ==
  /\ limit \in ByteLimits /\ rows \in SeqOf(RowKinds, MaxRows) /\ midway \in BOOLEAN
  /\ asked \in {"rows", "loaded", "loop", "guard", "summarize", "demote", "blind", "sent", "refused"}
  /\ loaded \in 0..Len(Knowledge) /\ forks \in 0..MaxCalls
  /\ \A i \in DOMAIN messages : messages[i].role \in {"user", "assistant", "tool"} /\ messages[i].size \in 1..BigSize

\* However the history was read, compressed and cut, in a request every call has its result
\* before anything else is said, every result its call, and none is there twice.
CallsAreAnswered ==
  asked = "sent" =>
    \A i \in DOMAIN messages :
      LET n == Len(messages[i].calls) IN
      /\ \A k \in 1..n : i + k <= Len(messages) /\ messages[i + k].of = messages[i].calls[k]
      /\ messages[i].role = "tool" =>
           \E j \in 1..(i - 1) : messages[j].calls # <<>> /\ i - j <= Len(messages[j].calls)

Alternates(turns) == \A i \in 1..(Len(turns) - 1) : turns[i].role # turns[i + 1].role
ResultsLead(turns) ==
  \A i \in DOMAIN turns : \A k \in DOMAIN turns[i].parts :
    turns[i].parts[k].kind = "result" => \A j \in 1..(k - 1) : turns[i].parts[j].kind = "result"
AllParts(turns) == FlattenSeq([i \in DOMAIN turns |-> turns[i].parts])

\* On the wire user and assistant take turns, results come first in theirs, and no part is lost.
WireIsWellFormed ==
  asked = "sent" =>
    /\ \A turns \in {AnthropicTurns(messages), GeminiTurns(messages)} :
         Alternates(turns) /\ ResultsLead(turns) /\ AllParts(turns) = AllParts(OpenAiEntries(messages))

\* What is sent fits; what is asked for ends the first request; only as much knowledge as
\* necessary is taken out, and images only when nothing else is left.
CutIsLeast ==
  /\ asked = "sent" => ~OverLimit(messages)
  /\ asked = "sent" /\ ~midway => \E i \in DOMAIN messages : messages[i].now
  /\ asked = "sent" /\ forks = 0 => Last(messages).now
  /\ asked \in {"blind", "refused"} => loaded = 0
  /\ asked = "demote" /\ loaded < Len(Knowledge) => RequestSize(messages) + Knowledge[loaded + 1] > limit
=============================================================================
