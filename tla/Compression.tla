------------------------------ MODULE Compression ------------------------------
(***************************************************************************)
(* Compressions of one conversation on request (services/compression.py):  *)
(* a user's requests share the one under way, those of several users       *)
(* overlap, and turns append messages meanwhile.  A compression reads the  *)
(* history, has the early part summarized, which takes minutes, and then   *)
(* replaces it by a pair of rows: the summary and its acknowledgement.     *)
(*                                                                         *)
(* Messages are numbers in the order in which they were said.  A row has   *)
(* the messages it tells of.                                               *)
(***************************************************************************)
EXTENDS Naturals, FiniteSets

CONSTANTS
  Requesters,  \* requests, each of one user
  Users, User(_),  \* who sends a request
  RecentKeep,  \* RECENT_TURNS_KEEP, in rows
  MaxSaid,     \* bound: messages
  Nobody

ASSUME CompressionAssumption ==
  /\ IsFiniteSet(Requesters) /\ Nobody \notin Requesters /\ \A q \in Requesters : User(q) \in Users
  /\ RecentKeep \in Nat \ {0} /\ MaxSaid \in Nat

VARIABLES
  told,        \* the rows of the conversation: a set, ordered by seq
  spoken,      \* messages said so far
  turnOn,      \* is_turn_active
  asked,       \* where each request is
  inflight,    \* _compress_inflight: the leader whose future it holds
  leaderOf,    \* the leader whose future a follower awaits
  boundary,    \* last sequence number of the early part
  early,       \* the messages that part told of
  blank        \* a model has returned an empty summary

compressionVars == <<told, spoken, turnOn, asked, inflight, leaderOf, boundary, early, blank>>

Leading == {"reading", "summarizing", "writing"}
RequestOutcomes == {"result", "error", "cancelled"}
MaxSeq == MaxSaid + 2 * Cardinality(Requesters)
Row == [seq : 1..MaxSeq, kind : {"message", "summary", "ack"}, tells : SUBSET (1..MaxSaid)]

CompressionTypeOK ==
  /\ \A r \in told : r \in Row
  /\ spoken \in 0..MaxSaid /\ {turnOn, blank} \subseteq BOOLEAN
  /\ asked \in [Requesters -> {"idle", "following"} \cup Leading \cup RequestOutcomes]
  /\ inflight \in [Users -> Requesters \cup {Nobody}]
  /\ leaderOf \in [Requesters -> Requesters \cup {Nobody}]
  /\ boundary \in [Requesters -> 0..MaxSeq] /\ early \in [Requesters -> SUBSET (1..MaxSaid)]

CompressionInit ==
  /\ told = {} /\ spoken = 0 /\ turnOn = FALSE /\ blank = FALSE
  /\ asked = [q \in Requesters |-> "idle"]
  /\ inflight = [u \in Users |-> Nobody] /\ leaderOf = [q \in Requesters |-> Nobody]
  /\ boundary = [q \in Requesters |-> 0] /\ early = [q \in Requesters |-> {}]

Seqs == {r.seq : r \in told}
Tells(S) == UNION {r.tells : r \in S}

-----------------------------------------------------------------------------
(***************************************************************************)
(* Turns.                                                                  *)
(***************************************************************************)
requestSide == <<asked, inflight, leaderOf, boundary, early, blank>>

StartTalk == ~turnOn /\ turnOn' = TRUE /\ UNCHANGED <<told, spoken, requestSide>>
EndTalk == turnOn /\ turnOn' = FALSE /\ UNCHANGED <<told, spoken, requestSide>>

\* Under the lock of the conversation's row: one more than the largest number.
SayMessage ==
  /\ turnOn /\ spoken < MaxSaid /\ spoken' = spoken + 1
  /\ told' = told \cup {[seq |-> IF told = {} THEN 1 ELSE (CHOOSE n \in Seqs : \A k \in Seqs : k <= n) + 1,
                         kind |-> "message", tells |-> {spoken + 1}]}
  /\ UNCHANGED <<turnOn, requestSide>>

-----------------------------------------------------------------------------
(***************************************************************************)
(* compress_once.                                                          *)
(***************************************************************************)
historySide == <<told, spoken, turnOn>>
Becomes(q, at) == asked' = [asked EXCEPT ![q] = at]

\* Refused while a turn is active; the second request of a user follows the first.
RequestCompression(q) ==
  /\ asked[q] = "idle" /\ ~turnOn
  /\ IF inflight[User(q)] = Nobody
     THEN /\ Becomes(q, "reading") /\ inflight' = [inflight EXCEPT ![User(q)] = q]
          /\ UNCHANGED leaderOf
     ELSE /\ Becomes(q, "following") /\ leaderOf' = [leaderOf EXCEPT ![q] = inflight[User(q)]]
          /\ UNCHANGED inflight
  /\ UNCHANGED <<historySide, boundary, early, blank>>

\* The future has the outcome, whichever it is, and leaves the table.
LeaveInflight(q, how) ==
  /\ Becomes(q, how)
  /\ inflight' = [u \in Users |-> IF inflight[u] = q THEN Nobody ELSE inflight[u]]

FollowLeader(q) ==
  /\ asked[q] = "following" /\ asked[leaderOf[q]] \in RequestOutcomes /\ Becomes(q, asked[leaderOf[q]])
  /\ UNCHANGED <<historySide, inflight, leaderOf, boundary, early, blank>>

\* A follower shields the future it awaits.
CancelRequest(q) ==
  /\ \/ asked[q] \in Leading /\ LeaveInflight(q, "cancelled")
     \/ asked[q] = "following" /\ Becomes(q, "cancelled") /\ UNCHANGED inflight
  /\ UNCHANGED <<historySide, leaderOf, boundary, early, blank>>

-----------------------------------------------------------------------------
(***************************************************************************)
(* compress_conversation.                                                  *)
(***************************************************************************)
\* The boundary lies where the messages that calls of tools add to a row put it; the
\* last row is kept.  A short history loses no row: it is refused, or long results of
\* tools are cut.  A user without a model is refused.
ReadHistory(q) ==
  /\ asked[q] = "reading"
  /\ \/ LeaveInflight(q, "error") /\ UNCHANGED <<boundary, early>>
     \/ Cardinality(told) <= RecentKeep /\ LeaveInflight(q, "result") /\ UNCHANGED <<boundary, early>>
     \/ /\ Cardinality(told) > RecentKeep
        /\ \E b \in Seqs :
             /\ Cardinality({n \in Seqs : n > b}) \in 1..RecentKeep
             /\ boundary' = [boundary EXCEPT ![q] = b]
             /\ early' = [early EXCEPT ![q] = Tells({r \in told : r.seq <= b})]
        /\ Becomes(q, "summarizing") /\ UNCHANGED inflight
  /\ UNCHANGED <<historySide, leaderOf, blank>>

\* An error or the time-out deletes nothing; an empty answer passes for a summary.
Summarize(q) ==
  /\ asked[q] = "summarizing"
  /\ \/ Becomes(q, "writing") /\ UNCHANGED <<inflight, early, blank>>
     \/ Becomes(q, "writing") /\ early' = [early EXCEPT ![q] = {}] /\ blank' = TRUE /\ UNCHANGED inflight
     \/ LeaveInflight(q, "error") /\ UNCHANGED <<early, blank>>
  /\ UNCHANGED <<historySide, leaderOf, boundary>>

Shifted(r) == [r EXCEPT !.seq = @ + 2]
PairOf(q) ==
  {[seq |-> boundary[q] + 1, kind |-> "summary", tells |-> early[q]],
   [seq |-> boundary[q] + 2, kind |-> "ack", tells |-> {}]}

\* Variant: as many rows are kept as were kept when the history was read.
KeptByCount(q) ==
  {r \in told : Cardinality({n \in Seqs : n > r.seq}) < RecentKeep}

\* The rows after the boundary stay.
Kept(q) == {r \in told : r.seq > boundary[q]}

\* One transaction under the lock of the conversation's row.
WriteSummary(q) ==
  /\ asked[q] = "writing"
  /\ \/ told' = {Shifted(r) : r \in Kept(q)} \cup PairOf(q) /\ LeaveInflight(q, "result")
     \/ LeaveInflight(q, "error") /\ UNCHANGED told
  /\ UNCHANGED <<spoken, turnOn, leaderOf, boundary, early, blank>>

LeaderStep(q) == ReadHistory(q) \/ Summarize(q) \/ WriteSummary(q)

CompressionNext ==
  \/ \E q \in Requesters : RequestCompression(q) \/ LeaderStep(q) \/ FollowLeader(q) \/ CancelRequest(q)
  \/ StartTalk \/ SayMessage \/ EndTalk

\* The summary has a time-out.
CompressionFairness ==
  \A q \in Requesters : WF_compressionVars(LeaderStep(q)) /\ WF_compressionVars(FollowLeader(q))
CompressionSpec == CompressionInit /\ [][CompressionNext]_compressionVars
CompressionFairSpec == CompressionSpec /\ CompressionFairness

-----------------------------------------------------------------------------
(***************************************************************************)
(* Properties.                                                             *)
(***************************************************************************)
\* However compressions of several users overlap with each other and with turns, every
\* message stands in the history or in a summary there.  The exception: a summary
\* that the model returned empty.
NothingIsForgotten == ~blank => Tells(told) = 1..spoken

\* The history reads in order: one row per number, the messages as they were said,
\* and every summary before all of them, although it was written when newer rows stood there.
HistoryReadsInOrder ==
  \A r, s \in told : r # s =>
    /\ r.seq # s.seq
    /\ r.kind # "message" /\ s.kind = "message" => r.seq < s.seq
    /\ r.kind = "message" /\ s.kind = "message" /\ r.seq < s.seq => \A m \in r.tells, n \in s.tells : m < n

\* As long as one user asks, the history holds one summary, however often it was asked
\* for and whatever was said meanwhile.
OneUser == \E u \in Users : \A q \in Requesters : asked[q] # "idle" => User(q) = u

SummariesDoNotRepeat == OneUser => Cardinality({r \in told : r.kind = "summary"}) <= 1

\* The table of futures holds the request that works for its user and nothing else: a
\* failure or a cancellation is not what later requests are told.
InflightIsLed ==
  \A u \in Users : {q \in Requesters : User(q) = u /\ asked[q] \in Leading}
                   = IF inflight[u] = Nobody THEN {} ELSE {inflight[u]}

\* Compressions of several users overlapping with turns lose, repeat and reorder nothing.
HistoryIsKept == NothingIsForgotten /\ HistoryReadsInOrder /\ SummariesDoNotRepeat /\ InflightIsLed

\* Every request ends, a follower although its leader is cancelled.
CompressionEnds == \A q \in Requesters : []<>(asked[q] \in RequestOutcomes \cup {"idle"})
=============================================================================
