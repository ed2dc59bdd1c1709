------------------------------ MODULE HistoryProofs ------------------------------
(***************************************************************************)
(* Proofs about what becomes a conversation's history: the compressions    *)
(* that replace its rows (Compression) and the events of a turn on their   *)
(* way into rows (TurnEvents).                                             *)
(*                                                                         *)
(* CompressionInv, beside the types: the largest number is bounded by what *)
(* was said and written, and lies above every boundary that is still to be *)
(* used (SeqInv); rows are in order and tell of what was said (OrderInv);  *)
(* each message is in the part a compression has summarized or in a row    *)
(* above its boundary (KeepInv), which is what survives the compressions   *)
(* of others; with one user the summary is the first row (SummaryInv); the *)
(* table of futures has the leaders (LedInv).                              *)
(*                                                                         *)
(* TurnEventsInv, beside the types: where agent, forwarder and tail can be *)
(* together (StageInv); every event on its way was true of the agent when  *)
(* it was emitted, and two of them come in the order they were emitted in  *)
(* (CarriedInv); a piece of text is on its way, in the buffer or in a row, *)
(* never in two of these (TextInv), and in one unless something was lost,  *)
(* a file likewise (StoreInv); the row of a task has its outcome or the    *)
(* event that tells it is on its way (PlanInv, OutcomeInv).                *)
(***************************************************************************)
EXTENDS Compression, TurnEvents, FiniteSetTheorems, SequenceTheorems, WellFoundedInduction,
        NaturalsInduction, TLAPS

Pending == {"summarizing", "writing"}
Done == {q \in Requesters : asked[q] = "result"}
LastSeq == spoken + 2 * Cardinality(Done)

\* The row with the largest number; it outlives every compression under way.
IsLast(last) ==
  /\ \A r \in told : r.seq <= last.seq
  /\ \A q \in Requesters : asked[q] \in Pending => boundary[q] < last.seq

SeqInv ==
  /\ \A r \in told : r.seq <= LastSeq
  /\ \A q \in Requesters : boundary[q] <= LastSeq
  /\ told # {} => \E last \in told : IsLast(last)
  /\ told = {} => \A q \in Requesters : asked[q] \notin Pending

OrderInv ==
  /\ \A r \in told : r.tells \subseteq 1 .. spoken
  /\ \A q \in Requesters : early[q] \subseteq 1 .. spoken
  /\ HistoryReadsInOrder

Remembered(q, m) == m \in early[q] \/ \E r \in told : r.seq > boundary[q] /\ m \in r.tells

KeepInv ==
  ~blank =>
    /\ \A m \in 1 .. spoken : \E r \in told : m \in r.tells
    /\ \A q \in Requesters : asked[q] \in Pending => \A m \in 1 .. spoken : Remembered(q, m)

SummaryInv ==
  OneUser =>
    /\ \A r, s \in told : r.kind = "summary" => r.seq <= s.seq
    /\ \A q \in Requesters : asked[q] \in Pending =>
         \A r \in told : r.kind = "summary" => r.seq <= boundary[q]

LedInv ==
  /\ \A q \in Requesters : asked[q] \in Leading <=> inflight[User(q)] = q
  /\ \A u \in Users : inflight[u] # Nobody => User(inflight[u]) = u

HistoryInv == SeqInv /\ OrderInv /\ KeepInv /\ SummaryInv
CompressionInv == CompressionTypeOK /\ HistoryInv /\ LedInv

-----------------------------------------------------------------------------
(***************************************************************************)
(* How many requests have a result.                                        *)
(***************************************************************************)
LEMMA RequestersCount ==
  ASSUME NEW S \in SUBSET Requesters
  PROVE  /\ IsFiniteSet(S) /\ Cardinality(S) \in Nat /\ Cardinality(S) <= Cardinality(Requesters)
         /\ Cardinality(Requesters) \in Nat
  BY CompressionAssumption, FS_Subset, FS_CardinalityType

LEMMA MoreRequestersCount ==
  ASSUME NEW S \in SUBSET Requesters, NEW T \in SUBSET Requesters, S \subseteq T
  PROVE  Cardinality(S) <= Cardinality(T)
  BY RequestersCount, FS_Subset

LEMMA OneMoreCounts ==
  ASSUME NEW S \in SUBSET Requesters, NEW q \in Requesters, q \notin S
  PROVE  Cardinality(S \cup {q}) = Cardinality(S) + 1
  BY RequestersCount, FS_AddElement

LEMMA RowTypes ==
  ASSUME CompressionTypeOK
  PROVE  /\ \A r \in told : r.seq \in Nat \ {0} /\ r.seq <= MaxSeq /\ r.tells \in SUBSET (1 .. MaxSaid)
         /\ \A q \in Requesters : boundary[q] \in Nat /\ boundary[q] <= MaxSeq
         /\ spoken \in Nat /\ spoken <= MaxSaid /\ MaxSeq \in Nat
<1>1. MaxSeq \in Nat
  BY RequestersCount, CompressionAssumption DEF MaxSeq
<1>2. QED
  BY <1>1, CompressionAssumption DEF CompressionTypeOK, Row

LEMMA LastSeqIsBounded ==
  ASSUME CompressionTypeOK
  PROVE  LastSeq \in Nat /\ LastSeq <= MaxSeq /\ MaxSeq \in Nat
<1>1. PICK n \in Nat : n = Cardinality(Done) /\ n <= Cardinality(Requesters) /\ Cardinality(Requesters) \in Nat
  BY RequestersCount DEF Done
<1>2. QED
  BY <1>1, CompressionAssumption DEF LastSeq, MaxSeq, CompressionTypeOK

\* A request that moves, and had no result, takes no number back.
LEMMA LastSeqStays ==
  ASSUME CompressionTypeOK, NEW q \in Requesters, NEW at, asked[q] # "result",
         asked' = [asked EXCEPT ![q] = at], spoken' = spoken
  PROVE  LastSeq' \in Nat /\ LastSeq <= LastSeq'
<1>1. Done \subseteq Done' /\ Done' \in SUBSET Requesters
  BY DEF Done, CompressionTypeOK
<1>2. Cardinality(Done) \in Nat /\ Cardinality(Done') \in Nat /\ Cardinality(Done) <= Cardinality(Done')
  BY <1>1, RequestersCount, MoreRequestersCount
<1>3. QED
  BY <1>2, CompressionAssumption DEF LastSeq, CompressionTypeOK

-----------------------------------------------------------------------------
(***************************************************************************)
(* Steps that leave the history alone.                                     *)
(***************************************************************************)
\* A request that does not become pending changes nothing the history depends on; an empty
\* summary is the exception that KeepInv makes.
LEMMA HistoryUntouched ==
  ASSUME CompressionInv, NEW q \in Requesters, NEW at, asked[q] # "result", at # "idle",
         at \in Pending => asked[q] \in Pending,
         asked' = [asked EXCEPT ![q] = at], UNCHANGED <<told, spoken, boundary>>,
         \/ UNCHANGED <<early, blank>>
         \/ blank' = TRUE /\ early' = [early EXCEPT ![q] = {}]
  PROVE  HistoryInv'
<1> USE CompressionAssumption DEF CompressionInv, HistoryInv
<1>0. /\ \A p \in Requesters : asked'[p] \in Pending => asked[p] \in Pending
      /\ \A p \in Requesters : asked'[p] = "idle" => asked[p] = "idle"
  BY DEF CompressionTypeOK
<1>1. SeqInv'
  <2>1. LastSeq \in Nat /\ LastSeq' \in Nat /\ LastSeq <= LastSeq'
    BY LastSeqStays, LastSeqIsBounded
  <2>2. /\ \A r \in told : r.seq <= LastSeq'
        /\ \A p \in Requesters : boundary[p] <= LastSeq'
    BY <2>1, RowTypes DEF SeqInv
  <2>3. \A r \in told : IsLast(r) => IsLast(r)'
    BY <1>0 DEF IsLast
  <2>4. QED
    BY <1>0, <2>2, <2>3 DEF SeqInv
<1>2. OrderInv'
  BY DEF CompressionTypeOK, OrderInv, HistoryReadsInOrder
<1>3. KeepInv'
  BY <1>0 DEF KeepInv, Remembered
<1>4. SummaryInv'
  BY <1>0 DEF SummaryInv, OneUser
<1>5. QED
  BY <1>1, <1>2, <1>3, <1>4

LEMMA TalkKeeps ==
  ASSUME CompressionInv, turnOn' \in BOOLEAN, UNCHANGED <<told, spoken, requestSide>>
  PROVE  CompressionInv'
<1> USE DEF CompressionInv, HistoryInv, requestSide
<1>1. CompressionTypeOK' /\ LedInv'
  BY DEF CompressionTypeOK, LedInv
<1>2. SeqInv'
  BY DEF SeqInv, LastSeq, Done, IsLast
<1>3. OrderInv' /\ KeepInv' /\ SummaryInv'
  BY DEF OrderInv, HistoryReadsInOrder, KeepInv, Remembered, SummaryInv, OneUser
<1>4. QED
  BY <1>1, <1>2, <1>3

\* A leader that ends leaves the table, a leader that goes on stays there.
LEMMA LeaveKeepsLed ==
  ASSUME CompressionInv, NEW q \in Requesters, asked[q] \in Leading, NEW how \in RequestOutcomes, LeaveInflight(q, how)
  PROVE  LedInv' /\ inflight' \in [Users -> Requesters \cup {Nobody}]
<1> USE CompressionAssumption DEF CompressionInv, CompressionTypeOK, LeaveInflight, Becomes, Leading, RequestOutcomes
<1>1. inflight' \in [Users -> Requesters \cup {Nobody}]
  OBVIOUS
<1>2. \A u \in Users : inflight'[u] = IF inflight[u] = q THEN Nobody ELSE inflight[u]
  OBVIOUS
<1>3. inflight[User(q)] = q /\ \A u \in Users : inflight[u] = q => u = User(q)
  BY DEF LedInv
<1>4. LedInv'
  BY <1>2, <1>3 DEF LedInv
<1>5. QED
  BY <1>1, <1>4

LEMMA RequestCompressionKeeps ==
  ASSUME NEW q \in Requesters, CompressionInv, RequestCompression(q)
  PROVE  CompressionInv'
<1> USE CompressionAssumption DEF RequestCompression, historySide, Becomes, Pending, Leading, RequestOutcomes
<1>1. HistoryInv'
  <2>1. CASE inflight[User(q)] = Nobody
    BY <2>1, HistoryUntouched
  <2>2. CASE inflight[User(q)] # Nobody
    BY <2>2, HistoryUntouched
  <2>3. QED
    BY <2>1, <2>2
<1>2. CompressionTypeOK'
  BY DEF CompressionInv, CompressionTypeOK
<1>3. LedInv'
  BY DEF CompressionInv, CompressionTypeOK, LedInv
<1>4. QED
  BY <1>1, <1>2, <1>3 DEF CompressionInv

LEMMA FollowLeaderKeeps ==
  ASSUME NEW q \in Requesters, CompressionInv, FollowLeader(q)
  PROVE  CompressionInv'
<1> USE CompressionAssumption DEF FollowLeader, historySide, Becomes, Pending, Leading, RequestOutcomes
<1>1. HistoryInv'
  BY HistoryUntouched
<1>2. CompressionTypeOK'
  BY DEF CompressionInv, CompressionTypeOK
<1>3. LedInv'
  BY DEF CompressionInv, CompressionTypeOK, LedInv
<1>4. QED
  BY <1>1, <1>2, <1>3 DEF CompressionInv

LEMMA CancelRequestKeeps ==
  ASSUME NEW q \in Requesters, CompressionInv, CancelRequest(q)
  PROVE  CompressionInv'
<1> USE CompressionAssumption DEF CancelRequest, historySide, Pending, RequestOutcomes
<1>1. HistoryInv'
  BY HistoryUntouched DEF Leading, LeaveInflight, Becomes
<1>2. CompressionTypeOK' /\ LedInv'
  <2>1. CASE asked[q] \in Leading /\ LeaveInflight(q, "cancelled")
    BY <2>1, LeaveKeepsLed DEF CompressionInv, CompressionTypeOK, LeaveInflight, Becomes
  <2>2. CASE asked[q] = "following" /\ Becomes(q, "cancelled") /\ UNCHANGED inflight
    BY <2>2 DEF CompressionInv, CompressionTypeOK, Becomes, LedInv, Leading
  <2>3. QED
    BY <2>1, <2>2
<1>3. QED
  BY <1>1, <1>2 DEF CompressionInv

LEMMA SummarizeKeeps ==
  ASSUME NEW q \in Requesters, CompressionInv, Summarize(q)
  PROVE  CompressionInv'
<1> USE CompressionAssumption DEF Summarize, historySide, Pending, RequestOutcomes
<1>1. HistoryInv'
  BY HistoryUntouched DEF LeaveInflight, Becomes
<1>2. CompressionTypeOK' /\ LedInv'
  <2>1. CASE LeaveInflight(q, "error") /\ UNCHANGED <<early, blank>>
    BY <2>1, LeaveKeepsLed DEF CompressionInv, CompressionTypeOK, LeaveInflight, Becomes, Leading
  <2>2. CASE /\ Becomes(q, "writing") /\ UNCHANGED inflight
             /\ UNCHANGED <<early, blank>> \/ (early' = [early EXCEPT ![q] = {}] /\ blank' = TRUE)
    BY <2>2 DEF CompressionInv, CompressionTypeOK, Becomes, LedInv, Leading
  <2>3. QED
    BY <2>1, <2>2
<1>3. QED
  BY <1>1, <1>2 DEF CompressionInv

\* The boundary is the number of a row, and some row stands above it.
LEMMA BoundaryIsInside ==
  ASSUME CompressionInv, NEW q \in Requesters, asked[q] = "reading", NEW b \in Seqs,
         Cardinality({n \in Seqs : n > b}) \in 1 .. RecentKeep,
         boundary' = [boundary EXCEPT ![q] = b],
         early' = [early EXCEPT ![q] = Tells({r \in told : r.seq <= b})],
         asked' = [asked EXCEPT ![q] = "summarizing"],
         UNCHANGED <<told, spoken, turnOn, leaderOf, inflight, blank>>
  PROVE  CompressionInv'
<1> USE CompressionAssumption DEF CompressionInv, HistoryInv
<1>1. PICK low \in told : low.seq = b
  BY DEF Seqs
<1>2. PICK high \in told : high.seq > b
  <2>1. PICK above : above = {n \in Seqs : n > b}
    OBVIOUS
  <2>2. Cardinality(above) \in 1 .. RecentKeep
    BY <2>1
  <2>3. Cardinality({}) = 0
    BY FS_EmptySet
  <2>4. above # {}
    BY <2>2, <2>3
  <2>5. QED
    BY <2>1, <2>4 DEF Seqs
<1>3. /\ boundary'[q] = b /\ early'[q] = Tells({r \in told : r.seq <= b}) /\ asked'[q] = "summarizing"
      /\ \A p \in Requesters : p # q => /\ boundary'[p] = boundary[p] /\ early'[p] = early[p]
                                      /\ asked'[p] = asked[p]
  BY DEF CompressionTypeOK
<1>4. CompressionTypeOK'
  <2>1. b \in 0 .. MaxSeq /\ early'[q] \in SUBSET (1 .. MaxSaid)
    BY <1>1, <1>3, RowTypes DEF Tells
  <2>2. QED
    BY <1>3, <2>1 DEF CompressionTypeOK, Leading
<1>5. LedInv'
  BY <1>3 DEF LedInv, Leading
<1>6. SeqInv'
  <2>1. LastSeq \in Nat /\ LastSeq' \in Nat /\ LastSeq <= LastSeq'
    BY LastSeqStays, LastSeqIsBounded
  <2>2. b \in Nat /\ b <= LastSeq
    BY <1>1, RowTypes DEF SeqInv
  <2>3. \A r \in told : IsLast(r) => IsLast(r)'
    BY <1>2, <1>3, RowTypes, <2>2 DEF IsLast, Pending
  <2>4. /\ \A r \in told : r.seq <= LastSeq'
        /\ \A p \in Requesters : boundary'[p] <= LastSeq'
    BY <1>3, <2>1, <2>2, RowTypes DEF SeqInv
  <2>5. QED
    BY <1>1, <2>3, <2>4 DEF SeqInv
<1>7. OrderInv'
  BY <1>3 DEF OrderInv, HistoryReadsInOrder, Tells
<1>8. KeepInv'
  BY <1>1, <1>3, RowTypes DEF KeepInv, Remembered, Tells, Pending
<1>9. SummaryInv'
  BY <1>1, <1>3 DEF SummaryInv, OneUser, Pending
<1>10. QED
  BY <1>4, <1>5, <1>6, <1>7, <1>8, <1>9

LEMMA ReadHistoryKeeps ==
  ASSUME NEW q \in Requesters, CompressionInv, ReadHistory(q)
  PROVE  CompressionInv'
<1> USE DEF ReadHistory, historySide
<1>1. CASE \E how \in {"error", "result"} : LeaveInflight(q, how) /\ UNCHANGED <<boundary, early>>
  <2>1. HistoryInv'
    BY <1>1, HistoryUntouched DEF LeaveInflight, Becomes, Pending
  <2>2. CompressionTypeOK' /\ LedInv'
    BY <1>1, LeaveKeepsLed DEF CompressionInv, CompressionTypeOK, LeaveInflight, Becomes, Leading, RequestOutcomes
  <2>3. QED
    BY <2>1, <2>2 DEF CompressionInv
<1>2. CASE ~ \E how \in {"error", "result"} : LeaveInflight(q, how) /\ UNCHANGED <<boundary, early>>
  BY <1>2, BoundaryIsInside DEF Becomes
<1>3. QED
  BY <1>1, <1>2

-----------------------------------------------------------------------------
(***************************************************************************)
(* Steps that change the rows.                                             *)
(***************************************************************************)
LEMMA SayMessageKeeps ==
  ASSUME CompressionInv, SayMessage
  PROVE  CompressionInv'
<1> USE CompressionAssumption DEF CompressionInv, HistoryInv, requestSide
<1>1. PICK n \in Nat \ {0} :
        /\ told' = told \cup {[seq |-> n, kind |-> "message", tells |-> {spoken + 1}]}
        /\ \A r \in told : r.seq < n
        /\ n <= LastSeq + 1
        /\ \A q \in Requesters : asked[q] \in Pending => boundary[q] < n
  <2>1. CASE told = {}
    BY <2>1, LastSeqIsBounded DEF SayMessage, SeqInv
  <2>2. CASE told # {}
    <3>1. PICK last \in told : IsLast(last)
      BY <2>2 DEF SeqInv
    <3>2. last.seq \in Seqs /\ \A k \in Seqs : k <= last.seq
      BY <3>1 DEF Seqs, IsLast
    <3>3. PICK top \in Seqs : /\ top = CHOOSE k \in Seqs : \A j \in Seqs : j <= k
                              /\ \A j \in Seqs : j <= top
      BY <3>2
    <3>4. top \in Nat \ {0} /\ top <= LastSeq /\ \A r \in told : r.seq <= top
      BY <3>3, RowTypes DEF Seqs, SeqInv
    <3>5. \A q \in Requesters : asked[q] \in Pending => boundary[q] < top
      BY <3>1, <3>2, <3>3, <3>4, RowTypes DEF IsLast
    <3>6. told' = told \cup {[seq |-> top + 1, kind |-> "message", tells |-> {spoken + 1}]}
      BY <2>2, <3>3 DEF SayMessage
    <3>7. /\ top + 1 \in Nat \ {0} /\ top + 1 <= LastSeq + 1 /\ \A r \in told : r.seq < top + 1
          /\ \A q \in Requesters : asked[q] \in Pending => boundary[q] < top + 1
      BY <3>4, <3>5, RowTypes, LastSeqIsBounded
    <3>8. QED
      BY <3>6, <3>7
  <2>3. QED
    BY <2>1, <2>2
<1>12. PICK new : new = [seq |-> n, kind |-> "message", tells |-> {spoken + 1}]
  OBVIOUS
<1>2. /\ told' = told \cup {new} /\ new.seq = n /\ new.kind = "message" /\ new.tells = {spoken + 1}
      /\ spoken' = spoken + 1 /\ spoken < MaxSaid /\ turnOn' = turnOn
      /\ UNCHANGED <<asked, inflight, leaderOf, boundary, early, blank>>
  BY <1>1, <1>12 DEF SayMessage
<1>3. LastSeq' = LastSeq + 1 /\ LastSeq \in Nat
  BY <1>2, LastSeqIsBounded, RequestersCount, RowTypes DEF LastSeq, Done
<1>4. CompressionTypeOK'
  <2>1. spoken' \in 0 .. MaxSaid
    BY <1>2, RowTypes
  <2>2. n <= MaxSeq
    <3>1. PICK c \in Nat : c = Cardinality(Done) /\ c <= Cardinality(Requesters) /\ Cardinality(Requesters) \in Nat
      BY RequestersCount DEF Done
    <3>2. QED
      BY <1>1, <1>2, <3>1, RowTypes DEF LastSeq, MaxSeq
  <2>3. new \in Row
    BY <1>1, <1>2, <1>12, <2>2, RowTypes DEF Row
  <2>4. QED
    BY <1>2, <2>1, <2>3 DEF CompressionTypeOK
<1>5. LedInv'
  BY <1>2 DEF LedInv
<1>6. SeqInv'
  <2>1. new \in told' /\ IsLast(new)'
    BY <1>1, <1>2, RowTypes DEF IsLast
  <2>2. /\ \A r \in told' : r.seq <= LastSeq'
        /\ \A q \in Requesters : boundary'[q] <= LastSeq'
    BY <1>1, <1>2, <1>3, RowTypes DEF SeqInv
  <2>3. QED
    BY <1>2, <2>1, <2>2 DEF SeqInv
<1>7. OrderInv'
  <2>1. \A r \in told : r.seq < new.seq /\ r.seq \in Nat /\ r.tells \subseteq 1 .. spoken
    BY <1>1, <1>2, RowTypes DEF OrderInv
  <2>2. \A m \in 1 .. spoken : m < spoken + 1
    BY RowTypes
  <2>3. HistoryReadsInOrder'
    BY <1>1, <1>2, <2>1, <2>2 DEF HistoryReadsInOrder, OrderInv
  <2>4. \A r \in told' : r.tells \subseteq 1 .. spoken'
    BY <1>2, RowTypes DEF OrderInv
  <2>5. \A q \in Requesters : early'[q] \subseteq 1 .. spoken'
    BY <1>2, RowTypes DEF OrderInv
  <2>6. QED
    BY <2>3, <2>4, <2>5 DEF OrderInv
<1>8. KeepInv'
  <2>1. \A m \in 1 .. spoken' : m \in 1 .. spoken \/ m \in new.tells
    BY <1>2, RowTypes
  <2>2. \A q \in Requesters, m \in 1 .. spoken : Remembered(q, m) => Remembered(q, m)'
    BY <1>2 DEF Remembered
  <2>3. \A q \in Requesters, m \in new.tells : asked[q] \in Pending => Remembered(q, m)'
    BY <1>1, <1>2, RowTypes DEF Remembered
  <2>4. QED
    BY <1>2, <2>1, <2>2, <2>3 DEF KeepInv
<1>9. SummaryInv'
  BY <1>1, <1>2, RowTypes DEF SummaryInv, OneUser
<1>10. QED
  BY <1>4, <1>5, <1>6, <1>7, <1>8, <1>9

LEMMA ShiftedRow ==
  ASSUME NEW r \in Row, MaxSeq \in Nat
  PROVE  /\ Shifted(r).seq = r.seq + 2 /\ Shifted(r).kind = r.kind /\ Shifted(r).tells = r.tells
         /\ r.seq + 2 <= MaxSeq => Shifted(r) \in Row
  BY DEF Shifted, Row

\* The rows after a compression: the pair, and above it those that stood above the boundary.
LEMMA CompressedKeeps ==
  ASSUME CompressionInv, NEW q \in Requesters, asked[q] = "writing",
         told' = {Shifted(r) : r \in Kept(q)} \cup PairOf(q), LeaveInflight(q, "result"),
         UNCHANGED <<spoken, turnOn, leaderOf, boundary, early, blank>>
  PROVE  CompressionInv'
<1> USE CompressionAssumption DEF CompressionInv, HistoryInv
<1>1. PICK b \in Nat : b = boundary[q]
  BY RowTypes
<1>2. PICK summary : summary = [seq |-> b + 1, kind |-> "summary", tells |-> early[q]]
  OBVIOUS
<1>3. PICK ack : ack = [seq |-> b + 2, kind |-> "ack", tells |-> {}]
  OBVIOUS
<1>4. /\ summary \in told' /\ summary.seq = b + 1 /\ summary.kind = "summary" /\ summary.tells = early[q]
      /\ ack \in told' /\ ack.seq = b + 2 /\ ack.kind = "ack" /\ ack.tells = {}
  BY <1>1, <1>2, <1>3 DEF PairOf
<1>5. \A s \in told' :
        s \in {summary, ack} \/ \E r \in told : /\ r.seq > b /\ s = Shifted(r) /\ s.seq = r.seq + 2
                                             /\ s.kind = r.kind /\ s.tells = r.tells
  BY <1>1, <1>2, <1>3, ShiftedRow, RowTypes DEF PairOf, Kept, CompressionTypeOK
<1>6. \A r \in told : r.seq > b => \E s \in told' : /\ s.seq = r.seq + 2 /\ s.kind = r.kind
                                                  /\ s.tells = r.tells
  BY <1>1, ShiftedRow, RowTypes DEF Kept, CompressionTypeOK
<1>7. /\ asked' = [asked EXCEPT ![q] = "result"] /\ asked'[q] = "result"
      /\ \A p \in Requesters : p # q => asked'[p] = asked[p]
  BY DEF LeaveInflight, Becomes, CompressionTypeOK
<1>8. LastSeq' = LastSeq + 2 /\ LastSeq \in Nat /\ LastSeq' <= MaxSeq
  <2>1. Done' = Done \cup {q} /\ q \notin Done /\ Done \in SUBSET Requesters /\ Done' \in SUBSET Requesters
    BY <1>7 DEF Done
  <2>2. PICK c \in Nat : /\ c = Cardinality(Done) /\ Cardinality(Done') = c + 1
                        /\ c + 1 <= Cardinality(Requesters) /\ Cardinality(Requesters) \in Nat
    BY <2>1, RequestersCount, OneMoreCounts
  <2>3. QED
    BY <2>2, RowTypes DEF LastSeq, MaxSeq
<1>9. \A s \in told' : s.seq \in Nat /\ s.seq <= LastSeq'
  <2>1. b <= LastSeq
    BY <1>1 DEF SeqInv
  <2>2. QED
    BY <1>4, <1>5, <1>8, <2>1, RowTypes DEF SeqInv
<1>10. CompressionTypeOK'
  <2>1. summary \in Row /\ ack \in Row
    BY <1>2, <1>3, <1>4, <1>8, <1>9, RowTypes DEF Row, CompressionTypeOK
  <2>2. \A s \in told' : s \in Row
    <3>1. SUFFICES ASSUME NEW s \in told', s \notin {summary, ack} PROVE s \in Row
      BY <2>1
    <3>2. PICK r \in told : s = Shifted(r) /\ s.seq = r.seq + 2
      BY <1>5, <3>1
    <3>3. r \in Row /\ r.seq + 2 <= MaxSeq
      BY <1>8, <1>9, <3>2, RowTypes DEF CompressionTypeOK
    <3>4. QED
      BY <3>2, <3>3, ShiftedRow, RowTypes
  <2>3. inflight' \in [Users -> Requesters \cup {Nobody}]
    BY LeaveKeepsLed DEF Leading, RequestOutcomes
  <2>4. QED
    BY <1>7, <2>2, <2>3 DEF CompressionTypeOK, RequestOutcomes
<1>11. LedInv'
  BY LeaveKeepsLed DEF Leading, RequestOutcomes
<1>12. SeqInv'
  <2>1. PICK last \in told : IsLast(last)
    BY DEF SeqInv, Pending
  <2>2. last.seq > b /\ last.seq \in Nat
    BY <1>1, <2>1, RowTypes DEF IsLast, Pending
  <2>3. PICK s \in told' : s.seq = last.seq + 2
    BY <1>6, <2>2
  <2>4. IsLast(s)'
    BY <1>4, <1>5, <1>7, <2>1, <2>2, <2>3, RowTypes DEF IsLast, Pending
  <2>5. \A p \in Requesters : boundary'[p] <= LastSeq'
    BY <1>8, RowTypes DEF SeqInv
  <2>6. QED
    BY <1>9, <2>3, <2>4, <2>5 DEF SeqInv
<1>13. OrderInv'
  <2>1. \A s \in told' : s.tells \subseteq 1 .. spoken'
    BY <1>4, <1>5 DEF OrderInv
  <2>2. \A r, s \in told' : r.seq = s.seq => r = s
    <3>1. \A r \in told' : r \notin {summary, ack} => r.seq > b + 2
      BY <1>5, RowTypes
    <3>2. SUFFICES ASSUME NEW r \in told', NEW s \in told', r.seq = s.seq PROVE r = s
      OBVIOUS
    <3>3. CASE r \in {summary, ack} \/ s \in {summary, ack}
      BY <1>4, <1>9, <3>1, <3>2, <3>3
    <3>4. CASE r \notin {summary, ack} /\ s \notin {summary, ack}
      <4>1. PICK k \in told : r = Shifted(k) /\ r.seq = k.seq + 2
        BY <1>5, <3>4
      <4>2. PICK l \in told : s = Shifted(l) /\ s.seq = l.seq + 2
        BY <1>5, <3>4
      <4>3. k.seq = l.seq
        BY <3>2, <4>1, <4>2, RowTypes
      <4>4. QED
        BY <4>1, <4>2, <4>3 DEF OrderInv, HistoryReadsInOrder
    <3>5. QED
      BY <3>3, <3>4
  <2>3. \A r, s \in told' : r.kind # "message" /\ s.kind = "message" => r.seq < s.seq
    BY <1>4, <1>5, RowTypes DEF OrderInv, HistoryReadsInOrder
  <2>4. \A r, s \in told' : r.kind = "message" /\ s.kind = "message" /\ r.seq < s.seq =>
                            \A m \in r.tells, n \in s.tells : m < n
    <3>1. SUFFICES ASSUME NEW r \in told', NEW s \in told', r.kind = "message", s.kind = "message", r.seq < s.seq
                   PROVE  \A m \in r.tells, n \in s.tells : m < n
      OBVIOUS
    <3>2. PICK k \in told : r.seq = k.seq + 2 /\ r.kind = k.kind /\ r.tells = k.tells
      BY <1>4, <1>5, <3>1
    <3>3. PICK l \in told : s.seq = l.seq + 2 /\ s.kind = l.kind /\ s.tells = l.tells
      BY <1>4, <1>5, <3>1
    <3>4. k.seq < l.seq /\ k # l
      BY <3>1, <3>2, <3>3, RowTypes
    <3>5. QED
      BY <3>1, <3>2, <3>3, <3>4 DEF OrderInv, HistoryReadsInOrder
  <2>5. QED
    BY <2>1, <2>2, <2>3, <2>4 DEF OrderInv, HistoryReadsInOrder
<1>14. KeepInv'
  <2>1. SUFFICES ASSUME ~blank PROVE KeepInv'
    BY DEF KeepInv
  <2>2. \A m \in 1 .. spoken : m \in early[q] \/ \E r \in told : r.seq > b /\ m \in r.tells
    BY <1>1, <2>1 DEF KeepInv, Remembered, Pending
  <2>3. \A m \in 1 .. spoken' : \E s \in told' : s.seq > b /\ m \in s.tells
    BY <1>4, <1>6, <2>2, RowTypes
  <2>4. ASSUME NEW p \in Requesters, p # q, asked[p] \in Pending, NEW m \in 1 .. spoken
        PROVE  Remembered(p, m)'
    <3>1. CASE m \in early[p]
      BY <3>1 DEF Remembered
    <3>2. CASE m \notin early[p]
      <4>1. PICK r \in told : r.seq > boundary[p] /\ m \in r.tells
        BY <2>1, <2>4, <3>2 DEF KeepInv, Remembered
      <4>2. CASE r.seq > b
        BY <1>6, <4>1, <4>2, RowTypes DEF Remembered
      <4>3. CASE r.seq <= b
        BY <2>3, <4>1, <4>3, <1>9, RowTypes DEF Remembered
      <4>4. QED
        BY <4>2, <4>3, RowTypes
    <3>3. QED
      BY <3>1, <3>2
  <2>5. QED
    BY <1>7, <2>3, <2>4 DEF KeepInv, Pending
<1>15. SummaryInv'
  <2>1. SUFFICES ASSUME OneUser' PROVE SummaryInv'
    BY DEF SummaryInv
  <2>2. OneUser
    BY <1>7, <2>1 DEF OneUser
  <2>3. \A p \in Requesters : p # q => asked[p] \notin Pending
    <3>1. PICK u \in Users : \A p \in Requesters : asked[p] # "idle" => User(p) = u
      BY <2>2 DEF OneUser
    <3>2. QED
      BY <3>1 DEF LedInv, Pending, Leading
  <2>4. \A s \in told' : s.kind = "summary" => s = summary
    BY <1>1, <1>4, <1>5, <2>2, RowTypes DEF SummaryInv, Pending
  <2>5. \A s \in told' : summary.seq <= s.seq
    BY <1>4, <1>5, RowTypes
  <2>6. QED
    BY <1>7, <2>3, <2>4, <2>5 DEF SummaryInv, Pending
<1>16. QED
  BY <1>10, <1>11, <1>12, <1>13, <1>14, <1>15

LEMMA WriteSummaryKeeps ==
  ASSUME NEW q \in Requesters, CompressionInv, WriteSummary(q)
  PROVE  CompressionInv'
<1>1. CASE told' = {Shifted(r) : r \in Kept(q)} \cup PairOf(q) /\ LeaveInflight(q, "result")
  BY <1>1, CompressedKeeps DEF WriteSummary
<1>2. CASE LeaveInflight(q, "error") /\ UNCHANGED told
  <2>1. HistoryInv'
    BY <1>2, HistoryUntouched DEF WriteSummary, LeaveInflight, Becomes, Pending
  <2>2. CompressionTypeOK' /\ LedInv'
    BY <1>2, LeaveKeepsLed DEF WriteSummary, CompressionInv, CompressionTypeOK, LeaveInflight, Becomes, Leading, RequestOutcomes
  <2>3. QED
    BY <2>1, <2>2 DEF CompressionInv
<1>3. QED
  BY <1>1, <1>2 DEF WriteSummary

-----------------------------------------------------------------------------
LEMMA CompressionInitKeeps == CompressionInit => CompressionInv
<1> SUFFICES ASSUME CompressionInit PROVE CompressionInv
  OBVIOUS
<1> USE CompressionAssumption DEF CompressionInit
<1>1. MaxSeq \in Nat
  BY RequestersCount DEF MaxSeq
<1>2. CompressionTypeOK
  <2>1. 0 \in 0 .. MaxSeq /\ 0 \in 0 .. MaxSaid /\ {} \in SUBSET (1 .. MaxSaid)
    BY <1>1
  <2>2. {turnOn, blank} \subseteq BOOLEAN /\ \A r \in told : r \in Row
    OBVIOUS
  <2>3. QED
    BY <2>1, <2>2 DEF CompressionTypeOK
<1>3. LedInv
  BY DEF LedInv, Leading
<1>4. SeqInv
  BY <1>2, LastSeqIsBounded DEF SeqInv, Pending
<1>5. OrderInv /\ KeepInv /\ SummaryInv
  BY DEF OrderInv, HistoryReadsInOrder, KeepInv, SummaryInv, Pending
<1>6. QED
  BY <1>2, <1>3, <1>4, <1>5 DEF CompressionInv, HistoryInv

LEMMA CompressionStepKeeps == CompressionInv /\ [CompressionNext]_compressionVars => CompressionInv'
<1> SUFFICES ASSUME CompressionInv, [CompressionNext]_compressionVars PROVE CompressionInv'
  OBVIOUS
<1>1. CASE \E q \in Requesters : RequestCompression(q) \/ LeaderStep(q) \/ FollowLeader(q) \/ CancelRequest(q)
  BY <1>1, RequestCompressionKeeps, ReadHistoryKeeps, SummarizeKeeps, WriteSummaryKeeps,
     FollowLeaderKeeps, CancelRequestKeeps DEF LeaderStep
<1>2. CASE StartTalk \/ EndTalk \/ UNCHANGED compressionVars
  BY <1>2, TalkKeeps DEF StartTalk, EndTalk, compressionVars, requestSide, CompressionInv, CompressionTypeOK
<1>3. CASE SayMessage
  BY <1>3, SayMessageKeeps
<1>4. QED
  BY <1>1, <1>2, <1>3 DEF CompressionNext

LEMMA CompressionInvHolds == CompressionSpec => []CompressionInv
  BY CompressionInitKeeps, CompressionStepKeeps, PTL DEF CompressionSpec

\* The variables stay in their types: no number of a row outgrows what was said and written.
THEOREM CompressionTypeCorrect == CompressionSpec => []CompressionTypeOK
<1>1. CompressionInv => CompressionTypeOK
  BY DEF CompressionInv
<1>2. QED
  BY <1>1, CompressionInvHolds, PTL

\* However many compressions of however many users overlap with each other and with turns:
\* every message is in the history or in a summary there, rows are in order and distinct, one
\* user's requests leave one summary, and the table of futures has the leaders only.
THEOREM HistoryStaysKept == CompressionSpec => []HistoryIsKept
<1>1. CompressionInv => NothingIsForgotten
  BY DEF CompressionInv, HistoryInv, KeepInv, OrderInv, NothingIsForgotten, Tells
<1>2. CompressionInv => HistoryReadsInOrder
  BY DEF CompressionInv, HistoryInv, OrderInv
<1>3. CompressionInv => SummariesDoNotRepeat
  <2> SUFFICES ASSUME CompressionInv, OneUser PROVE Cardinality({r \in told : r.kind = "summary"}) <= 1
    BY DEF SummariesDoNotRepeat
  <2>1. PICK S : S = {r \in told : r.kind = "summary"}
    OBVIOUS
  <2>2. \A r, s \in S : r = s
    BY <2>1, RowTypes DEF CompressionInv, HistoryInv, SummaryInv, OrderInv, HistoryReadsInOrder
  <2>3. Cardinality(S) <= 1
    <3>1. CASE S = {}
      BY <3>1, FS_EmptySet
    <3>2. CASE S # {}
      <4>1. PICK s : S = {s}
        BY <2>2, <3>2
      <4>2. Cardinality({s}) = 1
        BY FS_Singleton
      <4>3. QED
        BY <4>1, <4>2
    <3>3. QED
      BY <3>1, <3>2
  <2>4. QED
    BY <2>1, <2>3
<1>4. CompressionInv => InflightIsLed
  <2> SUFFICES ASSUME CompressionInv, NEW u \in Users
               PROVE  {q \in Requesters : User(q) = u /\ asked[q] \in Leading}
                        = IF inflight[u] = Nobody THEN {} ELSE {inflight[u]}
    BY DEF InflightIsLed
  <2>1. inflight[u] \in Requesters \cup {Nobody}
    BY DEF CompressionInv, CompressionTypeOK
  <2>2. QED
    BY <2>1, CompressionAssumption DEF CompressionInv, LedInv
<1>5. QED
  BY <1>1, <1>2, <1>3, <1>4, CompressionInvHolds, PTL DEF HistoryIsKept

-----------------------------------------------------------------------------
(***************************************************************************)
(* The events of a turn (TurnEvents).                                      *)
(***************************************************************************)
TurnEventsSpec == TurnEventsInit /\ [][TurnEventsNext]_turnEventsVars

\* The events that are still to be forwarded.
Waiting == {evq[i] : i \in 1..Len(evq)}
Carried == Waiting \cup {courier.hand}

\* What an event says of the agent is true from when it is emitted on.
Fits(e) ==
  /\ e.kind = "delta" => e.of <= author.message /\ e.piece <= author.said[e.of]
  /\ e.kind = "end" => e.of <= author.message /\ (e.of = author.message => author.at # "writing")
  /\ e.kind = "file" => e.of \in author.files
  /\ e.kind = "loop" => e.of \subseteq author.deferred
  /\ e.kind = "plan" => \E t \in PlanRows : author.work[t] # "none"
  /\ e.kind = "task" => author.work[e.of] \in Outcomes \cup {"running"}
  /\ IsTerminal(e) => author.work[e.of] = e.status

\* What the order of two events says: a comes before b.
InOrder(a, b) ==
  /\ a.kind # "sentinel"
  /\ b.kind = "plan" => a.kind \notin {"plan", "task"}
  /\ a.kind = "task" /\ b.kind = "task" /\ a.of = b.of => a.status = "running"
  /\ a.kind = "end" /\ b.kind \in {"delta", "end"} => a.of < b.of
  /\ a.kind = "delta" /\ b.kind \in {"delta", "end"} => a.of <= b.of
  /\ a.kind = "delta" /\ b.kind = "delta" => a.of # b.of \/ a.piece # b.piece

StageInv ==
  /\ author.at = "closed" <=> tail # "agent"
  /\ courier.at \in {"idle", "flush", "done"} => courier.hand = Nothing
  /\ courier.hand.kind # "sentinel"
  /\ tail = "agent" => \A e \in Waiting : e.kind # "sentinel"
  /\ courier.at \in {"flush", "done"} => evq = <<>> /\ tail # "agent"
  /\ courier.at = "cancelled" => tail \in {"guards", "draining", "sweeping", "over", "torn"}
  /\ tail \in {"guards", "draining"} => courier.at = "cancelled"
  /\ tail \in {"sweeping", "over"} => courier.at \in {"done", "cancelled"} /\ evq = <<>>

CarriedInv ==
  /\ \A e \in Carried : Fits(e)
  /\ \A i, j \in 1..Len(evq) : i < j => InOrder(evq[i], evq[j])
  /\ \A i \in 1..Len(evq) : InOrder(courier.hand, evq[i])
  /\ \A m \in 1..MaxMessages : author.said[m] # 0 => m <= author.message

Forwarding == courier.at # "cancelled" \/ tail = "guards"

TextInv ==
  /\ TextIsStoredOnce
  /\ Forwarding =>
       \A p \in courier.text :
         /\ p[1] <= author.message /\ p[2] <= author.said[p[1]]
         /\ \A m \in 1..MaxMessages : p \notin textRow[m]
         /\ \A e \in Carried : e.kind \in {"delta", "end"} => p[1] <= e.of
  /\ courier.at # "cancelled" =>
       \A e \in Carried : e.kind = "delta" =>
         /\ <<e.of, e.piece>> \notin courier.text
         /\ \A m \in 1..MaxMessages : <<e.of, e.piece>> \notin textRow[m]

\* Nothing has been lost so far.
Sound ==
  "db" \notin setback /\ ~author.dropped /\ courier.at # "cancelled" /\ tail \notin {"tearing", "torn"}

EndAhead(m) == (author.at = "writing" /\ m = author.message) \/ StreamEnd(m) \in Carried

Placed(m, n) == Delta(m, n) \in Carried \/ <<m, n>> \in courier.text \/ <<m, n>> \in textRow[m]

StoreInv ==
  /\ kept \subseteq author.files /\ courier.files \subseteq author.files
  /\ Sound =>
       /\ \A f \in author.files : f \in kept \cup courier.files \/ FileOutput(f) \in Carried
       /\ courier.at = "done" => courier.files \subseteq kept
       /\ \A m \in 1..MaxMessages : \A n \in 1..author.said[m] : Placed(m, n)
       /\ \A p \in courier.text : EndAhead(p[1])
       /\ \A e \in Carried : e.kind = "delta" => EndAhead(e.of)
       /\ \A m \in 1..MaxMessages : \A p \in textRow[m] : p[1] = m /\ ~EndAhead(m)

OutcomeInv ==
  ~nested /\ "db" \notin setback /\ ~author.dropped /\ tail \notin {"tearing", "torn"} =>
    \A t \in PlanRows :
      /\ courier.at # "cancelled" =>
           /\ author.work[t] # "none" => planRow[t] # "none" \/ PlanCreated \in Carried
           /\ author.work[t] \in Outcomes =>
                TaskEvent(t, author.work[t]) \in Carried \/ (t \in courier.terminal /\ planRow[t] = author.work[t])
      /\ courier.at = "cancelled" /\ author.work[t] \in Outcomes =>
           \/ TaskEvent(t, author.work[t]) \in Carried \/ courier.hand.kind = "plan"
           \/ planRow[t] \in {author.work[t], "none"}

PlanInv ==
  /\ ParentPlanIsKept /\ PlanIsSettled
  /\ courier.deferred \subseteq author.deferred
  /\ \A t \in PlanRows : author.work[t] # "none" => t \in workload.tasks
  /\ \A t \in courier.terminal : author.work[t] \in Outcomes
  /\ courier.at # "cancelled" =>
       \A t \in courier.terminal : \A e \in Carried : e.kind # "plan" /\ (e.kind = "task" => e.of # t)
  /\ ~nested /\ "db" \notin setback => \A t \in courier.terminal : planRow[t] \in Outcomes \cup {"none"}
  /\ OutcomeInv

TurnEventsInv == TurnEventsTypeOK /\ StageInv /\ CarriedInv /\ TextInv /\ StoreInv /\ PlanInv

-----------------------------------------------------------------------------
(***************************************************************************)
(* The events, and the queue a close leaves.                               *)
(***************************************************************************)
Kinds == {"none", "sentinel", "plan", "delta", "end", "file", "loop", "task"}

LEMMA EventForms ==
  ASSUME NEW e \in Events
  PROVE  /\ e.kind \in Kinds
         /\ e.kind = "none" => e = Nothing
         /\ e.kind = "sentinel" => e = Sentinel
         /\ e.kind = "plan" => e = PlanCreated
         /\ e.kind = "delta" => /\ e.of \in 1..MaxMessages /\ e.piece \in 1..workload.deltas
                               /\ e = Delta(e.of, e.piece)
         /\ e.kind = "end" => e.of \in 1..MaxMessages /\ e = StreamEnd(e.of)
         /\ e.kind = "file" => e.of \in Files /\ e = FileOutput(e.of)
         /\ e.kind = "loop" => e.of \subseteq PlanRows
         /\ e.kind = "task" => /\ e.of \in PlanRows /\ e.status \in Outcomes \cup {"running"}
                              /\ e = TaskEvent(e.of, e.status)
  BY DEF Events, Kinds, Nothing, Sentinel, PlanCreated, Delta, StreamEnd, FileOutput, LoopCompleted, TaskEvent

\* What the clearing makes of the queue, event after event.
Collect(s, i) == IF KeptOnClose(evq[i]) THEN Append(s, evq[i]) ELSE s
Collected(f, k) == [i \in 0..k |-> IF i = 0 THEN <<>> ELSE Collect(f[i - 1], i)]

LEMMA PrefixesAreCollected ==
  ASSUME NEW k \in Nat
  PROVE  \E f : f = Collected(f, k)
<1> DEFINE F(n) == \E f : f = Collected(f, n)
           Bad  == {n \in Nat : ~F(n)}
<1>1. F(0)
  <2> DEFINE g == [i \in 0..0 |-> <<>>]
  <2>1. g = Collected(g, 0)
    BY DEF Collected
  <2>. QED BY <2>1
<1>2. ASSUME NEW n \in Nat, F(n) PROVE F(n + 1)
  <2>1. PICK f : f = Collected(f, n)
    BY <1>2
  <2>2. \A i \in 0..n : f[i] = IF i = 0 THEN <<>> ELSE Collect(f[i - 1], i)
    BY Zenon, <2>1 DEF Collected
  <2> DEFINE last == Collect(f[n], n + 1)
             g == [i \in 0..(n + 1) |-> IF i = n + 1 THEN last ELSE f[i]]
  <2>3. /\ \A i \in 0..n : g[i] = f[i]
        /\ g[n + 1] = last
    <3> HIDE DEF last
    <3>. QED OBVIOUS
  <2>4. ASSUME NEW i \in 0..(n + 1)
        PROVE  g[i] = IF i = 0 THEN <<>> ELSE Collect(g[i - 1], i)
    <3> HIDE DEF g
    <3>1. CASE i = n + 1
      <4>1. n \in 0..n /\ i # 0 /\ i - 1 = n
        BY <3>1
      <4>2. g[i] = Collect(g[n], n + 1)
        BY <2>3, <3>1, <4>1
      <4>. QED BY <3>1, <4>1, <4>2
    <3>2. CASE i # n + 1
      <4>1. i \in 0..n /\ (i # 0 => i - 1 \in 0..n)
        BY <3>2
      <4>. QED BY <2>2, <2>3, <4>1
    <3>. QED BY <3>1, <3>2
  <2>5. g = [i \in 0..(n + 1) |-> g[i]]
    OBVIOUS
  <2> HIDE DEF g
  <2>6. g = Collected(g, n + 1)
    <3>1. Collected(g, n + 1) = [i \in 0..(n + 1) |-> g[i]]
      BY Zenon, <2>4 DEF Collected
    <3>. QED BY <2>5, <3>1
  <2>. QED BY <2>6
<1> HIDE DEF F
<1>3. Bad = {}
  <2>1. SUFFICES ASSUME Bad # {} PROVE FALSE
    OBVIOUS
  <2>2. PICK n \in Bad : \A m \in Bad : ~(<<m, n>> \in OpToRel(<, Nat))
    BY <2>1, NatLessThanWellFounded, WFMin
  <2>3. n \in Nat /\ n # 0
    BY <1>1, <2>2
  <2>4. n - 1 \in Nat /\ (n - 1) + 1 = n /\ n \in Nat
    BY <2>3
  <2>5. <<n - 1, n>> \in OpToRel(<, Nat)
    BY <2>4 DEF OpToRel
  <2>6. n - 1 \notin Bad
    BY <2>2, <2>5
  <2>. QED BY <1>2, <2>2, <2>4, <2>6
<1>. QED BY <1>3 DEF F

LEMMA WantedUnfolds ==
  ASSUME Len(evq) \in Nat
  PROVE  \A i \in 0..Len(evq) : Wanted[i] = IF i = 0 THEN <<>> ELSE Collect(Wanted[i - 1], i)
<1>1. \E f : f = [i \in 0..Len(evq) |->
                   IF i = 0 THEN <<>>
                   ELSE IF KeptOnClose(evq[i]) THEN Append(f[i - 1], evq[i]) ELSE f[i - 1]]
  BY PrefixesAreCollected DEF Collected, Collect
<1>2. Wanted = [i \in 0..Len(evq) |->
                 IF i = 0 THEN <<>>
                 ELSE IF KeptOnClose(evq[i]) THEN Append(Wanted[i - 1], evq[i]) ELSE Wanted[i - 1]]
  BY Zenon, <1>1 DEF Wanted
<1>. QED BY Zenon, <1>2 DEF Collect

\* s has what is wanted of the first i events, in their order.
Holds(s, i) ==
  /\ s \in Seq(Events) /\ Len(s) <= i
  /\ (\E b \in 1..i : ~KeptOnClose(evq[b])) => Len(s) < i
  /\ \A a \in 1..Len(s) : \E b \in 1..i : s[a] = evq[b]
  /\ \A a, c \in 1..Len(s) : a < c => \E b, d \in 1..i : b < d /\ s[a] = evq[b] /\ s[c] = evq[d]
  /\ \A b \in 1..i : KeptOnClose(evq[b]) => \E a \in 1..Len(s) : s[a] = evq[b]

LEMMA CollectHolds ==
  ASSUME evq \in Seq(Events), NEW i \in 1..Len(evq), NEW s, Holds(s, i - 1)
  PROVE  Holds(Collect(s, i), i)
<1>0. Len(evq) \in Nat /\ evq[i] \in Events /\ i \in Nat /\ i - 1 \in Nat /\ i \in 1..i
  OBVIOUS
<1>1. \A b \in 1..i : b = i \/ b \in 1..(i - 1)
  BY <1>0
<1>2. \A b \in 1..(i - 1) : b \in 1..i /\ b < i
  BY <1>0
<1>3. CASE KeptOnClose(evq[i])
  <2> DEFINE q == Append(s, evq[i])
  <2>0. s \in Seq(Events) /\ Len(s) \in Nat
    BY DEF Holds
  <2>1. /\ q \in Seq(Events) /\ Len(q) = Len(s) + 1 /\ q[Len(q)] = evq[i] /\ Len(q) \in 1..Len(q)
        /\ \A a \in 1..Len(s) : q[a] = s[a] /\ a \in 1..Len(q)
        /\ \A a \in 1..Len(q) : a = Len(q) \/ a \in 1..Len(s)
        /\ \A a, c \in 1..Len(q) : a < c => a \in 1..Len(s)
    BY <1>0, <2>0
  <2> HIDE DEF q
  <2>2. Len(q) <= i /\ ((\E b \in 1..i : ~KeptOnClose(evq[b])) => Len(q) < i)
    BY <1>0, <1>1, <1>3, <2>0, <2>1 DEF Holds
  <2>3. \A a \in 1..Len(q) : \E b \in 1..i : q[a] = evq[b]
    BY <1>0, <1>2, <2>1 DEF Holds
  <2>4. ASSUME NEW a \in 1..Len(q), NEW c \in 1..Len(q), a < c
        PROVE  \E b, d \in 1..i : b < d /\ q[a] = evq[b] /\ q[c] = evq[d]
    <3>1. a \in 1..Len(s) /\ q[a] = s[a]
      BY <2>1, <2>4
    <3>2. CASE c \in 1..Len(s)
      <4>1. q[c] = s[c]
        BY <2>1, <3>2
      <4>2. PICK b, d \in 1..(i - 1) : b < d /\ s[a] = evq[b] /\ s[c] = evq[d]
        BY <2>4, <3>1, <3>2 DEF Holds
      <4>. QED BY <1>2, <3>1, <4>1, <4>2
    <3>3. CASE c = Len(q)
      <4>1. PICK b \in 1..(i - 1) : s[a] = evq[b]
        BY <3>1 DEF Holds
      <4>. QED BY <1>0, <1>2, <2>1, <3>1, <3>3, <4>1
    <3>. QED BY <2>1, <3>2, <3>3
  <2>5. ASSUME NEW b \in 1..i, KeptOnClose(evq[b])
        PROVE  \E a \in 1..Len(q) : q[a] = evq[b]
    <3>1. CASE b = i
      BY <2>1, <3>1
    <3>2. CASE b # i
      <4>1. b \in 1..(i - 1)
        BY <3>2
      <4>2. PICK a \in 1..Len(s) : s[a] = evq[b]
        BY <2>5, <4>1 DEF Holds
      <4>3. a \in 1..Len(q) /\ q[a] = s[a]
        BY <2>1, <4>2
      <4>. QED
        BY <4>2, <4>3
    <3>. QED
      BY <3>1, <3>2
  <2>6. Collect(s, i) = q
    BY <1>3 DEF Collect, q
  <2>7. \A a, c \in 1..Len(q) : a < c => \E b, d \in 1..i : b < d /\ q[a] = evq[b] /\ q[c] = evq[d]
    BY <2>4
  <2>8. \A b \in 1..i : KeptOnClose(evq[b]) => \E a \in 1..Len(q) : q[a] = evq[b]
    BY <2>5
  <2>9. Holds(q, i)
    BY <2>1, <2>2, <2>3, <2>7, <2>8 DEF Holds
  <2>. QED BY <2>6, <2>9
<1>4. CASE ~KeptOnClose(evq[i])
  <2>1. Collect(s, i) = s
    BY <1>4 DEF Collect
  <2>2. s \in Seq(Events) /\ Len(s) \in Nat /\ Len(s) < i
    BY <1>0 DEF Holds
  <2>3. \A a, c \in 1..Len(s) : a < c => \E b, d \in 1..i : b < d /\ s[a] = evq[b] /\ s[c] = evq[d]
    BY <1>2 DEF Holds
  <2>4. \A a \in 1..Len(s) : \E b \in 1..i : s[a] = evq[b]
    BY <1>2 DEF Holds
  <2>5. \A b \in 1..i : KeptOnClose(evq[b]) => \E a \in 1..Len(s) : s[a] = evq[b]
    BY <1>1, <1>4 DEF Holds
  <2>6. Len(s) <= i
    BY <1>0, <2>2
  <2>7. Holds(s, i)
    BY <2>2, <2>3, <2>4, <2>5, <2>6 DEF Holds
  <2>. QED BY <2>1, <2>7
<1>. QED BY <1>3, <1>4

LEMMA WantedHolds ==
  ASSUME evq \in Seq(Events)
  PROVE  Holds(Wanted[Len(evq)], Len(evq))
<1> DEFINE F(n) == Holds(Wanted[n], n)
           N == 0..Len(evq)
           Bad == {n \in N : ~F(n)}
<1>0. Len(evq) \in Nat
  OBVIOUS
<1>1. F(0)
  <2>1. Wanted[0] = <<>>
    BY <1>0, WantedUnfolds
  <2>. QED BY <2>1 DEF Holds
<1>2. ASSUME NEW n \in N, n # 0, F(n - 1) PROVE F(n)
  <2>1. Wanted[n] = Collect(Wanted[n - 1], n) /\ n \in 1..Len(evq)
    BY <1>0, <1>2, WantedUnfolds
  <2>. QED BY <1>2, <2>1, CollectHolds
<1>3. Bad = {}
  <2>1. SUFFICES ASSUME Bad # {} PROVE FALSE
    OBVIOUS
  <2> HIDE DEF F
  <2>2. Bad \subseteq Nat
    BY <1>0
  <2>3. PICK n \in Bad : \A m \in Bad : ~(<<m, n>> \in OpToRel(<, Nat))
    BY <2>1, <2>2, NatLessThanWellFounded, WFMin
  <2>4. n \in N /\ n # 0
    BY <1>1, <2>3
  <2>5. n - 1 \in N /\ n - 1 \in Nat /\ n \in Nat /\ n - 1 < n
    BY <1>0, <2>4
  <2>6. <<n - 1, n>> \in OpToRel(<, Nat)
    BY <2>5 DEF OpToRel
  <2>7. n - 1 \notin Bad
    BY <2>3, <2>6
  <2>. QED BY <1>2, <2>3, <2>4, <2>5, <2>7
<1> HIDE DEF F
<1>4. F(Len(evq))
  BY <1>0, <1>3
<1>. QED BY <1>4 DEF F

\* A closed queue ends with the sentinel, and what is before it was queued, in that order;
\* if the clearing drops nothing, what makes rows is all there.
LEMMA ClosingKeeps ==
  ASSUME evq \in Seq(Events), Len(evq) <= QueueSize
  PROVE  /\ ClosedQueue \in Seq(Events) /\ Len(ClosedQueue) <= QueueSize
         /\ ClosedQueue # <<>>
         /\ \A i \in 1..Len(ClosedQueue) : ClosedQueue[i] = Sentinel \/ ClosedQueue[i] \in Waiting
         /\ \A i, j \in 1..Len(ClosedQueue) :
              i < j => \/ ClosedQueue[i] \in Waiting /\ ClosedQueue[j] = Sentinel
                       \/ \E a, b \in 1..Len(evq) :
                            a < b /\ ClosedQueue[i] = evq[a] /\ ClosedQueue[j] = evq[b]
         /\ ~ClosingDrops =>
              \A e \in Waiting : KeptOnClose(e) \/ e.kind \in {"plan", "loop"} =>
                \E i \in 1..Len(ClosedQueue) : ClosedQueue[i] = e
<1> DEFINE w == Wanted[Len(evq)]
           body == IF Len(evq) < QueueSize THEN evq ELSE LastOf(w, QueueSize - 1)
           q == Append(body, Sentinel)
<1>0. Len(evq) \in Nat /\ QueueSize \in Nat /\ QueueSize > 1
  BY TurnEventsAssumption
<1>1. Holds(w, Len(evq))
  BY WantedHolds
<1> HIDE DEF w
<1>2. /\ body \in Seq(Events) /\ Len(body) \in Nat /\ Len(body) < QueueSize
      /\ \A i \in 1..Len(body) : \E a \in 1..Len(evq) : body[i] = evq[a]
      /\ \A i, j \in 1..Len(body) :
           i < j => \E a, b \in 1..Len(evq) : a < b /\ body[i] = evq[a] /\ body[j] = evq[b]
      /\ ~ClosingDrops =>
           \A e \in Waiting : KeptOnClose(e) \/ e.kind \in {"plan", "loop"} =>
             \E i \in 1..Len(body) : body[i] = e
  <2>1. CASE Len(evq) < QueueSize
    BY <1>0, <2>1 DEF Waiting
  <2>2. CASE Len(evq) = QueueSize
    <3>1. w \in Seq(Events) /\ Len(w) \in Nat /\ Len(w) <= QueueSize
      BY <1>0, <1>1, <2>2 DEF Holds
    <3> DEFINE s == IF QueueSize - 1 < Len(w) THEN Len(w) - (QueueSize - 1) + 1 ELSE 1
    <3>2. s \in 1..(Len(w) + 1) /\ Len(w) - s + 1 < QueueSize /\ Len(w) - s + 1 \in Nat
      <4>1. CASE QueueSize - 1 < Len(w)
        BY <1>0, <3>1, <4>1
      <4>2. CASE ~(QueueSize - 1 < Len(w))
        BY <1>0, <3>1, <4>2
      <4>. QED BY <4>1, <4>2
    <3>3. body = SubSeq(w, s, Len(w))
      <4>1. ~(Len(evq) < QueueSize)
        BY <1>0, <2>2
      <4>. QED BY Zenon, <4>1 DEF LastOf
    <3>4. /\ body \in Seq(Events) /\ Len(body) = Len(w) - s + 1
          /\ \A i \in 1..Len(body) : body[i] = w[s + i - 1]
      <4> HIDE DEF s, body
      <4>. QED BY <3>1, <3>2, <3>3
    <3>5. \A i \in 1..Len(body) : s + i - 1 \in 1..Len(w)
      <4> HIDE DEF s, body
      <4>. QED BY <3>1, <3>2, <3>4
    <3> HIDE DEF body
    <3>6. \A i \in 1..Len(body) : \E a \in 1..Len(evq) : body[i] = evq[a]
      <4> HIDE DEF s
      <4>. QED BY <1>1, <3>4, <3>5 DEF Holds
    <3>7. ASSUME NEW i \in 1..Len(body), NEW j \in 1..Len(body), i < j
          PROVE  \E a, b \in 1..Len(evq) : a < b /\ body[i] = evq[a] /\ body[j] = evq[b]
      <4> HIDE DEF s
      <4>1. s + i - 1 < s + j - 1
        BY <3>2, <3>4, <3>7
      <4>2. body[i] = w[s + i - 1] /\ body[j] = w[s + j - 1] /\ s + i - 1 \in 1..Len(w) /\ s + j - 1 \in 1..Len(w)
        BY <3>4, <3>5
      <4>3. PICK a, b \in 1..Len(evq) : a < b /\ w[s + i - 1] = evq[a] /\ w[s + j - 1] = evq[b]
        BY <1>1, <4>1, <4>2 DEF Holds
      <4>. QED BY <4>2, <4>3
    <3>8. ASSUME ~ClosingDrops, NEW e \in Waiting, KeptOnClose(e) \/ e.kind \in {"plan", "loop"}
          PROVE  \E i \in 1..Len(body) : body[i] = e
      <4>1. ToSet(evq) = Waiting
        BY DEF ToSet, Waiting
      <4>2. PICK b \in 1..Len(evq) : ~KeptOnClose(evq[b])
        BY <2>2, <3>8, <4>1 DEF ClosingDrops, Waiting
      <4>3. KeptOnClose(e)
        BY <2>2, <3>8, <4>1 DEF ClosingDrops
      <4>4. Len(w) < QueueSize
        BY <1>1, <2>2, <4>2 DEF Holds
      <4>5. s = 1
        BY <1>0, <3>1, <4>4
      <4>6. PICK a \in 1..Len(w) : w[a] = e
        <5>1. PICK d \in 1..Len(evq) : e = evq[d]
          BY <3>8 DEF Waiting
        <5>. QED BY <1>1, <4>3, <5>1 DEF Holds
      <4>. QED BY <3>1, <3>4, <4>5, <4>6
    <3>9. Len(body) \in Nat /\ Len(body) < QueueSize
      <4> HIDE DEF s
      <4>. QED BY <3>2, <3>4
    <3>. QED BY <3>4, <3>6, <3>7, <3>8, <3>9
  <2>. QED BY <1>0, <2>1, <2>2
<1> HIDE DEF body
<1>3. Sentinel \in Events
  BY DEF Events
<1>4. /\ q \in Seq(Events) /\ Len(q) = Len(body) + 1 /\ q # <<>> /\ q[Len(q)] = Sentinel
      /\ \A i \in 1..Len(body) : q[i] = body[i] /\ i \in 1..Len(q)
      /\ \A i \in 1..Len(q) : i = Len(q) \/ i \in 1..Len(body)
      /\ \A i, j \in 1..Len(q) : i < j => i \in 1..Len(body)
  <2>1. body \in Seq(Events) /\ Len(body) \in Nat
    BY <1>2
  <2>2. q \in Seq(Events) /\ Len(q) = Len(body) + 1 /\ q[Len(q)] = Sentinel /\ q # <<>>
        /\ \A i \in 1..Len(body) : q[i] = body[i]
    BY <1>3, <2>1
  <2>. QED BY <2>1, <2>2
<1>5. ClosedQueue = q
  BY DEF ClosedQueue, q, body, w
<1> HIDE DEF q
<1>6. \A i \in 1..Len(body) : body[i] \in Waiting
  BY <1>2 DEF Waiting
<1>7. \A i \in 1..Len(q) : q[i] = Sentinel \/ q[i] \in Waiting
  BY <1>4, <1>6
<1>8. ASSUME NEW i \in 1..Len(q), NEW j \in 1..Len(q), i < j
      PROVE  \/ q[i] \in Waiting /\ q[j] = Sentinel
             \/ \E a, b \in 1..Len(evq) : a < b /\ q[i] = evq[a] /\ q[j] = evq[b]
  <2>1. i \in 1..Len(body) /\ q[i] = body[i]
    BY <1>4, <1>8
  <2>2. CASE j \in 1..Len(body)
    <3>1. q[j] = body[j]
      BY <1>4, <2>2
    <3>2. PICK a, b \in 1..Len(evq) : a < b /\ body[i] = evq[a] /\ body[j] = evq[b]
      BY <1>2, <1>8, <2>1, <2>2
    <3>. QED BY <2>1, <3>1, <3>2
  <2>3. CASE j = Len(q)
    BY <1>4, <1>6, <2>1, <2>3
  <2>. QED BY <1>4, <2>2, <2>3
<1>9. ASSUME ~ClosingDrops, NEW e \in Waiting, KeptOnClose(e) \/ e.kind \in {"plan", "loop"}
      PROVE  \E i \in 1..Len(q) : q[i] = e
  BY <1>2, <1>4, <1>9
<1>10. Len(q) <= QueueSize
  BY <1>0, <1>2, <1>4
<1>11. q \in Seq(Events) /\ q # <<>>
  BY <1>4
<1>12. \A i, j \in 1..Len(q) :
         i < j => \/ q[i] \in Waiting /\ q[j] = Sentinel
                  \/ \E a, b \in 1..Len(evq) : a < b /\ q[i] = evq[a] /\ q[j] = evq[b]
  BY <1>8
<1>13. ~ClosingDrops =>
         \A e \in Waiting : KeptOnClose(e) \/ e.kind \in {"plan", "loop"} =>
           \E i \in 1..Len(q) : q[i] = e
  BY <1>9
<1>14. /\ ClosedQueue \in Seq(Events) /\ Len(ClosedQueue) <= QueueSize /\ ClosedQueue # <<>>
       /\ \A i \in 1..Len(ClosedQueue) : ClosedQueue[i] = Sentinel \/ ClosedQueue[i] \in Waiting
  BY Zenon, <1>5, <1>7, <1>10, <1>11
<1>15. \A i, j \in 1..Len(ClosedQueue) :
         i < j => \/ ClosedQueue[i] \in Waiting /\ ClosedQueue[j] = Sentinel
                  \/ \E a, b \in 1..Len(evq) :
                       a < b /\ ClosedQueue[i] = evq[a] /\ ClosedQueue[j] = evq[b]
  <2>1. SUFFICES ASSUME NEW i \in 1..Len(ClosedQueue), NEW j \in 1..Len(ClosedQueue), i < j
                 PROVE  \/ ClosedQueue[i] \in Waiting /\ ClosedQueue[j] = Sentinel
                        \/ \E a, b \in 1..Len(evq) :
                             a < b /\ ClosedQueue[i] = evq[a] /\ ClosedQueue[j] = evq[b]
    OBVIOUS
  <2>2. i \in 1..Len(q) /\ j \in 1..Len(q) /\ ClosedQueue[i] = q[i] /\ ClosedQueue[j] = q[j]
    BY Zenon, <1>5
  <2>3. CASE q[i] \in Waiting /\ q[j] = Sentinel
    BY <2>2, <2>3
  <2>4. CASE \E a, b \in 1..Len(evq) : a < b /\ q[i] = evq[a] /\ q[j] = evq[b]
    BY <2>2, <2>4
  <2>. QED BY <1>12, <2>1, <2>2, <2>3, <2>4
<1>16. ~ClosingDrops =>
         \A e \in Waiting : KeptOnClose(e) \/ e.kind \in {"plan", "loop"} =>
           \E i \in 1..Len(ClosedQueue) : ClosedQueue[i] = e
  BY Zenon, <1>5, <1>13
<1>. QED BY Zenon, <1>14, <1>15, <1>16

-----------------------------------------------------------------------------
(***************************************************************************)
(* What the agent does when it emits an event.                             *)
(***************************************************************************)
AuthorRec ==
  [at : {"writing", "ended", "closed"}, message : 1..MaxMessages,
   said : [1..MaxMessages -> 0..workload.deltas], files : SUBSET Files,
   work : [PlanRows -> RowStates], deferred : SUBSET PlanRows,
   dropped : BOOLEAN, stopped : BOOLEAN]

LEMMA TurnTypes ==
  ASSUME TurnEventsTypeOK
  PROVE  /\ workload.tasks \subseteq PlanRows /\ workload.deltas \in Nat /\ workload.files \subseteq Files
         /\ workload.messages \in 1..MaxMessages /\ MaxMessages \in Nat /\ QueueSize \in Nat
         /\ author \in AuthorRec /\ author.at \in {"writing", "ended", "closed"}
         /\ author.message \in 1..MaxMessages /\ author.message \in Nat
         /\ \A m \in 1..MaxMessages : author.said[m] \in 0..workload.deltas /\ author.said[m] \in Nat
         /\ author.files \subseteq Files /\ author.deferred \subseteq PlanRows
         /\ \A t \in PlanRows : author.work[t] \in RowStates /\ planRow[t] \in RowStates
         /\ evq \in Seq(Events) /\ Len(evq) \in Nat /\ Len(evq) <= QueueSize
         /\ courier.at \in {"idle", "busy", "flush", "done", "cancelled"} /\ courier.hand \in Events
         /\ courier.text \subseteq Pieces /\ courier.files \subseteq Files
         /\ courier.terminal \subseteq PlanRows /\ courier.deferred \subseteq PlanRows
         /\ \A m \in 1..MaxMessages : textRow[m] \subseteq Pieces
         /\ Waiting \subseteq Events /\ Carried \subseteq Events
<1>1. workload \in [tasks : SUBSET PlanRows, deltas : Nat, messages : 1..MaxMessages, files : SUBSET Files]
  BY TurnEventsAssumption DEF TurnEventsTypeOK
<1>2. MaxMessages \in Nat /\ QueueSize \in Nat
  BY TurnEventsAssumption
<1>3. /\ workload.tasks \subseteq PlanRows /\ workload.deltas \in Nat /\ workload.files \subseteq Files
      /\ workload.messages \in 1..MaxMessages
  BY <1>1
<1>4. author \in AuthorRec
  BY DEF TurnEventsTypeOK, AuthorRec
<1>5. /\ author.at \in {"writing", "ended", "closed"} /\ author.message \in 1..MaxMessages
      /\ author.said \in [1..MaxMessages -> 0..workload.deltas]
      /\ author.files \subseteq Files /\ author.deferred \subseteq PlanRows
      /\ author.work \in [PlanRows -> RowStates]
  BY <1>4 DEF AuthorRec
<1>6. \A m \in 1..MaxMessages : author.said[m] \in 0..workload.deltas /\ author.said[m] \in Nat
  <2> DEFINE O == 0..workload.deltas
  <2>1. \A x \in O : x \in Nat
    BY <1>3
  <2>2. author.said \in [1..MaxMessages -> O]
    BY <1>5
  <2> HIDE DEF O
  <2>3. \A m \in 1..MaxMessages : author.said[m] \in O /\ author.said[m] \in Nat
    BY <2>1, <2>2
  <2>. QED BY <2>3 DEF O
<1>7. \A t \in PlanRows : author.work[t] \in RowStates /\ planRow[t] \in RowStates
  BY <1>5 DEF TurnEventsTypeOK
<1>8. evq \in Seq(Events) /\ Len(evq) \in Nat /\ Len(evq) <= QueueSize
  BY DEF TurnEventsTypeOK
<1>9. /\ courier.at \in {"idle", "busy", "flush", "done", "cancelled"} /\ courier.hand \in Events
      /\ courier.text \subseteq Pieces /\ courier.files \subseteq Files
      /\ courier.terminal \subseteq PlanRows /\ courier.deferred \subseteq PlanRows
  BY DEF TurnEventsTypeOK
<1>10. \A m \in 1..MaxMessages : textRow[m] \subseteq Pieces
  BY DEF TurnEventsTypeOK
<1>11. Waiting \subseteq Events /\ Carried \subseteq Events
  BY <1>8, <1>9 DEF Waiting, Carried
<1>12. author.message \in Nat
  BY <1>2, <1>5
<1>. QED BY <1>2, <1>3, <1>4, <1>5, <1>6, <1>7, <1>8, <1>9, <1>10, <1>11, <1>12

\* The text, the files and the plan of the agent after it has emitted e.
TextTold(e) ==
  /\ e.kind # "end" => author'.message = author.message /\ author'.at = author.at
  /\ e.kind \in {"delta", "end"} => author.at = "writing" /\ e.of = author.message
  /\ e.kind = "end" => \/ author'.message = author.message + 1 /\ author'.at = "writing"
                       \/ author'.message = author.message /\ author'.at = "ended"
  /\ e.kind = "delta" => e.piece = author.said[e.of] + 1
  /\ \A m \in 1..MaxMessages :
       author'.said[m] = IF e.kind = "delta" /\ m = e.of THEN e.piece ELSE author.said[m]

FilesTold(e) == author'.files = IF e.kind = "file" THEN author.files \cup {e.of} ELSE author.files

PlanTold(e) ==
  /\ author.deferred \subseteq author'.deferred /\ (e.kind = "loop" => e.of \subseteq author'.deferred)
  /\ e.kind = "plan" =>
       /\ \A t \in PlanRows : author.work[t] = "none"
       /\ \A t \in PlanRows : author'.work[t] = IF t \in workload.tasks THEN "pending" ELSE "none"
       /\ \E t \in PlanRows : author'.work[t] # "none"
  /\ e.kind = "task" => \/ author.work[e.of] = "pending"
                        \/ author.work[e.of] = "running" /\ e.status \in Outcomes
  /\ e.kind # "plan" =>
       \A t \in PlanRows : author'.work[t] = IF e.kind = "task" /\ t = e.of THEN e.status ELSE author.work[t]

Told(e) ==
  /\ e \in Events /\ e.kind \notin {"none", "sentinel"}
  /\ tail = "agent" /\ UNCHANGED <<setback, workload, nested, courier, planRow, textRow, kept, tail>>
  /\ eventsAborted' \in BOOLEAN
  /\ author' \in AuthorRec /\ author.at # "closed" /\ author'.at # "closed"
  /\ evq' \in Seq(Events) /\ Len(evq') <= QueueSize
  /\ evq' = Append(evq, e) \/ (evq' = evq /\ author'.dropped)
  /\ author.dropped => author'.dropped
  /\ TextTold(e) /\ FilesTold(e) /\ PlanTold(e)

\* The fields of the agent but for what it dropped.
SameBut(a) ==
  /\ author'.at = a.at /\ author'.message = a.message /\ author'.said = a.said /\ author'.files = a.files
  /\ author'.work = a.work /\ author'.deferred = a.deferred

LEMMA EmitEffect ==
  ASSUME TurnEventsTypeOK, NEW e \in Events, NEW a \in AuthorRec, Emit(e, a)
  PROVE  /\ author' \in AuthorRec /\ SameBut(a) /\ eventsAborted' \in BOOLEAN
         /\ evq' \in Seq(Events) /\ Len(evq') <= QueueSize
         /\ evq' = Append(evq, e) \/ (evq' = evq /\ author'.dropped)
         /\ a.dropped => author'.dropped
<1>0. /\ evq \in Seq(Events) /\ Len(evq) \in Nat /\ Len(evq) <= QueueSize /\ QueueSize \in Nat
      /\ eventsAborted \in BOOLEAN
  BY TurnTypes DEF TurnEventsTypeOK
<1>1. CASE Len(evq) < QueueSize /\ evq' = Append(evq, e) /\ author' = a /\ UNCHANGED eventsAborted
  <2>1. evq' \in Seq(Events) /\ Len(evq') <= QueueSize
    BY <1>0, <1>1
  <2>. QED BY <1>0, <1>1, <2>1 DEF SameBut
<1>2. CASE /\ eventsAborted' = TRUE /\ author' = [a EXCEPT !.dropped = TRUE] /\ UNCHANGED evq
  <2>1. author' \in AuthorRec /\ SameBut(a) /\ author'.dropped
    BY <1>2 DEF AuthorRec, SameBut
  <2>. QED BY <1>0, <1>2, <2>1
<1>. QED BY <1>1, <1>2 DEF Emit

LEMMA SayTells ==
  ASSUME TurnEventsTypeOK, Say
  PROVE  \E e : Told(e)
<1> DEFINE m == author.message
           e == Delta(m, author.said[m] + 1)
           a == [author EXCEPT !.said[author.message] = @ + 1]
<1>0. /\ author \in AuthorRec /\ m \in 1..MaxMessages /\ author.said[m] \in Nat /\ workload.deltas \in Nat
      /\ author.said[m] < workload.deltas /\ author.at = "writing" /\ tail = "agent" /\ Emit(e, a)
      /\ UNCHANGED <<setback, workload, nested, courier, planRow, textRow, kept, tail>>
  BY TurnTypes DEF Say, Writing
<1>1. author.said[m] + 1 \in 1..workload.deltas
  BY <1>0
<1>2. /\ e \in Events /\ e.kind = "delta" /\ e.of = m /\ e.piece = author.said[m] + 1
  BY <1>0, <1>1 DEF Events, Delta
<1>3. /\ a \in AuthorRec /\ a.at = "writing" /\ a.message = m /\ a.files = author.files
      /\ a.work = author.work /\ a.deferred = author.deferred /\ a.dropped = author.dropped
      /\ \A j \in 1..MaxMessages : a.said[j] = IF j = m THEN author.said[m] + 1 ELSE author.said[j]
  <2> DEFINE R == 1..MaxMessages
             O == 0..workload.deltas
  <2>1. author.said \in [R -> O] /\ author.said[m] + 1 \in O /\ m \in R
    BY <1>0, <1>1 DEF AuthorRec
  <2>2. author \in [at : {"writing", "ended", "closed"}, message : R, said : [R -> O], files : SUBSET Files,
                    work : [PlanRows -> RowStates], deferred : SUBSET PlanRows,
                    dropped : BOOLEAN, stopped : BOOLEAN]
    BY <1>0 DEF AuthorRec
  <2>3. AuthorRec = [at : {"writing", "ended", "closed"}, message : R, said : [R -> O], files : SUBSET Files,
                     work : [PlanRows -> RowStates], deferred : SUBSET PlanRows,
                     dropped : BOOLEAN, stopped : BOOLEAN]
    BY DEF AuthorRec
  <2> HIDE DEF R, O
  <2>4. /\ a \in [at : {"writing", "ended", "closed"}, message : R, said : [R -> O], files : SUBSET Files,
                  work : [PlanRows -> RowStates], deferred : SUBSET PlanRows,
                  dropped : BOOLEAN, stopped : BOOLEAN]
        /\ a.at = author.at /\ a.message = m /\ a.files = author.files
        /\ a.work = author.work /\ a.deferred = author.deferred /\ a.dropped = author.dropped
        /\ \A j \in R : a.said[j] = IF j = m THEN author.said[m] + 1 ELSE author.said[j]
    BY <2>1, <2>2
  <2>. QED BY Zenon, <1>0, <2>3, <2>4 DEF R
<1> HIDE DEF e, a
<1>4. /\ author' \in AuthorRec /\ SameBut(a) /\ eventsAborted' \in BOOLEAN
      /\ evq' \in Seq(Events) /\ Len(evq') <= QueueSize
      /\ evq' = Append(evq, e) \/ (evq' = evq /\ author'.dropped)
      /\ a.dropped => author'.dropped
  BY <1>0, <1>2, <1>3, EmitEffect
<1>5. TextTold(e) /\ FilesTold(e) /\ PlanTold(e)
  BY <1>0, <1>2, <1>3, <1>4 DEF TextTold, FilesTold, PlanTold, SameBut
<1>6. e.kind \notin {"none", "sentinel"} /\ author.at # "closed" /\ author'.at # "closed"
      /\ (author.dropped => author'.dropped)
  BY <1>0, <1>2, <1>3, <1>4 DEF SameBut
<1>. QED BY <1>0, <1>2, <1>4, <1>5, <1>6 DEF Told


LEMMA DeliverTells ==
  ASSUME TurnEventsTypeOK, NEW f \in Files, Deliver(f)
  PROVE  \E e : Told(e)
<1> DEFINE e == FileOutput(f)
           a == [author EXCEPT !.files = @ \cup {f}]
<1>0. /\ author \in AuthorRec /\ tail = "agent" /\ Emit(e, a) /\ author.at # "closed"
      /\ UNCHANGED <<setback, workload, nested, courier, planRow, textRow, kept, tail>>
      /\ f \in Files
  BY TurnTypes DEF Deliver
<1>1. e \in Events /\ e.kind = "file" /\ e.of = f
  BY <1>0 DEF Events, FileOutput
<1>2. /\ a \in AuthorRec /\ a.at = author.at /\ a.message = author.message /\ a.said = author.said
      /\ a.dropped = author.dropped
      /\ a.files = author.files \cup {f} /\ a.work = author.work /\ a.deferred = author.deferred
  BY <1>0 DEF AuthorRec
<1> HIDE DEF e, a
<1>3. /\ author' \in AuthorRec /\ SameBut(a) /\ eventsAborted' \in BOOLEAN
      /\ evq' \in Seq(Events) /\ Len(evq') <= QueueSize
      /\ evq' = Append(evq, e) \/ (evq' = evq /\ author'.dropped)
      /\ a.dropped => author'.dropped
  BY <1>0, <1>1, <1>2, EmitEffect
<1>4. TextTold(e)
  BY <1>0, <1>1, <1>2, <1>3 DEF TextTold, SameBut
<1>5. FilesTold(e)
  BY <1>0, <1>1, <1>2, <1>3 DEF FilesTold, SameBut
<1>6. PlanTold(e)
  BY <1>0, <1>1, <1>2, <1>3 DEF PlanTold, SameBut
<1>7. e.kind \notin {"none", "sentinel"} /\ author'.at # "closed" /\ (author.dropped => author'.dropped)
  BY <1>0, <1>1, <1>2, <1>3 DEF SameBut
<1>. QED BY <1>0, <1>1, <1>3, <1>4, <1>5, <1>6, <1>7 DEF Told

LEMMA PlanTells ==
  ASSUME TurnEventsTypeOK, Plan
  PROVE  \E e : Told(e)
<1> DEFINE e == PlanCreated
           a == [author EXCEPT !.work = [t \in PlanRows |-> IF t \in workload.tasks THEN "pending" ELSE "none"]]
<1>0. /\ author \in AuthorRec /\ tail = "agent" /\ Emit(e, a) /\ author.at # "closed"
      /\ UNCHANGED <<setback, workload, nested, courier, planRow, textRow, kept, tail>>
      /\ workload.tasks # {} /\ workload.tasks \subseteq PlanRows /\ \A t \in PlanRows : author.work[t] = "none"
  BY TurnTypes DEF Plan, Writing
<1>1. e \in Events /\ e.kind = "plan"
  BY <1>0 DEF Events, PlanCreated
<1>2. /\ a \in AuthorRec /\ a.at = author.at /\ a.message = author.message /\ a.said = author.said
      /\ a.dropped = author.dropped
      /\ a.files = author.files /\ a.deferred = author.deferred
      /\ \A t \in PlanRows : a.work[t] = IF t \in workload.tasks THEN "pending" ELSE "none"
  BY <1>0 DEF AuthorRec, RowStates, Outcomes
<1> HIDE DEF e, a
<1>3. /\ author' \in AuthorRec /\ SameBut(a) /\ eventsAborted' \in BOOLEAN
      /\ evq' \in Seq(Events) /\ Len(evq') <= QueueSize
      /\ evq' = Append(evq, e) \/ (evq' = evq /\ author'.dropped)
      /\ a.dropped => author'.dropped
  BY <1>0, <1>1, <1>2, EmitEffect
<1>4. TextTold(e)
  BY <1>0, <1>1, <1>2, <1>3 DEF TextTold, SameBut
<1>5. FilesTold(e)
  BY <1>0, <1>1, <1>2, <1>3 DEF FilesTold, SameBut
<1>6. PlanTold(e)
  BY <1>0, <1>1, <1>2, <1>3 DEF PlanTold, SameBut
<1>7. e.kind \notin {"none", "sentinel"} /\ author'.at # "closed" /\ (author.dropped => author'.dropped)
  BY <1>0, <1>1, <1>2, <1>3 DEF SameBut
<1>. QED BY <1>0, <1>1, <1>3, <1>4, <1>5, <1>6, <1>7 DEF Told

LEMMA BeginTells ==
  ASSUME TurnEventsTypeOK, NEW t \in PlanRows, BeginTask(t)
  PROVE  \E e : Told(e)
<1> DEFINE e == TaskEvent(t, "running")
           a == [author EXCEPT !.work[t] = "running"]
<1>0. /\ author \in AuthorRec /\ tail = "agent" /\ Emit(e, a) /\ author.at # "closed"
      /\ UNCHANGED <<setback, workload, nested, courier, planRow, textRow, kept, tail>>
      /\ author.work[t] = "pending" /\ author.work \in [PlanRows -> RowStates]
  BY TurnTypes DEF BeginTask, Writing, AuthorRec
<1>1. e \in Events /\ e.kind = "task" /\ e.of = t /\ e.status = "running"
  <2>1. PICK s \in Outcomes \cup {"running"} : s = "running"
    OBVIOUS
  <2>2. TaskEvent(t, s) \in Events
    BY DEF Events
  <2>. QED BY <2>1, <2>2 DEF TaskEvent
<1>2. /\ a \in AuthorRec /\ a.at = author.at /\ a.message = author.message /\ a.said = author.said
      /\ a.dropped = author.dropped
      /\ a.files = author.files /\ a.deferred = author.deferred
      /\ \A u \in PlanRows : a.work[u] = IF u = t THEN "running" ELSE author.work[u]
  BY <1>0 DEF AuthorRec, RowStates, Outcomes
<1> HIDE DEF e, a
<1>3. /\ author' \in AuthorRec /\ SameBut(a) /\ eventsAborted' \in BOOLEAN
      /\ evq' \in Seq(Events) /\ Len(evq') <= QueueSize
      /\ evq' = Append(evq, e) \/ (evq' = evq /\ author'.dropped)
      /\ a.dropped => author'.dropped
  BY <1>0, <1>1, <1>2, EmitEffect
<1>4. TextTold(e)
  BY <1>0, <1>1, <1>2, <1>3 DEF TextTold, SameBut
<1>5. FilesTold(e)
  BY <1>0, <1>1, <1>2, <1>3 DEF FilesTold, SameBut
<1>6. PlanTold(e)
  BY <1>0, <1>1, <1>2, <1>3 DEF PlanTold, SameBut
<1>7. e.kind \notin {"none", "sentinel"} /\ author'.at # "closed" /\ (author.dropped => author'.dropped)
  BY <1>0, <1>1, <1>2, <1>3 DEF SameBut
<1>. QED BY <1>0, <1>1, <1>3, <1>4, <1>5, <1>6, <1>7 DEF Told

LEMMA EndTells ==
  ASSUME TurnEventsTypeOK, NEW t \in PlanRows, EndTask(t)
  PROVE  \E e : Told(e)
<1>a. PICK s \in Outcomes :
         /\ author.work[t] = "running" \/ author.work[t] = "pending"
         /\ Emit(TaskEvent(t, s), [author EXCEPT !.work[t] = s])
  BY DEF EndTask, Outcomes
<1> DEFINE e == TaskEvent(t, s)
           a == [author EXCEPT !.work[t] = s]
<1>0. /\ author \in AuthorRec /\ tail = "agent" /\ Emit(e, a) /\ author.at # "closed"
      /\ UNCHANGED <<setback, workload, nested, courier, planRow, textRow, kept, tail>>
      /\ (author.work[t] = "running" \/ author.work[t] = "pending") /\ author.work \in [PlanRows -> RowStates]
  BY <1>a, TurnTypes DEF EndTask, Writing, AuthorRec
<1>1. e \in Events /\ e.kind = "task" /\ e.of = t /\ e.status = s
  BY <1>0 DEF Events, TaskEvent
<1>2. /\ a \in AuthorRec /\ a.at = author.at /\ a.message = author.message /\ a.said = author.said
      /\ a.dropped = author.dropped
      /\ a.files = author.files /\ a.deferred = author.deferred
      /\ \A u \in PlanRows : a.work[u] = IF u = t THEN s ELSE author.work[u]
  BY <1>0 DEF AuthorRec, RowStates
<1> HIDE DEF e, a
<1>3. /\ author' \in AuthorRec /\ SameBut(a) /\ eventsAborted' \in BOOLEAN
      /\ evq' \in Seq(Events) /\ Len(evq') <= QueueSize
      /\ evq' = Append(evq, e) \/ (evq' = evq /\ author'.dropped)
      /\ a.dropped => author'.dropped
  BY <1>0, <1>1, <1>2, EmitEffect
<1>4. TextTold(e)
  BY <1>0, <1>1, <1>2, <1>3 DEF TextTold, SameBut
<1>5. FilesTold(e)
  BY <1>0, <1>1, <1>2, <1>3 DEF FilesTold, SameBut
<1>6. PlanTold(e)
  BY <1>0, <1>1, <1>2, <1>3 DEF PlanTold, SameBut
<1>7. e.kind \notin {"none", "sentinel"} /\ author'.at # "closed" /\ (author.dropped => author'.dropped)
  BY <1>0, <1>1, <1>2, <1>3 DEF SameBut
<1>. QED BY <1>0, <1>1, <1>3, <1>4, <1>5, <1>6, <1>7 DEF Told

LEMMA DeferTells ==
  ASSUME TurnEventsTypeOK, Defer
  PROVE  \E e : Told(e)
<1> DEFINE e == LoopCompleted({t \in PlanRows : author.work[t] = "pending"})
           a == [author EXCEPT !.deferred = {t \in PlanRows : author.work[t] = "pending"}]
<1>0. /\ author \in AuthorRec /\ tail = "agent" /\ Emit(e, a) /\ author.at # "closed"
      /\ UNCHANGED <<setback, workload, nested, courier, planRow, textRow, kept, tail>>
      /\ author.deferred = {}
  BY TurnTypes DEF Defer, Writing
<1>1. e \in Events /\ e.kind = "loop" /\ e.of = {t \in PlanRows : author.work[t] = "pending"}
  <2>1. PICK S \in SUBSET PlanRows : S = {t \in PlanRows : author.work[t] = "pending"}
    OBVIOUS
  <2>2. LoopCompleted(S) \in Events
    BY DEF Events
  <2>. QED BY <2>1, <2>2 DEF LoopCompleted
<1>2. /\ a \in AuthorRec /\ a.at = author.at /\ a.message = author.message /\ a.said = author.said
      /\ a.dropped = author.dropped
      /\ a.files = author.files /\ a.work = author.work /\ a.deferred = {t \in PlanRows : author.work[t] = "pending"}
  BY <1>0 DEF AuthorRec
<1> HIDE DEF e, a
<1>3. /\ author' \in AuthorRec /\ SameBut(a) /\ eventsAborted' \in BOOLEAN
      /\ evq' \in Seq(Events) /\ Len(evq') <= QueueSize
      /\ evq' = Append(evq, e) \/ (evq' = evq /\ author'.dropped)
      /\ a.dropped => author'.dropped
  BY <1>0, <1>1, <1>2, EmitEffect
<1>4. TextTold(e)
  BY <1>0, <1>1, <1>2, <1>3 DEF TextTold, SameBut
<1>5. FilesTold(e)
  BY <1>0, <1>1, <1>2, <1>3 DEF FilesTold, SameBut
<1>6. PlanTold(e)
  BY <1>0, <1>1, <1>2, <1>3 DEF PlanTold, SameBut
<1>7. e.kind \notin {"none", "sentinel"} /\ author'.at # "closed" /\ (author.dropped => author'.dropped)
  BY <1>0, <1>1, <1>2, <1>3 DEF SameBut
<1>. QED BY <1>0, <1>1, <1>3, <1>4, <1>5, <1>6, <1>7 DEF Told

LEMMA FreezeTells ==
  ASSUME TurnEventsTypeOK, Freeze
  PROVE  \E e : Told(e)
<1> DEFINE e == StreamEnd(author.message)
           a == [author EXCEPT !.message = @ + 1]
<1>0. /\ author \in AuthorRec /\ tail = "agent" /\ Emit(e, a) /\ author.at # "closed"
      /\ UNCHANGED <<setback, workload, nested, courier, planRow, textRow, kept, tail>>
      /\ author.at = "writing" /\ author.message \in 1..MaxMessages /\ MaxMessages \in Nat
      /\ author.message < workload.messages /\ workload.messages \in 1..MaxMessages
  BY TurnTypes DEF Freeze, Writing
<1>1. e \in Events /\ e.kind = "end" /\ e.of = author.message
  BY <1>0 DEF Events, StreamEnd
<1>2. /\ a \in AuthorRec /\ a.at = "writing" /\ a.message = author.message + 1 /\ a.said = author.said
      /\ a.dropped = author.dropped /\ a.files = author.files /\ a.work = author.work /\ a.deferred = author.deferred
  <2>1. author.message + 1 \in 1..MaxMessages
    BY <1>0
  <2>. QED BY <1>0, <2>1 DEF AuthorRec
<1> HIDE DEF e, a
<1>3. /\ author' \in AuthorRec /\ SameBut(a) /\ eventsAborted' \in BOOLEAN
      /\ evq' \in Seq(Events) /\ Len(evq') <= QueueSize
      /\ evq' = Append(evq, e) \/ (evq' = evq /\ author'.dropped)
      /\ a.dropped => author'.dropped
  BY <1>0, <1>1, <1>2, EmitEffect
<1>4. TextTold(e)
  BY <1>0, <1>1, <1>2, <1>3 DEF TextTold, SameBut
<1>5. FilesTold(e)
  BY <1>0, <1>1, <1>2, <1>3 DEF FilesTold, SameBut
<1>6. PlanTold(e)
  BY <1>0, <1>1, <1>2, <1>3 DEF PlanTold, SameBut
<1>7. e.kind \notin {"none", "sentinel"} /\ author'.at # "closed" /\ (author.dropped => author'.dropped)
  BY <1>0, <1>1, <1>2, <1>3 DEF SameBut
<1>. QED BY <1>0, <1>1, <1>3, <1>4, <1>5, <1>6, <1>7 DEF Told

LEMMA FinishTells ==
  ASSUME TurnEventsTypeOK, Finish
  PROVE  \E e : Told(e)
<1>a. PICK stop \in BOOLEAN : Emit(StreamEnd(author.message), [author EXCEPT !.at = "ended", !.stopped = stop])
  BY DEF Finish
<1> DEFINE e == StreamEnd(author.message)
           a == [author EXCEPT !.at = "ended", !.stopped = stop]
<1>0. /\ author \in AuthorRec /\ tail = "agent" /\ Emit(e, a) /\ author.at # "closed"
      /\ UNCHANGED <<setback, workload, nested, courier, planRow, textRow, kept, tail>>
      /\ author.at = "writing" /\ author.message \in 1..MaxMessages
  BY <1>a, TurnTypes DEF Finish, Writing
<1>1. e \in Events /\ e.kind = "end" /\ e.of = author.message
  BY <1>0 DEF Events, StreamEnd
<1>2. /\ a \in AuthorRec /\ a.at = "ended" /\ a.message = author.message /\ a.said = author.said
      /\ a.dropped = author.dropped /\ a.files = author.files /\ a.work = author.work /\ a.deferred = author.deferred
  BY <1>0 DEF AuthorRec
<1> HIDE DEF e, a
<1>3. /\ author' \in AuthorRec /\ SameBut(a) /\ eventsAborted' \in BOOLEAN
      /\ evq' \in Seq(Events) /\ Len(evq') <= QueueSize
      /\ evq' = Append(evq, e) \/ (evq' = evq /\ author'.dropped)
      /\ a.dropped => author'.dropped
  BY <1>0, <1>1, <1>2, EmitEffect
<1>4. TextTold(e)
  BY <1>0, <1>1, <1>2, <1>3 DEF TextTold, SameBut
<1>5. FilesTold(e)
  BY <1>0, <1>1, <1>2, <1>3 DEF FilesTold, SameBut
<1>6. PlanTold(e)
  BY <1>0, <1>1, <1>2, <1>3 DEF PlanTold, SameBut
<1>7. e.kind \notin {"none", "sentinel"} /\ author'.at # "closed" /\ (author.dropped => author'.dropped)
  BY <1>0, <1>1, <1>2, <1>3 DEF SameBut
<1>. QED BY <1>0, <1>1, <1>3, <1>4, <1>5, <1>6, <1>7 DEF Told

LEMMA AgentTells ==
  ASSUME TurnEventsTypeOK,
         \/ Say \/ Plan \/ Defer \/ Freeze \/ Finish
         \/ \E f \in Files : Deliver(f)
         \/ \E t \in PlanRows : BeginTask(t) \/ EndTask(t)
  PROVE  \E e : Told(e)
<1>1. ASSUME NEW f \in Files, Deliver(f) PROVE \E e : Told(e)
  BY <1>1, DeliverTells
<1>2. ASSUME NEW t \in PlanRows, BeginTask(t) PROVE \E e : Told(e)
  BY <1>2, BeginTells
<1>3. ASSUME NEW t \in PlanRows, EndTask(t) PROVE \E e : Told(e)
  BY <1>3, EndTells
<1>. QED BY <1>1, <1>2, <1>3, SayTells, PlanTells, DeferTells, FreezeTells, FinishTells

-----------------------------------------------------------------------------
(***************************************************************************)
(* The invariant stays when the agent emits an event.                      *)
(***************************************************************************)
LEMMA ToldCarries ==
  ASSUME TurnEventsTypeOK, NEW e, Told(e)
  PROVE  /\ Waiting \subseteq Waiting' /\ Waiting' \subseteq Waiting \cup {e}
         /\ Carried \subseteq Carried' /\ Carried' \subseteq Carried \cup {e}
         /\ ~author'.dropped => e \in Carried'
         /\ courier' = courier
<1>0. e \in Events /\ evq \in Seq(Events) /\ Len(evq) \in Nat /\ courier' = courier
  BY TurnTypes DEF Told
<1>1. CASE evq' = Append(evq, e)
  <2>1. /\ \A i \in 1..Len(evq) : evq'[i] = evq[i] /\ i \in 1..Len(evq')
        /\ \A i \in 1..Len(evq') : i = Len(evq') \/ i \in 1..Len(evq)
        /\ evq'[Len(evq')] = e /\ Len(evq') \in 1..Len(evq')
    BY <1>0, <1>1
  <2>2. Waiting \subseteq Waiting' /\ Waiting' \subseteq Waiting \cup {e} /\ e \in Waiting'
    BY <2>1 DEF Waiting
  <2>. QED BY <1>0, <2>2 DEF Carried
<1>2. CASE evq' = evq /\ author'.dropped
  BY <1>0, <1>2 DEF Waiting, Carried
<1>. QED BY <1>1, <1>2 DEF Told

LEMMA ToldTypes ==
  ASSUME TurnEventsTypeOK, NEW e, Told(e)
  PROVE  TurnEventsTypeOK'
<1>1. Events' = Events /\ Pieces' = Pieces
  BY DEF Told, Events, Pieces, Nothing, Sentinel, PlanCreated, Delta, StreamEnd, FileOutput, LoopCompleted, TaskEvent
<1>2. /\ setback' \in Setbacks /\ workload' \in Workloads /\ nested' \in BOOLEAN /\ eventsAborted' \in BOOLEAN
  BY DEF Told, TurnEventsTypeOK
<1>3. author' \in AuthorRec' /\ evq' \in Seq(Events') /\ Len(evq') <= QueueSize
  BY <1>1 DEF Told, AuthorRec
<1>4. /\ courier' = courier /\ planRow' = planRow /\ textRow' = textRow /\ kept' = kept /\ tail' = tail
  BY DEF Told
<1> HIDE DEF Told
<1>. QED BY <1>1, <1>2, <1>3, <1>4 DEF TurnEventsTypeOK, AuthorRec

LEMMA ToldStage ==
  ASSUME TurnEventsTypeOK, StageInv, NEW e, Told(e)
  PROVE  StageInv'
<1>1. /\ courier' = courier /\ tail' = "agent" /\ tail = "agent" /\ author'.at # "closed" /\ e.kind # "sentinel"
  BY DEF Told
<1>2. Waiting' \subseteq Waiting \cup {e}
  BY ToldCarries
<1>3. courier.at \in {"idle", "busy"}
  BY <1>1, TurnTypes DEF StageInv
<1>. QED BY <1>1, <1>2, <1>3 DEF StageInv

LEMMA ToldFits ==
  ASSUME TurnEventsTypeOK, NEW e, Told(e), NEW x \in Events, Fits(x)
  PROVE  Fits(x)'
<1>0. /\ author.message \in Nat /\ \A m \in 1..MaxMessages : author.said[m] \in Nat
      /\ TextTold(e) /\ FilesTold(e) /\ PlanTold(e) /\ e \in Events
  BY TurnTypes DEF Told
<1>1. x.kind = "delta" => x.of <= author'.message /\ x.piece <= author'.said[x.of]
  BY <1>0, EventForms DEF TextTold, Fits
<1>2. x.kind = "end" => x.of <= author'.message /\ (x.of = author'.message => author'.at # "writing")
  BY <1>0, EventForms DEF TextTold, Fits
<1>3. /\ x.kind = "file" => x.of \in author'.files
      /\ x.kind = "loop" => x.of \subseteq author'.deferred
  BY <1>0 DEF FilesTold, PlanTold, Fits
<1>4. e.kind = "task" => e.of \in PlanRows /\ e.status \in Outcomes \cup {"running"}
  BY <1>0, EventForms
<1>5. x.kind = "plan" => \E t \in PlanRows : author'.work[t] # "none"
  BY <1>0, <1>4 DEF PlanTold, Fits, Outcomes
<1>6. x.kind = "task" => x.of \in PlanRows
  BY EventForms
<1>7. x.kind = "task" => author'.work[x.of] \in Outcomes \cup {"running"}
  BY <1>0, <1>4, <1>6 DEF PlanTold, Fits, Outcomes
<1>8. IsTerminal(x) => author'.work[x.of] = x.status
  BY <1>0, <1>4, <1>6 DEF PlanTold, Fits, Outcomes, IsTerminal
<1>. QED BY <1>1, <1>2, <1>3, <1>5, <1>7, <1>8 DEF Fits

LEMMA ToldFitsItself ==
  ASSUME TurnEventsTypeOK, NEW e, Told(e)
  PROVE  Fits(e)'
<1>0. /\ author.message \in Nat /\ \A m \in 1..MaxMessages : author.said[m] \in Nat
      /\ TextTold(e) /\ FilesTold(e) /\ PlanTold(e) /\ e \in Events
  BY TurnTypes DEF Told
<1>1. e.kind = "delta" => e.of <= author'.message /\ e.piece <= author'.said[e.of]
  BY <1>0, EventForms DEF TextTold
<1>2. e.kind = "end" => e.of <= author'.message /\ (e.of = author'.message => author'.at # "writing")
  BY <1>0, EventForms DEF TextTold
<1>3. /\ e.kind = "file" => e.of \in author'.files
      /\ e.kind = "loop" => e.of \subseteq author'.deferred
      /\ e.kind = "plan" => \E t \in PlanRows : author'.work[t] # "none"
  BY <1>0 DEF FilesTold, PlanTold
<1>4. e.kind = "task" => e.of \in PlanRows /\ e.status \in Outcomes \cup {"running"}
  BY <1>0, EventForms
<1>5. /\ e.kind = "task" => author'.work[e.of] \in Outcomes \cup {"running"}
      /\ IsTerminal(e) => author'.work[e.of] = e.status
  BY <1>0, <1>4 DEF PlanTold, IsTerminal
<1>. QED BY <1>1, <1>2, <1>3, <1>5 DEF Fits

LEMMA ToldInOrder ==
  ASSUME TurnEventsTypeOK, NEW e, Told(e), NEW x \in Events, Fits(x), x.kind # "sentinel"
  PROVE  InOrder(x, e)
<1>0. /\ author.message \in Nat /\ \A m \in 1..MaxMessages : author.said[m] \in Nat
      /\ TextTold(e) /\ PlanTold(e) /\ e \in Events
  BY TurnTypes DEF Told
<1>1. e.kind = "plan" => x.kind \notin {"plan", "task"}
  BY <1>0, EventForms DEF PlanTold, Fits, Outcomes
<1>2. x.kind = "task" /\ e.kind = "task" /\ x.of = e.of => x.status = "running"
  <2>1. x.kind = "task" => x.status \in Outcomes \cup {"running"}
    BY EventForms
  <2>. QED BY <1>0, <2>1 DEF PlanTold, Fits, IsTerminal, Outcomes
<1>3. x.kind = "end" /\ e.kind \in {"delta", "end"} => x.of < e.of
  BY <1>0, EventForms DEF TextTold, Fits
<1>4. x.kind = "delta" /\ e.kind \in {"delta", "end"} => x.of <= e.of
  BY <1>0, EventForms DEF TextTold, Fits
<1>5. x.kind = "delta" /\ e.kind = "delta" => x.of # e.of \/ x.piece # e.piece
  BY <1>0, EventForms DEF TextTold, Fits
<1>. QED BY <1>1, <1>2, <1>3, <1>4, <1>5 DEF InOrder

LEMMA ToldCarried ==
  ASSUME TurnEventsTypeOK, StageInv, CarriedInv, NEW e, Told(e)
  PROVE  CarriedInv'
<1>0. /\ evq \in Seq(Events) /\ Len(evq) \in Nat /\ Carried \subseteq Events /\ courier' = courier
      /\ e \in Events /\ tail = "agent" /\ Carried' \subseteq Carried \cup {e}
  BY TurnTypes, ToldCarries DEF Told
<1>1. \A x \in Carried' : Fits(x)'
  <2>1. ASSUME NEW x \in Carried PROVE Fits(x)'
    BY <1>0, ToldFits DEF CarriedInv
  <2>. QED BY <1>0, <2>1, ToldFitsItself
<1>2. \A x \in Carried : InOrder(x, e)
  <2>1. ASSUME NEW x \in Carried PROVE InOrder(x, e)
    <3>1. Fits(x) /\ x \in Events /\ x.kind # "sentinel"
      BY <1>0 DEF CarriedInv, StageInv, Carried
    <3>. QED BY <3>1, ToldInOrder
  <2>. QED BY <2>1
<1>3. /\ \A i \in 1..Len(evq) : evq[i] \in Carried
      /\ courier.hand \in Carried
  BY DEF Carried, Waiting
<1>4. /\ \A i, j \in 1..Len(evq') : i < j => InOrder(evq'[i], evq'[j])
      /\ \A i \in 1..Len(evq') : InOrder(courier.hand, evq'[i])
  <2>1. CASE evq' = Append(evq, e)
    <3>1. /\ \A i \in 1..Len(evq) : evq'[i] = evq[i]
          /\ \A i \in 1..Len(evq') : evq'[i] = e \/ i \in 1..Len(evq)
          /\ \A i, j \in 1..Len(evq') : i < j => i \in 1..Len(evq) /\ (j \in 1..Len(evq) \/ evq'[j] = e)
      BY <1>0, <2>1
    <3>2. ASSUME NEW i \in 1..Len(evq'), NEW j \in 1..Len(evq'), i < j PROVE InOrder(evq'[i], evq'[j])
      <4>1. i \in 1..Len(evq) /\ evq'[i] = evq[i] /\ evq[i] \in Carried
        BY <1>3, <3>1, <3>2
      <4>2. CASE j \in 1..Len(evq)
        BY <3>1, <3>2, <4>1, <4>2 DEF CarriedInv
      <4>3. CASE evq'[j] = e
        BY <1>2, <4>1, <4>3
      <4>. QED BY <3>1, <3>2, <4>2, <4>3
    <3>3. ASSUME NEW i \in 1..Len(evq') PROVE InOrder(courier.hand, evq'[i])
      <4>1. CASE i \in 1..Len(evq)
        BY <3>1, <4>1 DEF CarriedInv
      <4>2. CASE evq'[i] = e
        BY <1>2, <1>3, <4>2
      <4>. QED BY <3>1, <4>1, <4>2
    <3>. QED BY <3>2, <3>3
  <2>2. CASE evq' = evq
    BY <2>2 DEF CarriedInv
  <2>. QED BY <2>1, <2>2 DEF Told
<1>5. \A m \in 1..MaxMessages : author'.said[m] # 0 => m <= author'.message
  <2>1. /\ author.message \in Nat /\ TextTold(e) /\ e \in Events
        /\ \A m \in 1..MaxMessages : author.said[m] \in Nat /\ (author.said[m] # 0 => m <= author.message)
    BY TurnTypes DEF Told, CarriedInv
  <2>. QED BY <2>1, EventForms DEF TextTold
<1>. QED BY <1>0, <1>1, <1>4, <1>5 DEF CarriedInv

LEMMA ToldNumbers ==
  ASSUME TurnEventsTypeOK, NEW e, Told(e)
  PROVE  author'.message \in Nat /\ \A m \in 1..MaxMessages : author'.said[m] \in Nat
<1> DEFINE O == 0..workload.deltas
           R == 1..MaxMessages
<1>1. author'.message \in R /\ author'.said \in [R -> O]
  BY DEF Told, AuthorRec
<1>2. (\A x \in O : x \in Nat) /\ (\A x \in R : x \in Nat)
  BY TurnTypes
<1> HIDE DEF O, R
<1>3. author'.message \in Nat /\ \A m \in R : author'.said[m] \in Nat
  BY <1>1, <1>2
<1>. QED BY <1>3 DEF R

LEMMA ToldText ==
  ASSUME TurnEventsTypeOK, CarriedInv, TextInv, NEW e, Told(e)
  PROVE  TextInv'
<1>0. /\ author.message \in Nat /\ workload.deltas \in Nat /\ TextTold(e) /\ e \in Events
      /\ \A m \in 1..MaxMessages : author.said[m] \in Nat /\ author'.said[m] \in Nat
      /\ Carried' \subseteq Carried \cup {e} /\ courier' = courier /\ textRow' = textRow /\ tail' = tail
      /\ courier.text \subseteq Pieces /\ \A m \in 1..MaxMessages : textRow[m] \subseteq Pieces
  <2>1. \A m \in 1..MaxMessages : author'.said[m] \in Nat
    BY ToldNumbers
  <2>. QED BY <2>1, TurnTypes, ToldCarries DEF Told
<1>1. \A m \in 1..MaxMessages : author.said[m] <= author'.said[m]
  BY <1>0, EventForms DEF TextTold
<1>2. author.message <= author'.message
  BY <1>0, EventForms DEF TextTold
<1>3. \A p \in Pieces : p[1] \in 1..MaxMessages /\ p[1] \in Nat /\ p[2] \in Nat
  BY <1>0 DEF Pieces
<1>4. TextIsStoredOnce'
  <2>1. ASSUME NEW m \in 1..MaxMessages, NEW p \in textRow[m] PROVE p[1] <= m /\ p[2] <= author'.said[p[1]]
    BY <1>0, <1>1, <1>3 DEF TextInv, TextIsStoredOnce
  <2>. QED BY <1>0, <2>1 DEF TextInv, TextIsStoredOnce
<1>5. ASSUME Forwarding, NEW p \in courier.text
      PROVE  /\ p[1] <= author'.message /\ p[2] <= author'.said[p[1]]
             /\ \A m \in 1..MaxMessages : p \notin textRow[m]
             /\ \A x \in Carried' : x.kind \in {"delta", "end"} => p[1] <= x.of
  <2>1. /\ p[1] <= author.message /\ p[2] <= author.said[p[1]]
        /\ \A m \in 1..MaxMessages : p \notin textRow[m]
        /\ \A x \in Carried : x.kind \in {"delta", "end"} => p[1] <= x.of
    BY <1>5 DEF TextInv
  <2>2. p[1] <= author'.message /\ p[2] <= author'.said[p[1]]
    BY <1>0, <1>1, <1>2, <1>3, <2>1, ToldNumbers
  <2>3. e.kind \in {"delta", "end"} => p[1] <= e.of
    BY <1>0, <2>1 DEF TextTold
  <2>. QED BY <1>0, <2>1, <2>2, <2>3
<1>6. ASSUME courier.at # "cancelled", NEW x \in Carried', x.kind = "delta"
      PROVE  /\ <<x.of, x.piece>> \notin courier.text
             /\ \A m \in 1..MaxMessages : <<x.of, x.piece>> \notin textRow[m]
  <2>1. CASE x \in Carried
    BY <1>6, <2>1 DEF TextInv
  <2>2. CASE x = e
    <3>1. e.of \in 1..MaxMessages /\ e.piece = author.said[e.of] + 1 /\ author.said[e.of] \in Nat
      BY <1>0, <1>6, <2>2, EventForms DEF TextTold
    <3>2. ~(e.piece <= author.said[e.of])
      BY <3>1
    <3> DEFINE p == <<e.of, e.piece>>
    <3>3. p[1] = e.of /\ p[2] = e.piece
      OBVIOUS
    <3> HIDE DEF p
    <3>4. p \notin courier.text
      BY <1>6, <3>2, <3>3 DEF TextInv, Forwarding
    <3>5. \A m \in 1..MaxMessages : p \notin textRow[m]
      BY <3>2, <3>3 DEF TextInv, TextIsStoredOnce
    <3>. QED BY <2>2, <3>4, <3>5 DEF p
  <2>. QED BY <1>0, <1>6, <2>1, <2>2
<1>7. Forwarding' <=> Forwarding
  BY <1>0 DEF Forwarding
<1>. QED BY <1>0, <1>4, <1>5, <1>6, <1>7 DEF TextInv

LEMMA AheadTold ==
  ASSUME TurnEventsTypeOK, NEW e, Told(e), ~author'.dropped, NEW m \in 1..MaxMessages
  PROVE  /\ EndAhead(m) => EndAhead(m)'
         /\ author.said[m] # 0 /\ m <= author.message /\ EndAhead(m)' => EndAhead(m)
<1>0. /\ author.message \in Nat /\ TextTold(e) /\ e \in Events
      /\ Carried \subseteq Carried' /\ Carried' \subseteq Carried \cup {e} /\ e \in Carried'
  BY TurnTypes, ToldCarries DEF Told
<1>1. ASSUME EndAhead(m) PROVE EndAhead(m)'
  <2>1. CASE StreamEnd(m) \in Carried
    BY <1>0, <2>1 DEF EndAhead, StreamEnd
  <2>2. CASE author.at = "writing" /\ m = author.message
    <3>1. CASE e.kind = "end"
      <4>1. e = StreamEnd(m)
        BY <1>0, <2>2, <3>1, EventForms DEF TextTold
      <4>. QED BY <1>0, <4>1 DEF EndAhead, StreamEnd
    <3>2. CASE e.kind # "end"
      BY <1>0, <2>2, <3>2 DEF TextTold, EndAhead
    <3>. QED BY <3>1, <3>2
  <2>. QED BY <1>1, <2>1, <2>2 DEF EndAhead
<1>2. ASSUME author.said[m] # 0, m <= author.message, EndAhead(m)' PROVE EndAhead(m)
  <2>1. CASE StreamEnd(m) \in Carried'
    <3>1. CASE StreamEnd(m) = e
      <4>1. e.kind = "end" /\ e.of = m
        BY <3>1 DEF StreamEnd
      <4>. QED BY <1>0, <4>1 DEF TextTold, EndAhead
    <3>. QED BY <1>0, <2>1, <3>1 DEF EndAhead
  <2>2. CASE author'.at = "writing" /\ m = author'.message
    BY <1>0, <1>2, <2>2 DEF TextTold, EndAhead
  <2>3. StreamEnd(m) \in Carried' \/ (author'.at = "writing" /\ m = author'.message)
    BY <1>2 DEF EndAhead, StreamEnd
  <2>. QED BY <2>1, <2>2, <2>3
<1>. QED BY <1>1, <1>2

LEMMA ToldStore ==
  ASSUME TurnEventsTypeOK, CarriedInv, TextInv, StoreInv, NEW e, Told(e)
  PROVE  StoreInv'
<1>0. /\ author.message \in Nat /\ workload.deltas \in Nat /\ TextTold(e) /\ FilesTold(e) /\ e \in Events
      /\ \A m \in 1..MaxMessages : author.said[m] \in Nat
      /\ Carried' \subseteq Carried \cup {e} /\ Carried \subseteq Carried'
      /\ courier' = courier /\ textRow' = textRow /\ tail' = tail /\ kept' = kept /\ setback' = setback
      /\ courier.text \subseteq Pieces /\ \A m \in 1..MaxMessages : textRow[m] \subseteq Pieces
      /\ (author.dropped => author'.dropped)
  BY TurnTypes, ToldCarries DEF Told
<1>1. kept' \subseteq author'.files /\ courier'.files \subseteq author'.files
  BY <1>0 DEF StoreInv, FilesTold
<1>2. SUFFICES ASSUME Sound'
               PROVE  /\ \A f \in author'.files : f \in kept \cup courier.files \/ FileOutput(f) \in Carried'
                      /\ courier.at = "done" => courier.files \subseteq kept
                      /\ \A m \in 1..MaxMessages : \A n \in 1..author'.said[m] : Placed(m, n)'
                      /\ \A p \in courier.text : EndAhead(p[1])'
                      /\ \A x \in Carried' : x.kind = "delta" => EndAhead(x.of)'
                      /\ \A m \in 1..MaxMessages : \A p \in textRow[m] : p[1] = m /\ ~EndAhead(m)'
  BY <1>0, <1>1 DEF StoreInv
<1>3. Sound /\ ~author'.dropped /\ e \in Carried'
  BY <1>0, <1>2, ToldCarries DEF Sound
<1>4. \A p \in Pieces : p[1] \in 1..MaxMessages /\ p[2] \in Nat /\ p[2] # 0
  BY <1>0 DEF Pieces
<1>5. \A f \in author'.files : f \in kept \cup courier.files \/ FileOutput(f) \in Carried'
  BY <1>0, <1>3, EventForms DEF StoreInv, FilesTold
<1>6. ASSUME NEW m \in 1..MaxMessages, NEW n \in 1..author'.said[m] PROVE Placed(m, n)'
  <2>1. CASE n \in 1..author.said[m]
    <3>1. Placed(m, n)
      BY <1>3, <2>1 DEF StoreInv
    <3>. QED BY <1>0, <3>1 DEF Placed, Delta
  <2>2. CASE n \notin 1..author.said[m]
    <3>1. e.kind = "delta" /\ m = e.of /\ n = e.piece
      BY <1>0, <2>2 DEF TextTold
    <3>2. e = Delta(m, n)
      BY <1>0, <3>1, EventForms
    <3>. QED BY <1>3, <3>2 DEF Placed, Delta
  <2>. QED BY <2>1, <2>2
<1>7. ASSUME NEW p \in courier.text PROVE EndAhead(p[1])'
  BY <1>0, <1>3, <1>4, AheadTold DEF StoreInv
<1>8. ASSUME NEW x \in Carried', x.kind = "delta" PROVE EndAhead(x.of)'
  <2>1. CASE x \in Carried
    <3>1. x.of \in 1..MaxMessages
      BY <1>8, <2>1, TurnTypes, EventForms
    <3>. QED BY <1>3, <1>8, <2>1, <3>1, AheadTold DEF StoreInv
  <2>2. CASE x = e
    BY <1>0, <1>8, <2>2 DEF TextTold, EndAhead
  <2>. QED BY <1>0, <2>1, <2>2
<1>9. ASSUME NEW m \in 1..MaxMessages, NEW p \in textRow[m] PROVE p[1] = m /\ ~EndAhead(m)'
  <2>1. p[1] = m /\ ~EndAhead(m)
    BY <1>3 DEF StoreInv
  <2>2. p[2] <= author.said[m] /\ p[2] \in Nat /\ p[2] # 0
    BY <1>0, <1>4, <2>1 DEF TextInv, TextIsStoredOnce
  <2>3. author.said[m] # 0
    BY <1>0, <2>2
  <2>4. m <= author.message
    BY <2>3 DEF CarriedInv
  <2>. QED BY <1>3, <2>1, <2>3, <2>4, AheadTold
<1>10. courier.at = "done" => courier.files \subseteq kept
  BY <1>3 DEF StoreInv
<1>. QED BY <1>5, <1>6, <1>7, <1>8, <1>9, <1>10

LEMMA ToldPlan ==
  ASSUME TurnEventsTypeOK, CarriedInv, PlanInv, NEW e, Told(e)
  PROVE  PlanInv'
<1>0. /\ PlanTold(e) /\ e \in Events /\ tail = "agent" /\ tail' = tail
      /\ Carried' \subseteq Carried \cup {e} /\ Carried \subseteq Carried'
      /\ courier' = courier /\ planRow' = planRow /\ nested' = nested /\ setback' = setback /\ workload' = workload
      /\ (author.dropped => author'.dropped) /\ courier.terminal \subseteq PlanRows
      /\ (~author'.dropped => e \in Carried')
  BY TurnTypes, ToldCarries DEF Told
<1>1. e.kind = "task" => e.of \in PlanRows /\ e.status \in Outcomes \cup {"running"} /\ e = TaskEvent(e.of, e.status)
  BY <1>0, EventForms
<1>2. ParentPlanIsKept' /\ PlanIsSettled'
  BY <1>0 DEF PlanInv, ParentPlanIsKept, PlanIsSettled
<1>3. courier'.deferred \subseteq author'.deferred
  BY <1>0 DEF PlanInv, PlanTold
<1>4. \A t \in PlanRows : author'.work[t] # "none" => t \in workload'.tasks
  BY <1>0, <1>1 DEF PlanInv, PlanTold
<1>5. ASSUME NEW t \in courier.terminal
      PROVE  /\ author'.work[t] \in Outcomes
             /\ e.kind # "plan" /\ (e.kind = "task" => e.of # t)
  <2>1. author.work[t] \in Outcomes /\ t \in PlanRows
    BY <1>0 DEF PlanInv
  <2>2. e.kind # "plan" /\ (e.kind = "task" => e.of # t)
    BY <1>0, <2>1 DEF PlanTold, Outcomes
  <2>. QED BY <1>0, <2>1, <2>2 DEF PlanTold
<1>6. courier'.at # "cancelled" =>
        \A t \in courier'.terminal : \A x \in Carried' : x.kind # "plan" /\ (x.kind = "task" => x.of # t)
  BY <1>0, <1>5 DEF PlanInv
<1>7. ~nested' /\ "db" \notin setback' => \A t \in courier'.terminal : planRow'[t] \in Outcomes \cup {"none"}
  BY <1>0 DEF PlanInv
<1>8. ASSUME ~nested, "db" \notin setback, ~author'.dropped, NEW t \in PlanRows
      PROVE  /\ courier.at # "cancelled" =>
                  /\ author'.work[t] # "none" => planRow[t] # "none" \/ PlanCreated \in Carried'
                  /\ author'.work[t] \in Outcomes =>
                       \/ TaskEvent(t, author'.work[t]) \in Carried'
                       \/ t \in courier.terminal /\ planRow[t] = author'.work[t]
             /\ courier.at = "cancelled" /\ author'.work[t] \in Outcomes =>
                  \/ TaskEvent(t, author'.work[t]) \in Carried' \/ courier.hand.kind = "plan"
                  \/ planRow[t] \in {author'.work[t], "none"}
  <2>1. /\ courier.at # "cancelled" =>
             /\ author.work[t] # "none" => planRow[t] # "none" \/ PlanCreated \in Carried
             /\ author.work[t] \in Outcomes =>
                  TaskEvent(t, author.work[t]) \in Carried \/ (t \in courier.terminal /\ planRow[t] = author.work[t])
        /\ courier.at = "cancelled" /\ author.work[t] \in Outcomes =>
             \/ TaskEvent(t, author.work[t]) \in Carried \/ courier.hand.kind = "plan"
             \/ planRow[t] \in {author.work[t], "none"}
    BY <1>0, <1>8 DEF PlanInv, OutcomeInv
  <2>2. CASE e.kind = "plan"
    <3>1. e = PlanCreated /\ e \in Carried'
      BY <1>0, <1>8, <2>2, EventForms
    <3>2. author'.work[t] \notin Outcomes
      BY <1>0, <2>2 DEF PlanTold, Outcomes
    <3>. QED BY <3>1, <3>2
  <2>3. CASE e.kind = "task" /\ e.of = t
    <3>1. author'.work[t] = e.status /\ author.work[t] # "none" /\ e = TaskEvent(t, author'.work[t]) /\ e \in Carried'
      BY <1>0, <1>1, <1>8, <2>3 DEF PlanTold
    <3>. QED BY <1>0, <2>1, <3>1
  <2>4. CASE e.kind # "plan" /\ ~(e.kind = "task" /\ e.of = t)
    <3>1. author'.work[t] = author.work[t]
      BY <1>0, <2>4 DEF PlanTold
    <3>. QED BY <1>0, <2>1, <3>1
  <2>. QED BY <2>2, <2>3, <2>4
<1>9. OutcomeInv'
  BY <1>0, <1>8 DEF OutcomeInv, TaskEvent, PlanCreated
<1>10. \A t \in courier'.terminal : author'.work[t] \in Outcomes
  BY <1>0, <1>5
<1>. QED BY <1>2, <1>3, <1>4, <1>6, <1>7, <1>9, <1>10 DEF PlanInv

-----------------------------------------------------------------------------
(***************************************************************************)
(* The end of the agent: the queue is closed.                              *)
(***************************************************************************)
\* The agent is closed, with its queue or after it.
Shut ==
  /\ UNCHANGED <<setback, workload, nested, eventsAborted, courier, planRow, textRow, kept>>
  /\ author' \in AuthorRec /\ author'.at = "closed" /\ (author.dropped => author'.dropped)
  /\ author'.message = author.message /\ author'.said = author.said /\ author'.files = author.files
  /\ author'.work = author.work /\ author'.deferred = author.deferred
  /\ tail' \in {"waiting", "tearing"} /\ tail \in {"agent", "waiting"}
  /\ evq' = (IF tail = "agent" THEN ClosedQueue ELSE evq)
  /\ tail' = "waiting" => author.at = "ended" /\ tail = "agent" /\ author'.dropped = (author.dropped \/ ClosingDrops)

LEMMA CloseShuts ==
  ASSUME TurnEventsTypeOK, Close \/ Teardown
  PROVE  Shut
<1>0. author \in AuthorRec /\ ClosingDrops \in BOOLEAN /\ author.dropped \in BOOLEAN
  BY TurnTypes DEF ClosingDrops, AuthorRec
<1>1. CASE Close
  <2>1. PICK d \in BOOLEAN : d = (author.dropped \/ ClosingDrops)
    BY <1>0
  <2>2. author' = [author EXCEPT !.at = "closed", !.dropped = d]
    BY <1>1, <2>1 DEF Close
  <2>3. /\ author' \in AuthorRec /\ author'.at = "closed" /\ author'.dropped = d
        /\ author'.message = author.message /\ author'.said = author.said /\ author'.files = author.files
        /\ author'.work = author.work /\ author'.deferred = author.deferred
    BY <1>0, <2>2 DEF AuthorRec
  <2>4. author'.dropped = (author.dropped \/ ClosingDrops)
    BY <2>1, <2>3
  <2>5. author.dropped => author'.dropped
    BY <2>4
  <2>. QED BY <1>1, <2>3, <2>4, <2>5 DEF Close, Shut
<1>2. CASE Teardown
  <2>1. /\ author' \in AuthorRec /\ author'.at = "closed" /\ author'.dropped = author.dropped
        /\ author'.message = author.message /\ author'.said = author.said /\ author'.files = author.files
        /\ author'.work = author.work /\ author'.deferred = author.deferred
    BY <1>0, <1>2 DEF AuthorRec, Teardown
  <2>. QED BY <1>2, <2>1 DEF Teardown, Shut
<1>. QED BY <1>1, <1>2

LEMMA ShutCarries ==
  ASSUME TurnEventsTypeOK, Shut
  PROVE  /\ evq' \in Seq(Events) /\ Len(evq') <= QueueSize
         /\ Waiting' \subseteq Waiting \cup {Sentinel} /\ Carried' \subseteq Carried \cup {Sentinel}
         /\ tail' = "waiting" /\ ~author'.dropped =>
              \A x \in Carried : x.kind \in {"plan", "loop"} \/ KeptOnClose(x) => x \in Carried'
         /\ courier' = courier
<1>0. /\ evq \in Seq(Events) /\ Len(evq) <= QueueSize /\ courier' = courier
      /\ courier.hand \in Carried /\ courier.hand \in Carried'
  BY TurnTypes DEF Shut, Carried
<1>1. CASE tail # "agent"
  BY <1>0, <1>1 DEF Shut, Waiting, Carried
<1>2. CASE tail = "agent"
  <2>1. evq' = ClosedQueue
    BY <1>2 DEF Shut
  <2>2. /\ evq' \in Seq(Events) /\ Len(evq') <= QueueSize
        /\ \A i \in 1..Len(evq') : evq'[i] = Sentinel \/ evq'[i] \in Waiting
    BY <1>0, <2>1, ClosingKeeps
  <2>3. ~ClosingDrops => \A x \in Waiting : KeptOnClose(x) \/ x.kind \in {"plan", "loop"} =>
                           \E i \in 1..Len(evq') : evq'[i] = x
    BY <1>0, <2>1, ClosingKeeps
  <2>4. Waiting' \subseteq Waiting \cup {Sentinel} /\ Carried' \subseteq Carried \cup {Sentinel}
    BY <1>0, <2>2 DEF Waiting, Carried
  <2>5. ASSUME tail' = "waiting", ~author'.dropped, NEW x \in Carried,
               x.kind \in {"plan", "loop"} \/ KeptOnClose(x)
        PROVE  x \in Carried'
    <3>1. CASE x = courier.hand
      BY <1>0, <3>1
    <3>2. CASE x \in Waiting
      <4>1. ~ClosingDrops
        BY <2>5 DEF Shut
      <4>2. KeptOnClose(x) \/ x.kind \in {"plan", "loop"}
        BY <2>5
      <4>3. PICK i \in 1..Len(evq') : evq'[i] = x
        BY <2>3, <3>2, <4>1, <4>2
      <4>. QED BY <4>3 DEF Waiting, Carried
    <3>. QED BY <3>1, <3>2 DEF Carried
  <2>. QED BY <1>0, <2>2, <2>4, <2>5
<1>. QED BY <1>1, <1>2

LEMMA ShutTypes ==
  ASSUME TurnEventsTypeOK, Shut
  PROVE  TurnEventsTypeOK'
<1>1. Events' = Events /\ Pieces' = Pieces
  BY DEF Shut, Events, Pieces, Nothing, Sentinel, PlanCreated, Delta, StreamEnd, FileOutput, LoopCompleted, TaskEvent
<1>2. /\ setback' \in Setbacks /\ workload' \in Workloads /\ nested' \in BOOLEAN /\ eventsAborted' \in BOOLEAN
  BY DEF Shut, TurnEventsTypeOK
<1>3. author' \in AuthorRec' /\ evq' \in Seq(Events') /\ Len(evq') <= QueueSize
  BY <1>1, ShutCarries DEF Shut, AuthorRec
<1>4. /\ courier' = courier /\ planRow' = planRow /\ textRow' = textRow /\ kept' = kept
      /\ tail' \in {"waiting", "tearing"}
  BY DEF Shut
<1> HIDE DEF Shut
<1>. QED BY <1>1, <1>2, <1>3, <1>4 DEF TurnEventsTypeOK, AuthorRec

LEMMA ShutStage ==
  ASSUME TurnEventsTypeOK, StageInv, Shut
  PROVE  StageInv'
<1>1. /\ courier' = courier /\ tail' \in {"waiting", "tearing"} /\ tail \in {"agent", "waiting"} /\ author'.at = "closed"
      /\ courier.at \in {"idle", "busy", "flush", "done", "cancelled"}
  BY TurnTypes DEF Shut
<1>2. courier.at \in {"flush", "done"} => evq' = <<>>
  BY DEF StageInv, Shut
<1>. QED BY <1>1, <1>2 DEF StageInv

LEMMA ShutCarried ==
  ASSUME TurnEventsTypeOK, StageInv, CarriedInv, Shut
  PROVE  CarriedInv'
<1>0. /\ courier' = courier /\ Carried' \subseteq Carried \cup {Sentinel} /\ author'.at = "closed"
      /\ author'.message = author.message /\ author'.said = author.said /\ author'.files = author.files
      /\ author'.work = author.work /\ author'.deferred = author.deferred
      /\ evq \in Seq(Events) /\ Len(evq) <= QueueSize
  BY ShutCarries, TurnTypes DEF Shut
<1>1. \A x \in Carried' : Fits(x)'
  <2>1. ASSUME NEW x \in Carried PROVE Fits(x)'
    BY <1>0 DEF CarriedInv, Fits
  <2>2. Fits(Sentinel)'
    BY DEF Fits, Sentinel, IsTerminal
  <2>. QED BY <1>0, <2>1, <2>2
<1>2. /\ \A i, j \in 1..Len(evq') : i < j => InOrder(evq'[i], evq'[j])
      /\ \A i \in 1..Len(evq') : InOrder(courier.hand, evq'[i])
  <2>1. CASE tail # "agent"
    BY <2>1 DEF Shut, CarriedInv
  <2>2. CASE tail = "agent"
    <3>1. /\ \A i \in 1..Len(evq') : evq'[i] = Sentinel \/ evq'[i] \in Waiting
          /\ \A i, j \in 1..Len(evq') :
               i < j => \/ evq'[i] \in Waiting /\ evq'[j] = Sentinel
                        \/ \E a, b \in 1..Len(evq) : a < b /\ evq'[i] = evq[a] /\ evq'[j] = evq[b]
      BY <1>0, <2>2, ClosingKeeps DEF Shut
    <3>2. \A x : x.kind # "sentinel" => InOrder(x, Sentinel)
      BY DEF InOrder, Sentinel
    <3>3. courier.hand.kind # "sentinel" /\ \A x \in Waiting : x.kind # "sentinel"
      BY <2>2 DEF StageInv
    <3>4. ASSUME NEW i \in 1..Len(evq'), NEW j \in 1..Len(evq'), i < j PROVE InOrder(evq'[i], evq'[j])
      <4>1. CASE evq'[i] \in Waiting /\ evq'[j] = Sentinel
        BY <3>2, <3>3, <4>1
      <4>2. CASE \E a, b \in 1..Len(evq) : a < b /\ evq'[i] = evq[a] /\ evq'[j] = evq[b]
        BY <4>2 DEF CarriedInv
      <4>. QED BY <3>1, <3>4, <4>1, <4>2
    <3>5. ASSUME NEW i \in 1..Len(evq') PROVE InOrder(courier.hand, evq'[i])
      <4>1. CASE evq'[i] = Sentinel
        BY <3>2, <3>3, <4>1
      <4>2. CASE evq'[i] \in Waiting
        BY <4>2 DEF CarriedInv, Waiting
      <4>. QED BY <3>1, <4>1, <4>2
    <3>. QED BY <3>4, <3>5
  <2>. QED BY <2>1, <2>2
<1>. QED BY <1>0, <1>1, <1>2 DEF CarriedInv

LEMMA ShutText ==
  ASSUME TurnEventsTypeOK, StageInv, TextInv, Shut
  PROVE  TextInv'
<1>0. /\ courier' = courier /\ Carried' \subseteq Carried \cup {Sentinel} /\ textRow' = textRow
      /\ author'.message = author.message /\ author'.said = author.said
      /\ courier.at # "cancelled"
  BY ShutCarries DEF Shut, StageInv
<1>1. Sentinel.kind = "sentinel"
  BY DEF Sentinel
<1>2. Forwarding
  BY <1>0 DEF Forwarding
<1>3. TextIsStoredOnce'
  BY <1>0 DEF TextInv, TextIsStoredOnce
<1>4. \A p \in courier.text :
        /\ p[1] <= author.message /\ p[2] <= author.said[p[1]]
        /\ \A m \in 1..MaxMessages : p \notin textRow[m]
        /\ \A e \in Carried' : e.kind \in {"delta", "end"} => p[1] <= e.of
  BY <1>0, <1>1, <1>2 DEF TextInv
<1>5. \A e \in Carried' : e.kind = "delta" =>
        /\ <<e.of, e.piece>> \notin courier.text
        /\ \A m \in 1..MaxMessages : <<e.of, e.piece>> \notin textRow[m]
  BY <1>0, <1>1 DEF TextInv
<1>. QED BY <1>0, <1>3, <1>4, <1>5 DEF TextInv

LEMMA ShutStore ==
  ASSUME TurnEventsTypeOK, StoreInv, Shut
  PROVE  StoreInv'
<1>0. /\ courier' = courier /\ Carried' \subseteq Carried \cup {Sentinel} /\ textRow' = textRow /\ kept' = kept
      /\ author'.message = author.message /\ author'.said = author.said /\ author'.files = author.files
      /\ setback' = setback /\ author'.at = "closed" /\ (author.dropped => author'.dropped)
      /\ courier.text \subseteq Pieces
  BY ShutCarries, TurnTypes DEF Shut
<1>1. CASE Sound'
  <2>1. tail' = "waiting" /\ ~author'.dropped /\ Sound /\ author.at = "ended"
    BY <1>0, <1>1 DEF Sound, Shut
  <2>2. \A x \in Carried : KeptOnClose(x) => x \in Carried'
    BY <2>1, ShutCarries
  <2>3. ASSUME NEW m PROVE EndAhead(m)' <=> EndAhead(m)
    <3>1. StreamEnd(m) \in Carried => StreamEnd(m) \in Carried'
      BY <2>2 DEF StreamEnd, KeptOnClose
    <3>2. StreamEnd(m) \in Carried' => StreamEnd(m) \in Carried
      BY <1>0 DEF StreamEnd, Sentinel
    <3>. QED BY <1>0, <2>1, <3>1, <3>2 DEF EndAhead, StreamEnd
  <2>4. ASSUME NEW m, NEW n PROVE Placed(m, n) => Placed(m, n)'
    <3>1. Delta(m, n) \in Carried => Delta(m, n) \in Carried'
      BY <2>2 DEF Delta, KeptOnClose
    <3>. QED BY <1>0, <3>1 DEF Placed, Delta
  <2>5. \A f : FileOutput(f) \in Carried => FileOutput(f) \in Carried'
    BY <2>2 DEF FileOutput, KeptOnClose
  <2>6. \A e \in Carried' : e.kind = "delta" => e \in Carried
    BY <1>0 DEF Sentinel
  <2>7. \A f \in author.files : f \in kept \cup courier.files \/ FileOutput(f) \in Carried'
    BY <2>1, <2>5 DEF StoreInv
  <2>8. \A m \in 1..MaxMessages : \A n \in 1..author.said[m] : Placed(m, n)'
    BY <2>1, <2>4 DEF StoreInv
  <2>9. \A p \in courier.text : EndAhead(p[1])'
    BY <2>1, <2>3 DEF StoreInv
  <2>10. \A e \in Carried' : e.kind = "delta" => EndAhead(e.of)'
    BY <2>1, <2>3, <2>6 DEF StoreInv
  <2>11. \A m \in 1..MaxMessages : \A p \in textRow[m] : p[1] = m /\ ~EndAhead(m)'
    BY <2>1, <2>3 DEF StoreInv
  <2>12. /\ courier.at = "done" => courier.files \subseteq kept
         /\ kept \subseteq author.files /\ courier.files \subseteq author.files
    BY <2>1 DEF StoreInv
  <2>. QED BY <1>0, <2>7, <2>8, <2>9, <2>10, <2>11, <2>12 DEF StoreInv, FileOutput
<1>2. CASE ~Sound'
  BY <1>0, <1>2 DEF StoreInv
<1>. QED BY <1>1, <1>2

LEMMA ShutPlan ==
  ASSUME TurnEventsTypeOK, StageInv, PlanInv, Shut
  PROVE  PlanInv'
<1>0. /\ courier' = courier /\ Carried' \subseteq Carried \cup {Sentinel} /\ planRow' = planRow
      /\ nested' = nested /\ workload' = workload /\ setback' = setback
      /\ author'.work = author.work /\ author'.deferred = author.deferred
      /\ (author.dropped => author'.dropped) /\ courier.at # "cancelled"
      /\ tail' \in {"waiting", "tearing"} /\ tail \in {"agent", "waiting"}
  BY ShutCarries DEF Shut, StageInv
<1>1. Sentinel.kind = "sentinel"
  BY DEF Sentinel
<1>2. ParentPlanIsKept' /\ PlanIsSettled'
  BY <1>0 DEF PlanInv, ParentPlanIsKept, PlanIsSettled
<1>3. \A t \in courier.terminal : \A e \in Carried' : e.kind # "plan" /\ (e.kind = "task" => e.of # t)
  BY <1>0, <1>1 DEF PlanInv
<1>4. ASSUME ~nested, "db" \notin setback, ~author'.dropped, tail' # "tearing", NEW t \in PlanRows
      PROVE  /\ author.work[t] # "none" => planRow[t] # "none" \/ PlanCreated \in Carried'
             /\ author.work[t] \in Outcomes =>
                  TaskEvent(t, author.work[t]) \in Carried' \/ (t \in courier.terminal /\ planRow[t] = author.work[t])
  <2>1. \A x \in Carried : x.kind = "plan" \/ KeptOnClose(x) => x \in Carried'
    BY <1>0, <1>4, ShutCarries
  <2>2. /\ author.work[t] # "none" => planRow[t] # "none" \/ PlanCreated \in Carried
        /\ author.work[t] \in Outcomes =>
             TaskEvent(t, author.work[t]) \in Carried \/ (t \in courier.terminal /\ planRow[t] = author.work[t])
    BY <1>0, <1>4 DEF PlanInv, OutcomeInv
  <2>3. PlanCreated \in Carried => PlanCreated \in Carried'
    BY <2>1 DEF PlanCreated
  <2>4. author.work[t] \in Outcomes /\ TaskEvent(t, author.work[t]) \in Carried =>
          TaskEvent(t, author.work[t]) \in Carried'
    BY <2>1 DEF TaskEvent, KeptOnClose, IsTerminal
  <2>. QED BY <2>2, <2>3, <2>4
<1>5. OutcomeInv'
  BY <1>0, <1>4 DEF OutcomeInv, TaskEvent, PlanCreated
<1>. QED BY <1>0, <1>2, <1>3, <1>5 DEF PlanInv

-----------------------------------------------------------------------------
(***************************************************************************)
(* The forwarder takes an event, and run_turn waits for it.                *)
(***************************************************************************)
\* No text is stored, and no event is lost but the sentinel.
Passing ==
  /\ UNCHANGED <<setback, workload, nested, author, eventsAborted, textRow>>
  /\ kept \subseteq kept' /\ kept' \subseteq kept \cup courier.files
  /\ courier'.text = courier.text /\ courier'.files = courier.files
  /\ courier'.terminal = courier.terminal /\ courier'.deferred = courier.deferred
  /\ Carried' \subseteq Carried \cup {Nothing}
  /\ \A x \in Carried : x.kind \notin {"none", "sentinel"} => x \in Carried'
  /\ courier'.at # "cancelled" => courier.at # "cancelled"
  /\ courier'.at = "cancelled" => courier'.hand = courier.hand
  /\ courier'.at = "done" /\ "db" \notin setback => courier.at = "done" \/ courier.files \subseteq kept'
  /\ Forwarding' => Forwarding
  /\ tail \in {"tearing", "torn"} <=> tail' \in {"tearing", "torn"}

LEMMA PassingText ==
  ASSUME TextInv, Passing
  PROVE  TextInv'
<1>1. Nothing.kind = "none"
  BY DEF Nothing
<1>2. TextIsStoredOnce'
  BY DEF Passing, TextInv, TextIsStoredOnce
<1>3. Forwarding' =>
        \A p \in courier'.text :
          /\ p[1] <= author'.message /\ p[2] <= author'.said[p[1]]
          /\ \A m \in 1..MaxMessages : p \notin textRow'[m]
          /\ \A e \in Carried' : e.kind \in {"delta", "end"} => p[1] <= e.of
  BY <1>1 DEF Passing, TextInv
<1>4. courier'.at # "cancelled" =>
        \A e \in Carried' : e.kind = "delta" =>
          /\ <<e.of, e.piece>> \notin courier'.text
          /\ \A m \in 1..MaxMessages : <<e.of, e.piece>> \notin textRow'[m]
  BY <1>1 DEF Passing, TextInv
<1>. QED BY <1>2, <1>3, <1>4 DEF TextInv

LEMMA PassingStore ==
  ASSUME StoreInv, Passing
  PROVE  StoreInv'
<1>1. CASE Sound'
  <2>1. Sound /\ author' = author /\ kept \subseteq kept' /\ textRow' = textRow /\ courier'.text = courier.text
        /\ courier'.files = courier.files /\ "db" \notin setback
    BY <1>1 DEF Sound, Passing
  <2>2. ASSUME NEW m PROVE EndAhead(m)' <=> EndAhead(m)
    <3>1. StreamEnd(m) \in Carried <=> StreamEnd(m) \in Carried'
      BY DEF StreamEnd, Nothing, Passing
    <3>. QED BY <2>1, <3>1 DEF EndAhead, StreamEnd
  <2>3. ASSUME NEW m, NEW n PROVE Placed(m, n) => Placed(m, n)'
    <3>1. Delta(m, n) \in Carried => Delta(m, n) \in Carried'
      BY DEF Delta, Passing
    <3>. QED BY <2>1, <3>1 DEF Placed, Delta
  <2>4. \A f : FileOutput(f) \in Carried => FileOutput(f) \in Carried'
    BY DEF FileOutput, Passing
  <2>5. \A e \in Carried' : e.kind = "delta" => e \in Carried
    BY DEF Nothing, Passing
  <2>6. \A f \in author.files : f \in kept' \cup courier.files \/ FileOutput(f) \in Carried'
    BY <2>1, <2>4 DEF StoreInv
  <2>7. \A m \in 1..MaxMessages : \A n \in 1..author.said[m] : Placed(m, n)'
    BY <2>1, <2>3 DEF StoreInv
  <2>8. \A p \in courier.text : EndAhead(p[1])'
    BY <2>1, <2>2 DEF StoreInv
  <2>9. \A e \in Carried' : e.kind = "delta" => EndAhead(e.of)'
    BY <2>1, <2>2, <2>5 DEF StoreInv
  <2>10. \A m \in 1..MaxMessages : \A p \in textRow[m] : p[1] = m /\ ~EndAhead(m)'
    BY <2>1, <2>2 DEF StoreInv
  <2>11. /\ courier'.at = "done" => courier.files \subseteq kept'
         /\ kept' \subseteq author.files /\ courier.files \subseteq author.files
    BY <2>1 DEF StoreInv, Passing
  <2>. QED BY <2>1, <2>6, <2>7, <2>8, <2>9, <2>10, <2>11 DEF StoreInv, FileOutput
<1>2. CASE ~Sound'
  BY <1>2 DEF StoreInv, Passing
<1>. QED BY <1>1, <1>2

LEMMA PassingPlan ==
  ASSUME PlanInv, Passing, planRow' = planRow, tail' = "over" => tail = "over"
  PROVE  PlanInv'
<1>1. Nothing.kind = "none"
  BY DEF Nothing
<1>2. ParentPlanIsKept' /\ PlanIsSettled'
  BY DEF PlanInv, ParentPlanIsKept, PlanIsSettled, Passing
<1>3. courier'.at # "cancelled" =>
        \A t \in courier'.terminal : \A e \in Carried' : e.kind # "plan" /\ (e.kind = "task" => e.of # t)
  BY <1>1 DEF PlanInv, Passing
<1>4. ASSUME ~nested, "db" \notin setback, ~author.dropped, tail' \notin {"tearing", "torn"}, NEW t \in PlanRows
      PROVE  /\ courier'.at # "cancelled" =>
                  /\ author.work[t] # "none" => planRow[t] # "none" \/ PlanCreated \in Carried'
                  /\ author.work[t] \in Outcomes =>
                       \/ TaskEvent(t, author.work[t]) \in Carried'
                       \/ t \in courier.terminal /\ planRow[t] = author.work[t]
             /\ courier'.at = "cancelled" /\ author.work[t] \in Outcomes =>
                  \/ TaskEvent(t, author.work[t]) \in Carried' \/ courier'.hand.kind = "plan"
                  \/ planRow[t] \in {author.work[t], "none"}
  <2>1. PlanCreated \in Carried => PlanCreated \in Carried'
    BY DEF PlanCreated, Passing
  <2>2. TaskEvent(t, author.work[t]) \in Carried => TaskEvent(t, author.work[t]) \in Carried'
    BY DEF TaskEvent, Passing
  <2>3. /\ courier.at # "cancelled" =>
             /\ author.work[t] # "none" => planRow[t] # "none" \/ PlanCreated \in Carried
             /\ author.work[t] \in Outcomes =>
                  TaskEvent(t, author.work[t]) \in Carried \/ (t \in courier.terminal /\ planRow[t] = author.work[t])
        /\ courier.at = "cancelled" /\ author.work[t] \in Outcomes =>
             \/ TaskEvent(t, author.work[t]) \in Carried \/ courier.hand.kind = "plan"
             \/ planRow[t] \in {author.work[t], "none"}
    BY <1>4 DEF PlanInv, OutcomeInv, Passing
  <2>. QED BY <2>1, <2>2, <2>3 DEF Passing
<1>5. OutcomeInv'
  BY <1>4 DEF OutcomeInv, TaskEvent, PlanCreated, Passing
<1>. QED BY <1>2, <1>3, <1>5 DEF PlanInv, Passing

CourierRec ==
  [at : {"idle", "busy", "flush", "done", "cancelled"}, hand : Events, text : SUBSET Pieces,
   files : SUBSET Files, terminal : SUBSET PlanRows, deferred : SUBSET PlanRows]

LEMMA TakeEffect ==
  ASSUME TurnEventsTypeOK, StageInv, CarriedInv, Take
  PROVE  /\ courier' \in CourierRec /\ evq' \in Seq(Events) /\ Len(evq') <= QueueSize /\ Passing
         /\ \A i, j \in 1..Len(evq') : i < j => InOrder(evq'[i], evq'[j])
         /\ \A i \in 1..Len(evq') : InOrder(courier'.hand, evq'[i])
         /\ Waiting' \subseteq Waiting /\ courier'.hand.kind # "sentinel"
         /\ courier.at = "idle" /\ courier'.at \in {"busy", "flush", "done"}
         /\ courier'.at \in {"flush", "done"} => evq' = <<>> /\ tail # "agent" /\ courier'.hand = Nothing
         /\ UNCHANGED <<setback, workload, nested, author, eventsAborted, planRow, textRow, kept, tail>>
<1> DEFINE h == Head(evq)
<1>0. /\ evq \in Seq(Events) /\ evq # <<>> /\ evq' = Tail(evq) /\ Len(evq) \in Nat /\ Len(evq) <= QueueSize
      /\ courier.at = "idle" /\ courier.hand = Nothing /\ QueueSize \in Nat
      /\ UNCHANGED <<setback, workload, nested, author, eventsAborted, planRow, textRow, kept, tail>>
  BY TurnTypes DEF Take, StageInv
<1>1. courier \in CourierRec
  BY DEF TurnEventsTypeOK, CourierRec
<1>2. /\ h \in Events /\ h = evq[1] /\ 1 \in 1..Len(evq)
      /\ evq' \in Seq(Events) /\ Len(evq') = Len(evq) - 1 /\ Len(evq') \in Nat
      /\ \A i \in 1..Len(evq') : evq'[i] = evq[i + 1] /\ i + 1 \in 1..Len(evq)
      /\ \A i \in 1..Len(evq) : i = 1 \/ (i - 1 \in 1..Len(evq') /\ evq'[i - 1] = evq[i])
  <2>1. /\ h \in Events /\ h = evq[1] /\ 1 \in 1..Len(evq)
        /\ evq' \in Seq(Events) /\ Len(evq') = Len(evq) - 1 /\ Len(evq') \in Nat
        /\ \A i \in 1..Len(evq') : evq'[i] = evq[i + 1]
    BY <1>0
  <2>2. \A i \in 1..Len(evq) : i = 1 \/ (i - 1 \in 1..Len(evq') /\ i - 1 + 1 = i)
    BY <1>0, <2>1
  <2>. QED BY <1>0, <2>1, <2>2
<1> HIDE DEF h
<1>3. Waiting' \subseteq Waiting /\ Waiting \subseteq Waiting' \cup {h} /\ h \in Waiting
  BY <1>2 DEF Waiting
<1>4. \A i, j \in 1..Len(evq') : i < j => InOrder(evq'[i], evq'[j])
  <2>1. ASSUME NEW i \in 1..Len(evq'), NEW j \in 1..Len(evq'), i < j PROVE InOrder(evq'[i], evq'[j])
    <3>1. i + 1 < j + 1
      BY <1>2, <2>1
    <3>. QED BY <1>2, <3>1 DEF CarriedInv
  <2>. QED BY <2>1
<1>5. \A i \in 1..Len(evq') : InOrder(h, evq'[i])
  <2>1. ASSUME NEW i \in 1..Len(evq') PROVE InOrder(h, evq'[i])
    <3>1. 1 < i + 1
      BY <1>2
    <3>. QED BY <1>2, <3>1 DEF CarriedInv
  <2>. QED BY <2>1
<1>6. CASE h = Sentinel
  <2>1. PICK a \in {"flush", "done"} : a = IF courier.files = {} THEN "done" ELSE "flush"
    OBVIOUS
  <2>2. courier' = [courier EXCEPT !.at = a]
    BY <1>6, <2>1 DEF Take, h
  <2>3. /\ courier' \in CourierRec /\ courier'.at = a /\ courier'.hand = courier.hand
        /\ courier'.text = courier.text /\ courier'.files = courier.files
        /\ courier'.terminal = courier.terminal /\ courier'.deferred = courier.deferred
    BY <1>1, <2>2 DEF CourierRec
  <2>4. a = "done" => courier.files = {}
    BY <2>1
  <2>5. h.kind = "sentinel" /\ Nothing.kind = "none"
    BY <1>6 DEF Sentinel, Nothing
  <2>6. Len(evq') = 0
    <3>1. 1 \notin 1..Len(evq')
      BY <1>5, <2>5 DEF InOrder
    <3>. QED BY <1>2, <3>1
  <2>7. evq' = <<>>
    BY <1>2, <2>6
  <2>8. Waiting' = {}
    BY <2>6 DEF Waiting
  <2>9. Carried' = {Nothing} /\ \A x \in Carried : x = h \/ x = Nothing
    BY <1>0, <1>3, <2>3, <2>8 DEF Carried
  <2>10. tail # "agent"
    BY <1>3, <2>5 DEF StageInv
  <2>11. Forwarding
    BY <1>0 DEF Forwarding
  <2>12. Passing
    BY <1>0, <2>3, <2>4, <2>5, <2>9, <2>11 DEF Passing
  <2>13. \A i \in 1..Len(evq') : InOrder(courier'.hand, evq'[i])
    BY <2>6
  <2>. QED BY <1>0, <1>2, <1>3, <1>4, <2>3, <2>5, <2>7, <2>10, <2>12, <2>13
<1>7. CASE h # Sentinel
  <2>1. courier' = [courier EXCEPT !.at = "busy", !.hand = h]
    BY <1>7 DEF Take, h
  <2>2. /\ courier' \in CourierRec /\ courier'.at = "busy" /\ courier'.hand = h
        /\ courier'.text = courier.text /\ courier'.files = courier.files
        /\ courier'.terminal = courier.terminal /\ courier'.deferred = courier.deferred
    BY <1>1, <1>2, <2>1 DEF CourierRec
  <2>3. Nothing.kind = "none" /\ h.kind # "sentinel"
    BY <1>2, <1>7, EventForms DEF Nothing
  <2>4. Carried' \subseteq Carried /\ \A x \in Carried : x = Nothing \/ x \in Carried'
    BY <1>0, <1>3, <2>2 DEF Carried
  <2>5. Forwarding
    BY <1>0 DEF Forwarding
  <2>6. Passing
    BY <1>0, <2>2, <2>3, <2>4, <2>5 DEF Passing
  <2>. QED BY <1>0, <1>2, <1>3, <1>4, <1>5, <2>2, <2>3, <2>6
<1>. QED BY <1>6, <1>7

Tails == {"agent", "waiting", "guards", "draining", "sweeping", "over", "tearing", "torn"}

LEMMA TypesAfter ==
  ASSUME UNCHANGED <<setback, workload, nested>>, TurnEventsTypeOK,
         eventsAborted' \in BOOLEAN, author' \in AuthorRec, evq' \in Seq(Events), Len(evq') <= QueueSize,
         courier' \in CourierRec, planRow' \in [PlanRows -> RowStates],
         textRow' \in [1..MaxMessages -> SUBSET Pieces], kept' \subseteq Files, tail' \in Tails
  PROVE  TurnEventsTypeOK'
<1>1. Events' = Events /\ Pieces' = Pieces
  BY DEF Events, Pieces, Nothing, Sentinel, PlanCreated, Delta, StreamEnd, FileOutput, LoopCompleted, TaskEvent
<1>2. /\ setback' \in Setbacks /\ workload' \in Workloads /\ nested' \in BOOLEAN
  BY DEF TurnEventsTypeOK
<1>3. author' \in AuthorRec' /\ courier' \in CourierRec' /\ evq' \in Seq(Events')
      /\ textRow' \in [1..MaxMessages -> SUBSET Pieces']
  BY <1>1 DEF AuthorRec, CourierRec
<1>4. planRow' \in [PlanRows -> RowStates'] /\ RowStates' = RowStates
  BY DEF RowStates, Outcomes
<1>. QED BY <1>2, <1>3, <1>4 DEF TurnEventsTypeOK, AuthorRec, CourierRec, Tails

LEMMA TypesNow ==
  ASSUME TurnEventsTypeOK
  PROVE  /\ eventsAborted \in BOOLEAN /\ author \in AuthorRec /\ evq \in Seq(Events) /\ Len(evq) <= QueueSize
         /\ courier \in CourierRec /\ planRow \in [PlanRows -> RowStates]
         /\ textRow \in [1..MaxMessages -> SUBSET Pieces] /\ kept \subseteq Files /\ tail \in Tails
  BY DEF TurnEventsTypeOK, AuthorRec, CourierRec, Tails

LEMMA TakeStays ==
  ASSUME TurnEventsInv, Take
  PROVE  TurnEventsInv'
<1>0. TurnEventsTypeOK /\ StageInv /\ CarriedInv /\ TextInv /\ StoreInv /\ PlanInv
  BY DEF TurnEventsInv
<1>1. /\ courier' \in CourierRec /\ evq' \in Seq(Events) /\ Len(evq') <= QueueSize /\ Passing
      /\ \A i, j \in 1..Len(evq') : i < j => InOrder(evq'[i], evq'[j])
      /\ \A i \in 1..Len(evq') : InOrder(courier'.hand, evq'[i])
      /\ Waiting' \subseteq Waiting /\ courier'.hand.kind # "sentinel"
      /\ courier.at = "idle" /\ courier'.at \in {"busy", "flush", "done"}
      /\ courier'.at \in {"flush", "done"} => evq' = <<>> /\ tail # "agent" /\ courier'.hand = Nothing
      /\ UNCHANGED <<setback, workload, nested, author, eventsAborted, planRow, textRow, kept, tail>>
  BY <1>0, TakeEffect
<1>2. TurnEventsTypeOK'
  BY <1>0, <1>1, TypesAfter, TypesNow
<1>3. StageInv'
  BY <1>0, <1>1 DEF StageInv
<1>4. CarriedInv'
  <2>1. Fits(Nothing)
    BY DEF Fits, Nothing, IsTerminal
  <2>2. \A x \in Carried' : Fits(x)
    BY <1>0, <1>1, <2>1 DEF CarriedInv, Passing
  <2>3. \A x : Fits(x) => Fits(x)'
    BY <1>1 DEF Fits
  <2>. QED BY <1>0, <1>1, <2>2, <2>3 DEF CarriedInv
<1>5. TextInv' /\ StoreInv' /\ PlanInv'
  BY <1>0, <1>1, PassingText, PassingStore, PassingPlan
<1>. QED BY <1>2, <1>3, <1>4, <1>5 DEF TurnEventsInv

LEMMA WaitsStay ==
  ASSUME TurnEventsInv, Drained \/ DrainTimesOut \/ DrainEnds
  PROVE  TurnEventsInv'
<1>0. TurnEventsTypeOK /\ StageInv /\ CarriedInv /\ TextInv /\ StoreInv /\ PlanInv
  BY DEF TurnEventsInv
<1>1. /\ UNCHANGED <<setback, workload, nested, author, evq, eventsAborted, planRow, textRow, kept>>
      /\ courier' \in CourierRec /\ courier'.hand = courier.hand
      /\ courier'.text = courier.text /\ courier'.files = courier.files
      /\ courier'.terminal = courier.terminal /\ courier'.deferred = courier.deferred
      /\ \/ courier'.at = courier.at /\ courier.at = "done" /\ tail = "waiting" /\ tail' = "sweeping"
         \/ courier'.at = "cancelled" /\ courier.at # "done" /\ tail = "waiting" /\ tail' = "guards"
         \/ courier'.at = courier.at /\ evq = <<>> /\ tail = "draining" /\ tail' = "sweeping"
  BY <1>0, TypesNow DEF Drained, DrainTimesOut, DrainEnds, CourierRec
<1>2. Waiting' = Waiting /\ Carried' = Carried
  BY <1>1 DEF Waiting, Carried
<1>3. TurnEventsTypeOK'
  BY <1>0, <1>1, TypesAfter, TypesNow DEF Tails
<1>4. StageInv'
  BY <1>0, <1>1, <1>2, TurnTypes DEF StageInv
<1>5. CarriedInv'
  <2>1. \A x : Fits(x) => Fits(x)'
    BY <1>1 DEF Fits
  <2>. QED BY <1>0, <1>1, <1>2, <2>1 DEF CarriedInv
<1>6. Passing
  <2>1. Forwarding' => Forwarding
    BY <1>0, <1>1 DEF Forwarding, StageInv
  <2>2. courier'.at = "cancelled" \/ courier'.at = courier.at
    BY <1>1
  <2>3. tail' # "over" /\ tail \notin {"tearing", "torn"} /\ tail' \notin {"tearing", "torn"}
    BY <1>1
  <2>4. courier'.at # "cancelled" => courier.at # "cancelled"
    BY <1>1
  <2>5. courier'.at = "done" => courier.at = "done"
    BY <1>1
  <2>. QED BY <1>1, <1>2, <2>1, <2>3, <2>4, <2>5 DEF Passing
<1>7. planRow' = planRow /\ (tail' = "over" => tail = "over")
  BY <1>1
<1>8. TextInv' /\ StoreInv' /\ PlanInv'
  BY <1>0, <1>6, <1>7, PassingText, PassingStore, PassingPlan
<1>. QED BY <1>3, <1>4, <1>5, <1>8 DEF TurnEventsInv

-----------------------------------------------------------------------------
(***************************************************************************)
(* The forwarder persists an event.                                        *)
(***************************************************************************)
LEMMA PlanRowEffect ==
  ASSUME TurnEventsTypeOK, NEW e \in Events
  PROVE  /\ PlanRowAfter(e) \in [PlanRows -> RowStates]
         /\ nested \/ e.kind \notin {"plan", "task"} => PlanRowAfter(e) = planRow
         /\ ~nested /\ e.kind = "plan" =>
              \A t \in PlanRows : PlanRowAfter(e)[t] = IF t \in workload.tasks THEN "pending" ELSE "none"
         /\ ~nested /\ e.kind = "task" =>
              \A t \in PlanRows :
                PlanRowAfter(e)[t] = IF t = e.of /\ planRow[t] # "none" THEN e.status ELSE planRow[t]
<1>0. planRow \in [PlanRows -> RowStates] /\ nested \in BOOLEAN
  BY DEF TurnEventsTypeOK
<1>1. CASE nested
  BY <1>0, <1>1 DEF PlanRowAfter
<1>2. CASE ~nested /\ e.kind = "plan"
  <2>1. PlanRowAfter(e) = [t \in PlanRows |-> IF t \in workload.tasks THEN "pending" ELSE "none"]
    BY <1>2 DEF PlanRowAfter
  <2>. QED BY <1>2, <2>1 DEF RowStates
<1>3. CASE ~nested /\ e.kind = "task"
  <2>1. PlanRowAfter(e) = [planRow EXCEPT ![e.of] = IF @ = "none" THEN @ ELSE e.status]
    BY <1>3 DEF PlanRowAfter
  <2>2. e.of \in PlanRows /\ e.status \in RowStates
    BY <1>3, EventForms DEF RowStates
  <2>. QED BY <1>0, <1>3, <2>1, <2>2
<1>4. CASE ~nested /\ e.kind \notin {"plan", "task"}
  <2>1. PlanRowAfter(e) = planRow
    BY <1>4 DEF PlanRowAfter
  <2>. QED BY <1>0, <1>4, <2>1
<1>. QED BY <1>0, <1>1, <1>2, <1>3, <1>4

LEMMA BuffersEffect ==
  ASSUME TurnEventsTypeOK, NEW e \in Events, NEW b, b = BuffersAfter(e)
  PROVE  /\ b \in CourierRec
         /\ b.text = IF e.kind = "delta" THEN courier.text \cup {<<e.of, e.piece>>}
                     ELSE IF e.kind = "end" THEN {} ELSE courier.text
         /\ b.files = IF e.kind = "file" THEN courier.files \cup {e.of}
                      ELSE IF e.kind = "end" THEN {} ELSE courier.files
         /\ b.deferred = IF e.kind = "loop" THEN courier.deferred \cup e.of ELSE courier.deferred
         /\ b.terminal = IF IsTerminal(e) THEN courier.terminal \cup {e.of} ELSE courier.terminal
<1>0. courier \in CourierRec
  BY TypesNow
<1>1. CASE e.kind = "delta"
  <2>1. b = [courier EXCEPT !.text = @ \cup {<<e.of, e.piece>>}]
    BY <1>1 DEF BuffersAfter, IsTerminal
  <2>2. <<e.of, e.piece>> \in Pieces
    BY <1>1, EventForms DEF Pieces
  <2>. QED BY <1>0, <1>1, <2>1, <2>2 DEF CourierRec, IsTerminal
<1>2. CASE e.kind = "file"
  <2>1. b = [courier EXCEPT !.files = @ \cup {e.of}]
    BY <1>2 DEF BuffersAfter, IsTerminal
  <2>. QED BY <1>0, <1>2, <2>1, EventForms DEF CourierRec, IsTerminal
<1>3. CASE e.kind = "end"
  <2>1. b = [courier EXCEPT !.text = {}, !.files = {}]
    BY <1>3 DEF BuffersAfter, IsTerminal
  <2>. QED BY <1>0, <1>3, <2>1 DEF CourierRec, IsTerminal
<1>4. CASE e.kind = "loop"
  <2>1. b = [courier EXCEPT !.deferred = @ \cup e.of]
    BY <1>4 DEF BuffersAfter, IsTerminal
  <2>. QED BY <1>0, <1>4, <2>1, EventForms DEF CourierRec, IsTerminal
<1>5. CASE IsTerminal(e)
  <2>1. b = [courier EXCEPT !.terminal = @ \cup {e.of}] /\ e.kind = "task"
    BY <1>5 DEF BuffersAfter, IsTerminal
  <2>. QED BY <1>0, <1>5, <2>1, EventForms DEF CourierRec
<1>6. CASE e.kind \notin {"delta", "file", "end", "loop"} /\ ~IsTerminal(e)
  <2>1. b = courier
    BY <1>6 DEF BuffersAfter
  <2>. QED BY <1>0, <1>6, <2>1
<1>. QED BY <1>1, <1>2, <1>3, <1>4, <1>5, <1>6

\* The event e is stored, or the database fails.
Stored(e) ==
  /\ courier'.text = IF e.kind = "delta" THEN courier.text \cup {<<e.of, e.piece>>}
                     ELSE IF e.kind = "end" THEN {} ELSE courier.text
  /\ courier'.files = IF e.kind = "file" THEN courier.files \cup {e.of}
                      ELSE IF e.kind = "end" THEN {} ELSE courier.files
  /\ courier'.deferred = IF e.kind = "loop" THEN courier.deferred \cup e.of ELSE courier.deferred
  /\ courier'.terminal = IF IsTerminal(e) THEN courier.terminal \cup {e.of} ELSE courier.terminal
  /\ \A m \in 1..MaxMessages :
       textRow'[m] = IF e.kind = "end" /\ m = e.of THEN courier.text ELSE textRow[m]
  /\ kept' = IF e.kind = "end" THEN kept \cup courier.files ELSE kept
  /\ planRow' = PlanRowAfter(e)

Failed(e) ==
  /\ "db" \in setback /\ planRow' \in {planRow, PlanRowAfter(e)}
  /\ courier'.text = courier.text /\ courier'.files = courier.files
  /\ courier'.deferred = courier.deferred /\ courier'.terminal = courier.terminal
  /\ textRow' = textRow /\ kept' = kept

Persisted ==
  /\ UNCHANGED <<setback, workload, nested, author, evq, eventsAborted, tail>>
  /\ courier.at = "busy" /\ courier'.at = "idle" /\ courier'.hand = Nothing
  /\ courier' \in CourierRec /\ textRow' \in [1..MaxMessages -> SUBSET Pieces] /\ kept' \subseteq Files
  /\ planRow' \in [PlanRows -> RowStates]
  /\ Stored(courier.hand) \/ Failed(courier.hand)
  /\ Waiting' = Waiting /\ Carried' = Waiting \cup {Nothing}

LEMMA PersistEffect ==
  ASSUME TurnEventsTypeOK, Persist
  PROVE  Persisted
<1> DEFINE e == courier.hand
<1>0. /\ e \in Events /\ courier \in CourierRec /\ courier.text \subseteq Pieces /\ courier.files \subseteq Files
      /\ textRow \in [1..MaxMessages -> SUBSET Pieces] /\ kept \subseteq Files
      /\ planRow \in [PlanRows -> RowStates] /\ Nothing \in Events /\ courier.at = "busy"
      /\ UNCHANGED <<setback, workload, nested, author, evq, eventsAborted, tail>>
  BY TurnTypes, TypesNow DEF Persist, Events
<1>1. PlanRowAfter(e) \in [PlanRows -> RowStates]
  BY <1>0, PlanRowEffect
<1>2. CASE /\ planRow' = PlanRowAfter(e) /\ textRow' = TextRowAfter(e) /\ kept' = KeptAfter(e)
           /\ courier' = [BuffersAfter(e) EXCEPT !.at = "idle", !.hand = Nothing]
  <2>1. PICK b : b = BuffersAfter(e)
    OBVIOUS
  <2>2. /\ b \in CourierRec
        /\ b.text = IF e.kind = "delta" THEN courier.text \cup {<<e.of, e.piece>>}
                    ELSE IF e.kind = "end" THEN {} ELSE courier.text
        /\ b.files = IF e.kind = "file" THEN courier.files \cup {e.of}
                     ELSE IF e.kind = "end" THEN {} ELSE courier.files
        /\ b.deferred = IF e.kind = "loop" THEN courier.deferred \cup e.of ELSE courier.deferred
        /\ b.terminal = IF IsTerminal(e) THEN courier.terminal \cup {e.of} ELSE courier.terminal
    BY <1>0, <2>1, BuffersEffect
  <2>3. courier' = [b EXCEPT !.at = "idle", !.hand = Nothing]
    BY <1>2, <2>1
  <2>4. /\ courier' \in CourierRec /\ courier'.at = "idle" /\ courier'.hand = Nothing
        /\ courier'.text = b.text /\ courier'.files = b.files /\ courier'.deferred = b.deferred
        /\ courier'.terminal = b.terminal
    BY <1>0, <2>2, <2>3 DEF CourierRec
  <2>5. /\ textRow' \in [1..MaxMessages -> SUBSET Pieces]
        /\ \A m \in 1..MaxMessages :
             textRow'[m] = IF e.kind = "end" /\ m = e.of THEN courier.text ELSE textRow[m]
    <3> DEFINE R == 1..MaxMessages
    <3>1. textRow' = IF e.kind = "end" THEN [textRow EXCEPT ![e.of] = courier.text] ELSE textRow
      BY <1>2 DEF TextRowAfter
    <3>2. textRow \in [R -> SUBSET Pieces] /\ (e.kind = "end" => e.of \in R)
      BY <1>0, EventForms
    <3> HIDE DEF R
    <3>3. /\ textRow' \in [R -> SUBSET Pieces]
          /\ \A m \in R : textRow'[m] = IF e.kind = "end" /\ m = e.of THEN courier.text ELSE textRow[m]
      BY <1>0, <3>1, <3>2
    <3>. QED BY <3>3 DEF R
  <2>6. kept' = (IF e.kind = "end" THEN kept \cup courier.files ELSE kept) /\ kept' \subseteq Files
    BY <1>0, <1>2 DEF KeptAfter
  <2>7. Stored(e)
    BY <1>2, <2>2, <2>4, <2>5, <2>6 DEF Stored
  <2>8. Waiting' = Waiting /\ Carried' = Waiting \cup {Nothing}
    BY <1>0, <2>4 DEF Waiting, Carried
  <2>. QED BY <1>0, <1>1, <1>2, <2>4, <2>5, <2>6, <2>7, <2>8 DEF Persisted
<1>3. CASE /\ "db" \in setback /\ e.kind \in {"end", "plan", "task"}
           /\ \E half \in BOOLEAN : planRow' = IF half THEN PlanRowAfter(e) ELSE planRow
           /\ courier' = [courier EXCEPT !.at = "idle", !.hand = Nothing]
           /\ UNCHANGED <<textRow, kept>>
  <2>1. /\ courier' \in CourierRec /\ courier'.at = "idle" /\ courier'.hand = Nothing
        /\ courier'.text = courier.text /\ courier'.files = courier.files
        /\ courier'.deferred = courier.deferred /\ courier'.terminal = courier.terminal
    BY <1>0, <1>3 DEF CourierRec
  <2>2. planRow' \in {planRow, PlanRowAfter(e)} /\ planRow' \in [PlanRows -> RowStates]
    BY <1>0, <1>1, <1>3
  <2>3. Failed(e)
    BY <1>3, <2>1, <2>2 DEF Failed
  <2>4. Waiting' = Waiting /\ Carried' = Waiting \cup {Nothing}
    BY <1>0, <2>1 DEF Waiting, Carried
  <2>. QED BY <1>0, <1>3, <2>1, <2>2, <2>3, <2>4 DEF Persisted
<1>. QED BY <1>2, <1>3 DEF Persist

LEMMA PersistedText ==
  ASSUME TurnEventsTypeOK, StageInv, CarriedInv, TextInv, Persisted
  PROVE  TextInv'
<1> DEFINE e == courier.hand
<1>0. /\ e \in Events /\ e \in Carried /\ Waiting \subseteq Carried
      /\ author' = author /\ tail' = tail /\ Carried' = Waiting \cup {Nothing} /\ Nothing.kind = "none"
      /\ courier.at # "cancelled" /\ courier'.at # "cancelled" /\ author.message \in Nat
      /\ Stored(e) \/ Failed(e)
  BY TurnTypes DEF Persisted, Carried, Nothing
<1>1. /\ \A p \in courier.text :
           /\ p[1] <= author.message /\ p[2] <= author.said[p[1]]
           /\ \A m \in 1..MaxMessages : p \notin textRow[m]
           /\ \A x \in Carried : x.kind \in {"delta", "end"} => p[1] <= x.of
      /\ \A x \in Carried : x.kind = "delta" =>
           /\ <<x.of, x.piece>> \notin courier.text
           /\ \A m \in 1..MaxMessages : <<x.of, x.piece>> \notin textRow[m]
  BY <1>0 DEF TextInv, Forwarding
<1>2. CASE ~Stored(e) \/ e.kind \notin {"delta", "end"}
  <2>1. courier'.text = courier.text /\ \A m \in 1..MaxMessages : textRow'[m] = textRow[m]
    BY <1>0, <1>2 DEF Stored, Failed
  <2>2. TextIsStoredOnce'
    BY <1>0, <2>1 DEF TextInv, TextIsStoredOnce
  <2>. QED BY <1>0, <1>1, <2>1, <2>2 DEF TextInv
<1>3. CASE Stored(e) /\ e.kind = "delta"
  <2> DEFINE d == <<e.of, e.piece>>
  <2>1. courier'.text = courier.text \cup {d} /\ \A m \in 1..MaxMessages : textRow'[m] = textRow[m]
    BY <1>3 DEF Stored
  <2>2. d[1] = e.of /\ d[2] = e.piece
    OBVIOUS
  <2>3. e.of <= author.message /\ e.piece <= author.said[e.of]
    BY <1>0, <1>3 DEF CarriedInv, Fits
  <2>4. ASSUME NEW x \in Waiting
        PROVE  /\ x.kind \in {"delta", "end"} => e.of <= x.of
               /\ x.kind = "delta" => <<x.of, x.piece>> # d
    BY <1>3 DEF CarriedInv, Waiting, InOrder
  <2> HIDE DEF d
  <2>5. \A p \in courier'.text :
          /\ p[1] <= author'.message /\ p[2] <= author'.said[p[1]]
          /\ \A m \in 1..MaxMessages : p \notin textRow'[m]
          /\ \A x \in Carried' : x.kind \in {"delta", "end"} => p[1] <= x.of
    <3>1. \A m \in 1..MaxMessages : d \notin textRow[m]
      BY <1>0, <1>1, <1>3 DEF d
    <3>. QED BY <1>0, <1>1, <2>1, <2>2, <2>3, <2>4, <3>1
  <2>6. \A x \in Carried' : x.kind = "delta" =>
          /\ <<x.of, x.piece>> \notin courier'.text
          /\ \A m \in 1..MaxMessages : <<x.of, x.piece>> \notin textRow'[m]
    BY <1>0, <1>1, <2>1, <2>4
  <2>7. TextIsStoredOnce'
    BY <1>0, <2>1 DEF TextInv, TextIsStoredOnce
  <2>. QED BY <2>5, <2>6, <2>7 DEF TextInv
<1>4. CASE Stored(e) /\ e.kind = "end"
  <2>1. courier'.text = {}
    BY <1>4 DEF Stored
  <2>2. \A m \in 1..MaxMessages : textRow'[m] = IF m = e.of THEN courier.text ELSE textRow[m]
    BY <1>4 DEF Stored
  <2>3. e.of \in 1..MaxMessages
    BY <1>0, <1>4, EventForms
  <2>4. TextIsStoredOnce'
    <3>1. ASSUME NEW m \in 1..MaxMessages, NEW j \in 1..MaxMessages, m # j
          PROVE  textRow'[m] \cap textRow'[j] = {}
      BY <1>1, <2>2, <3>1 DEF TextInv, TextIsStoredOnce
    <3>2. ASSUME NEW m \in 1..MaxMessages, NEW p \in textRow'[m]
          PROVE  p[1] <= m /\ p[2] <= author.said[p[1]]
      <4>1. CASE m = e.of
        BY <1>0, <1>1, <1>4, <2>2, <3>2, <4>1
      <4>2. CASE m # e.of
        BY <2>2, <3>2, <4>2 DEF TextInv, TextIsStoredOnce
      <4>. QED BY <4>1, <4>2
    <3>. QED BY <1>0, <3>1, <3>2 DEF TextIsStoredOnce
  <2>5. \A x \in Carried' : x.kind = "delta" => \A m \in 1..MaxMessages : <<x.of, x.piece>> \notin textRow'[m]
    BY <1>0, <1>1, <2>2
  <2>. QED BY <2>1, <2>4, <2>5 DEF TextInv
<1>. QED BY <1>2, <1>3, <1>4

LEMMA PersistedStore ==
  ASSUME TurnEventsTypeOK, CarriedInv, TextInv, StoreInv, Persisted
  PROVE  StoreInv'
<1> DEFINE e == courier.hand
<1>0. /\ e \in Events /\ e \in Carried /\ Waiting \subseteq Carried
      /\ author' = author /\ tail' = tail /\ setback' = setback
      /\ Carried = Waiting \cup {e} /\ Carried' = Waiting \cup {Nothing} /\ Nothing.kind = "none"
      /\ courier.at = "busy" /\ courier'.at = "idle" /\ author.message \in Nat
      /\ Stored(e) \/ Failed(e)
      /\ Carried \subseteq Events
      /\ courier.text \subseteq Pieces /\ \A p \in Pieces : p[1] \in 1..MaxMessages
  BY TurnTypes DEF Persisted, Carried, Nothing, Pieces
<1>1. kept' \subseteq author.files /\ courier'.files \subseteq author.files
  <2>1. e.kind = "file" => e.of \in author.files
    BY <1>0 DEF CarriedInv, Fits
  <2>2. kept \subseteq author.files /\ courier.files \subseteq author.files
    BY DEF StoreInv
  <2>. QED BY <1>0, <2>1, <2>2 DEF Stored, Failed
<1>2. SUFFICES ASSUME Sound'
               PROVE  /\ \A f \in author.files : f \in kept' \cup courier'.files \/ FileOutput(f) \in Carried'
                      /\ \A m \in 1..MaxMessages : \A n \in 1..author.said[m] : Placed(m, n)'
                      /\ \A p \in courier'.text : EndAhead(p[1])'
                      /\ \A x \in Carried' : x.kind = "delta" => EndAhead(x.of)'
                      /\ \A m \in 1..MaxMessages : \A p \in textRow'[m] : p[1] = m /\ ~EndAhead(m)'
  BY <1>0, <1>1 DEF StoreInv, FileOutput
<1>3. Sound /\ Stored(e)
  BY <1>0, <1>2 DEF Sound, Failed
<1>4. \A x \in Waiting : InOrder(e, x)
  BY DEF CarriedInv, Waiting
<1>5. \A m : EndAhead(m)' <=> (author.at = "writing" /\ m = author.message) \/ StreamEnd(m) \in Waiting
  BY <1>0 DEF EndAhead, StreamEnd, Nothing
<1>6. \A m : EndAhead(m) <=> EndAhead(m)' \/ StreamEnd(m) = e
  BY <1>0, <1>5 DEF EndAhead
<1>7. \A f \in author.files : f \in kept' \cup courier'.files \/ FileOutput(f) \in Carried'
  <2>1. ASSUME NEW f \in author.files PROVE f \in kept' \cup courier'.files \/ FileOutput(f) \in Carried'
    <3>1. f \in kept \cup courier.files \/ FileOutput(f) \in Waiting \/ FileOutput(f) = e
      BY <1>0, <1>3 DEF StoreInv
    <3>2. FileOutput(f) = e => e.kind = "file" /\ e.of = f
      BY DEF FileOutput
    <3>. QED BY <1>0, <1>3, <3>1, <3>2 DEF Stored
  <2>. QED BY <2>1
<1>8. CASE e.kind \notin {"delta", "end"}
  <2>1. courier'.text = courier.text /\ \A m \in 1..MaxMessages : textRow'[m] = textRow[m]
    BY <1>3, <1>8 DEF Stored
  <2>2. \A m : EndAhead(m)' <=> EndAhead(m)
    <3>1. \A m : StreamEnd(m) # e
      BY <1>8 DEF StreamEnd
    <3>. QED BY <1>6, <3>1
  <2>3. ASSUME NEW m \in 1..MaxMessages, NEW n \in 1..author.said[m] PROVE Placed(m, n)'
    <3>1. Placed(m, n) /\ Delta(m, n) # e
      BY <1>3, <1>8 DEF StoreInv, Delta
    <3>. QED BY <1>0, <2>1, <3>1 DEF Placed, Delta
  <2>4. /\ \A p \in courier'.text : EndAhead(p[1])'
        /\ \A x \in Carried' : x.kind = "delta" => EndAhead(x.of)'
        /\ \A m \in 1..MaxMessages : \A p \in textRow'[m] : p[1] = m /\ ~EndAhead(m)'
    BY <1>0, <1>3, <2>1, <2>2 DEF StoreInv
  <2>. QED BY <1>7, <2>3, <2>4
<1>9. CASE e.kind = "delta"
  <2>0. e.of \in 1..MaxMessages /\ e = Delta(e.of, e.piece)
    BY <1>0, <1>9, EventForms
  <2>1. courier'.text = courier.text \cup {<<e.of, e.piece>>} /\ \A m \in 1..MaxMessages : textRow'[m] = textRow[m]
    BY <1>3, <1>9 DEF Stored
  <2>2. \A m : EndAhead(m)' <=> EndAhead(m)
    <3>1. \A m : StreamEnd(m) # e
      BY <1>9 DEF StreamEnd
    <3>. QED BY <1>6, <3>1
  <2>3. ASSUME NEW m \in 1..MaxMessages, NEW n \in 1..author.said[m] PROVE Placed(m, n)'
    <3>1. Placed(m, n)
      BY <1>3 DEF StoreInv
    <3>2. Delta(m, n) = e => m = e.of /\ n = e.piece
      BY DEF Delta
    <3>. QED BY <1>0, <2>1, <3>1, <3>2 DEF Placed, Delta
  <2>4. EndAhead(e.of)
    BY <1>0, <1>3, <1>9 DEF StoreInv
  <2>5. /\ \A p \in courier'.text : EndAhead(p[1])'
        /\ \A x \in Carried' : x.kind = "delta" => EndAhead(x.of)'
        /\ \A m \in 1..MaxMessages : \A p \in textRow'[m] : p[1] = m /\ ~EndAhead(m)'
    BY <1>0, <1>3, <2>1, <2>2, <2>4 DEF StoreInv
  <2>. QED BY <1>7, <2>3, <2>5
<1>10. CASE e.kind = "end"
  <2>0. e.of \in 1..MaxMessages /\ e = StreamEnd(e.of) /\ e.of <= author.message
        /\ (e.of = author.message => author.at # "writing")
    BY <1>0, <1>10, EventForms DEF CarriedInv, Fits
  <2>1. courier'.text = {}
    BY <1>3, <1>10 DEF Stored
  <2>2. \A m \in 1..MaxMessages : textRow'[m] = IF m = e.of THEN courier.text ELSE textRow[m]
    BY <1>3, <1>10 DEF Stored
  <2>3. \A m : StreamEnd(m) \in Waiting => e.of < m
    BY <1>4, <1>10 DEF InOrder, StreamEnd
  <2>4. \A m \in 1..MaxMessages : EndAhead(m) => m = e.of \/ EndAhead(m)'
    <3>1. \A m : StreamEnd(m) = e => m = e.of
      BY DEF StreamEnd
    <3>. QED BY <1>6, <3>1
  <2>5. \A m \in 1..MaxMessages : EndAhead(m)' => e.of < m
    BY <1>5, <2>0, <2>3
  <2>6. \A x \in Waiting : x.kind = "delta" => e.of < x.of /\ x.of \in 1..MaxMessages
    BY <1>0, <1>4, <1>10, EventForms DEF InOrder
  <2>7. \A p \in courier.text : p[1] = e.of
    <3>1. ASSUME NEW p \in courier.text PROVE p[1] = e.of
      <4>1. p[1] \in 1..MaxMessages /\ EndAhead(p[1])
        BY <1>0, <1>3 DEF StoreInv
      <4>2. p[1] <= e.of
        BY <1>0, <1>10 DEF TextInv, Forwarding
      <4>. QED BY <2>0, <2>4, <2>5, <4>1, <4>2
    <3>. QED BY <3>1
  <2>8. ASSUME NEW m \in 1..MaxMessages, NEW n \in 1..author.said[m] PROVE Placed(m, n)'
    <3>1. Placed(m, n) /\ Delta(m, n) # e
      BY <1>3, <1>10 DEF StoreInv, Delta
    <3>2. CASE <<m, n>> \in courier.text
      <4>1. m = e.of
        BY <2>7, <3>2
      <4>. QED BY <2>2, <3>2, <4>1 DEF Placed
    <3>3. CASE <<m, n>> \in textRow[m]
      <4>1. m # e.of
        <5>1. ~EndAhead(m)
          BY <1>3, <3>3 DEF StoreInv
        <5>2. EndAhead(e.of)
          BY <1>0, <2>0 DEF EndAhead
        <5>. QED BY <5>1, <5>2
      <4>. QED BY <2>2, <3>3, <4>1 DEF Placed
    <3>4. CASE Delta(m, n) \in Carried
      BY <1>0, <3>1, <3>4 DEF Placed, Delta
    <3>. QED BY <3>1, <3>2, <3>3, <3>4 DEF Placed
  <2>9. ASSUME NEW x \in Carried', x.kind = "delta" PROVE EndAhead(x.of)'
    <3>1. x \in Waiting /\ e.of < x.of /\ x.of \in 1..MaxMessages
      BY <1>0, <2>6, <2>9
    <3>2. EndAhead(x.of)
      BY <1>0, <1>3, <2>9, <3>1 DEF StoreInv
    <3>. QED BY <2>0, <2>4, <3>1, <3>2
  <2>10. ASSUME NEW m \in 1..MaxMessages, NEW p \in textRow'[m] PROVE p[1] = m /\ ~EndAhead(m)'
    <3>1. CASE m = e.of
      BY <2>0, <2>2, <2>5, <2>7, <2>10, <3>1
    <3>2. CASE m # e.of
      BY <1>3, <1>6, <2>2, <2>10, <3>2 DEF StoreInv
    <3>. QED BY <3>1, <3>2
  <2>. QED BY <1>7, <2>1, <2>8, <2>9, <2>10
<1>. QED BY <1>8, <1>9, <1>10

LEMMA PersistedPlan ==
  ASSUME TurnEventsTypeOK, StageInv, CarriedInv, PlanInv, Persisted
  PROVE  PlanInv'
<1> DEFINE e == courier.hand
<1>0. /\ e \in Events /\ e \in Carried /\ Waiting \subseteq Carried /\ Carried = Waiting \cup {e}
      /\ author' = author /\ tail' = tail /\ setback' = setback /\ nested' = nested /\ workload' = workload
      /\ Carried' = Waiting \cup {Nothing} /\ Nothing.kind = "none"
      /\ courier.at = "busy" /\ courier'.at = "idle" /\ courier.terminal \subseteq PlanRows
      /\ Stored(e) \/ Failed(e)
  BY TurnTypes DEF Persisted, Carried, Nothing
<1>1. /\ nested \/ e.kind \notin {"plan", "task"} => PlanRowAfter(e) = planRow
      /\ ~nested /\ e.kind = "plan" =>
           \A t \in PlanRows : PlanRowAfter(e)[t] = IF t \in workload.tasks THEN "pending" ELSE "none"
      /\ ~nested /\ e.kind = "task" =>
           \A t \in PlanRows :
             PlanRowAfter(e)[t] = IF t = e.of /\ planRow[t] # "none" THEN e.status ELSE planRow[t]
  BY <1>0, PlanRowEffect
<1>2. /\ e.kind = "task" => /\ e.of \in PlanRows /\ e.status \in Outcomes \cup {"running"}
                            /\ e = TaskEvent(e.of, e.status)
      /\ e.kind = "plan" => e = PlanCreated
  BY <1>0, EventForms
<1>3. Fits(e) /\ \A x \in Waiting : InOrder(e, x)
  BY <1>0 DEF CarriedInv, Waiting
<1>4. ParentPlanIsKept' /\ PlanIsSettled'
  <2>1. nested => planRow' = planRow
    BY <1>0, <1>1 DEF Stored, Failed
  <2>2. tail # "over"
    BY <1>0 DEF StageInv
  <2>. QED BY <1>0, <2>1, <2>2 DEF PlanInv, ParentPlanIsKept, PlanIsSettled
<1>5. courier'.deferred \subseteq author'.deferred
  BY <1>0, <1>3 DEF PlanInv, Stored, Failed, Fits
<1>6. courier'.terminal \subseteq courier.terminal \cup {t \in PlanRows : IsTerminal(e) /\ t = e.of}
  BY <1>0, <1>2 DEF Stored, Failed, IsTerminal
<1>7. ASSUME NEW t \in courier'.terminal
      PROVE  /\ author.work[t] \in Outcomes
             /\ \A x \in Waiting : x.kind # "plan" /\ (x.kind = "task" => x.of # t)
  <2>1. CASE t \in courier.terminal
    BY <1>0, <2>1 DEF PlanInv
  <2>2. CASE IsTerminal(e) /\ t = e.of
    BY <1>3, <2>2 DEF Fits, InOrder, IsTerminal, Outcomes
  <2>. QED BY <1>6, <2>1, <2>2
<1>8. ASSUME ~nested, "db" \notin setback
      PROVE  /\ Stored(e) /\ planRow' = PlanRowAfter(e)
             /\ \A t \in courier.terminal : t \in PlanRows /\ planRow'[t] = planRow[t]
  <2>1. Stored(e) /\ planRow' = PlanRowAfter(e)
    BY <1>0, <1>8 DEF Stored, Failed
  <2>2. \A t \in courier.terminal : e.kind # "plan" /\ (e.kind = "task" => e.of # t)
    BY <1>0 DEF PlanInv
  <2>3. \A t \in courier.terminal : t \in PlanRows /\ planRow'[t] = planRow[t]
    BY <1>0, <1>1, <1>8, <2>1, <2>2
  <2>. QED BY <2>1, <2>3
<1>9. ASSUME ~nested, "db" \notin setback, NEW t \in courier'.terminal
      PROVE  planRow'[t] \in Outcomes \cup {"none"}
  <2>1. CASE t \in courier.terminal
    BY <1>8, <1>9, <2>1 DEF PlanInv
  <2>2. CASE IsTerminal(e) /\ t = e.of /\ t \in PlanRows
    BY <1>1, <1>8, <1>9, <2>2 DEF IsTerminal
  <2>. QED BY <1>6, <2>1, <2>2
<1>10. ASSUME ~nested, "db" \notin setback, ~author.dropped, tail \notin {"tearing", "torn"}, NEW t \in PlanRows
       PROVE  /\ author.work[t] # "none" => planRow'[t] # "none" \/ PlanCreated \in Waiting
              /\ author.work[t] \in Outcomes =>
                   \/ TaskEvent(t, author.work[t]) \in Waiting
                   \/ t \in courier'.terminal /\ planRow'[t] = author.work[t]
  <2>1. /\ author.work[t] # "none" => planRow[t] # "none" \/ PlanCreated \in Carried
        /\ author.work[t] \in Outcomes =>
             TaskEvent(t, author.work[t]) \in Carried \/ (t \in courier.terminal /\ planRow[t] = author.work[t])
        /\ author.work[t] # "none" => t \in workload.tasks
    BY <1>0, <1>10 DEF PlanInv, OutcomeInv
  <2>2. Stored(e) /\ planRow' = PlanRowAfter(e)
    BY <1>8, <1>10
  <2>3. author.work[t] # "none" => planRow'[t] # "none" \/ PlanCreated \in Waiting
    <3>1. PlanCreated = e => e.kind = "plan"
      BY DEF PlanCreated
    <3>. QED BY <1>0, <1>1, <1>2, <1>10, <2>1, <2>2, <3>1 DEF Outcomes
  <2>4. ASSUME author.work[t] \in Outcomes, TaskEvent(t, author.work[t]) = e
        PROVE  t \in courier'.terminal /\ planRow'[t] = author.work[t]
    <3>1. e.kind = "task" /\ e.of = t /\ e.status = author.work[t] /\ IsTerminal(e)
      BY <2>4 DEF TaskEvent, IsTerminal
    <3>2. PlanCreated \notin Carried
      <4>1. PlanCreated \notin Waiting
        BY <1>3, <3>1 DEF InOrder, PlanCreated
      <4>2. PlanCreated # e
        BY <3>1 DEF PlanCreated
      <4>. QED BY <1>0, <4>1, <4>2
    <3>3. planRow[t] # "none"
      BY <2>1, <2>4, <3>2 DEF Outcomes
    <3>. QED BY <1>1, <1>10, <2>2, <3>1, <3>3 DEF Stored
  <2>5. t \in courier.terminal => t \in courier'.terminal /\ planRow'[t] = planRow[t]
    BY <1>8, <1>10, <2>2 DEF Stored
  <2>. QED BY <1>0, <2>1, <2>3, <2>4, <2>5
<1>11. OutcomeInv'
  BY <1>0, <1>10 DEF OutcomeInv, TaskEvent, PlanCreated
<1>12. /\ \A t \in courier'.terminal : author'.work[t] \in Outcomes
       /\ \A t \in courier'.terminal : \A x \in Carried' : x.kind # "plan" /\ (x.kind = "task" => x.of # t)
  BY <1>0, <1>7
<1>13. \A t \in PlanRows : author'.work[t] # "none" => t \in workload'.tasks
  BY <1>0 DEF PlanInv
<1>. QED BY <1>0, <1>4, <1>5, <1>9, <1>11, <1>12, <1>13 DEF PlanInv

LEMMA PersistStays ==
  ASSUME TurnEventsInv, Persist
  PROVE  TurnEventsInv'
<1>0. TurnEventsTypeOK /\ StageInv /\ CarriedInv /\ TextInv /\ StoreInv /\ PlanInv
  BY DEF TurnEventsInv
<1>1. Persisted
  BY <1>0, PersistEffect
<1>2. TurnEventsTypeOK'
  BY <1>0, <1>1, TypesAfter, TypesNow DEF Persisted
<1>3. StageInv'
  BY <1>0, <1>1 DEF StageInv, Persisted, Nothing
<1>4. CarriedInv'
  <2>1. Fits(Nothing)
    BY DEF Fits, Nothing, IsTerminal
  <2>2. \A x \in Carried' : Fits(x)
    BY <1>0, <1>1, <2>1 DEF CarriedInv, Persisted, Carried
  <2>3. \A x : Fits(x) => Fits(x)'
    BY <1>1 DEF Fits, Persisted
  <2>4. \A x : InOrder(Nothing, x)
    BY DEF InOrder, Nothing
  <2>. QED BY <1>0, <1>1, <2>2, <2>3, <2>4 DEF CarriedInv, Persisted
<1>. QED BY <1>0, <1>1, <1>2, <1>3, <1>4, PersistedText, PersistedStore, PersistedPlan DEF TurnEventsInv

LEMMA FlushStays ==
  ASSUME TurnEventsInv, Flush
  PROVE  TurnEventsInv'
<1>0. TurnEventsTypeOK /\ StageInv /\ CarriedInv /\ TextInv /\ StoreInv /\ PlanInv
  BY DEF TurnEventsInv
<1>1. /\ UNCHANGED <<setback, workload, nested, author, evq, eventsAborted, planRow, textRow, tail>>
      /\ courier' \in CourierRec /\ courier'.hand = courier.hand
      /\ courier'.text = courier.text /\ courier'.files = courier.files
      /\ courier'.terminal = courier.terminal /\ courier'.deferred = courier.deferred
      /\ courier.at = "flush" /\ courier'.at = "done"
      /\ kept' = kept \cup courier.files \/ ("db" \in setback /\ kept' = kept)
      /\ courier.files \subseteq Files /\ kept \subseteq Files
  BY <1>0, TypesNow, TurnTypes DEF Flush, CourierRec
<1>2. Waiting' = Waiting /\ Carried' = Carried
  BY <1>1 DEF Waiting, Carried
<1>3. TurnEventsTypeOK'
  <2>1. kept' \subseteq Files
    BY <1>1
  <2>. QED BY <1>0, <1>1, <2>1, TypesAfter, TypesNow
<1>4. StageInv'
  BY <1>0, <1>1, <1>2 DEF StageInv
<1>5. CarriedInv'
  <2>1. \A x : Fits(x) => Fits(x)'
    BY <1>1 DEF Fits
  <2>. QED BY <1>0, <1>1, <1>2, <2>1 DEF CarriedInv
<1>6. Passing
  <2>1. Forwarding
    BY <1>1 DEF Forwarding
  <2>. QED BY <1>1, <1>2, <2>1 DEF Passing
<1>7. TextInv' /\ StoreInv' /\ PlanInv'
  BY <1>0, <1>1, <1>6, PassingText, PassingStore, PassingPlan
<1>. QED BY <1>3, <1>4, <1>5, <1>7 DEF TurnEventsInv

-----------------------------------------------------------------------------
(***************************************************************************)
(* The tail of run_turn.                                                   *)
(***************************************************************************)
\* The message in the hand of a cancelled forwarder may still be stored.
LEMMA LandingText ==
  ASSUME TurnEventsTypeOK, StageInv, CarriedInv, TextInv, Guards \/ TornDown
  PROVE  TextInv'
<1> DEFINE e == courier.hand
<1>0. /\ e \in Events /\ author' = author /\ evq' = evq
      /\ courier.at # "cancelled" \/ tail = "guards"
      /\ \/ e.kind = "end" /\ textRow' = TextRowAfter(e)
         \/ textRow' = textRow
      /\ courier'.text = courier.text /\ courier'.hand = courier.hand
      /\ \/ courier'.at = "cancelled" /\ tail' # "guards"
         \/ courier' = courier /\ courier.at = "done" /\ tail' # "guards"
      /\ author.message \in Nat /\ e \in Carried
  BY TurnTypes, TypesNow DEF Guards, TornDown, StageInv, Carried, CourierRec
<1>1. Carried' = Carried
  BY <1>0 DEF Carried, Waiting
<1>2. Forwarding
  BY <1>0 DEF Forwarding
<1>3. /\ \A p \in courier.text :
           /\ p[1] <= author.message /\ p[2] <= author.said[p[1]]
           /\ \A m \in 1..MaxMessages : p \notin textRow[m]
           /\ \A x \in Carried : x.kind \in {"delta", "end"} => p[1] <= x.of
  BY <1>2 DEF TextInv
<1>4. CASE textRow' = textRow
  <2>1. TextIsStoredOnce'
    BY <1>0, <1>4 DEF TextInv, TextIsStoredOnce
  <2>2. /\ courier'.at # "cancelled" => courier.at # "cancelled" /\ courier'.text = courier.text
        /\ courier'.at = "cancelled" => ~Forwarding'
    BY <1>0 DEF Forwarding
  <2>. QED BY <1>0, <1>1, <1>2, <1>3, <1>4, <2>1, <2>2 DEF TextInv
<1>5. CASE e.kind = "end" /\ textRow' = TextRowAfter(e)
  <2>1. courier'.at = "cancelled"
    BY <1>0, <1>5 DEF StageInv, Nothing
  <2>2. e.of \in 1..MaxMessages
    BY <1>0, <1>5, EventForms
  <2>3. \A m \in 1..MaxMessages : textRow'[m] = IF m = e.of THEN courier.text ELSE textRow[m]
    BY <1>5, <2>2 DEF TextRowAfter, TurnEventsTypeOK
  <2>4. TextIsStoredOnce'
    <3>1. ASSUME NEW m \in 1..MaxMessages, NEW j \in 1..MaxMessages, m # j
          PROVE  textRow'[m] \cap textRow'[j] = {}
      BY <1>3, <2>3, <3>1 DEF TextInv, TextIsStoredOnce
    <3>2. ASSUME NEW m \in 1..MaxMessages, NEW p \in textRow'[m]
          PROVE  p[1] <= m /\ p[2] <= author.said[p[1]]
      <4>1. CASE m = e.of
        BY <1>0, <1>3, <1>5, <2>3, <3>2, <4>1
      <4>2. CASE m # e.of
        BY <2>3, <3>2, <4>2 DEF TextInv, TextIsStoredOnce
      <4>. QED BY <4>1, <4>2
    <3>. QED BY <1>0, <3>1, <3>2 DEF TextIsStoredOnce
  <2>5. ~Forwarding'
    BY <1>0, <2>1 DEF Forwarding
  <2>. QED BY <2>1, <2>4, <2>5 DEF TextInv
<1>. QED BY <1>0, <1>4, <1>5

LEMMA LandingStays ==
  ASSUME TurnEventsInv, Guards \/ TornDown
  PROVE  TurnEventsInv'
<1>0. TurnEventsTypeOK /\ StageInv /\ CarriedInv /\ TextInv /\ StoreInv /\ PlanInv
  BY DEF TurnEventsInv
<1>1. /\ UNCHANGED <<setback, workload, nested, author, evq, eventsAborted, planRow>>
      /\ courier' \in CourierRec /\ courier'.hand = courier.hand
      /\ courier'.text = courier.text /\ courier'.files = courier.files
      /\ courier'.terminal = courier.terminal /\ courier'.deferred = courier.deferred
      /\ courier.files \subseteq Files /\ kept \subseteq Files
      /\ kept' = kept \cup courier.files \/ kept' = kept
  <2>1. courier \in CourierRec /\ courier.files \subseteq Files /\ kept \subseteq Files
    BY <1>0, TypesNow, TurnTypes
  <2>2. kept' = kept \cup courier.files \/ kept' = kept
    BY DEF Guards, TornDown, KeptAfter
  <2>. QED BY <2>1, <2>2 DEF Guards, TornDown, CourierRec
<1>2. \/ tail = "guards" /\ tail' = "draining" /\ courier' = courier
      \/ tail = "tearing" /\ tail' = "torn" /\ (courier'.at = "done" \/ courier'.at = "cancelled")
           /\ (courier'.at # "cancelled" => courier' = courier)
  BY <1>0, TypesNow DEF Guards, TornDown, CourierRec
<1>3. Waiting' = Waiting /\ Carried' = Carried
  BY <1>1 DEF Waiting, Carried
<1>4. TurnEventsTypeOK'
  <2>1. kept' \subseteq Files /\ tail' \in Tails
    BY <1>1, <1>2 DEF Tails
  <2>2. textRow' \in [1..MaxMessages -> SUBSET Pieces]
    <3>1. courier.hand \in Events /\ courier.text \subseteq Pieces /\ textRow \in [1..MaxMessages -> SUBSET Pieces]
      BY <1>0, TurnTypes, TypesNow
    <3>2. textRow' = textRow \/ (courier.hand.kind = "end" /\ textRow' = [textRow EXCEPT ![courier.hand.of] = courier.text])
      BY DEF Guards, TornDown, TextRowAfter
    <3>3. courier.hand.kind = "end" => courier.hand.of \in 1..MaxMessages
      BY <1>0, <3>1, EventForms
    <3> DEFINE R == 1..MaxMessages
    <3>4. textRow \in [R -> SUBSET Pieces] /\ (courier.hand.kind = "end" => courier.hand.of \in R)
      BY <3>1, <3>3
    <3> HIDE DEF R
    <3>5. textRow' \in [R -> SUBSET Pieces]
      BY <3>1, <3>2, <3>4
    <3>. QED BY <3>5 DEF R
  <2>. QED BY <1>0, <1>1, <2>1, <2>2, TypesAfter, TypesNow
<1>5. StageInv'
  BY <1>0, <1>1, <1>2, <1>3 DEF StageInv
<1>6. CarriedInv'
  <2>1. \A x : Fits(x) => Fits(x)'
    BY <1>1 DEF Fits
  <2>. QED BY <1>0, <1>1, <1>3, <2>1 DEF CarriedInv
<1>7. StoreInv'
  <2>1. ~Sound'
    BY <1>0, <1>2 DEF Sound, StageInv
  <2>. QED BY <1>0, <1>1, <2>1 DEF StoreInv
<1>8. PlanInv'
  <2>1. ParentPlanIsKept' /\ PlanIsSettled'
    BY <1>0, <1>1, <1>2 DEF PlanInv, ParentPlanIsKept, PlanIsSettled
  <2>2. courier'.at # "cancelled" =>
          \A t \in courier'.terminal : \A e \in Carried' : e.kind # "plan" /\ (e.kind = "task" => e.of # t)
    BY <1>0, <1>1, <1>2, <1>3 DEF PlanInv
  <2>3. OutcomeInv'
    <3>1. CASE tail' = "torn"
      BY <3>1 DEF OutcomeInv
    <3>2. CASE courier' = courier /\ tail = "guards"
      BY <1>0, <1>1, <1>3, <3>2 DEF PlanInv, OutcomeInv, TaskEvent, PlanCreated
    <3>. QED BY <1>2, <3>1, <3>2
  <2>. QED BY <1>0, <1>1, <2>1, <2>2, <2>3 DEF PlanInv
<1>9. TextInv'
  BY <1>0, LandingText
<1>. QED BY <1>4, <1>5, <1>6, <1>7, <1>8, <1>9 DEF TurnEventsInv

LEMMA DrainTells ==
  ASSUME TurnEventsInv, DrainOne
  PROVE  /\ Waiting' \subseteq Waiting /\ Carried' \subseteq Carried /\ courier' = courier
         /\ evq' \in Seq(Events) /\ Len(evq') <= QueueSize
         /\ \A i, j \in 1..Len(evq') : i < j => InOrder(evq'[i], evq'[j])
         /\ Head(evq) \in Waiting
         /\ \A x \in Carried : x.kind = "sentinel" \/ x = Head(evq) \/ x \in Carried'
<1> DEFINE h == Head(evq)
<1>0. /\ evq \in Seq(Events) /\ evq # <<>> /\ Len(evq) \in Nat /\ Len(evq) <= QueueSize /\ QueueSize \in Nat
      /\ courier' = courier /\ evq' = IF h = Sentinel THEN <<>> ELSE Tail(evq)
      /\ CarriedInv
  BY TurnTypes DEF TurnEventsInv, DrainOne
<1>1. h = evq[1] /\ 1 \in 1..Len(evq) /\ h \in Waiting
  <2>1. h = evq[1] /\ 1 \in 1..Len(evq)
    BY <1>0
  <2> HIDE DEF h
  <2>. QED BY <2>1 DEF Waiting
<1> HIDE DEF h
<1>2. CASE h = Sentinel
  <2>1. evq' = <<>> /\ h.kind = "sentinel"
    BY <1>0, <1>2 DEF Sentinel
  <2>2. evq' \in Seq(Events) /\ Len(evq') = 0 /\ Len(evq') <= QueueSize
    <3>1. <<>> \in Seq(Events) /\ Len(<<>>) = 0 /\ 0 <= QueueSize
      BY TurnEventsAssumption
    <3>. QED BY <2>1, <3>1
  <2>3. Len(evq) = 1
    <3>1. SUFFICES ASSUME Len(evq) # 1 PROVE FALSE
      OBVIOUS
    <3>2. 2 \in 1..Len(evq) /\ 1 < 2
      BY <1>0, <1>1, <3>1
    <3>. QED BY <1>0, <1>1, <2>1, <3>2 DEF CarriedInv, InOrder
  <2>4. Waiting' = {} /\ \A x \in Waiting : x = h
    BY <1>1, <2>2, <2>3 DEF Waiting
  <2>5. \A x \in Carried : x = courier.hand \/ x \in Waiting
    BY DEF Carried
  <2>6. courier.hand \in Carried' /\ Carried' = {courier.hand}
    BY <1>0, <2>4 DEF Carried
  <2>7. \A i, j \in 1..Len(evq') : i < j => InOrder(evq'[i], evq'[j])
    BY <2>2
  <2>. QED BY <1>0, <1>1, <2>2, <2>4, <2>5, <2>6, <2>7 DEF h, Carried
<1>3. CASE h # Sentinel
  <2>1. evq' = Tail(evq)
    BY <1>0, <1>3
  <2>2. /\ evq' \in Seq(Events) /\ Len(evq') = Len(evq) - 1 /\ Len(evq') \in Nat /\ Len(evq') <= QueueSize
        /\ \A i \in 1..Len(evq') : evq'[i] = evq[i + 1] /\ i + 1 \in 1..Len(evq)
    <3>1. /\ Tail(evq) \in Seq(Events) /\ Len(Tail(evq)) = Len(evq) - 1 /\ Len(Tail(evq)) \in Nat
          /\ \A i \in 1..Len(Tail(evq)) : Tail(evq)[i] = evq[i + 1]
      BY <1>0
    <3>2. Len(Tail(evq)) <= QueueSize /\ \A i \in 1..Len(Tail(evq)) : i + 1 \in 1..Len(evq)
      BY <1>0, <3>1
    <3>. QED BY <2>1, <3>1, <3>2
  <2>3. \A i \in 1..Len(evq) : i = 1 \/ (i - 1 \in 1..Len(evq') /\ evq'[i - 1] = evq[i])
    <3>1. Len(evq) \in Nat /\ Len(evq') = Len(evq) - 1
      BY <1>0, <2>2
    <3>2. \A i \in 1..Len(evq) : i = 1 \/ (i - 1 \in 1..Len(evq') /\ i - 1 + 1 = i)
      BY <3>1
    <3>. QED BY <2>2, <3>2
  <2>4. Waiting' \subseteq Waiting /\ \A x \in Waiting : x = h \/ x \in Waiting'
    <3>1. ASSUME NEW x \in Waiting' PROVE x \in Waiting
      <4>1. PICK i \in 1..Len(evq') : x = evq'[i]
        BY DEF Waiting
      <4>. QED BY <2>2, <4>1 DEF Waiting
    <3>2. ASSUME NEW x \in Waiting PROVE x = h \/ x \in Waiting'
      <4>1. PICK i \in 1..Len(evq) : x = evq[i]
        BY DEF Waiting
      <4>. QED BY <1>1, <2>3, <4>1 DEF Waiting
    <3>. QED BY <3>1, <3>2
  <2>5. ASSUME NEW i \in 1..Len(evq'), NEW j \in 1..Len(evq'), i < j PROVE InOrder(evq'[i], evq'[j])
    <3>1. i + 1 < j + 1
      BY <2>2, <2>5
    <3>. QED BY <1>0, <2>2, <3>1 DEF CarriedInv
  <2>6. Carried' \subseteq Carried /\ \A x \in Carried : x = h \/ x \in Carried'
    BY <1>0, <2>4 DEF Carried
  <2>. QED BY <1>0, <1>1, <2>2, <2>4, <2>5, <2>6 DEF h
<1>. QED BY <1>2, <1>3

LEMMA DrainOneStays ==
  ASSUME TurnEventsInv, DrainOne
  PROVE  TurnEventsInv'
<1> DEFINE h == Head(evq)
<1>0. TurnEventsTypeOK /\ StageInv /\ CarriedInv /\ TextInv /\ StoreInv /\ PlanInv
  BY DEF TurnEventsInv
<1>1. /\ UNCHANGED <<setback, workload, nested, author, eventsAborted, courier, textRow, kept, tail>>
      /\ tail = "draining" /\ courier.at = "cancelled"
      /\ planRow' = (IF IsTerminal(h) THEN PlanRowAfter(h) ELSE planRow) \/ ("db" \in setback /\ planRow' = planRow)
  BY <1>0 DEF DrainOne, StageInv
<1>2. /\ Waiting' \subseteq Waiting /\ Carried' \subseteq Carried
      /\ evq' \in Seq(Events) /\ Len(evq') <= QueueSize
      /\ \A i, j \in 1..Len(evq') : i < j => InOrder(evq'[i], evq'[j])
      /\ h \in Waiting
      /\ \A x \in Carried : x.kind = "sentinel" \/ x = h \/ x \in Carried'
  BY DrainTells
<1> HIDE DEF h
<1>3. h \in Events /\ h \in Carried /\ Fits(h)
  BY <1>0, <1>2, TurnTypes DEF Carried, CarriedInv
<1>4. /\ PlanRowAfter(h) \in [PlanRows -> RowStates] /\ (nested => PlanRowAfter(h) = planRow)
      /\ ~nested /\ IsTerminal(h) =>
           \A t \in PlanRows :
             PlanRowAfter(h)[t] = IF t = h.of /\ planRow[t] # "none" THEN h.status ELSE planRow[t]
  BY <1>0, <1>3, PlanRowEffect DEF IsTerminal
<1>5. TurnEventsTypeOK'
  <2>1. planRow' \in [PlanRows -> RowStates]
    BY <1>0, <1>1, <1>4, TypesNow
  <2>. QED BY <1>0, <1>1, <1>2, <2>1, TypesAfter, TypesNow
<1>6. StageInv'
  BY <1>0, <1>1, <1>2 DEF StageInv
<1>7. CarriedInv'
  <2>1. \A x : Fits(x) => Fits(x)'
    BY <1>1 DEF Fits
  <2>2. \A i \in 1..Len(evq') : InOrder(courier.hand, evq'[i])
    <3>1. \A x \in Waiting : InOrder(courier.hand, x)
      BY <1>0 DEF CarriedInv, Waiting
    <3>2. \A i \in 1..Len(evq') : evq'[i] \in Waiting'
      BY DEF Waiting
    <3>. QED BY <1>2, <3>1, <3>2
  <2>. QED BY <1>0, <1>1, <1>2, <2>1, <2>2 DEF CarriedInv
<1>8. TextInv' /\ StoreInv'
  <2>1. ~Forwarding' /\ ~Sound' /\ courier'.at = "cancelled"
    BY <1>1 DEF Forwarding, Sound
  <2>2. TextIsStoredOnce'
    BY <1>0, <1>1 DEF TextInv, TextIsStoredOnce
  <2>. QED BY <1>0, <1>1, <2>1, <2>2 DEF TextInv, StoreInv
<1>9. PlanInv'
  <2>1. ParentPlanIsKept' /\ PlanIsSettled'
    BY <1>0, <1>1, <1>4 DEF PlanInv, ParentPlanIsKept, PlanIsSettled
  <2>2. ASSUME ~nested, "db" \notin setback, NEW t \in PlanRows
        PROVE  planRow'[t] = IF IsTerminal(h) /\ t = h.of /\ planRow[t] # "none" THEN h.status ELSE planRow[t]
    BY <1>1, <1>4, <2>2
  <2>3. ~nested /\ "db" \notin setback => \A t \in courier.terminal : planRow'[t] \in Outcomes \cup {"none"}
    <3>1. courier.terminal \subseteq PlanRows
      BY <1>0, TurnTypes
    <3>. QED BY <1>0, <2>2, <3>1 DEF PlanInv, IsTerminal
  <2>4. ASSUME ~nested, "db" \notin setback, ~author.dropped, NEW t \in PlanRows, author.work[t] \in Outcomes
        PROVE  \/ TaskEvent(t, author.work[t]) \in Carried' \/ courier.hand.kind = "plan"
               \/ planRow'[t] \in {author.work[t], "none"}
    <3>1. \/ TaskEvent(t, author.work[t]) \in Carried \/ courier.hand.kind = "plan"
          \/ planRow[t] \in {author.work[t], "none"}
      BY <1>0, <1>1, <2>4 DEF PlanInv, OutcomeInv
    <3>2. IsTerminal(h) /\ t = h.of => h.status = author.work[t]
      BY <1>3 DEF Fits
    <3>3. CASE TaskEvent(t, author.work[t]) = h
      <4>1. IsTerminal(h) /\ t = h.of /\ h.status = author.work[t]
        BY <2>4, <3>3 DEF TaskEvent, IsTerminal
      <4>. QED BY <2>2, <2>4, <4>1
    <3>4. CASE TaskEvent(t, author.work[t]) \in Carried /\ TaskEvent(t, author.work[t]) # h
      BY <1>2, <3>4 DEF TaskEvent
    <3>5. CASE planRow[t] \in {author.work[t], "none"}
      BY <2>2, <2>4, <3>2, <3>5
    <3>. QED BY <3>1, <3>3, <3>4, <3>5
  <2>5. OutcomeInv'
    BY <1>1, <2>4 DEF OutcomeInv, TaskEvent
  <2>. QED BY <1>0, <1>1, <2>1, <2>3, <2>5 DEF PlanInv
<1>. QED BY <1>5, <1>6, <1>7, <1>8, <1>9 DEF TurnEventsInv

LEMMA SweepStays ==
  ASSUME TurnEventsInv, Sweep
  PROVE  TurnEventsInv'
<1>0. TurnEventsTypeOK /\ StageInv /\ CarriedInv /\ TextInv /\ StoreInv /\ PlanInv
  BY DEF TurnEventsInv
<1>1. /\ UNCHANGED <<setback, workload, nested, author, evq, eventsAborted, courier, textRow, kept>>
      /\ tail = "sweeping" /\ tail' = "over"
  BY DEF Sweep
<1>2. Waiting' = Waiting /\ Carried' = Carried
  BY <1>1 DEF Waiting, Carried
<1>3. /\ planRow' \in [PlanRows -> RowStates]
      /\ nested => \A t \in PlanRows : planRow'[t] = planRow[t]
      /\ \A t \in PlanRows : planRow'[t] = planRow[t] \/ (planRow[t] \in {"pending", "running"} /\ planRow'[t] \in Outcomes)
      /\ ~nested /\ "db" \notin setback =>
           \A t \in PlanRows :
             planRow'[t] \in {"pending", "running"} =>
               planRow[t] = planRow'[t] /\ t \in courier.terminal \cup courier.deferred
  <2>1. planRow \in [PlanRows -> RowStates] /\ \A t \in PlanRows : planRow[t] \in RowStates
    BY <1>0, TypesNow, TurnTypes
  <2>2. CASE "db" \in setback /\ planRow' = planRow
    BY <2>1, <2>2
  <2>3. CASE planRow' = [t \in PlanRows |->
                          IF ~nested /\ planRow[t] \in {"pending", "running"}
                               /\ t \notin courier.terminal \cup courier.deferred
                          THEN IF eventsAborted \/ author.stopped THEN "skipped" ELSE "failed"
                          ELSE planRow[t]]
    <3>1. \A t \in PlanRows :
            planRow'[t] = IF ~nested /\ planRow[t] \in {"pending", "running"}
                               /\ t \notin courier.terminal \cup courier.deferred
                          THEN IF eventsAborted \/ author.stopped THEN "skipped" ELSE "failed"
                          ELSE planRow[t]
      BY <2>3
    <3>2. planRow' \in [PlanRows -> RowStates]
      BY <2>1, <2>3 DEF RowStates, Outcomes
    <3>. QED BY <3>1, <3>2 DEF Outcomes
  <2>. QED BY <2>2, <2>3 DEF Sweep
<1>4. TurnEventsTypeOK'
  BY <1>0, <1>1, <1>3, TypesAfter, TypesNow DEF Tails
<1>5. StageInv'
  BY <1>0, <1>1, <1>2 DEF StageInv
<1>6. CarriedInv'
  <2>1. \A x : Fits(x) => Fits(x)'
    BY <1>1 DEF Fits
  <2>. QED BY <1>0, <1>1, <1>2, <2>1 DEF CarriedInv
<1>7. Passing
  <2>1. Forwarding' => Forwarding
    BY <1>1 DEF Forwarding
  <2>. QED BY <1>1, <1>2, <2>1 DEF Passing
<1>8. TextInv' /\ StoreInv'
  BY <1>0, <1>7, PassingText, PassingStore
<1>9. PlanInv'
  <2>0. courier.terminal \subseteq PlanRows
    BY <1>0, TurnTypes
  <2>1. ParentPlanIsKept'
    BY <1>0, <1>1, <1>3 DEF PlanInv, ParentPlanIsKept
  <2>2. \A t \in PlanRows : planRow[t] \in Outcomes \cup {"none"} => planRow'[t] = planRow[t]
    BY <1>3 DEF Outcomes
  <2>3. ~nested /\ "db" \notin setback => \A t \in courier.terminal : planRow'[t] \in Outcomes \cup {"none"}
    BY <1>0, <2>0, <2>2 DEF PlanInv
  <2>4. PlanIsSettled'
    <3>1. ASSUME ~nested, "db" \notin setback, NEW t \in PlanRows, planRow'[t] \in {"pending", "running"}
          PROVE  t \in author.deferred
      <4>1. t \notin courier.terminal
        BY <2>3, <3>1 DEF Outcomes
      <4>. QED BY <1>0, <1>3, <3>1, <4>1 DEF PlanInv
    <3>. QED BY <1>1, <3>1 DEF PlanIsSettled
  <2>5. OutcomeInv'
    <3>1. ASSUME ~nested, "db" \notin setback, ~author.dropped, NEW t \in PlanRows
          PROVE  /\ courier.at # "cancelled" =>
                      /\ author.work[t] # "none" => planRow'[t] # "none" \/ PlanCreated \in Carried
                      /\ author.work[t] \in Outcomes =>
                           \/ TaskEvent(t, author.work[t]) \in Carried
                           \/ t \in courier.terminal /\ planRow'[t] = author.work[t]
                 /\ courier.at = "cancelled" /\ author.work[t] \in Outcomes =>
                      \/ TaskEvent(t, author.work[t]) \in Carried \/ courier.hand.kind = "plan"
                      \/ planRow'[t] \in {author.work[t], "none"}
      <4>1. /\ courier.at # "cancelled" =>
                 /\ author.work[t] # "none" => planRow[t] # "none" \/ PlanCreated \in Carried
                 /\ author.work[t] \in Outcomes =>
                      TaskEvent(t, author.work[t]) \in Carried \/ (t \in courier.terminal /\ planRow[t] = author.work[t])
            /\ courier.at = "cancelled" /\ author.work[t] \in Outcomes =>
                 \/ TaskEvent(t, author.work[t]) \in Carried \/ courier.hand.kind = "plan"
                 \/ planRow[t] \in {author.work[t], "none"}
        BY <1>0, <1>1, <3>1 DEF PlanInv, OutcomeInv
      <4>2. planRow[t] # "none" => planRow'[t] # "none"
        BY <1>3 DEF Outcomes
      <4>3. author.work[t] \in Outcomes /\ planRow[t] \in {author.work[t], "none"} => planRow'[t] = planRow[t]
        BY <2>2
      <4>. QED BY <4>1, <4>2, <4>3
    <3>. QED BY <1>1, <1>2, <3>1 DEF OutcomeInv, TaskEvent, PlanCreated
  <2>6. courier'.at # "cancelled" =>
          \A t \in courier'.terminal : \A e \in Carried' : e.kind # "plan" /\ (e.kind = "task" => e.of # t)
    BY <1>0, <1>1, <1>2 DEF PlanInv
  <2>. QED BY <1>0, <1>1, <2>1, <2>3, <2>4, <2>5, <2>6 DEF PlanInv
<1>. QED BY <1>4, <1>5, <1>6, <1>8, <1>9 DEF TurnEventsInv

-----------------------------------------------------------------------------
(***************************************************************************)
(* The theorems.                                                           *)
(***************************************************************************)
LEMMA TurnEventsStart == TurnEventsInit => TurnEventsInv
<1>1. SUFFICES ASSUME TurnEventsInit PROVE TurnEventsInv
  OBVIOUS
<1>2. /\ workload \in Workloads /\ setback \in Setbacks /\ nested \in BOOLEAN /\ evq = <<>> /\ eventsAborted = FALSE
      /\ courier.at = "idle" /\ courier.hand = Nothing /\ courier.text = {} /\ courier.files = {}
      /\ courier.terminal = {} /\ courier.deferred = {} /\ kept = {} /\ tail = "agent"
      /\ author.at = "writing" /\ author.message = 1 /\ author.files = {} /\ author.deferred = {}
      /\ \A m \in 1..MaxMessages : author.said[m] = 0 /\ textRow[m] = {}
      /\ \A t \in PlanRows : author.work[t] = "none" /\ planRow[t] = IF nested THEN "running" ELSE "none"
      /\ 1 \in 1..MaxMessages
  BY <1>1, TurnEventsAssumption DEF TurnEventsInit
<1>3. Waiting = {} /\ Carried = {Nothing} /\ Len(evq) = 0 /\ Nothing.kind = "none" /\ Nothing \in Events
  BY <1>2 DEF Waiting, Carried, Nothing, Events
<1>4. TurnEventsTypeOK
  <2>1. workload.deltas \in Nat /\ MaxMessages \in Nat /\ QueueSize \in Nat
    BY <1>2, TurnEventsAssumption
  <2>2. author \in AuthorRec
    <3> DEFINE R == 1..MaxMessages
               O == 0..workload.deltas
    <3>1. 1 \in R /\ 0 \in O
      BY <1>2, <2>1
    <3>2. author = [at |-> "writing", message |-> 1, said |-> [m \in R |-> 0],
                    files |-> {}, work |-> [t \in PlanRows |-> "none"], deferred |-> {}, dropped |-> FALSE,
                    stopped |-> FALSE]
      BY <1>1 DEF TurnEventsInit
    <3>3. AuthorRec = [at : {"writing", "ended", "closed"}, message : R, said : [R -> O], files : SUBSET Files,
                       work : [PlanRows -> RowStates], deferred : SUBSET PlanRows,
                       dropped : BOOLEAN, stopped : BOOLEAN]
      BY DEF AuthorRec
    <3> HIDE DEF R, O
    <3>. QED BY <3>1, <3>2, <3>3 DEF RowStates
  <2>3. courier \in CourierRec
    BY <1>1, <1>3 DEF TurnEventsInit, CourierRec
  <2>4. /\ planRow \in [PlanRows -> RowStates] /\ textRow \in [1..MaxMessages -> SUBSET Pieces] /\ kept \subseteq Files
        /\ tail \in Tails
    BY <1>1 DEF TurnEventsInit, RowStates, Tails
  <2>5. evq \in Seq(Events) /\ Len(evq) <= QueueSize /\ eventsAborted \in BOOLEAN
    <3>1. <<>> \in Seq(Events) /\ 0 <= QueueSize
      BY <2>1
    <3>. QED BY <1>2, <1>3, <3>1
  <2>. QED BY <1>2, <2>2, <2>3, <2>4, <2>5 DEF TurnEventsTypeOK, AuthorRec, CourierRec, Tails
<1>5. StageInv
  BY <1>2, <1>3 DEF StageInv
<1>6. CarriedInv
  <2>1. Fits(Nothing)
    BY DEF Fits, Nothing, IsTerminal
  <2>. QED BY <1>2, <1>3, <2>1 DEF CarriedInv
<1>7. TextInv
  BY <1>2, <1>3 DEF TextInv, TextIsStoredOnce
<1>8. StoreInv
  BY <1>2, <1>3 DEF StoreInv
<1>9. PlanInv
  BY <1>2, <1>3 DEF PlanInv, ParentPlanIsKept, PlanIsSettled, OutcomeInv, Outcomes
<1>. QED BY <1>4, <1>5, <1>6, <1>7, <1>8, <1>9 DEF TurnEventsInv

LEMMA TurnEventsStep == TurnEventsInv /\ [TurnEventsNext]_turnEventsVars => TurnEventsInv'
<1>1. SUFFICES ASSUME TurnEventsInv, [TurnEventsNext]_turnEventsVars PROVE TurnEventsInv'
  OBVIOUS
<1>0. TurnEventsTypeOK /\ StageInv /\ CarriedInv /\ TextInv /\ StoreInv /\ PlanInv
  BY <1>1 DEF TurnEventsInv
<1>2. CASE \/ Say \/ Plan \/ Defer \/ Freeze \/ Finish
           \/ \E f \in Files : Deliver(f)
           \/ \E t \in PlanRows : BeginTask(t) \/ EndTask(t)
  <2>1. PICK e : Told(e)
    BY <1>0, <1>2, AgentTells
  <2>. QED BY <1>0, <2>1, ToldTypes, ToldStage, ToldCarried, ToldText, ToldStore, ToldPlan DEF TurnEventsInv
<1>3. CASE Close \/ Teardown
  <2>1. Shut
    BY <1>0, <1>3, CloseShuts
  <2>. QED BY <1>0, <2>1, ShutTypes, ShutStage, ShutCarried, ShutText, ShutStore, ShutPlan DEF TurnEventsInv
<1>4. CASE Take \/ Persist \/ Flush
  BY <1>1, <1>4, TakeStays, PersistStays, FlushStays
<1>5. CASE TurnTailNext
  BY <1>1, <1>5, WaitsStay, LandingStays, DrainOneStays, SweepStays DEF TurnTailNext
<1>6. CASE UNCHANGED turnEventsVars
  <2>1. /\ UNCHANGED <<setback, workload, nested, author, evq, eventsAborted, courier, planRow, textRow, kept, tail>>
    BY <1>6 DEF turnEventsVars
  <2>2. Waiting' = Waiting /\ Carried' = Carried
    BY <2>1 DEF Waiting, Carried
  <2>3. TurnEventsTypeOK'
    BY <1>0, <2>1, TypesAfter, TypesNow
  <2>4. StageInv'
    BY <1>0, <2>1, <2>2 DEF StageInv
  <2>5. CarriedInv'
    <3>1. \A x : Fits(x) => Fits(x)'
      BY <2>1 DEF Fits
    <3>. QED BY <1>0, <2>1, <2>2, <3>1 DEF CarriedInv
  <2>6. Passing
    BY <2>1, <2>2 DEF Passing, Forwarding
  <2>7. planRow' = planRow /\ (tail' = "over" => tail = "over")
    BY <2>1
  <2>8. TextInv' /\ StoreInv' /\ PlanInv'
    BY <1>0, <2>6, <2>7, PassingText, PassingStore, PassingPlan
  <2>. QED BY <2>3, <2>4, <2>5, <2>8 DEF TurnEventsInv
<1>. QED BY <1>1, <1>2, <1>3, <1>4, <1>5, <1>6 DEF TurnEventsNext

LEMMA TurnEventsInvHolds == TurnEventsSpec => []TurnEventsInv
<1>. QED BY TurnEventsStart, TurnEventsStep, PTL DEF TurnEventsSpec

\* What the agent said and delivered is stored when nothing has failed.
LEMMA StoredAtTheEnd == TurnEventsInv => OutputIsStored
<1>1. SUFFICES ASSUME TurnEventsInv, Delivered
               PROVE  /\ kept = author.files
                      /\ \A m \in 1..MaxMessages : textRow[m] = {<<m, n>> : n \in 1..author.said[m]}
  BY DEF OutputIsStored
<1>0. TurnEventsTypeOK /\ StageInv /\ CarriedInv /\ TextInv /\ StoreInv /\ PlanInv
  BY <1>1 DEF TurnEventsInv
<1>2. /\ tail \in {"sweeping", "over"} /\ courier.at = "done" /\ Sound /\ evq = <<>> /\ courier.hand = Nothing
      /\ author.at = "closed"
  BY <1>0, <1>1 DEF Delivered, Sound, StageInv
<1>3. Carried = {Nothing}
  BY <1>2 DEF Carried, Waiting
<1>4. \A m : ~EndAhead(m)
  BY <1>2, <1>3 DEF EndAhead, StreamEnd, Nothing
<1>5. kept = author.files
  <2>1. \A f : FileOutput(f) \notin Carried
    BY <1>3 DEF FileOutput, Nothing
  <2>. QED BY <1>0, <1>2, <2>1 DEF StoreInv
<1>6. courier.text = {}
  BY <1>0, <1>2, <1>4 DEF StoreInv
<1>7. ASSUME NEW m \in 1..MaxMessages
      PROVE  textRow[m] = {<<m, n>> : n \in 1..author.said[m]}
  <2>1. ASSUME NEW n \in 1..author.said[m] PROVE <<m, n>> \in textRow[m]
    <3>1. Placed(m, n) /\ Delta(m, n) \notin Carried
      BY <1>0, <1>2, <1>3 DEF StoreInv, Delta, Nothing
    <3>. QED BY <1>6, <3>1 DEF Placed
  <2>2. ASSUME NEW p \in textRow[m] PROVE \E n \in 1..author.said[m] : p = <<m, n>>
    <3>1. p \in Pieces /\ p[1] = m /\ p[2] <= author.said[p[1]] /\ workload.deltas \in Nat
          /\ author.said[m] \in Nat
      BY <1>0, <1>2, TurnTypes DEF StoreInv, TextInv, TextIsStoredOnce
    <3>2. PICK j \in 1..MaxMessages, n \in 1..workload.deltas : p = <<j, n>>
      BY <3>1 DEF Pieces
    <3>3. j = m /\ n \in 1..author.said[m]
      BY <3>1, <3>2
    <3>. QED BY <3>2, <3>3
  <2>. QED BY <2>1, <2>2
<1>. QED BY <1>5, <1>7

LEMMA OutcomesAtTheEnd == TurnEventsInv => OutcomeIsKept
<1>1. SUFFICES ASSUME TurnEventsInv, tail = "over", ~nested, "db" \notin setback, ~author.dropped,
                      NEW t \in PlanRows, author.work[t] \in Outcomes
               PROVE  \/ planRow[t] = author.work[t]
                      \/ /\ courier.at = "cancelled"
                         /\ courier.hand.kind = "plan" \/ courier.hand = TaskEvent(t, author.work[t])
                      \/ courier.at = "cancelled" /\ planRow[t] = "none"
  BY DEF OutcomeIsKept
<1>0. StageInv /\ PlanInv
  BY <1>1 DEF TurnEventsInv
<1>2. Carried = {courier.hand} /\ (courier.at = "cancelled" \/ (courier.at = "done" /\ courier.hand = Nothing))
  BY <1>0, <1>1 DEF StageInv, Carried, Waiting
<1>3. TaskEvent(t, author.work[t]) # Nothing
  BY DEF TaskEvent, Nothing
<1>. QED BY <1>0, <1>1, <1>2, <1>3 DEF PlanInv, OutcomeInv

\* TurnEventsTypeOK: the variables of a turn's events have their types, the queue its bound.
THEOREM TurnEventsTypeCorrect == TurnEventsSpec => []TurnEventsTypeOK
<1>1. TurnEventsInv => TurnEventsTypeOK
  BY DEF TurnEventsInv
<1>. QED BY <1>1, TurnEventsInvHolds, PTL

\* TurnIsStored: what a turn emitted is in its rows, once, and its tasks end as they were told to.
THEOREM TurnsAreStored == TurnEventsSpec => []TurnIsStored
<1>1. TurnEventsInv => TurnIsStored
  BY StoredAtTheEnd, OutcomesAtTheEnd DEF TurnEventsInv, TextInv, PlanInv, TurnIsStored
<1>. QED BY <1>1, TurnEventsInvHolds, PTL
=============================================================================
