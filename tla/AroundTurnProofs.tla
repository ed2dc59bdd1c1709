---------------------------- MODULE AroundTurnProofs ----------------------------
(***************************************************************************)
(* Proofs about what stands around a turn: the published streams           *)
(* (PublishedStreams), the MCP servers (McpConnections), the commands of a *)
(* workspace (WorkspaceProcesses) and the sockets of a tab                 *)
(* (ClientSockets).  Each part says, where it begins, what its inductive   *)
(* invariant holds.                                                        *)
(*                                                                         *)
(* PublishedInv, beside the types and the properties proved: where a       *)
(* request, its run and its client can stand together (RequestInv), every  *)
(* conversation was made by a request that got past the insertion          *)
(* (MadeInv), a run at work holds the claim of its conversation            *)
(* (ClaimInv), an Event that is set was set while the run at work on its   *)
(* conversation was running (HaltInv), and the last frame of a run is on   *)
(* its way (FrameInv).                                                     *)
(***************************************************************************)
EXTENDS PublishedStreams, McpConnections, WorkspaceProcesses, ClientSockets, FiniteSetTheorems,
        SequenceTheorems, WellFoundedInduction, NaturalsInduction, TLAPS

FrameKinds == {"text", "part", "end"}

\* The requests that hold a slot, and those that may have made a conversation.
Holders ==
  {r \in StreamRequests \ Loads : asking[r] \in {"find", "insert", "claim"} \/ turn[r] \in Working}
Makers == {r \in StreamRequests : asking[r] \in {"claim", "answered", "refused"}}

RequestInv ==
  \A r \in StreamRequests :
    /\ turn[r] # "none" => /\ asking[r] = "answered" /\ client[r] # "none"
                           /\ conversation[r] # 0 /\ r \notin Loads
    /\ turn[r] = "none" => client[r] = "none"
    /\ turn[r] \in {"none", "working"} <=> outcome[r] = "none"
    /\ asking[r] \in {"slot", "claim"} => r \notin Loads
    /\ asking[r] = "claim" => conversation[r] # 0

MadeInv == Len(threads) <= Cardinality(Makers)

ClaimInv ==
  \A r \in StreamRequests : turn[r] \in {"working", "closing"} => conversation[r] \in claimed

HaltInv ==
  \A r \in StreamRequests : turn[r] = "working" /\ conversation[r] \in halted => r \in halts

\* The last frame was seen, dropped or still waits in the queue.
LastFrameSent(r) ==
  "end" \in seen[r] \/ r \in dropped \/ \E i \in 1 .. Len(frames[r]) : frames[r][i] = "end"

FrameInv ==
  \A r \in StreamRequests :
    /\ outcome[r] \in {"answered", "stopped"} => LastFrameSent(r)
    /\ outcome[r] = "cancelled" => client[r] = "gone"
    /\ client[r] = "flushing" => "end" \in seen[r] \/ turn[r] = "done"

PublishedInv ==
  PublishedTypeOK /\ PublishedRunsAreApart /\ RequestInv /\ MadeInv /\ ClaimInv /\ HaltInv /\ FrameInv

PublishedSpec == PublishedInit /\ [][PublishedNext]_publishedVars

-----------------------------------------------------------------------------
(***************************************************************************)
(* Sequences of bounded length, and the newest conversation of a scope.    *)
(***************************************************************************)
LEMMA SeqOfIsSeq ==
  ASSUME NEW S, NEW n \in Nat, NEW s
  PROVE  s \in SeqOf(S, n) <=> s \in Seq(S) /\ Len(s) <= n
<1>1. ASSUME s \in SeqOf(S, n) PROVE s \in Seq(S) /\ Len(s) <= n
  <2>1. PICK m \in 0 .. n : s \in [1 .. m -> S]
    BY <1>1 DEF SeqOf
  <2>. QED
    BY <2>1
<1>2. ASSUME s \in Seq(S), Len(s) <= n PROVE s \in SeqOf(S, n)
  <2>1. Len(s) \in 0 .. n /\ s \in [1 .. Len(s) -> S]
    BY <1>2
  <2>. QED
    BY <2>1 DEF SeqOf
<1>. QED
  BY <1>1, <1>2

LEMMA LargestIndex ==
  ASSUME NEW n \in Nat, NEW I \in SUBSET (1 .. n), I # {}
  PROVE  Max(I) \in I
<1> DEFINE T == {n - i : i \in I}
<1>1. \A i \in I : n - i \in Nat /\ n - i \in T
  OBVIOUS
<1>2. T \subseteq Nat /\ T # {}
  BY <1>1
<1>3. PICK x \in T : \A y \in T : ~(<<y, x>> \in OpToRel(<, Nat))
  BY <1>2, NatLessThanWellFounded, WFMin
<1>4. \A y \in T : ~(y < x)
  BY <1>2, <1>3 DEF OpToRel
<1>5. PICK i \in I : x = n - i
  OBVIOUS
<1>6. \A j \in I : i >= j
  <2> SUFFICES ASSUME NEW j \in I PROVE i >= j
    OBVIOUS
  <2>1. ~(n - j < n - i)
    BY <1>1, <1>4, <1>5
  <2>. QED
    BY <2>1
<1>. QED
  BY <1>6 DEF Max

\* The newest conversation of a scope is one of that scope.
LEMMA NewestIsOfScope ==
  ASSUME NEW s, threads \in Seq(Scopes)
  PROVE  /\ Newest(s) \in 0 .. Len(threads)
         /\ Newest(s) # 0 => threads[Newest(s)] = s
<1> DEFINE I == {i \in 1 .. Len(threads) : threads[i] = s}
<1>1. Newest(s) = IF I # {} THEN Max(I) ELSE 0
  BY DEF Newest, SelectLastInSeq
<1>2. Len(threads) \in Nat
  OBVIOUS
<1>3. I # {} => Max(I) \in I
  BY <1>2, LargestIndex
<1>. QED
  BY <1>1, <1>2, <1>3

\* What the type invariant says, with sequences in place of bounded ones.
LEMMA PublishedTypes ==
  PublishedTypeOK <=>
    /\ situation \in Situations /\ grants \subseteq Granted
    /\ threads \in Seq(Scopes) /\ Len(threads) <= Cardinality(StreamRequests)
    /\ permits \in 0 .. situation.slots /\ {claimed, halted} \subseteq SUBSET (1 .. Len(threads))
    /\ asking \in [StreamRequests -> {"idle", "slot", "find", "insert", "claim", "answered", "refused"}]
    /\ conversation \in [StreamRequests -> 0 .. Len(threads)]
    /\ turn \in [StreamRequests -> {"none", "done"} \cup Working]
    /\ outcome \in [StreamRequests -> {"none", "answered", "raised", "stopped", "cancelled"}]
    /\ frames \in [StreamRequests -> {q \in Seq(FrameKinds) : Len(q) <= FrameLimit}]
    /\ client \in [StreamRequests -> {"none", "fresh", "reading", "flushing", "ended", "gone", "lost"}]
    /\ seen \in [StreamRequests -> SUBSET {"text", "part", "end", "error"}]
    /\ {dropped, halts} \subseteq SUBSET StreamRequests
    /\ budget \in [sent : [StreamRequests -> 0 .. situation.frames], aborts : 0 .. situation.aborts,
                   switches : 0 .. situation.switches]
<1>1. Cardinality(StreamRequests) \in Nat
  BY PublishedAssumption, FS_CardinalityType DEF PublishedAssumption
<1>2. threads \in SeqOf(Scopes, Cardinality(StreamRequests))
        <=> threads \in Seq(Scopes) /\ Len(threads) <= Cardinality(StreamRequests)
  BY <1>1, SeqOfIsSeq
<1>3. SeqOf({"text", "part", "end"}, FrameLimit) = {q \in Seq(FrameKinds) : Len(q) <= FrameLimit}
  <2>1. FrameLimit \in Nat
    BY PublishedAssumption DEF PublishedAssumption
  <2>2. \A q : q \in SeqOf(FrameKinds, FrameLimit) <=> q \in Seq(FrameKinds) /\ Len(q) <= FrameLimit
    BY <2>1, SeqOfIsSeq
  <2>. QED
    BY <2>2, Zenon DEF FrameKinds
<1>. QED
  BY <1>2, <1>3, Zenon DEF PublishedTypeOK

-----------------------------------------------------------------------------
(***************************************************************************)
(* The steps, by who makes them.                                           *)
(***************************************************************************)
RequestStep(r) ==
  \/ AskRun(r) \/ LoadPage(r) \/ TakePermit(r) \/ TooManyRuns(r) \/ FindThread(r) \/ CreateThread(r)
  \/ FailRequest(r) \/ BeginRunTask(r) \/ AlreadyRunning(r)

RunStep(r) ==
  \/ \E f \in {"text", "part"} : SendFrame(r, f)
  \/ Answered(r) \/ Raises(r) \/ SeesHalt(r) \/ GiveBackTurn(r) \/ GiveBackPermit(r)

ResponseStep(r) ==
  OpenResponse(r) \/ YieldFrame(r) \/ StopWaiting(r) \/ EndResponse(r) \/ VanishClient(r) \/ LoseResponse(r)

PublisherStep ==
  \/ \E s \in Scopes : AbortThread(s) \/ AbortPage(s)
  \/ \E g \in {"api", "page", "open"} : SwitchSurface(g)
  \/ RevokeKey \/ IssueKey \/ DeletePublish

LEMMA StepIsOfSomebody ==
  PublishedNext => PublisherStep \/ \E r \in StreamRequests : RequestStep(r) \/ RunStep(r) \/ ResponseStep(r)
  BY Zenon DEF PublishedNext, RequestStep, RunStep, ResponseStep, PublisherStep

\* Where requests, runs and clients stand together after a step.
LEMMA RequestStays ==
  ASSUME PublishedTypeOK, RequestInv, [PublishedNext]_publishedVars
  PROVE  RequestInv'
<1> USE PublishedTypes DEF RequestInv, Working
<1>1. ASSUME NEW r \in StreamRequests, RequestStep(r) PROVE RequestInv'
  <2>1. CASE FindThread(r)
    BY <2>1 DEF FindThread, Found, turnVars, Loads
  <2>2. CASE CreateThread(r)
    BY <2>2 DEF CreateThread, Found, turnVars, Loads
  <2>3. CASE AskRun(r) \/ LoadPage(r) \/ TakePermit(r) \/ TooManyRuns(r) \/ FailRequest(r)
    BY <2>3 DEF AskRun, LoadPage, TakePermit, TooManyRuns, FailRequest, turnVars, Loads
  <2>4. CASE BeginRunTask(r) \/ AlreadyRunning(r)
    BY <2>4 DEF BeginRunTask, AlreadyRunning, turnVars, Loads
  <2>. QED
    BY <1>1, <2>1, <2>2, <2>3, <2>4 DEF RequestStep
<1>2. ASSUME NEW r \in StreamRequests, RunStep(r) PROVE RequestInv'
  BY <1>2 DEF RunStep, SendFrame, Answered, Raises, SeesHalt, EndRun, GiveBackTurn, GiveBackPermit,
              requestVars, Loads
<1>3. ASSUME NEW r \in StreamRequests, ResponseStep(r) PROVE RequestInv'
  BY <1>3 DEF ResponseStep, OpenResponse, YieldFrame, StopWaiting, EndResponse, VanishClient,
              LoseResponse, runVars, requestVars, Loads
<1>4. ASSUME PublisherStep PROVE RequestInv'
  BY <1>4 DEF PublisherStep, AbortThread, AbortPage, AbortCall, SwitchSurface, RevokeKey, IssueKey,
              DeletePublish, Manage, requestVars, turnVars, Loads
<1>5. ASSUME UNCHANGED publishedVars PROVE RequestInv'
  BY <1>5 DEF publishedVars, Loads
<1>. QED
  BY <1>1, <1>2, <1>3, <1>4, <1>5, StepIsOfSomebody

\* The conversation a request finds is of its scope.
LEMMA FindEffect ==
  ASSUME PublishedTypeOK, NEW r \in StreamRequests, FindThread(r)
  PROVE  /\ \/ conversation' = conversation
            \/ \E n \in 1 .. Len(threads) : /\ threads[n] = situation.scope[r]
                                            /\ conversation' = [conversation EXCEPT ![r] = n]
         /\ asking[r] = "find"
         /\ UNCHANGED <<situation, grants, threads, permits, claimed, halted, turnVars, halts, budget>>
<1>1. PICK n \in 0 .. Len(threads) : n = Newest(ScopeOf(r)) /\ (n # 0 => threads[n] = situation.scope[r])
  BY PublishedTypes, NewestIsOfScope DEF ScopeOf
<1>2. /\ IF n = 0 THEN UNCHANGED conversation ELSE conversation' = [conversation EXCEPT ![r] = n]
      /\ asking[r] = "find"
      /\ UNCHANGED <<situation, grants, threads, permits, claimed, halted, turnVars, halts, budget>>
  BY <1>1 DEF FindThread
<1>3. CASE n = 0
  BY <1>2, <1>3
<1>4. CASE n # 0
  <2>1. n \in 1 .. Len(threads)
    BY <1>4, PublishedTypes
  <2>. QED
    BY <1>1, <1>2, <1>4, <2>1, Zenon
<1>. QED
  BY <1>3, <1>4

\* ThreadsAreApart, run by run.
ApartInv ==
  /\ \A r, s \in StreamRequests :
       r # s /\ turn[r] \in {"working", "closing"} /\ turn[s] \in {"working", "closing"}
         => conversation[r] # conversation[s]
  /\ \A r \in StreamRequests : conversation[r] # 0 => threads[conversation[r]] = situation.scope[r]

LEMMA ApartIsApart == ThreadsAreApart <=> ApartInv
  BY DEF ThreadsAreApart, ApartInv, ScopeOf

\* The conversations of the runs at work are claimed, and each by one run.
LEMMA ClaimsStay ==
  ASSUME PublishedTypeOK, RequestInv, ClaimInv, ApartInv, [PublishedNext]_publishedVars
  PROVE  ClaimInv' /\ ApartInv'
<1> USE PublishedTypes DEF RequestInv, ClaimInv, ApartInv, Working
<1>1. ASSUME NEW r \in StreamRequests, RequestStep(r) PROVE ClaimInv' /\ ApartInv'
  <2>1. CASE FindThread(r)
    <3>1. turn[r] = "none" /\ UNCHANGED <<situation, threads, claimed, turn>>
      BY <2>1, FindEffect DEF turnVars
    <3>2. CASE conversation' = conversation
      BY <3>1, <3>2
    <3>3. ASSUME NEW n \in 1 .. Len(threads), threads[n] = situation.scope[r],
                 conversation' = [conversation EXCEPT ![r] = n]
          PROVE  ClaimInv' /\ ApartInv'
      BY <3>1, <3>3
    <3>. QED
      BY <2>1, <3>2, <3>3, FindEffect
  <2>2. CASE CreateThread(r)
    <3>1. /\ turn[r] = "none" /\ UNCHANGED <<situation, claimed, turn>>
          /\ threads' = Append(threads, situation.scope[r])
          /\ conversation' = [conversation EXCEPT ![r] = Len(threads')]
      BY <2>2 DEF CreateThread, turnVars, ScopeOf
    <3>2. /\ threads \in Seq(Scopes) /\ situation.scope[r] \in Scopes
          /\ conversation \in [StreamRequests -> 0 .. Len(threads)]
      BY PublishedTypes, PublishedAssumption DEF PublishedAssumption
    <3>3. /\ Len(threads') = Len(threads) + 1 /\ threads'[Len(threads')] = situation.scope[r]
          /\ \A i \in 1 .. Len(threads) : threads'[i] = threads[i]
      BY <3>1, <3>2
    <3>4. \A q \in StreamRequests : q # r => conversation'[q] = conversation[q]
      BY <3>1, <3>2
    <3>5. conversation'[r] = Len(threads')
      BY <3>1, <3>2
    <3>6. ClaimInv'
      BY <3>1, <3>4
    <3>7. ASSUME NEW q \in StreamRequests, conversation'[q] # 0
          PROVE  threads'[conversation'[q]] = situation.scope[q]
      <4>1. CASE q = r
        BY <3>3, <3>5, <4>1
      <4>2. CASE q # r
        <5>1. conversation'[q] = conversation[q] /\ conversation[q] \in 1 .. Len(threads)
          BY <3>2, <3>4, <3>7, <4>2
        <5>2. threads[conversation[q]] = situation.scope[q]
          BY <5>1
        <5>. QED
          BY <3>3, <5>1, <5>2
      <4>. QED
        BY <4>1, <4>2
    <3>8. ASSUME NEW q \in StreamRequests, NEW s \in StreamRequests, q # s,
                 turn'[q] \in {"working", "closing"}, turn'[s] \in {"working", "closing"}
          PROVE  conversation'[q] # conversation'[s]
      <4>1. q # r /\ s # r /\ conversation'[q] = conversation[q] /\ conversation'[s] = conversation[s]
        BY <3>1, <3>4, <3>8
      <4>. QED
        BY <3>1, <3>8, <4>1
    <3>9. ApartInv'
      BY <3>1, <3>7, <3>8 DEF ApartInv
    <3>. QED
      BY <3>6, <3>9
  <2>3. CASE AskRun(r) \/ LoadPage(r) \/ TakePermit(r) \/ TooManyRuns(r) \/ FailRequest(r) \/ AlreadyRunning(r)
    BY <2>3 DEF AskRun, LoadPage, TakePermit, TooManyRuns, FailRequest, AlreadyRunning, turnVars
  <2>4. CASE BeginRunTask(r)
    BY <2>4 DEF BeginRunTask
  <2>. QED
    BY <1>1, <2>1, <2>2, <2>3, <2>4 DEF RequestStep
<1>2. ASSUME NEW r \in StreamRequests, RunStep(r) PROVE ClaimInv' /\ ApartInv'
  <2>1. CASE \E f \in {"text", "part"} : SendFrame(r, f)
    BY <2>1 DEF SendFrame, requestVars
  <2>2. CASE Answered(r) \/ Raises(r) \/ SeesHalt(r)
    <3>1. /\ UNCHANGED <<situation, threads, conversation, claimed>>
          /\ turn[r] = "working" /\ turn' = [turn EXCEPT ![r] = "closing"]
      BY <2>2 DEF Answered, Raises, SeesHalt, EndRun, requestVars
    <3>2. \A q \in StreamRequests : turn'[q] \in {"working", "closing"} => turn[q] \in {"working", "closing"}
      BY <3>1
    <3>. QED
      BY <3>1, <3>2
  <2>3. CASE GiveBackTurn(r)
    BY <2>3 DEF GiveBackTurn, requestVars
  <2>4. CASE GiveBackPermit(r)
    BY <2>4 DEF GiveBackPermit, requestVars
  <2>. QED
    BY <1>2, <2>1, <2>2, <2>3, <2>4 DEF RunStep
<1>3. ASSUME NEW r \in StreamRequests, ResponseStep(r) PROVE ClaimInv' /\ ApartInv'
  <2>1. CASE VanishClient(r)
    <3>1. UNCHANGED <<situation, threads, conversation, claimed>>
      BY <2>1 DEF VanishClient, requestVars
    <3>2. \A q \in StreamRequests : turn'[q] \in {"working", "closing"} => turn[q] \in {"working", "closing"}
      BY <2>1 DEF VanishClient
    <3>. QED
      BY <3>1, <3>2
  <2>2. CASE OpenResponse(r) \/ YieldFrame(r) \/ StopWaiting(r) \/ EndResponse(r) \/ LoseResponse(r)
    BY <2>2 DEF OpenResponse, YieldFrame, StopWaiting, EndResponse, LoseResponse, runVars, requestVars
  <2>. QED
    BY <1>3, <2>1, <2>2 DEF ResponseStep
<1>4. ASSUME PublisherStep PROVE ClaimInv' /\ ApartInv'
  BY <1>4 DEF PublisherStep, AbortThread, AbortPage, AbortCall, SwitchSurface, RevokeKey, IssueKey,
              DeletePublish, Manage, requestVars, turnVars
<1>5. ASSUME UNCHANGED publishedVars PROVE ClaimInv' /\ ApartInv'
  BY <1>5 DEF publishedVars
<1>. QED
  BY <1>1, <1>2, <1>3, <1>4, <1>5, StepIsOfSomebody

\* An Event that is set and meets a run at work was set for that run: a run clears the
\* Event of its conversation when it begins.
LEMMA HaltsStay ==
  ASSUME PublishedTypeOK, RequestInv, HaltInv, HaltIsForThisRun, [PublishedNext]_publishedVars
  PROVE  HaltInv' /\ HaltIsForThisRun'
<1> USE PublishedTypes DEF RequestInv, HaltInv, HaltIsForThisRun, Working
<1>1. ASSUME NEW r \in StreamRequests, RequestStep(r) PROVE HaltInv' /\ HaltIsForThisRun'
  <2>1. CASE FindThread(r)
    <3>1. turn[r] = "none" /\ UNCHANGED <<halted, halts, outcome, turn>>
      BY <2>1, FindEffect DEF turnVars
    <3>2. \A q \in StreamRequests : q # r => conversation'[q] = conversation[q]
      <4>1. CASE conversation' = conversation
        BY <4>1
      <4>2. ASSUME NEW n \in 1 .. Len(threads), conversation' = [conversation EXCEPT ![r] = n]
            PROVE  \A q \in StreamRequests : q # r => conversation'[q] = conversation[q]
        BY <4>2
      <4>. QED
        BY <2>1, <4>1, <4>2, FindEffect
    <3>. QED
      BY <3>1, <3>2
  <2>2. CASE CreateThread(r)
    BY <2>2 DEF CreateThread, Found, turnVars
  <2>3. CASE AskRun(r) \/ LoadPage(r) \/ TakePermit(r) \/ TooManyRuns(r) \/ FailRequest(r) \/ AlreadyRunning(r)
    BY <2>3 DEF AskRun, LoadPage, TakePermit, TooManyRuns, FailRequest, AlreadyRunning, turnVars
  <2>4. CASE BeginRunTask(r)
    BY <2>4 DEF BeginRunTask
  <2>. QED
    BY <1>1, <2>1, <2>2, <2>3, <2>4 DEF RequestStep
<1>2. ASSUME NEW r \in StreamRequests, RunStep(r) PROVE HaltInv' /\ HaltIsForThisRun'
  <2>1. CASE \E f \in {"text", "part"} : SendFrame(r, f)
    BY <2>1 DEF SendFrame, requestVars
  <2>2. CASE Answered(r) \/ Raises(r)
    <3>1. /\ UNCHANGED <<conversation, halted, halts>> /\ turn' = [turn EXCEPT ![r] = "closing"]
          /\ outcome' = [outcome EXCEPT ![r] = "answered"] \/ outcome' = [outcome EXCEPT ![r] = "raised"]
      BY <2>2 DEF Answered, Raises, EndRun, requestVars
    <3>. QED
      BY <3>1
  <2>3. CASE SeesHalt(r)
    <3>1. /\ UNCHANGED <<conversation, halted, halts>> /\ turn' = [turn EXCEPT ![r] = "closing"]
          /\ outcome' = [outcome EXCEPT ![r] = "stopped"] /\ conversation[r] \in halted /\ turn[r] = "working"
      BY <2>3 DEF SeesHalt, EndRun, requestVars
    <3>. QED
      BY <3>1
  <2>4. CASE GiveBackTurn(r) \/ GiveBackPermit(r)
    <3>1. /\ UNCHANGED <<conversation, halted, halts, outcome>>
          /\ turn' = [turn EXCEPT ![r] = "released"] \/ turn' = [turn EXCEPT ![r] = "done"]
      BY <2>4 DEF GiveBackTurn, GiveBackPermit, requestVars
    <3>. QED
      BY <3>1
  <2>. QED
    BY <1>2, <2>1, <2>2, <2>3, <2>4 DEF RunStep
<1>3. ASSUME NEW r \in StreamRequests, ResponseStep(r) PROVE HaltInv' /\ HaltIsForThisRun'
  <2>1. CASE VanishClient(r)
    BY <2>1 DEF VanishClient, Halt, requestVars
  <2>2. CASE OpenResponse(r) \/ YieldFrame(r) \/ StopWaiting(r) \/ EndResponse(r) \/ LoseResponse(r)
    BY <2>2 DEF OpenResponse, YieldFrame, StopWaiting, EndResponse, LoseResponse, runVars, requestVars
  <2>. QED
    BY <1>3, <2>1, <2>2 DEF ResponseStep
<1>4. ASSUME PublisherStep PROVE HaltInv' /\ HaltIsForThisRun'
  BY <1>4 DEF PublisherStep, AbortThread, AbortPage, AbortCall, Halt, SwitchSurface, RevokeKey, IssueKey,
              DeletePublish, Manage, requestVars, turnVars
<1>5. ASSUME UNCHANGED publishedVars PROVE HaltInv' /\ HaltIsForThisRun'
  BY <1>5 DEF publishedVars
<1>. QED
  BY <1>1, <1>2, <1>3, <1>4, <1>5, StepIsOfSomebody

-----------------------------------------------------------------------------
(***************************************************************************)
(* The last frame.                                                         *)
(***************************************************************************)
\* A frame that is sent is queued or dropped, and those that wait stay.
LEMMA PushEffect ==
  ASSUME PublishedTypeOK, NEW r \in StreamRequests, NEW f \in FrameKinds, Push(r, f),
         UNCHANGED seen
  PROVE  /\ \A q \in StreamRequests : LastFrameSent(q) => LastFrameSent(q)'
         /\ f = "end" => LastFrameSent(r)'
         /\ frames' \in [StreamRequests -> {q \in Seq(FrameKinds) : Len(q) <= FrameLimit}]
         /\ dropped \subseteq dropped' /\ dropped' \subseteq StreamRequests
<1> USE PublishedTypes
<1>1. CASE Len(frames[r]) < FrameLimit
  <2>1. frames' = [frames EXCEPT ![r] = Append(@, f)] /\ dropped' = dropped
    BY <1>1 DEF Push
  <2>2. PICK before \in Seq(FrameKinds) : before = frames[r] /\ Len(before) <= FrameLimit
    OBVIOUS
  <2>3. frames'[r] = Append(before, f) /\ \A q \in StreamRequests : q # r => frames'[q] = frames[q]
    BY <2>1, <2>2
  <2>4. /\ Append(before, f) \in Seq(FrameKinds) /\ Len(Append(before, f)) = Len(before) + 1
        /\ Append(before, f)[Len(before) + 1] = f
        /\ \A i \in 1 .. Len(before) : Append(before, f)[i] = before[i]
    BY <2>2
  <2>5. Len(before) \in Nat /\ Len(before) + 1 <= FrameLimit
    BY <1>1, <2>2, PublishedAssumption DEF PublishedAssumption
  <2>6. frames' \in [StreamRequests -> {q \in Seq(FrameKinds) : Len(q) <= FrameLimit}]
    BY <2>1, <2>2, <2>4, <2>5
  <2>7. f = "end" => LastFrameSent(r)'
    BY <2>3, <2>4, <2>5 DEF LastFrameSent
  <2>8. ASSUME NEW q \in StreamRequests, LastFrameSent(q) PROVE LastFrameSent(q)'
    <3>1. CASE q # r
      BY <2>1, <2>3, <2>8, <3>1 DEF LastFrameSent
    <3>2. CASE q = r
      BY <2>1, <2>2, <2>3, <2>4, <2>5, <2>8, <3>2 DEF LastFrameSent
    <3>. QED
      BY <3>1, <3>2
  <2>. QED
    BY <2>1, <2>6, <2>7, <2>8
<1>2. CASE ~(Len(frames[r]) < FrameLimit)
  BY <1>2 DEF Push, LastFrameSent
<1>. QED
  BY <1>1, <1>2

\* A frame that is read was seen, the others still wait.
LEMMA YieldEffect ==
  ASSUME PublishedTypeOK, NEW r \in StreamRequests, YieldFrame(r)
  PROVE  /\ \A q \in StreamRequests : LastFrameSent(q) => LastFrameSent(q)'
         /\ frames' \in [StreamRequests -> {q \in Seq(FrameKinds) : Len(q) <= FrameLimit}]
         /\ seen' \in [StreamRequests -> SUBSET {"text", "part", "end", "error"}]
         /\ \A q \in StreamRequests : seen[q] \subseteq seen'[q]
         /\ client'[r] = "flushing" /\ client[r] # "flushing" => "end" \in seen'[r]
<1> USE PublishedTypes
<1>1. PICK before \in Seq(FrameKinds) :
        before = frames[r] /\ Len(before) <= FrameLimit /\ before # <<>>
  BY DEF YieldFrame
<1>2. /\ seen' = [seen EXCEPT ![r] = @ \cup {Head(before)}]
      /\ frames' = [frames EXCEPT ![r] = Tail(before)] /\ UNCHANGED dropped
      /\ client' = [client EXCEPT ![r] = IF Head(before) = "end" THEN "flushing" ELSE @]
  BY <1>1 DEF YieldFrame, runVars
<1>3. /\ Tail(before) \in Seq(FrameKinds) /\ Len(Tail(before)) = Len(before) - 1 /\ Len(before) \in Nat
      /\ Head(before) = before[1] /\ Head(before) \in FrameKinds
      /\ \A i \in 2 .. Len(before) : Tail(before)[i - 1] = before[i]
  BY <1>1
<1>4. frames' \in [StreamRequests -> {q \in Seq(FrameKinds) : Len(q) <= FrameLimit}]
  <2>1. Len(Tail(before)) <= FrameLimit
    BY <1>1, <1>3, PublishedAssumption DEF PublishedAssumption
  <2>. QED
    BY <1>2, <1>3, <2>1
<1>5. /\ seen' \in [StreamRequests -> SUBSET {"text", "part", "end", "error"}]
      /\ \A q \in StreamRequests : seen[q] \subseteq seen'[q]
      /\ seen'[r] = seen[r] \cup {Head(before)}
  BY <1>2, <1>3 DEF FrameKinds
<1>6. client'[r] = "flushing" /\ client[r] # "flushing" => "end" \in seen'[r]
  BY <1>2, <1>5
<1>7. ASSUME NEW q \in StreamRequests, LastFrameSent(q) PROVE LastFrameSent(q)'
  <2>1. CASE q # r
    BY <1>2, <1>5, <1>7, <2>1 DEF LastFrameSent
  <2>2. CASE "end" \in seen[q] \/ q \in dropped
    BY <1>2, <1>5, <2>2 DEF LastFrameSent
  <2>3. ASSUME q = r, NEW i \in 1 .. Len(before), before[i] = "end" PROVE LastFrameSent(q)'
    <3>1. CASE i = 1
      BY <1>3, <1>5, <2>3, <3>1 DEF LastFrameSent
    <3>2. CASE i # 1
      <4>1. i - 1 \in 1 .. Len(Tail(before)) /\ Tail(before)[i - 1] = "end"
        BY <1>3, <2>3, <3>2
      <4>2. frames'[r] = Tail(before)
        BY <1>2
      <4>. QED
        BY <2>3, <4>1, <4>2 DEF LastFrameSent
    <3>. QED
      BY <3>1, <3>2
  <2>. QED
    BY <1>1, <1>7, <2>1, <2>2, <2>3 DEF LastFrameSent
<1>. QED
  BY <1>4, <1>5, <1>6, <1>7

\* The last frame of a run reaches the response, or its loss is on record.
LEMMA FramesStay ==
  ASSUME PublishedTypeOK, RequestInv, FrameInv, EndIsExplained, [PublishedNext]_publishedVars
  PROVE  FrameInv' /\ EndIsExplained'
<1> USE PublishedTypes
<1>1. ASSUME UNCHANGED <<frames, seen, dropped>>
      PROVE  \A q \in StreamRequests : LastFrameSent(q)' <=> LastFrameSent(q)
  BY <1>1 DEF LastFrameSent
<1>2. ASSUME NEW r \in StreamRequests, RequestStep(r) PROVE FrameInv' /\ EndIsExplained'
  <2>1. CASE BeginRunTask(r)
    <3>1. UNCHANGED <<outcome, frames, seen, dropped>> /\ outcome[r] = "none"
      BY <2>1 DEF BeginRunTask, RequestInv
    <3>2. turn[r] = "none" /\ client' = [client EXCEPT ![r] = "fresh"] /\ turn' = [turn EXCEPT ![r] = "working"]
      BY <2>1 DEF BeginRunTask, RequestInv
    <3>. QED
      BY <1>1, <3>1, <3>2 DEF FrameInv, EndIsExplained
  <2>2. CASE FindThread(r)
    BY <1>1, <2>2, FindEffect DEF turnVars, FrameInv, EndIsExplained
  <2>3. CASE ~BeginRunTask(r) /\ ~FindThread(r)
    <3>1. UNCHANGED turnVars
      BY <1>2, <2>3 DEF RequestStep, AskRun, LoadPage, TakePermit, TooManyRuns, CreateThread, FailRequest,
                        AlreadyRunning
    <3>. QED
      BY <1>1, <3>1 DEF turnVars, FrameInv, EndIsExplained
  <2>. QED
    BY <2>1, <2>2, <2>3
<1>3. ASSUME NEW r \in StreamRequests, RunStep(r) PROVE FrameInv' /\ EndIsExplained'
  <2>1. ASSUME NEW f \in {"text", "part"}, SendFrame(r, f) PROVE FrameInv' /\ EndIsExplained'
    <3>1. UNCHANGED <<turn, outcome, client, seen>> /\ Push(r, f) /\ f \in FrameKinds
      BY <2>1 DEF SendFrame, FrameKinds
    <3>. QED
      BY <3>1, PushEffect DEF FrameInv, EndIsExplained
  <2>2. ASSUME NEW how \in {"answered", "stopped"}, EndRun(r, how), Push(r, "end")
        PROVE  FrameInv' /\ EndIsExplained'
    <3>1. /\ UNCHANGED <<client, seen>> /\ turn[r] = "working" /\ "end" \in FrameKinds
          /\ turn' = [turn EXCEPT ![r] = "closing"] /\ outcome' = [outcome EXCEPT ![r] = how]
      BY <2>2 DEF EndRun, FrameKinds
    <3>2. /\ \A q \in StreamRequests : LastFrameSent(q) => LastFrameSent(q)'
          /\ LastFrameSent(r)' /\ dropped \subseteq dropped'
      BY <2>2, <3>1, PushEffect
    <3>. QED
      BY <3>1, <3>2 DEF FrameInv, EndIsExplained
  <2>3. CASE Raises(r)
    BY <1>1, <2>3 DEF Raises, EndRun, FrameInv, EndIsExplained
  <2>4. CASE GiveBackTurn(r) \/ GiveBackPermit(r)
    BY <1>1, <2>4 DEF GiveBackTurn, GiveBackPermit, FrameInv, EndIsExplained
  <2>. QED
    BY <1>3, <2>1, <2>2, <2>3, <2>4 DEF RunStep, Answered, SeesHalt
<1>4. ASSUME NEW r \in StreamRequests, ResponseStep(r) PROVE FrameInv' /\ EndIsExplained'
  <2>1. CASE OpenResponse(r) \/ LoseResponse(r)
    <3>1. /\ UNCHANGED <<turn, outcome, frames, seen, dropped>>
          /\ client' = [client EXCEPT ![r] = "reading"] \/ client' = [client EXCEPT ![r] = "lost"]
          /\ client[r] = "fresh"
      BY <2>1 DEF OpenResponse, LoseResponse, runVars
    <3>2. /\ \A q \in StreamRequests : q # r => client'[q] = client[q]
          /\ client'[r] \in {"reading", "lost"}
      BY <3>1
    <3>3. \A q \in StreamRequests : LastFrameSent(q)' <=> LastFrameSent(q)
      BY <1>1, <3>1
    <3>4. FrameInv'
      BY <3>1, <3>2, <3>3 DEF FrameInv
    <3>5. EndIsExplained'
      BY <3>1, <3>2, <3>3 DEF EndIsExplained
    <3>. QED
      BY <3>4, <3>5
  <2>2. CASE StopWaiting(r)
    BY <1>1, <2>2 DEF StopWaiting, runVars, FrameInv, EndIsExplained
  <2>3. CASE YieldFrame(r)
    <3>1. /\ UNCHANGED <<turn, outcome, dropped>> /\ client[r] \in {"reading", "flushing"}
          /\ \A q \in StreamRequests : q # r => client'[q] = client[q]
          /\ client'[r] \in {client[r], "flushing"}
      BY <2>3 DEF YieldFrame, runVars
    <3>2. /\ \A q \in StreamRequests : LastFrameSent(q) => LastFrameSent(q)'
          /\ \A q \in StreamRequests : seen[q] \subseteq seen'[q]
          /\ client'[r] = "flushing" /\ client[r] # "flushing" => "end" \in seen'[r]
      BY <2>3, YieldEffect
    <3>3. FrameInv'
      BY <3>1, <3>2 DEF FrameInv
    <3>4. ASSUME NEW q \in StreamRequests, client'[q] = "ended"
          PROVE  seen'[q] \cap {"end", "error"} # {} \/ q \in dropped'
      <4>1. client[q] = "ended" /\ seen[q] \subseteq seen'[q] /\ dropped' = dropped
        BY <3>1, <3>2, <3>4
      <4>. QED
        BY <4>1 DEF EndIsExplained
    <3>5. EndIsExplained'
      BY <3>4 DEF EndIsExplained
    <3>. QED
      BY <3>3, <3>5
  <2>4. CASE EndResponse(r)
    <3>1. /\ UNCHANGED <<turn, outcome, dropped, frames>>
          /\ client[r] = "flushing" /\ frames[r] = <<>> /\ client' = [client EXCEPT ![r] = "ended"]
      BY <2>4 DEF EndResponse, runVars
    <3>2. \A q \in StreamRequests : seen[q] \subseteq seen'[q]
      BY <2>4 DEF EndResponse
    <3>3. "end" \notin seen[r] /\ turn[r] = "done" /\ outcome[r] = "raised" => "error" \in seen'[r]
      BY <2>4 DEF EndResponse
    <3>4. \A q \in StreamRequests : LastFrameSent(q) => LastFrameSent(q)'
      BY <3>1, <3>2 DEF LastFrameSent
    <3>5. LastFrameSent(r) => "end" \in seen[r] \/ r \in dropped
      BY <3>1 DEF LastFrameSent
    <3>6. "end" \in seen[r] \/ r \in dropped \/ "error" \in seen'[r]
      BY <3>1, <3>3, <3>5 DEF FrameInv, RequestInv
    <3>7. FrameInv'
      BY <3>1, <3>2, <3>4 DEF FrameInv
    <3>8. EndIsExplained'
      BY <3>1, <3>2, <3>6 DEF EndIsExplained
    <3>. QED
      BY <3>7, <3>8
  <2>5. CASE VanishClient(r)
    <3>1. UNCHANGED <<frames, seen, dropped>> /\ client' = [client EXCEPT ![r] = "gone"]
      BY <2>5 DEF VanishClient
    <3>2. /\ \A q \in StreamRequests : q # r => outcome'[q] = outcome[q] /\ turn'[q] = turn[q]
          /\ outcome'[r] \in {outcome[r], "cancelled"}
      BY <2>5 DEF VanishClient
    <3>3. /\ \A q \in StreamRequests : q # r => client'[q] = client[q]
          /\ client'[r] = "gone"
      BY <3>1
    <3>4. \A q \in StreamRequests : LastFrameSent(q)' <=> LastFrameSent(q)
      BY <1>1, <3>1
    <3>5. FrameInv'
      BY <3>1, <3>2, <3>3, <3>4 DEF FrameInv
    <3>6. EndIsExplained'
      BY <3>1, <3>3 DEF EndIsExplained
    <3>. QED
      BY <3>5, <3>6
  <2>. QED
    BY <1>4, <2>1, <2>2, <2>3, <2>4, <2>5 DEF ResponseStep
<1>5. ASSUME UNCHANGED turnVars PROVE FrameInv' /\ EndIsExplained'
  BY <1>1, <1>5 DEF turnVars, FrameInv, EndIsExplained
<1>6. ASSUME PublisherStep \/ UNCHANGED publishedVars PROVE UNCHANGED turnVars
  BY <1>6 DEF PublisherStep, AbortThread, AbortPage, AbortCall, SwitchSurface, RevokeKey, IssueKey,
              DeletePublish, Manage, publishedVars, turnVars
<1>. QED
  BY <1>2, <1>3, <1>4, <1>5, <1>6, StepIsOfSomebody

-----------------------------------------------------------------------------
(***************************************************************************)
(* The slots, and the conversations.                                       *)
(***************************************************************************)
Holds(r) == r \notin Loads /\ (asking[r] \in {"find", "insert", "claim"} \/ turn[r] \in Working)

LEMMA HoldersHold == Holders = {r \in StreamRequests : Holds(r)} /\ Holders' = {r \in StreamRequests : Holds(r)'}
  BY DEF Holders, Holds

\* Slots that are free and slots that are held make up the semaphore: a step takes one for
\* one request, gives one back for one request, or does neither.
LEMMA OneSlotAtATime ==
  ASSUME PublishedTypeOK, PermitsAreCounted, UNCHANGED situation, NEW r \in StreamRequests,
         \A q \in StreamRequests : q # r => (Holds(q)' <=> Holds(q)),
         \/ permits' = permits /\ (Holds(r)' <=> Holds(r))
         \/ permits > 0 /\ permits' = permits - 1 /\ ~Holds(r) /\ Holds(r)'
         \/ permits' = permits + 1 /\ Holds(r) /\ ~Holds(r)'
  PROVE  PermitsAreCounted' /\ permits' \in 0 .. situation.slots
<1>1. /\ permits + Cardinality(Holders) = situation.slots
      /\ PermitsAreCounted' <=> permits' + Cardinality(Holders') = situation'.slots
  BY DEF PermitsAreCounted, Holders
<1>2. Holders \subseteq StreamRequests /\ IsFiniteSet(Holders) /\ Cardinality(Holders) \in Nat
  <2>1. Holders \subseteq StreamRequests /\ IsFiniteSet(StreamRequests)
    BY PublishedAssumption DEF PublishedAssumption, Holders
  <2>. QED
    BY <2>1, FS_Subset, FS_CardinalityType
<1>3. permits \in Nat /\ situation.slots \in Nat
  BY PublishedTypes, PublishedAssumption DEF PublishedAssumption
<1>4. CASE permits' = permits /\ (Holds(r)' <=> Holds(r))
  <2>1. Holders' = Holders
    BY <1>4, HoldersHold
  <2>. QED
    BY <1>1, <1>2, <1>3, <1>4, <2>1
<1>5. CASE permits > 0 /\ permits' = permits - 1 /\ ~Holds(r) /\ Holds(r)'
  <2>1. r \notin Holders /\ Holders' = Holders \cup {r}
    BY <1>5, HoldersHold
  <2>2. Cardinality(Holders') = Cardinality(Holders) + 1
    BY <1>2, <2>1, FS_AddElement
  <2>. QED
    BY <1>1, <1>2, <1>3, <1>5, <2>2
<1>6. CASE permits' = permits + 1 /\ Holds(r) /\ ~Holds(r)'
  <2>1. r \in Holders /\ Holders' = Holders \ {r}
    BY <1>6, HoldersHold
  <2>2. Cardinality(Holders') = Cardinality(Holders) - 1 /\ Cardinality(Holders') \in Nat
    BY <1>2, <2>1, FS_RemoveElement, FS_CardinalityType
  <2>. QED
    BY <1>1, <1>2, <1>3, <1>6, <2>2
<1>. QED
  BY <1>4, <1>5, <1>6

LEMMA PermitsStay ==
  ASSUME PublishedTypeOK, RequestInv, PermitsAreCounted, [PublishedNext]_publishedVars
  PROVE  PermitsAreCounted' /\ permits' \in 0 .. situation.slots /\ situation' = situation
<1> USE PublishedTypes DEF RequestInv, Working
<1>0. ASSUME UNCHANGED <<situation, permits>>, \A q \in StreamRequests : Holds(q)' <=> Holds(q)
      PROVE  PermitsAreCounted' /\ permits' \in 0 .. situation.slots
  <2>1. Holders' = Holders
    BY <1>0, HoldersHold
  <2>. QED
    BY <1>0, <2>1 DEF PermitsAreCounted, Holders
<1>1. ASSUME NEW r \in StreamRequests, RequestStep(r)
      PROVE  PermitsAreCounted' /\ permits' \in 0 .. situation.slots /\ situation' = situation
  <2>1. UNCHANGED situation
    BY <1>1 DEF RequestStep, AskRun, LoadPage, TakePermit, TooManyRuns, FindThread, CreateThread,
                FailRequest, BeginRunTask, AlreadyRunning
  <2>2. \A q \in StreamRequests : q # r => (Holds(q)' <=> Holds(q))
    BY <1>1 DEF RequestStep, AskRun, LoadPage, TakePermit, TooManyRuns, FindThread, CreateThread, Found,
                FailRequest, BeginRunTask, AlreadyRunning, turnVars, Holds, Loads
  <2>3. CASE TakePermit(r)
    <3>1. permits > 0 /\ permits' = permits - 1 /\ ~Holds(r) /\ Holds(r)'
      BY <2>3 DEF TakePermit, turnVars, Holds, Loads
    <3>. QED
      BY <2>1, <2>2, <3>1, OneSlotAtATime
  <2>4. CASE FailRequest(r) \/ AlreadyRunning(r)
    <3>1. \/ permits' = permits /\ (Holds(r)' <=> Holds(r))
          \/ permits' = permits + 1 /\ Holds(r) /\ ~Holds(r)'
      BY <2>4 DEF FailRequest, AlreadyRunning, turnVars, Holds, Loads
    <3>. QED
      BY <2>1, <2>2, <3>1, OneSlotAtATime
  <2>5. CASE AskRun(r) \/ LoadPage(r) \/ TooManyRuns(r) \/ FindThread(r) \/ CreateThread(r) \/ BeginRunTask(r)
    <3>1. permits' = permits /\ (Holds(r)' <=> Holds(r))
      BY <2>5 DEF AskRun, LoadPage, TooManyRuns, FindThread, CreateThread, Found, BeginRunTask, turnVars,
                  Holds, Loads
    <3>. QED
      BY <2>1, <2>2, <3>1, OneSlotAtATime
  <2>. QED
    BY <1>1, <2>1, <2>3, <2>4, <2>5 DEF RequestStep
<1>2. ASSUME NEW r \in StreamRequests, RunStep(r)
      PROVE  PermitsAreCounted' /\ permits' \in 0 .. situation.slots /\ situation' = situation
  <2>1. UNCHANGED <<situation, asking>>
    BY <1>2 DEF RunStep, SendFrame, Answered, Raises, SeesHalt, EndRun, GiveBackTurn, GiveBackPermit, requestVars
  <2>2. \A q \in StreamRequests : q # r => (Holds(q)' <=> Holds(q))
    BY <1>2, <2>1 DEF RunStep, SendFrame, Answered, Raises, SeesHalt, EndRun, GiveBackTurn, GiveBackPermit,
                      Holds, Loads
  <2>3. CASE GiveBackPermit(r)
    <3>1. permits' = permits + 1 /\ Holds(r) /\ ~Holds(r)'
      BY <2>1, <2>3 DEF GiveBackPermit, Holds, Loads
    <3>. QED
      BY <2>1, <2>2, <3>1, OneSlotAtATime
  <2>4. CASE ~GiveBackPermit(r)
    <3>1. permits' = permits /\ (Holds(r)' <=> Holds(r))
      BY <1>2, <2>1, <2>4 DEF RunStep, SendFrame, Answered, Raises, SeesHalt, EndRun, GiveBackTurn, Holds, Loads
    <3>. QED
      BY <2>1, <2>2, <3>1, OneSlotAtATime
  <2>. QED
    BY <2>1, <2>3, <2>4
<1>3. ASSUME NEW r \in StreamRequests, ResponseStep(r)
      PROVE  PermitsAreCounted' /\ permits' \in 0 .. situation.slots /\ situation' = situation
  <2>1. UNCHANGED <<situation, permits, asking>>
    BY <1>3 DEF ResponseStep, OpenResponse, YieldFrame, StopWaiting, EndResponse, VanishClient, LoseResponse,
                runVars, requestVars
  <2>2. \A q \in StreamRequests : turn'[q] \in Working <=> turn[q] \in Working
    BY <1>3 DEF ResponseStep, OpenResponse, YieldFrame, StopWaiting, EndResponse, VanishClient, LoseResponse,
                runVars
  <2>. QED
    BY <1>0, <2>1, <2>2 DEF Holds, Loads
<1>4. ASSUME PublisherStep \/ UNCHANGED publishedVars
      PROVE  PermitsAreCounted' /\ permits' \in 0 .. situation.slots /\ situation' = situation
  <2>1. UNCHANGED <<situation, permits, asking, turn>>
    BY <1>4 DEF PublisherStep, AbortThread, AbortPage, AbortCall, SwitchSurface, RevokeKey, IssueKey,
                DeletePublish, Manage, publishedVars, turnVars, requestVars
  <2>. QED
    BY <1>0, <2>1 DEF Holds, Loads
<1>. QED
  BY <1>1, <1>2, <1>3, <1>4, StepIsOfSomebody

\* A conversation is made by a request that has not made one before.
LEMMA MadeStays ==
  ASSUME PublishedTypeOK, RequestInv, MadeInv, [PublishedNext]_publishedVars
  PROVE  MadeInv' /\ threads' \in Seq(Scopes) /\ Len(threads') <= Cardinality(StreamRequests)
<1> USE PublishedTypes
<1>1. IsFiniteSet(StreamRequests) /\ Makers \subseteq StreamRequests /\ Makers' \subseteq StreamRequests
  BY PublishedAssumption DEF PublishedAssumption, Makers
<1>2. /\ IsFiniteSet(Makers) /\ IsFiniteSet(Makers')
      /\ Cardinality(Makers) \in Nat /\ Cardinality(Makers') \in Nat
      /\ Cardinality(Makers') <= Cardinality(StreamRequests) /\ Cardinality(StreamRequests) \in Nat
  BY <1>1, FS_Subset, FS_CardinalityType
<1>3. ASSUME UNCHANGED threads, Makers \subseteq Makers'
      PROVE  MadeInv' /\ threads' \in Seq(Scopes) /\ Len(threads') <= Cardinality(StreamRequests)
  <2>1. Cardinality(Makers) <= Cardinality(Makers')
    BY <1>2, <1>3, FS_Subset
  <2>. QED
    BY <1>2, <1>3, <2>1 DEF MadeInv
<1>4. ASSUME NEW r \in StreamRequests, CreateThread(r)
      PROVE  MadeInv' /\ threads' \in Seq(Scopes) /\ Len(threads') <= Cardinality(StreamRequests)
  <2>1. /\ r \notin Makers /\ Makers' = Makers \cup {r}
        /\ threads' = Append(threads, situation.scope[r]) /\ situation.scope[r] \in Scopes
    BY <1>4, PublishedAssumption DEF CreateThread, Found, Makers, ScopeOf, PublishedAssumption
  <2>2. Cardinality(Makers') = Cardinality(Makers) + 1
    BY <1>2, <2>1, FS_AddElement
  <2>3. threads' \in Seq(Scopes) /\ Len(threads') = Len(threads) + 1 /\ Len(threads) \in Nat
    BY <2>1
  <2>. QED
    BY <1>2, <2>2, <2>3 DEF MadeInv
<1>5. ASSUME NEW r \in StreamRequests, RequestStep(r), ~CreateThread(r)
      PROVE  UNCHANGED threads /\ Makers \subseteq Makers'
  BY <1>5 DEF RequestStep, AskRun, LoadPage, TakePermit, TooManyRuns, FindThread, Found, FailRequest,
              BeginRunTask, AlreadyRunning, Makers
<1>6. ASSUME NEW r \in StreamRequests, RunStep(r) \/ ResponseStep(r)
      PROVE  UNCHANGED threads /\ Makers \subseteq Makers'
  BY <1>6 DEF RunStep, SendFrame, Answered, Raises, SeesHalt, EndRun, GiveBackTurn, GiveBackPermit, ResponseStep,
              OpenResponse, YieldFrame, StopWaiting, EndResponse, VanishClient, LoseResponse, runVars, requestVars,
              Makers
<1>7. ASSUME PublisherStep \/ UNCHANGED publishedVars PROVE UNCHANGED threads /\ Makers \subseteq Makers'
  BY <1>7 DEF PublisherStep, AbortThread, AbortPage, AbortCall, SwitchSurface, RevokeKey, IssueKey,
              DeletePublish, Manage, publishedVars, requestVars, Makers
<1>. QED
  BY <1>3, <1>4, <1>5, <1>6, <1>7, StepIsOfSomebody

-----------------------------------------------------------------------------
(***************************************************************************)
(* The types, and the theorems.                                            *)
(***************************************************************************)
\* The variables of a request stay in their types.
RequestTypes ==
  /\ grants \subseteq Granted
  /\ claimed \subseteq 1 .. Len(threads) /\ halted \subseteq 1 .. Len(threads)
  /\ asking \in [StreamRequests -> {"idle", "slot", "find", "insert", "claim", "answered", "refused"}]
  /\ conversation \in [StreamRequests -> 0 .. Len(threads)]

\* Those of a run and of its response.
RunTypes ==
  /\ turn \in [StreamRequests -> {"none", "done"} \cup Working]
  /\ outcome \in [StreamRequests -> {"none", "answered", "raised", "stopped", "cancelled"}]
  /\ frames \in [StreamRequests -> {q \in Seq(FrameKinds) : Len(q) <= FrameLimit}]
  /\ client \in [StreamRequests -> {"none", "fresh", "reading", "flushing", "ended", "gone", "lost"}]
  /\ seen \in [StreamRequests -> SUBSET {"text", "part", "end", "error"}]
  /\ dropped \subseteq StreamRequests /\ halts \subseteq StreamRequests

BudgetTypes ==
  budget \in [sent : [StreamRequests -> 0 .. situation.frames], aborts : 0 .. situation.aborts,
              switches : 0 .. situation.switches]

TypeParts ==
  /\ situation \in Situations /\ threads \in Seq(Scopes) /\ Len(threads) <= Cardinality(StreamRequests)
  /\ permits \in 0 .. situation.slots /\ RequestTypes /\ RunTypes /\ BudgetTypes

LEMMA TypesInParts == PublishedTypeOK <=> TypeParts
  BY PublishedTypes DEF TypeParts, RequestTypes, RunTypes, BudgetTypes

LEMMA TypesStay ==
  ASSUME PublishedTypeOK, RequestInv, [PublishedNext]_publishedVars,
         threads' \in Seq(Scopes)
  PROVE  RequestTypes' /\ RunTypes' /\ BudgetTypes'
<1>0. /\ RequestTypes /\ RunTypes /\ BudgetTypes /\ situation \in Situations
      /\ threads \in Seq(Scopes) /\ Len(threads) \in Nat
      /\ situation.frames \in Nat /\ situation.aborts \in Nat /\ situation.switches \in Nat
  BY TypesInParts, PublishedAssumption DEF PublishedAssumption, TypeParts
<1>1. ASSUME NEW r \in StreamRequests, RequestStep(r) PROVE RequestTypes' /\ RunTypes' /\ BudgetTypes'
  <2>1. CASE FindThread(r)
    <3>1. UNCHANGED <<situation, grants, threads, claimed, halted, turnVars, halts, budget>>
      BY <2>1, FindEffect
    <3>2. asking' \in [StreamRequests -> {"idle", "slot", "find", "insert", "claim", "answered", "refused"}]
      BY <1>0, <2>1 DEF FindThread, Found, RequestTypes
    <3>3. conversation' \in [StreamRequests -> 0 .. Len(threads)]
      BY <1>0, <2>1, FindEffect DEF RequestTypes
    <3>. QED
      BY <1>0, <3>1, <3>2, <3>3 DEF turnVars, RequestTypes, RunTypes, BudgetTypes
  <2>2. CASE CreateThread(r)
    <3>1. /\ UNCHANGED <<situation, grants, claimed, halted, turnVars, halts, budget>>
          /\ threads' = Append(threads, situation.scope[r]) /\ situation.scope[r] \in Scopes
          /\ conversation' = [conversation EXCEPT ![r] = Len(threads')]
      BY <1>0, <2>2, PublishedAssumption DEF CreateThread, ScopeOf, PublishedAssumption
    <3>2. asking' \in [StreamRequests -> {"idle", "slot", "find", "insert", "claim", "answered", "refused"}]
      BY <1>0, <2>2 DEF CreateThread, Found, RequestTypes
    <3>3. PICK n \in Nat : n = Len(threads) /\ Len(threads') = n + 1
      BY <1>0, <3>1
    <3>4. RequestTypes'
      <4>1. conversation' \in [StreamRequests -> 0 .. n + 1]
        BY <1>0, <3>1, <3>3 DEF RequestTypes
      <4>2. 1 .. n \subseteq 1 .. n + 1
        BY <3>3
      <4>. QED
        BY <1>0, <3>1, <3>2, <3>3, <4>1, <4>2 DEF RequestTypes
    <3>. QED
      BY <1>0, <3>1, <3>4 DEF turnVars, RunTypes, BudgetTypes
  <2>3. CASE AskRun(r) \/ LoadPage(r) \/ TakePermit(r) \/ TooManyRuns(r) \/ FailRequest(r) \/ AlreadyRunning(r)
    BY <1>0, <2>3 DEF AskRun, LoadPage, TakePermit, TooManyRuns, FailRequest, AlreadyRunning, turnVars,
                      RequestTypes, RunTypes, BudgetTypes
  <2>4. CASE BeginRunTask(r)
    <3>1. conversation[r] \in 1 .. Len(threads)
      BY <1>0, <2>4 DEF BeginRunTask, RequestInv, RequestTypes
    <3>2. RequestTypes'
      BY <1>0, <2>4, <3>1 DEF BeginRunTask, RequestTypes
    <3>3. RunTypes' /\ BudgetTypes'
      BY <1>0, <2>4 DEF BeginRunTask, Working, RunTypes, BudgetTypes
    <3>. QED
      BY <3>2, <3>3
  <2>. QED
    BY <1>1, <2>1, <2>2, <2>3, <2>4 DEF RequestStep
<1>2. ASSUME NEW r \in StreamRequests, RunStep(r) PROVE RequestTypes' /\ RunTypes' /\ BudgetTypes'
  <2>1. ASSUME NEW f \in FrameKinds, Push(r, f), UNCHANGED seen
        PROVE  /\ frames' \in [StreamRequests -> {q \in Seq(FrameKinds) : Len(q) <= FrameLimit}]
               /\ dropped' \subseteq StreamRequests
    BY <2>1, PushEffect
  <2>2. ASSUME NEW f \in {"text", "part"}, SendFrame(r, f) PROVE RequestTypes' /\ RunTypes' /\ BudgetTypes'
    <3>1. /\ Push(r, f) /\ f \in FrameKinds
          /\ UNCHANGED <<requestVars, claimed, halted, turn, outcome, client, seen, halts>>
      BY <2>2 DEF SendFrame, FrameKinds
    <3>2. BudgetTypes'
      <4>1. budget.sent[r] < situation.frames /\ budget' = [budget EXCEPT !.sent[r] = @ + 1] /\ UNCHANGED situation
        BY <2>2 DEF SendFrame, requestVars
      <4>2. PICK sent \in [StreamRequests -> 0 .. situation.frames], aborts \in 0 .. situation.aborts,
                 switches \in 0 .. situation.switches :
              budget = [sent |-> sent, aborts |-> aborts, switches |-> switches]
        BY <1>0 DEF BudgetTypes
      <4>3. budget' = [sent |-> [sent EXCEPT ![r] = @ + 1], aborts |-> aborts, switches |-> switches]
        BY <4>1, <4>2
      <4>4. [sent EXCEPT ![r] = @ + 1] \in [StreamRequests -> 0 .. situation.frames]
        BY <1>0, <4>1, <4>2
      <4>. QED
        BY <4>1, <4>2, <4>3, <4>4 DEF BudgetTypes
    <3>. QED
      BY <1>0, <2>1, <3>1, <3>2 DEF requestVars, RequestTypes, RunTypes
  <2>3. ASSUME NEW how \in {"answered", "stopped"}, EndRun(r, how), Push(r, "end")
        PROVE  RequestTypes' /\ RunTypes' /\ BudgetTypes'
    <3>1. "end" \in FrameKinds /\ UNCHANGED seen
      BY <2>3 DEF EndRun, FrameKinds
    <3>. QED
      BY <1>0, <2>1, <2>3, <3>1 DEF EndRun, requestVars, Working, RequestTypes, RunTypes, BudgetTypes
  <2>4. CASE Raises(r) \/ GiveBackTurn(r) \/ GiveBackPermit(r)
    BY <1>0, <2>4 DEF Raises, EndRun, GiveBackTurn, GiveBackPermit, requestVars, Working,
                      RequestTypes, RunTypes, BudgetTypes
  <2>. QED
    BY <1>2, <2>2, <2>3, <2>4 DEF RunStep, Answered, SeesHalt
<1>3. ASSUME NEW r \in StreamRequests, ResponseStep(r) PROVE RequestTypes' /\ RunTypes' /\ BudgetTypes'
  <2>1. CASE YieldFrame(r)
    <3>1. /\ frames' \in [StreamRequests -> {q \in Seq(FrameKinds) : Len(q) <= FrameLimit}]
          /\ seen' \in [StreamRequests -> SUBSET {"text", "part", "end", "error"}]
      BY <2>1, YieldEffect
    <3>2. /\ UNCHANGED <<runVars, claimed, halted, halts>>
          /\ client' \in [StreamRequests -> {"none", "fresh", "reading", "flushing", "ended", "gone", "lost"}]
      BY <1>0, <2>1 DEF YieldFrame, RunTypes
    <3>. QED
      BY <1>0, <3>1, <3>2 DEF runVars, requestVars, RequestTypes, RunTypes, BudgetTypes
  <2>2. CASE VanishClient(r)
    <3>1. conversation[r] \in 1 .. Len(threads)
      BY <1>0, <2>2 DEF VanishClient, RequestInv, RequestTypes
    <3>2. /\ UNCHANGED <<requestVars, claimed, frames, seen, dropped, budget>>
          /\ halted' = halted \cup {conversation[r]} /\ halts' \subseteq halts \cup StreamRequests
      BY <2>2 DEF VanishClient, Halt
    <3>3. /\ turn' \in [StreamRequests -> {"none", "done"} \cup Working]
          /\ outcome' \in [StreamRequests -> {"none", "answered", "raised", "stopped", "cancelled"}]
          /\ client' \in [StreamRequests -> {"none", "fresh", "reading", "flushing", "ended", "gone", "lost"}]
      BY <1>0, <2>2 DEF VanishClient, RunTypes, Working
    <3>. QED
      BY <1>0, <3>1, <3>2, <3>3 DEF requestVars, RequestTypes, RunTypes, BudgetTypes
  <2>3. CASE OpenResponse(r) \/ StopWaiting(r) \/ LoseResponse(r)
    BY <1>0, <2>3 DEF OpenResponse, StopWaiting, LoseResponse, runVars, requestVars,
                      RequestTypes, RunTypes, BudgetTypes
  <2>4. CASE EndResponse(r)
    <3>1. seen' \in [StreamRequests -> SUBSET {"text", "part", "end", "error"}]
      BY <1>0, <2>4 DEF EndResponse, RunTypes
    <3>. QED
      BY <1>0, <2>4, <3>1 DEF EndResponse, runVars, requestVars, RequestTypes, RunTypes, BudgetTypes
  <2>. QED
    BY <1>3, <2>1, <2>2, <2>3, <2>4 DEF ResponseStep
<1>4. ASSUME PublisherStep PROVE RequestTypes' /\ RunTypes' /\ BudgetTypes'
  <2>1. ASSUME NEW s \in Scopes, AbortCall(s) PROVE RequestTypes' /\ RunTypes' /\ BudgetTypes'
    <3>1. PICK n \in 0 .. Len(threads) : n = Newest(s)
      BY <1>0, NewestIsOfScope
    <3>2. /\ UNCHANGED <<requestVars, claimed, turnVars>>
          /\ n # 0 => halted' = halted \cup {n} /\ halts' \subseteq halts \cup StreamRequests
          /\ n = 0 => UNCHANGED <<halted, halts>>
      BY <2>1, <3>1 DEF AbortCall, Halt
    <3>3. BudgetTypes'
      <4>1. budget.aborts < situation.aborts /\ budget' = [budget EXCEPT !.aborts = @ + 1] /\ UNCHANGED situation
        BY <2>1 DEF AbortCall, requestVars
      <4>2. PICK sent \in [StreamRequests -> 0 .. situation.frames], aborts \in 0 .. situation.aborts,
                 switches \in 0 .. situation.switches :
              budget = [sent |-> sent, aborts |-> aborts, switches |-> switches]
        BY <1>0 DEF BudgetTypes
      <4>3. budget' = [sent |-> sent, aborts |-> aborts + 1, switches |-> switches]
        BY <4>1, <4>2
      <4>4. aborts + 1 \in 0 .. situation.aborts
        BY <1>0, <4>1, <4>2
      <4>5. budget' \in [sent : [StreamRequests -> 0 .. situation.frames], aborts : 0 .. situation.aborts,
                         switches : 0 .. situation.switches]
        BY <4>3, <4>4
      <4>. QED
        BY <4>1, <4>5 DEF BudgetTypes
    <3>4. RunTypes'
      BY <1>0, <3>1, <3>2 DEF turnVars, RunTypes
    <3>5. RequestTypes'
      <4>1. CASE n = 0
        BY <1>0, <3>2, <4>1 DEF requestVars, RequestTypes
      <4>2. CASE n # 0
        <5>1. /\ n \in 1 .. Len(threads) /\ halted' = halted \cup {n}
              /\ UNCHANGED <<grants, threads, asking, conversation, claimed>>
          BY <3>1, <3>2, <4>2 DEF requestVars
        <5>. QED
          BY <1>0, <5>1 DEF RequestTypes
      <4>. QED
        BY <4>1, <4>2
    <3>. QED
      BY <3>3, <3>4, <3>5
  <2>2. ASSUME NEW G \in SUBSET Granted, Manage(G) PROVE RequestTypes' /\ RunTypes' /\ BudgetTypes'
    <3>1. BudgetTypes'
      <4>1. /\ budget.switches < situation.switches /\ budget' = [budget EXCEPT !.switches = @ + 1]
            /\ UNCHANGED situation
        BY <2>2 DEF Manage
      <4>. QED
        BY <1>0, <4>1 DEF BudgetTypes
    <3>. QED
      BY <1>0, <2>2, <3>1 DEF Manage, turnVars, RequestTypes, RunTypes
  <2>3. ASSUME NEW g \in {"api", "page", "open"}, SwitchSurface(g) PROVE \E G \in SUBSET Granted : Manage(G)
    <3>1. (IF g \in grants THEN grants \ {g} ELSE grants \cup {g}) \in SUBSET Granted
      BY <1>0 DEF RequestTypes, Granted
    <3>. QED
      BY <2>3, <3>1, Zenon DEF SwitchSurface
  <2>4. ASSUME RevokeKey \/ IssueKey \/ DeletePublish PROVE \E G \in SUBSET Granted : Manage(G)
    <3>1. {grants \ {"key"}, grants \cup {"key"}, {}} \subseteq SUBSET Granted
      BY <1>0 DEF RequestTypes, Granted
    <3>. QED
      BY <2>4, <3>1, Zenon DEF RevokeKey, IssueKey, DeletePublish
  <2>. QED
    BY <1>4, <2>1, <2>2, <2>3, <2>4 DEF PublisherStep, AbortThread, AbortPage
<1>5. ASSUME UNCHANGED publishedVars PROVE RequestTypes' /\ RunTypes' /\ BudgetTypes'
  BY <1>0, <1>5 DEF publishedVars, RequestTypes, RunTypes, BudgetTypes
<1>. QED
  BY <1>1, <1>2, <1>3, <1>4, <1>5, StepIsOfSomebody

LEMMA PublishedInitially == PublishedInit => PublishedInv
<1> SUFFICES ASSUME PublishedInit PROVE PublishedInv
  OBVIOUS
<1>1. Cardinality(StreamRequests) \in Nat /\ Cardinality(Makers) = 0 /\ Cardinality(Holders) = 0
  <2>1. Makers = {} /\ Holders = {}
    BY DEF PublishedInit, Makers, Holders, Working
  <2>. QED
    BY <2>1, FS_EmptySet, FS_CardinalityType, PublishedAssumption DEF PublishedAssumption
<1>2. /\ situation \in Situations /\ situation.slots \in Nat \ {0} /\ situation.frames \in Nat
      /\ situation.aborts \in Nat /\ situation.switches \in Nat /\ FrameLimit \in Nat
  BY PublishedAssumption DEF PublishedInit, PublishedAssumption
<1>3. PublishedTypeOK
  <2>1. /\ threads \in Seq(Scopes) /\ Len(threads) = 0
        /\ \A q \in StreamRequests : frames[q] \in Seq(FrameKinds) /\ Len(frames[q]) = 0
    BY DEF PublishedInit
  <2>2. RequestTypes /\ RunTypes /\ BudgetTypes
    BY <1>2, <2>1 DEF PublishedInit, RequestTypes, RunTypes, BudgetTypes
  <2>. QED
    BY <1>1, <1>2, <2>1, <2>2, TypesInParts DEF PublishedInit, TypeParts
<1>4. PublishedRunsAreApart
  BY <1>1, <1>2 DEF PublishedInit, PublishedRunsAreApart, PermitsAreCounted, Holders, ThreadsAreApart,
                    HaltIsForThisRun, EndIsExplained
<1>5. RequestInv /\ MadeInv /\ ClaimInv /\ HaltInv /\ FrameInv
  BY <1>1 DEF PublishedInit, RequestInv, MadeInv, ClaimInv, HaltInv, FrameInv
<1>. QED
  BY <1>3, <1>4, <1>5 DEF PublishedInv

LEMMA PublishedInvStays == PublishedInv /\ [PublishedNext]_publishedVars => PublishedInv'
<1> SUFFICES ASSUME PublishedInv, [PublishedNext]_publishedVars PROVE PublishedInv'
  OBVIOUS
<1> USE DEF PublishedInv
<1>1. RequestInv'
  BY RequestStays
<1>2. ClaimInv' /\ ThreadsAreApart'
  <2>1. ApartInv
    BY ApartIsApart DEF PublishedRunsAreApart
  <2>2. ClaimInv' /\ ApartInv'
    BY <2>1, ClaimsStay
  <2>3. ThreadsAreApart' <=> ApartInv'
    BY DEF ThreadsAreApart, ApartInv, ScopeOf
  <2>. QED
    BY <2>2, <2>3
<1>3. HaltInv' /\ HaltIsForThisRun'
  BY HaltsStay DEF PublishedRunsAreApart
<1>4. FrameInv' /\ EndIsExplained'
  BY FramesStay DEF PublishedRunsAreApart
<1>5. PermitsAreCounted' /\ permits' \in 0 .. situation.slots /\ situation' = situation
  BY PermitsStay DEF PublishedRunsAreApart
<1>6. MadeInv' /\ threads' \in Seq(Scopes) /\ Len(threads') <= Cardinality(StreamRequests)
  BY MadeStays
<1>7. RequestTypes' /\ RunTypes' /\ BudgetTypes'
  BY <1>6, TypesStay
<1>8. PublishedTypeOK'
  <2>1. situation' \in Situations /\ permits' \in 0 .. situation'.slots
    BY <1>5, PublishedTypes
  <2>2. TypeParts'
    BY <1>6, <1>7, <2>1 DEF TypeParts
  <2>. QED
    BY <2>2, TypesInParts, PTL
<1>. QED
  BY <1>1, <1>2, <1>3, <1>4, <1>5, <1>6, <1>8 DEF PublishedRunsAreApart

LEMMA PublishedInvHolds == PublishedSpec => []PublishedInv
<1>1. PublishedInit => PublishedInv
  BY PublishedInitially
<1>2. PublishedInv /\ [PublishedNext]_publishedVars => PublishedInv'
  BY PublishedInvStays
<1>. QED
  BY <1>1, <1>2, PTL DEF PublishedSpec

\* The variables of the published streams have their types, for any requests, scopes and
\* situations.
THEOREM PublishedTypeCorrect == PublishedSpec => []PublishedTypeOK
<1>1. PublishedInv => PublishedTypeOK
  BY DEF PublishedInv
<1>. QED
  BY <1>1, PublishedInvHolds, PTL

\* However requests, runs, Stops, clients that vanish and changes of the publisher interleave:
\* no slot is lost or freed twice, no two runs share a conversation, no run is ended by a Stop
\* that was meant for an earlier one, and a response that ended has said how (chat endpoints of
\* routers/publish.py, services/publish.py).
THEOREM PublishedRunsStayApart == PublishedSpec => []PublishedRunsAreApart
<1>1. PublishedInv => PublishedRunsAreApart
  BY DEF PublishedInv
<1>. QED
  BY <1>1, PublishedInvHolds, PTL

-----------------------------------------------------------------------------
(***************************************************************************)
(* The MCP servers of a turn (McpConnections).  McpInv: where the start of *)
(* a server, its task and its session stand together (LinkInv); a server   *)
(* in the manager's table is up and, until the cleanup, not told to close  *)
(* (TableInv); what the turn has behind it holds for all of its servers    *)
(* (AttachInv); a call keeps its shape (CallShape).                        *)
(***************************************************************************)
Links == [start : Starts, task : RunStates, via : {"streamable_http", "sse"},
          session : {"none", "good", "dead"}, ready : BOOLEAN, failed : BOOLEAN, shut : BOOLEAN,
          host : {Home, Away}, credentials : BOOLEAN]

\* The task of a start that nobody has interrupted is at work, or has given up its session.
Undisturbed(l) ==
  ~l.shut /\ l.task \in {"connecting", "live", "over"} /\ (l.task = "over" => l.session = "none")

LinkSane(l) ==
  /\ l.start \in {"off", "resolve"} => l.task = "none" /\ l.session = "none" /\ ~l.ready /\ ~l.failed /\ ~l.shut
  /\ l.start = "waiting" => Undisturbed(l)
  /\ l.task \notin {"none", "over"} => l.start \in {"waiting", "unwinding", "up"}
  /\ l.task = "live" => l.session = "good"
  /\ l.failed => l.task = "over"
  /\ l.credentials => l.host = Home

LinkInv == link \in [Servers -> Links] /\ \A s \in Servers : LinkSane(link[s])

TableInv ==
  /\ sessions \subseteq Servers
  /\ \A s \in sessions : /\ link[s].start = "up"
                         /\ attach \in {"gather", "attached", "running"} => Undisturbed(link[s])
  /\ TransportsHaveOwner

AttachInv ==
  /\ attach \in {"new", "gather", "attached", "running", "cleanup", "over"} /\ stillborn \in BOOLEAN
  /\ attach = "new" => sessions = {} /\ \A s \in Servers : link[s].start = "off"
  /\ attach \notin {"new", "gather"} => \A s \in Servers : link[s].start \in {"up", "refused"}
  /\ attach = "over" /\ ~stillborn => sessions = {}

CallShape ==
  \E T : call \in [ServerCalls -> [at : CallStates, allowed : BOOLEAN, text : T, images : T, bytes : T]]

McpInv == LinkInv /\ TableInv /\ AttachInv /\ CallShape /\ WritesAreAllowed

\* The server steps, by who makes them.
ServerStep(s) == McpStep(s) \/ Connected(s) \/ ConnectFails(s) \/ Lost(s)
CallStep(c) == Execute(c) \/ Confirm(c) \/ CallReturns(c)
TurnStep == Attach \/ Gathered \/ StopAttach \/ AgentBegins \/ Cleanup \/ AllClosed

LEMMA McpStepIsOfSomebody ==
  McpNext => TurnStep \/ (\E s \in Servers : ServerStep(s)) \/ \E c \in ServerCalls : CallStep(c)
  BY Zenon DEF McpNext, ServerStep, CallStep, TurnStep

\* Where a chain of redirects that kept its credentials has led: home.
LEMMA CredentialsFollowHome ==
  ASSUME NEW chain \in Chains, FollowRedirects(chain).credentials
  PROVE  FollowRedirects(chain).host = Home
<1> DEFINE n == IF Len(chain) < MaxHops THEN Len(chain) ELSE MaxHops
           Strayed == {i \in 1 .. n : Origin(chain, i) # Home}
<1>1. n \in Nat /\ Hops(chain) = 1 .. n /\ Cardinality(Hops(chain)) = n
  <2>1. Len(chain) \in Nat /\ MaxHops \in Nat
    BY McpAssumption DEF McpAssumption
  <2>2. n \in Nat /\ Hops(chain) = 1 .. n
    BY <2>1 DEF Hops
  <2> HIDE DEF n
  <2>3. Cardinality(1 .. n) = n
    BY <2>2, FS_Interval
  <2>. QED
    BY <2>2, <2>3
<1>2. \A i \in 1 .. n : Origin(chain, i) = Origin(chain, i - 1)
  BY <1>1 DEF FollowRedirects
<1> HIDE DEF n
<1>3. Strayed = {}
  <2>1. SUFFICES ASSUME Strayed # {} PROVE FALSE
    OBVIOUS
  <2>2. PICK i \in Strayed : \A j \in Strayed : ~(<<j, i>> \in OpToRel(<, Nat))
    <3>1. Strayed \subseteq Nat
      BY <1>1
    <3>. QED
      BY <2>1, <3>1, NatLessThanWellFounded, WFMin
  <2>3. i \in 1 .. n /\ Origin(chain, i - 1) # Home
    BY <1>2, <2>2
  <2>4. i - 1 # 0
    BY <2>3 DEF Origin
  <2>5. i - 1 \in Strayed /\ i - 1 \in Nat /\ i \in Nat
    BY <1>1, <2>3, <2>4
  <2>6. <<i - 1, i>> \in OpToRel(<, Nat)
    BY <2>5 DEF OpToRel
  <2>. QED
    BY <2>2, <2>5, <2>6
<1>4. Origin(chain, n) = Home
  BY <1>1, <1>3 DEF Origin
<1>. QED
  BY <1>1, <1>4 DEF FollowRedirects

\* What redirects lead to is an origin.
LEMMA RedirectsLeadSomewhere ==
  ASSUME NEW chain \in Chains
  PROVE  FollowRedirects(chain).host \in {Home, Away} /\ FollowRedirects(chain).credentials \in BOOLEAN
<1> DEFINE n == IF Len(chain) < MaxHops THEN Len(chain) ELSE MaxHops
<1>1. chain \in Seq([to : {Home, Away}, safe : BOOLEAN]) /\ MaxHops \in Nat
  BY McpAssumption, Zenon DEF McpAssumption
<1>2. Cardinality(Hops(chain)) = n /\ n \in 0 .. Len(chain)
  <2>1. n \in 0 .. Len(chain) /\ n \in Nat /\ Hops(chain) = 1 .. n
    BY <1>1 DEF Hops
  <2> HIDE DEF n
  <2>2. Cardinality(1 .. n) = n
    BY <2>1, FS_Interval
  <2>. QED
    BY <2>1, <2>2
<1>3. \A i \in 1 .. Len(chain) : chain[i].to \in {Home, Away}
  <2> DEFINE Hop == [to : {Home, Away}, safe : BOOLEAN]
  <2>1. chain \in Seq(Hop)
    BY <1>1
  <2>2. \A h \in Hop : h.to \in {Home, Away}
    OBVIOUS
  <2> HIDE DEF Hop
  <2>3. \A i \in 1 .. Len(chain) : chain[i] \in Hop
    BY <2>1
  <2>. QED
    BY <2>2, <2>3
<1> HIDE DEF n
<1>4. Origin(chain, n) \in {Home, Away}
  BY <1>1, <1>2, <1>3 DEF Origin
<1>. QED
  BY <1>2, <1>4 DEF FollowRedirects

\* What a connection that breaks turns into.
LEMMA BrokenEffect ==
  ASSUME NEW s \in Servers, NEW l \in Links, LinkSane(l), l.task \notin {"none", "over"}
  PROVE  /\ Broken(s, l) \in Links /\ LinkSane(Broken(s, l)) /\ Broken(s, l).start = l.start
         /\ Undisturbed(l) => Undisturbed(Broken(s, l))
  BY DEF Broken, Links, LinkSane, Undisturbed, Starts, RunStates

\* The step of one server changes its connection alone and leaves one that makes sense.
ServerEffect(s, l) ==
  /\ link' = [link EXCEPT ![s] = l] /\ LinkSane(l) /\ UNCHANGED <<attach, stillborn, call>>
  /\ link[s].start \in {"off", "up", "refused"} => l.start = link[s].start
  /\ \/ sessions' = sessions
     \/ sessions' = sessions \cup {s} /\ link[s].start = "waiting" /\ l.start = "up" /\ Undisturbed(l)
  /\ s \in sessions /\ attach # "cleanup" /\ Undisturbed(link[s]) => Undisturbed(l)
  /\ l.task \notin {"none", "over"} => s \in sessions' \/ l.start \in {"waiting", "unwinding"}

LEMMA ServerStepEffect ==
  ASSUME LinkInv, TableInv, NEW s \in Servers, ServerStep(s)
  PROVE  \E l \in Links : ServerEffect(s, l)
<1>0. PICK l \in Links : l = link[s] /\ LinkSane(l)
  BY DEF LinkInv
<1>a. l.task \notin {"none", "over"} => s \in sessions \/ l.start \in {"waiting", "unwinding"}
  BY <1>0 DEF TableInv, TransportsHaveOwner
<1>b. s \in sessions => l.start = "up"
  BY <1>0 DEF TableInv
<1>c. link \in [Servers -> Links] /\ sessions \subseteq Servers
  BY DEF LinkInv, TableInv
<1> USE DEF ServerEffect
<1>1. CASE Resolve(s)
  BY <1>0, <1>1, <1>b, <1>c DEF Resolve, Links, LinkSane, Undisturbed, Starts, RunStates
<1>2. CASE StartReturns(s)
  <2> DEFINE m == [l EXCEPT !.start = IF l.failed THEN "refused" ELSE "up"]
  <2>1. link' = [link EXCEPT ![s] = m] /\ sessions' = IF l.failed THEN sessions ELSE sessions \cup {s}
    BY <1>0, <1>2, <1>c DEF StartReturns
  <2>2. l.start = "waiting" /\ UNCHANGED <<attach, stillborn, call>>
    BY <1>0, <1>2 DEF StartReturns
  <2>3. m \in Links /\ LinkSane(m)
    BY <1>0, <2>2 DEF Links, LinkSane, Undisturbed, Starts, RunStates
  <2>4. Undisturbed(m) /\ m.task = l.task /\ (l.failed => l.task = "over") /\ (~l.failed => m.start = "up")
    BY <1>0, <2>2 DEF Links, LinkSane, Undisturbed, Starts, RunStates
  <2> HIDE DEF m
  <2>. QED
    BY <1>0, <1>a, <1>b, <2>1, <2>2, <2>3, <2>4
<1>3. CASE StartTimesOut(s)
  <2> DEFINE m == Cancelled(l)
  <2>1. link' = [link EXCEPT ![s] = m]
    BY <1>0, <1>3, <1>c DEF StartTimesOut
  <2>2. l.start = "waiting" /\ UNCHANGED <<attach, stillborn, sessions, call>>
    BY <1>0, <1>3 DEF StartTimesOut
  <2>3. m \in Links /\ LinkSane(m)
    BY <1>0, <2>2 DEF Cancelled, Links, LinkSane, Undisturbed, Starts, RunStates
  <2>4. m.start = "unwinding"
    BY <1>0, <2>2 DEF Cancelled, Links, LinkSane, Undisturbed, Starts, RunStates
  <2> HIDE DEF m
  <2>. QED
    BY <1>0, <1>a, <1>b, <2>1, <2>2, <2>3, <2>4
<1>4. CASE TaskUnwinds(s)
  <2> DEFINE m == [l EXCEPT !.task = "over"]
  <2>1. link' = [link EXCEPT ![s] = m]
    BY <1>0, <1>4, <1>c DEF TaskUnwinds
  <2>2. l.task = "ending" /\ UNCHANGED <<attach, stillborn, sessions, call>>
    BY <1>0, <1>4 DEF TaskUnwinds
  <2>3. m \in Links /\ LinkSane(m)
    BY <1>0, <2>2 DEF Links, LinkSane, Undisturbed, Starts, RunStates
  <2>4. m.task = "over" /\ m.start = l.start /\ ~Undisturbed(l)
    BY <1>0, <2>2 DEF Links, LinkSane, Undisturbed, Starts, RunStates
  <2> HIDE DEF m
  <2>. QED
    BY <1>0, <1>a, <1>b, <2>1, <2>2, <2>3, <2>4
<1>5. CASE StartRaises(s)
  <2> DEFINE m == [l EXCEPT !.start = "refused"]
  <2>1. link' = [link EXCEPT ![s] = m]
    BY <1>0, <1>5, <1>c DEF StartRaises
  <2>2. l.start = "unwinding" /\ l.task = "over" /\ UNCHANGED <<attach, stillborn, sessions, call>>
    BY <1>0, <1>5 DEF StartRaises
  <2>3. m \in Links /\ LinkSane(m)
    BY <1>0, <2>2 DEF Links, LinkSane, Undisturbed, Starts, RunStates
  <2>4. m.task = "over"
    BY <1>0, <2>2 DEF Links, LinkSane, Undisturbed, Starts, RunStates
  <2> HIDE DEF m
  <2>. QED
    BY <1>0, <1>a, <1>b, <2>1, <2>2, <2>3, <2>4
<1>6. CASE ShutsDown(s)
  <2> DEFINE m == [l EXCEPT !.task = "over"]
  <2>1. link' = [link EXCEPT ![s] = m]
    BY <1>0, <1>6, <1>c DEF ShutsDown
  <2>2. l.task = "live" /\ l.shut /\ UNCHANGED <<attach, stillborn, sessions, call>>
    BY <1>0, <1>6 DEF ShutsDown
  <2>3. m \in Links /\ LinkSane(m)
    BY <1>0, <2>2 DEF Links, LinkSane, Undisturbed, Starts, RunStates
  <2>4. m.task = "over" /\ m.start = l.start /\ ~Undisturbed(l)
    BY <1>0, <2>2 DEF Links, LinkSane, Undisturbed, Starts, RunStates
  <2> HIDE DEF m
  <2>. QED
    BY <1>0, <1>a, <1>b, <2>1, <2>2, <2>3, <2>4
<1>7. CASE CloseTimesOut(s)
  BY <1>0, <1>7, <1>b, <1>c DEF CloseTimesOut, Links, LinkSane, Undisturbed, Starts, RunStates
<1>8. CASE Connected(s)
  <2>1. PICK chain \in Chains :
          link' = [link EXCEPT ![s].task = "live", ![s].session = "good", ![s].ready = TRUE,
                               ![s].host = FollowRedirects(chain).host,
                               ![s].credentials = FollowRedirects(chain).credentials]
    BY <1>8 DEF Connected
  <2>2. PICK h \in {Home, Away}, k \in BOOLEAN :
          h = FollowRedirects(chain).host /\ k = FollowRedirects(chain).credentials /\ (k => h = Home)
    BY CredentialsFollowHome, RedirectsLeadSomewhere
  <2>3. /\ link' = [link EXCEPT ![s].task = "live", ![s].session = "good", ![s].ready = TRUE,
                                ![s].host = h, ![s].credentials = k]
        /\ l.task = "connecting" /\ UNCHANGED <<attach, stillborn, sessions, call>>
    BY <1>0, <1>8, <2>1, <2>2 DEF Connected
  <2> DEFINE m == [l EXCEPT !.task = "live", !.session = "good", !.ready = TRUE, !.host = h, !.credentials = k]
  <2>4. link' = [link EXCEPT ![s] = m]
    BY <1>0, <1>c, <2>3, Zenon
  <2>5. m \in Links
    BY DEF Links, RunStates
  <2>6. LinkSane(m) /\ (Undisturbed(l) => Undisturbed(m)) /\ m.start = l.start
    BY <1>0, <2>2, <2>3 DEF Links, LinkSane, Undisturbed
  <2> HIDE DEF m
  <2>. QED
    BY <1>0, <1>a, <2>3, <2>4, <2>5, <2>6
<1>9. CASE ConnectFails(s)
  <2>1. PICK half \in BOOLEAN :
          link' = [link EXCEPT ![s] = Broken(s, IF half THEN [@ EXCEPT !.session = "dead"] ELSE @)]
    BY <1>9 DEF ConnectFails
  <2>2. l.task = "connecting" /\ UNCHANGED <<attach, stillborn, sessions, call>>
    BY <1>0, <1>9 DEF ConnectFails
  <2>3. PICK m \in Links : /\ m = IF half THEN [l EXCEPT !.session = "dead"] ELSE l
                           /\ LinkSane(m) /\ m.start = l.start /\ m.task = "connecting"
                           /\ Undisturbed(l) => Undisturbed(m)
    <3>1. CASE half
      <4>1. [l EXCEPT !.session = "dead"] \in Links
        BY DEF Links
      <4>2. /\ LinkSane([l EXCEPT !.session = "dead"]) /\ [l EXCEPT !.session = "dead"].start = l.start
            /\ [l EXCEPT !.session = "dead"].task = "connecting"
            /\ Undisturbed(l) => Undisturbed([l EXCEPT !.session = "dead"])
        BY <1>0, <2>2 DEF Links, LinkSane, Undisturbed
      <4>. QED
        BY <3>1, <4>1, <4>2
    <3>2. CASE ~half
      BY <1>0, <2>2, <3>2
    <3>. QED
      BY <3>1, <3>2
  <2>4. link' = [link EXCEPT ![s] = Broken(s, m)]
    BY <1>0, <1>c, <2>1, <2>3
  <2>5. /\ Broken(s, m) \in Links /\ LinkSane(Broken(s, m)) /\ Broken(s, m).start = l.start
        /\ Undisturbed(l) => Undisturbed(Broken(s, m))
    BY <2>3, BrokenEffect
  <2>. QED
    BY <1>0, <1>a, <2>2, <2>4, <2>5
<1>10. CASE Lost(s)
  <2>1. /\ link' = [link EXCEPT ![s] = Broken(s, l)]
        /\ l.task = "live" /\ UNCHANGED <<attach, stillborn, sessions, call>>
    BY <1>0, <1>10 DEF Lost
  <2>. QED
    BY <1>0, <1>a, <2>1, BrokenEffect
<1>. QED
  BY <1>1, <1>2, <1>3, <1>4, <1>5, <1>6, <1>7, <1>8, <1>9, <1>10 DEF ServerStep, McpStep

\* The connections after the step of one server.
LEMMA ServerStepStays ==
  ASSUME LinkInv, TableInv, AttachInv, NEW s \in Servers, NEW l \in Links, ServerEffect(s, l)
  PROVE  LinkInv' /\ TableInv' /\ AttachInv'
<1>1. LinkInv'
  BY DEF ServerEffect, LinkInv
<1>2. /\ link \in [Servers -> Links] /\ sessions \subseteq Servers
      /\ link'[s] = l /\ \A x \in Servers : x # s => link'[x] = link[x]
  BY DEF ServerEffect, LinkInv, TableInv
<1>3. TableInv'
  BY <1>2 DEF ServerEffect, TableInv, TransportsHaveOwner
<1>4. AttachInv'
  BY <1>2 DEF ServerEffect, AttachInv
<1>. QED
  BY <1>1, <1>3, <1>4

\* ToldToClose to close, a connection still makes sense.
ToldToClose(l) == [l EXCEPT !.shut = TRUE]

LEMMA ToldEffect ==
  ASSUME NEW l \in Links, LinkSane(l), l.start = "up"
  PROVE  /\ ToldToClose(l) \in Links /\ LinkSane(ToldToClose(l)) /\ ToldToClose(l).start = "up"
         /\ ToldToClose(l).task = l.task
  BY DEF ToldToClose, Links, LinkSane, Undisturbed

\* Whoever tells the servers of the table to close leaves what they are otherwise.
LEMMA TableIsTold ==
  ASSUME LinkInv, TableInv,
         link' = [s \in Servers |-> IF s \in sessions THEN [link[s] EXCEPT !.shut = TRUE] ELSE link[s]]
  PROVE  /\ LinkInv'
         /\ \A s \in Servers : link'[s].start = link[s].start /\ link'[s].task = link[s].task
<1>1. \A s \in sessions : /\ s \in Servers /\ link[s] \in Links /\ LinkSane(link[s])
                          /\ link[s].start = "up"
  BY DEF LinkInv, TableInv
<1>2. \A s \in Servers : link'[s] = IF s \in sessions THEN ToldToClose(link[s]) ELSE link[s]
  BY DEF ToldToClose
<1>3. link' = [s \in Servers |-> IF s \in sessions THEN ToldToClose(link[s]) ELSE link[s]]
  BY DEF ToldToClose
<1>4. \A s \in Servers : link[s] \in Links /\ LinkSane(link[s])
  BY DEF LinkInv
<1>5. \A s \in sessions : /\ ToldToClose(link[s]) \in Links /\ LinkSane(ToldToClose(link[s]))
                          /\ ToldToClose(link[s]).start = "up" /\ ToldToClose(link[s]).task = link[s].task
  BY <1>1, ToldEffect
<1>. QED
  BY <1>1, <1>2, <1>3, <1>4, <1>5 DEF LinkInv

\* What the turn does with all of its servers.
LEMMA TurnStepStays ==
  ASSUME LinkInv, TableInv, AttachInv, TurnStep
  PROVE  LinkInv' /\ TableInv' /\ AttachInv'
<1>0. /\ link \in [Servers -> Links] /\ sessions \subseteq Servers
      /\ \A s \in Servers : link[s] \in Links /\ LinkSane(link[s])
  BY DEF LinkInv, TableInv
<1>1. CASE Attach
  <2>1. /\ attach = "new" /\ attach' = "gather" /\ UNCHANGED <<stillborn, sessions>> /\ sessions = {}
        /\ link' = [s \in Servers |-> [link[s] EXCEPT !.start = "resolve"]]
        /\ \A s \in Servers : link[s].start = "off"
    BY <1>1 DEF Attach, AttachInv
  <2>2. \A s \in Servers : /\ [link[s] EXCEPT !.start = "resolve"] \in Links
                           /\ LinkSane([link[s] EXCEPT !.start = "resolve"])
                           /\ link'[s].task = "none"
    <3>1. ASSUME NEW l \in Links, LinkSane(l), l.start = "off"
          PROVE  /\ [l EXCEPT !.start = "resolve"] \in Links /\ LinkSane([l EXCEPT !.start = "resolve"])
                 /\ [l EXCEPT !.start = "resolve"].task = "none"
      BY <3>1 DEF Links, LinkSane, Undisturbed, Starts
    <3>. QED
      BY <1>0, <2>1, <3>1
  <2>. QED
    BY <1>0, <2>1, <2>2 DEF LinkInv, TableInv, AttachInv, TransportsHaveOwner
<1>2. CASE Gathered
  <2>1. UNCHANGED <<stillborn, sessions>> /\ attach = "gather"
        /\ \A s \in Servers : link[s].start \in {"up", "refused"}
    BY <1>2 DEF Gathered
  <2>2. CASE stopping
    <3>1. /\ attach' = "cleanup"
          /\ link' = [s \in Servers |-> IF s \in sessions THEN [link[s] EXCEPT !.shut = TRUE] ELSE link[s]]
      BY <1>2, <2>2 DEF Gathered
    <3>2. /\ LinkInv'
          /\ \A s \in Servers : link'[s].start = link[s].start /\ link'[s].task = link[s].task
      BY <3>1, TableIsTold
    <3>. QED
      BY <1>0, <2>1, <3>1, <3>2 DEF TableInv, AttachInv, TransportsHaveOwner
  <2>3. CASE ~stopping
    BY <1>0, <1>2, <2>1, <2>3 DEF Gathered, LinkInv, TableInv, AttachInv, TransportsHaveOwner
  <2>. QED
    BY <2>2, <2>3
<1>3. CASE StopAttach
  <2> DEFINE After(l) == CASE l.start = "waiting" -> Cancelled(l)
                           [] l.start = "resolve" -> [l EXCEPT !.start = "refused"]
                           [] OTHER -> l
  <2>1. /\ attach = "gather" /\ UNCHANGED <<attach, stillborn, sessions>>
        /\ link' = [s \in Servers |-> After(link[s])]
    BY <1>3 DEF StopAttach
  <2>2. ASSUME NEW l \in Links, LinkSane(l)
        PROVE  /\ After(l) \in Links /\ LinkSane(After(l))
               /\ After(l).task \notin {"none", "over"} =>
                    /\ l.task \notin {"none", "over"}
                    /\ l.start \in {"waiting", "unwinding"} => After(l).start = "unwinding"
               /\ l.start = "up" => After(l) = l
    <3>1. CASE l.start = "waiting"
      BY <2>2, <3>1 DEF Cancelled, Links, LinkSane, Undisturbed, Starts, RunStates
    <3>2. CASE l.start = "resolve"
      BY <2>2, <3>2 DEF Links, LinkSane, Undisturbed, Starts, RunStates
    <3>3. CASE l.start \notin {"waiting", "resolve"}
      BY <2>2, <3>3
    <3>. QED
      BY <3>1, <3>2, <3>3
  <2> HIDE DEF After
  <2>3. \A s \in Servers : link'[s] = After(link[s])
    BY <2>1
  <2>4. LinkInv'
    BY <1>0, <2>1, <2>2 DEF LinkInv
  <2>5. TableInv'
    BY <1>0, <2>1, <2>2, <2>3 DEF TableInv, TransportsHaveOwner
  <2>6. AttachInv'
    BY <2>1 DEF AttachInv
  <2>. QED
    BY <2>4, <2>5, <2>6
<1>4. CASE AgentBegins
  BY <1>0, <1>4 DEF AgentBegins, LinkInv, TableInv, AttachInv, TransportsHaveOwner
<1>5. CASE Cleanup
  <2>1. /\ attach = "running" /\ attach' = "cleanup" /\ UNCHANGED <<stillborn, sessions>>
        /\ link' = [s \in Servers |-> IF s \in sessions THEN [link[s] EXCEPT !.shut = TRUE] ELSE link[s]]
    BY <1>5 DEF Cleanup
  <2>2. /\ LinkInv'
        /\ \A s \in Servers : link'[s].start = link[s].start /\ link'[s].task = link[s].task
    BY <2>1, TableIsTold
  <2>. QED
    BY <1>0, <2>1, <2>2 DEF TableInv, AttachInv, TransportsHaveOwner
<1>6. CASE AllClosed
  BY <1>0, <1>6 DEF AllClosed, LinkInv, TableInv, AttachInv, TransportsHaveOwner
<1>. QED
  BY <1>1, <1>2, <1>3, <1>4, <1>5, <1>6 DEF TurnStep

\* A call of the agent changes calls alone.
LEMMA CallsAlone ==
  ASSUME NEW c \in ServerCalls, CallStep(c)
  PROVE  UNCHANGED <<attach, stopping, stillborn, link, sessions, drops>>
  BY DEF CallStep, Execute, Confirm, CallReturns

\* A destructive call is sent only where the user said so, and the answer is asked for once.
LEMMA CallsStay ==
  ASSUME CallShape, WritesAreAllowed, McpNext
  PROVE  CallShape' /\ WritesAreAllowed'
<1>1. PICK T : call \in [ServerCalls -> [at : CallStates, allowed : BOOLEAN, text : T, images : T, bytes : T]]
  BY DEF CallShape
<1> DEFINE Shape(U) == [at : CallStates, allowed : BOOLEAN, text : U, images : U, bytes : U]
<1>2. ASSUME NEW c \in ServerCalls, NEW U, NEW k \in Shape(U), NEW V, \A t \in T : t \in V, \A t \in U : t \in V,
             call' = [call EXCEPT ![c] = k],
             c \in Destructive /\ k.at \in {"calling", "done"} => k.allowed
      PROVE  CallShape' /\ WritesAreAllowed'
  <2>1. call' \in [ServerCalls -> Shape(V)]
    BY <1>1, <1>2
  <2>2. CallShape'
    BY <2>1 DEF CallShape
  <2>3. /\ call'[c] = k
        /\ \A d \in ServerCalls : d # c => call'[d] = call[d]
    BY <1>1, <1>2
  <2>4. Destructive \subseteq ServerCalls
    BY McpAssumption DEF McpAssumption
  <2>5. WritesAreAllowed'
    BY <1>2, <2>3, <2>4 DEF WritesAreAllowed
  <2>. QED
    BY <2>2, <2>5
<1>3. ASSUME NEW c \in ServerCalls, Execute(c) PROVE CallShape' /\ WritesAreAllowed'
  <2> DEFINE k == [call[c] EXCEPT !.at = IF c \in Destructive THEN "asking" ELSE Enter(c)]
  <2>1. call' = [call EXCEPT ![c] = k]
    BY <1>1, <1>3 DEF Execute
  <2>2. Enter(c) \in {"error", "calling"}
    BY DEF Enter
  <2>3. k \in Shape(T) /\ (c \in Destructive => k.at = "asking")
    BY <1>1, <2>2 DEF CallStates
  <2> HIDE DEF k
  <2>. QED
    BY <1>2, <2>1, <2>3
<1>4. ASSUME NEW c \in ServerCalls, Confirm(c) PROVE CallShape' /\ WritesAreAllowed'
  <2>1. PICK allow \in BOOLEAN :
          call' = [call EXCEPT ![c].allowed = allow, ![c].at = IF allow THEN Enter(c) ELSE "declined"]
    BY <1>4 DEF Confirm
  <2> DEFINE k == [call[c] EXCEPT !.allowed = allow, !.at = IF allow THEN Enter(c) ELSE "declined"]
  <2>2. call' = [call EXCEPT ![c] = k]
    BY <1>1, <2>1
  <2>3. Enter(c) \in {"error", "calling"}
    BY DEF Enter
  <2>4. k \in Shape(T) /\ (k.at \in {"calling", "done"} => k.allowed)
    BY <1>1, <2>3 DEF CallStates
  <2> HIDE DEF k
  <2>. QED
    BY <1>2, <2>2, <2>4
<1>5. ASSUME NEW c \in ServerCalls, CallReturns(c) PROVE CallShape' /\ WritesAreAllowed'
  <2>0. call[c].at = "calling" /\ (c \in Destructive => call[c].allowed)
    BY <1>5 DEF CallReturns, WritesAreAllowed
  <2>1. CASE call' = [call EXCEPT ![c].at = "error"]
    <3> DEFINE k == [call[c] EXCEPT !.at = "error"]
    <3>1. call' = [call EXCEPT ![c] = k]
      BY <1>1, <2>1
    <3>2. k \in Shape(T) /\ k.at = "error"
      BY <1>1 DEF CallStates
    <3> HIDE DEF k
    <3>. QED
      BY <1>2, <3>1, <3>2
  <2>2. ASSUME NEW blocks \in Results,
               call' = [call EXCEPT ![c].at = "done", ![c].text = Convert(blocks).text,
                                    ![c].images = Convert(blocks).images, ![c].bytes = Convert(blocks).bytes]
        PROVE  CallShape' /\ WritesAreAllowed'
    <3>1. PICK x, y, z : x = Convert(blocks).text /\ y = Convert(blocks).images /\ z = Convert(blocks).bytes
      OBVIOUS
    <3> DEFINE k == [call[c] EXCEPT !.at = "done", !.text = x, !.images = y, !.bytes = z]
               V == T \cup {x, y, z}
    <3>2. call' = [call EXCEPT ![c] = k]
      BY <1>1, <2>2, <3>1
    <3>3. k \in Shape(V) /\ (c \in Destructive => k.allowed)
      BY <1>1, <2>0 DEF CallStates
    <3>4. \A t \in T : t \in V
      OBVIOUS
    <3> HIDE DEF k, V
    <3>. QED
      BY <1>2, <3>2, <3>3, <3>4
  <2>. QED
    BY <1>5, <2>1, <2>2 DEF CallReturns
<1>6. CASE Cleanup
  <2>1. \A c \in ServerCalls : call'[c] = call[c] \/ call'[c] = [call[c] EXCEPT !.at = "stopped"]
    BY <1>6 DEF Cleanup
  <2>2. call' = [c \in ServerCalls |-> call'[c]]
    BY <1>6 DEF Cleanup
  <2>3. \A c \in ServerCalls : call'[c] \in Shape(T) /\ (call'[c].at # "stopped" => call'[c] = call[c])
    <3>1. \A c \in ServerCalls : call[c] \in Shape(T)
      BY <1>1
    <3>2. \A k \in Shape(T) : [k EXCEPT !.at = "stopped"] \in Shape(T) /\ [k EXCEPT !.at = "stopped"].at = "stopped"
      BY DEF CallStates
    <3> HIDE DEF Shape
    <3>. QED
      BY <2>1, <3>1, <3>2
  <2> HIDE DEF Shape
  <2>4. call' \in [ServerCalls -> Shape(T)]
    BY <2>2, <2>3
  <2>5. CallShape'
    BY <2>4 DEF CallShape, Shape
  <2>6. WritesAreAllowed'
    BY <2>3, McpAssumption DEF WritesAreAllowed, McpAssumption
  <2>. QED
    BY <2>5, <2>6
<1>7. ASSUME UNCHANGED call PROVE CallShape' /\ WritesAreAllowed'
  BY <1>7 DEF CallShape, WritesAreAllowed
<1>8. TurnStep /\ ~Cleanup => UNCHANGED call
  BY DEF TurnStep, Attach, Gathered, StopAttach, AgentBegins, AllClosed
<1>9. \A s \in Servers : ServerStep(s) => UNCHANGED call
  BY DEF ServerStep, McpStep, Resolve, StartReturns, StartTimesOut, TaskUnwinds, StartRaises, ShutsDown,
         CloseTimesOut, Connected, ConnectFails, Lost
<1>. QED
  BY <1>3, <1>4, <1>5, <1>6, <1>7, <1>8, <1>9, McpStepIsOfSomebody DEF CallStep

\* What the parts say together (ServersAreContained).
LEMMA McpInvContains == McpInv => ServersAreContained
<1> SUFFICES ASSUME McpInv PROVE ServersAreContained
  OBVIOUS
<1> USE DEF McpInv
<1>1. TransportsHaveOwner
  BY DEF TableInv
<1>2. ClosedAfterTurn
  BY DEF TableInv, AttachInv, LinkInv, LinkSane, TransportsHaveOwner, ClosedAfterTurn
<1>3. SessionIsCurrent
  BY DEF TableInv, AttachInv, Undisturbed, LinkInv, LinkSane, SessionIsCurrent
<1>4. CredentialsStayHome
  BY DEF LinkInv, LinkSane, CredentialsStayHome
<1>. QED
  BY <1>1, <1>2, <1>3, <1>4 DEF ServersAreContained

LEMMA McpStarts == McpInit => McpInv
<1> SUFFICES ASSUME McpInit PROVE McpInv
  OBVIOUS
<1>1. \A s \in Servers : /\ FirstTransport(s) \in {"streamable_http", "sse"}
  BY McpAssumption DEF FirstTransport, McpAssumption
<1>2. LinkInv
  BY <1>1 DEF McpInit, LinkInv, Links, LinkSane, Undisturbed, Starts, RunStates
<1>3. TableInv /\ AttachInv
  BY DEF McpInit, TableInv, AttachInv, TransportsHaveOwner
<1>4. call \in [ServerCalls -> [at : CallStates, allowed : BOOLEAN, text : {0}, images : {0}, bytes : {0}]]
  BY DEF McpInit, CallStates
<1>5. CallShape
  BY <1>4 DEF CallShape
<1>6. WritesAreAllowed
  BY McpAssumption DEF McpInit, WritesAreAllowed, McpAssumption
<1>. QED
  BY <1>2, <1>3, <1>5, <1>6 DEF McpInv

LEMMA McpStays == McpInv /\ [McpNext]_mcpVars => McpInv'
<1> SUFFICES ASSUME McpInv, [McpNext]_mcpVars PROVE McpInv'
  OBVIOUS
<1>1. CASE McpNext
  <2>1. CallShape' /\ WritesAreAllowed'
    BY <1>1, CallsStay DEF McpInv
  <2>2. LinkInv' /\ TableInv' /\ AttachInv'
    <3>1. CASE TurnStep
      BY <3>1, TurnStepStays DEF McpInv
    <3>2. ASSUME NEW s \in Servers, ServerStep(s) PROVE LinkInv' /\ TableInv' /\ AttachInv'
      BY <3>2, ServerStepEffect, ServerStepStays DEF McpInv
    <3>3. ASSUME NEW c \in ServerCalls, CallStep(c) PROVE LinkInv' /\ TableInv' /\ AttachInv'
      <4>1. UNCHANGED <<attach, stillborn, link, sessions>>
        BY <3>3, CallsAlone
      <4>. QED
        BY <4>1 DEF McpInv, LinkInv, TableInv, AttachInv, TransportsHaveOwner
    <3>. QED
      BY <1>1, <3>1, <3>2, <3>3, McpStepIsOfSomebody
  <2>. QED
    BY <2>1, <2>2 DEF McpInv
<1>2. CASE UNCHANGED mcpVars
  BY <1>2 DEF mcpVars, McpInv, LinkInv, TableInv, AttachInv, TransportsHaveOwner, CallShape, WritesAreAllowed
<1>. QED
  BY <1>1, <1>2

McpSpec == McpInit /\ [][McpNext]_mcpVars

\* However servers connect, hang, are lost and are closed while the turn starts, runs and ends: a
\* transport has an owner and is closed after the turn, calls go to the session that is alive,
\* credentials stay at home, and a destructive call was allowed (tools/mcp_client.py).
THEOREM ServersStayContained == McpSpec => []ServersAreContained
<1>1. McpSpec => []McpInv
  BY McpStarts, McpStays, PTL DEF McpSpec
<1>. QED
  BY <1>1, McpInvContains, PTL

-----------------------------------------------------------------------------
(***************************************************************************)
(* The commands of a workspace (WorkspaceProcesses).  CommandsInv: which   *)
(* stages a kind of command has (StageInv), which processes it has in them *)
(* (AliveInv), that a snippet has its files while it runs (ScratchInv),    *)
(* and that a command that goes on found its package in order and read its *)
(* version, unless it was disturbed (PreparedInv).  LedgerInv: threads     *)
(* that remove files were stopped, and verified browsers are there.        *)
(***************************************************************************)
Packages == [modules : {"none", "part", "full"}, links : BOOLEAN, writable : BOOLEAN,
             version : Versions \cup {NoVersion}, wanted : Versions]
Told == [how : {"none", "refused", "error", "result", "timeout", "stopped"},
         shown : {<<>>} \cup {Shown(out) : out \in Outputs}]

CommandTypes ==
  /\ job \in Jobs /\ package \in Packages /\ stage \in [Commands -> Waiting \cup {"idle", "ended"}]
  /\ readAs \in [Commands -> Versions \cup {NoVersion}] /\ outputTold \in [Commands -> Told]
  /\ alive \subseteq Commands \X {"main", "piped", "detached"}
  /\ scratch \subseteq Commands /\ found \subseteq Commands /\ headless \subseteq Commands
  /\ disturbed \subseteq Commands

StageInv ==
  \A c \in Commands :
    /\ outputTold[c].how = "none" <=> stage[c] # "ended"
    /\ Kind(c) = "code" => stage[c] \in {"idle", "run", "ended"}
    /\ stage[c] \in Waiting \ {"probe", "run"} => OfNode(c)

AliveInv ==
  \A c \in Commands :
    /\ Main(c) \in alive => stage[c] \in Spawns
    /\ stage[c] \notin {"run", "ended"} => <<c, "piped">> \notin alive /\ <<c, "detached">> \notin alive
    /\ stage[c] = "ended" /\ (c \notin headless \/ ~Stopped(c)) => <<c, "piped">> \notin alive
    /\ Stopped(c) /\ c \notin headless => <<c, "detached">> \notin alive

ScratchInv == \A c \in Commands : c \in scratch <=> Kind(c) = "code" /\ stage[c] = "run"

Prepared(c) ==
  /\ OfNode(c) /\ stage[c] \in {"probe", "preflight"} => c \in disturbed \/ ~Missing(c, package)
  /\ stage[c] = "preflight" => c \in disturbed \/ readAs[c] = package.version
  /\ stage[c] = "run" => c \in disturbed \/ c \in found

PreparedInv == \A c \in Commands : Prepared(c)

CommandsInv == CommandTypes /\ StageInv /\ AliveInv /\ ScratchInv /\ PreparedInv

LedgerInv ==
  /\ stops \in 0 .. MaxStops /\ removing \in 0 .. stops
  /\ verified \subseteq Versions /\ browsers \subseteq Versions /\ jobsCrossed \subseteq Versions \cup {NoVersion}
  /\ VerifiedHasBrowser

-----------------------------------------------------------------------------
\* What the jobs and the package can be.
LEMMA KindOfCommand ==
  ASSUME job \in Jobs, NEW c \in Commands
  PROVE  Kind(c) \in {"npm", "playwright", "plain", "code"}
<1>1. job.kind \in [Commands -> {"npm", "playwright", "plain", "code"}]
  BY JobsAssumption DEF JobsAssumption
<1>. QED
  BY <1>1 DEF Kind

LEMMA OldVersionIsOne == OldVersion \in Versions
  BY JobsAssumption DEF JobsAssumption, OldVersion

\* What EnterStage and End do, process by process.
LEMMA EnterEffect ==
  ASSUME CommandTypes, NEW c \in Commands, NEW s \in Waiting, EnterStage(c, s), package' \in Packages
  PROVE  /\ stage' = [stage EXCEPT ![c] = s] /\ UNCHANGED outputTold
         /\ \A d \in Commands, k \in {"main", "piped", "detached"} :
              <<d, k>> \in alive' <=> IF d = c /\ k = "main" THEN s \in Spawns ELSE <<d, k>> \in alive
         /\ alive' \subseteq Commands \X {"main", "piped", "detached"}
         /\ readAs' \in [Commands -> Versions \cup {NoVersion}]
         /\ \A d \in Commands : d # c => readAs'[d] = readAs[d]
         /\ s = "preflight" => readAs'[c] = package'.version
         /\ found \subseteq found' /\ found' \subseteq Commands
         /\ s = "run" /\ (OfNode(c) => ~Missing(c, package')) => c \in found'
<1>1. /\ stage' = [stage EXCEPT ![c] = s] /\ UNCHANGED outputTold
      /\ alive' = IF s \in Spawns THEN alive \cup {Main(c)} ELSE alive \ {Main(c)}
      /\ readAs' = [readAs EXCEPT ![c] = IF s = "preflight" THEN package'.version ELSE @]
      /\ found' = IF s = "run" /\ (OfNode(c) => ~Missing(c, package')) THEN found \cup {c} ELSE found
  BY Zenon DEF EnterStage
<1>2. package'.version \in Versions \cup {NoVersion}
  BY DEF Packages
<1>3. /\ \A d \in Commands, k \in {"main", "piped", "detached"} :
           <<d, k>> \in alive' <=> IF d = c /\ k = "main" THEN s \in Spawns ELSE <<d, k>> \in alive
      /\ alive' \subseteq Commands \X {"main", "piped", "detached"}
  BY <1>1 DEF Main, CommandTypes
<1>4. /\ readAs' \in [Commands -> Versions \cup {NoVersion}]
      /\ \A d \in Commands : d # c => readAs'[d] = readAs[d]
      /\ s = "preflight" => readAs'[c] = package'.version
  BY <1>1, <1>2 DEF CommandTypes
<1>5. /\ found \subseteq found' /\ found' \subseteq Commands
      /\ s = "run" /\ (OfNode(c) => ~Missing(c, package')) => c \in found'
  BY <1>1 DEF CommandTypes
<1>. QED
  BY <1>1, <1>3, <1>4, <1>5

LEMMA EndEffect ==
  ASSUME CommandTypes, NEW c \in Commands, NEW killed \in BOOLEAN,
         NEW how \in {"refused", "error", "timeout", "stopped"}, End(c, how, killed)
  PROVE  /\ stage' = [stage EXCEPT ![c] = "ended"] /\ UNCHANGED <<readAs, found>>
         /\ outputTold' \in [Commands -> Told] /\ outputTold'[c].how = how
         /\ \A d \in Commands : d # c => outputTold'[d] = outputTold[d]
         /\ \A d \in Commands, k \in {"main", "piped", "detached"} :
              <<d, k>> \in alive' <=> <<d, k>> \in alive /\ (d # c \/ (~killed /\ k # "main"))
         /\ alive' \subseteq Commands \X {"main", "piped", "detached"}
<1>1. /\ stage' = [stage EXCEPT ![c] = "ended"] /\ UNCHANGED <<readAs, found>>
      /\ outputTold' = [outputTold EXCEPT ![c].how = how]
      /\ alive' = {p \in alive : p[1] # c \/ (~killed /\ p # Main(c))}
  BY Zenon DEF End
<1>2. /\ \A d \in Commands, k \in {"main", "piped", "detached"} :
           <<d, k>> \in alive' <=> <<d, k>> \in alive /\ (d # c \/ (~killed /\ k # "main"))
      /\ alive' \subseteq Commands \X {"main", "piped", "detached"}
  BY <1>1 DEF Main, CommandTypes
<1>3. /\ outputTold' \in [Commands -> Told] /\ outputTold'[c].how = how
      /\ \A d \in Commands : d # c => outputTold'[d] = outputTold[d]
  <2>1. PICK t \in Told : t = [outputTold[c] EXCEPT !.how = how] /\ t.how = how
    <3> DEFINE Shows == {<<>>} \cup {Shown(out) : out \in Outputs}
    <3>1. outputTold[c] \in [how : {"none", "refused", "error", "result", "timeout", "stopped"}, shown : Shows]
      BY DEF CommandTypes, Told
    <3> HIDE DEF Shows
    <3>2. /\ [outputTold[c] EXCEPT !.how = how] \in
               [how : {"none", "refused", "error", "result", "timeout", "stopped"}, shown : Shows]
          /\ [outputTold[c] EXCEPT !.how = how].how = how
      BY <3>1
    <3>. QED
      BY <3>2 DEF Told, Shows
  <2>2. outputTold' = [outputTold EXCEPT ![c] = t]
    BY <1>1, <2>1 DEF CommandTypes
  <2>. QED
    BY <2>1, <2>2 DEF CommandTypes
<1>. QED
  BY <1>1, <1>2, <1>3

\* The package is as it was, or whoever had read it counts as disturbed.
PackageStep(c) ==
  /\ package' \in Packages /\ UNCHANGED job
  /\ disturbed \subseteq disturbed' /\ disturbed' \subseteq Commands
  /\ \/ /\ package'.modules = package.modules /\ package'.links = package.links
        /\ package'.version = package.version
     \/ OthersPreparing(c) \subseteq disturbed'

\* What others found is as it was, or they are disturbed.
LEMMA OthersStayPrepared ==
  ASSUME CommandsInv, NEW c \in Commands, PackageStep(c), NEW d \in Commands, d # c,
         stage'[d] = stage[d], readAs'[d] = readAs[d], found \subseteq found'
  PROVE  Prepared(d)'
<1>1. /\ UNCHANGED job /\ disturbed \subseteq disturbed'
      /\ \/ /\ package'.modules = package.modules /\ package'.links = package.links
            /\ package'.version = package.version
         \/ OthersPreparing(c) \subseteq disturbed'
  BY DEF PackageStep
<1>2. Kind(d)' = Kind(d) /\ (OfNode(d)' <=> OfNode(d))
  BY <1>1 DEF Kind, OfNode
<1>3. Prepared(d) /\ (stage[d] = "preflight" => OfNode(d))
  BY DEF CommandsInv, PreparedInv, StageInv, Waiting
<1>4. CASE OthersPreparing(c) \subseteq disturbed'
  <2>1. OfNode(d) /\ stage[d] \in {"probe", "preflight"} => d \in disturbed'
    BY <1>4 DEF OthersPreparing, Waiting
  <2>. QED
    BY <1>1, <1>2, <1>3, <2>1 DEF Prepared
<1>5. CASE /\ package'.modules = package.modules /\ package'.links = package.links
           /\ package'.version = package.version
  <2>1. Missing(d, package)' <=> Missing(d, package)
    BY <1>1, <1>5 DEF Missing, Kind
  <2>. QED
    BY <1>1, <1>2, <1>3, <1>5, <2>1 DEF Prepared
<1>. QED
  BY <1>1, <1>4, <1>5

\* A command goes on: into a stage its kind has, and into the last ones with its package in order.
LEMMA EnterStays ==
  ASSUME CommandsInv, NEW c \in Commands, NEW s \in Waiting, EnterStage(c, s), PackageStep(c),
         stage[c] \notin {"run", "ended"}, UNCHANGED headless,
         scratch' = IF Kind(c) = "code" THEN scratch \cup {c} ELSE scratch,
         Kind(c) = "code" => s = "run",
         s \notin {"probe", "run"} => OfNode(c),
         OfNode(c) /\ s \in {"probe", "preflight", "run"} => c \in disturbed' \/ ~Missing(c, package')
  PROVE  CommandsInv'
<1>0. CommandTypes /\ StageInv /\ AliveInv /\ ScratchInv /\ PreparedInv
  BY DEF CommandsInv
<1>1. /\ package' \in Packages /\ UNCHANGED job
      /\ disturbed \subseteq disturbed' /\ disturbed' \subseteq Commands
  BY DEF PackageStep
<1>2. /\ stage' = [stage EXCEPT ![c] = s] /\ UNCHANGED outputTold
      /\ \A d \in Commands, k \in {"main", "piped", "detached"} :
           <<d, k>> \in alive' <=> IF d = c /\ k = "main" THEN s \in Spawns ELSE <<d, k>> \in alive
      /\ alive' \subseteq Commands \X {"main", "piped", "detached"}
      /\ readAs' \in [Commands -> Versions \cup {NoVersion}]
      /\ \A d \in Commands : d # c => readAs'[d] = readAs[d]
      /\ s = "preflight" => readAs'[c] = package'.version
      /\ found \subseteq found' /\ found' \subseteq Commands
      /\ s = "run" /\ (OfNode(c) => ~Missing(c, package')) => c \in found'
  BY <1>0, <1>1, EnterEffect
<1>3. stage'[c] = s /\ \A d \in Commands : d # c => stage'[d] = stage[d]
  BY <1>0, <1>2 DEF CommandTypes
<1>4. \A d \in Commands : Kind(d)' = Kind(d) /\ (OfNode(d)' <=> OfNode(d))
  BY <1>1 DEF Kind, OfNode
<1>5. CommandTypes'
  BY <1>0, <1>1, <1>2 DEF CommandTypes
<1>6. StageInv'
  BY <1>0, <1>2, <1>3, <1>4 DEF StageInv, Waiting
<1>7. AliveInv'
  BY <1>0, <1>2, <1>3 DEF AliveInv, Main, Stopped, Waiting, StageInv
<1>8. ScratchInv'
  BY <1>0, <1>3, <1>4 DEF ScratchInv, Waiting
<1>9. PreparedInv'
  <2>1. ASSUME NEW d \in Commands, d # c PROVE Prepared(d)'
    BY <1>0, <1>2, <1>3, <2>1, OthersStayPrepared
  <2>2. Prepared(c)'
    <3>1. Missing(c, package)' <=> Missing(c, package')
      BY <1>1 DEF Missing, Kind
    <3>. QED
      BY <1>2, <1>3, <1>4, <3>1 DEF Prepared
  <2>. QED
    BY <2>1, <2>2 DEF PreparedInv
<1>. QED
  BY <1>5, <1>6, <1>7, <1>8, <1>9 DEF CommandsInv

\* A command is over: with what it had started, unless its own process was gone before it was
\* killed.
LEMMA EndStays ==
  ASSUME CommandsInv, NEW c \in Commands, NEW killed \in BOOLEAN,
         NEW how \in {"refused", "error", "timeout", "stopped"}, End(c, how, killed), PackageStep(c),
         UNCHANGED headless, scratch' = scratch \ {c},
         \/ killed
         \/ c \in headless /\ how \in {"timeout", "stopped"}
         \/ stage[c] \notin {"run", "ended"}
  PROVE  CommandsInv'
<1>0. CommandTypes /\ StageInv /\ AliveInv /\ ScratchInv /\ PreparedInv
  BY DEF CommandsInv
<1>1. /\ package' \in Packages /\ UNCHANGED job
      /\ disturbed \subseteq disturbed' /\ disturbed' \subseteq Commands
  BY DEF PackageStep
<1>2. /\ stage' = [stage EXCEPT ![c] = "ended"] /\ UNCHANGED <<readAs, found>>
      /\ outputTold' \in [Commands -> Told] /\ outputTold'[c].how = how
      /\ \A d \in Commands : d # c => outputTold'[d] = outputTold[d]
      /\ \A d \in Commands, k \in {"main", "piped", "detached"} :
           <<d, k>> \in alive' <=> <<d, k>> \in alive /\ (d # c \/ (~killed /\ k # "main"))
      /\ alive' \subseteq Commands \X {"main", "piped", "detached"}
  BY <1>0, EndEffect
<1>3. stage'[c] = "ended" /\ \A d \in Commands : d # c => stage'[d] = stage[d]
  BY <1>0, <1>2 DEF CommandTypes
<1>4. \A d \in Commands : Kind(d)' = Kind(d) /\ (OfNode(d)' <=> OfNode(d))
  BY <1>1 DEF Kind, OfNode
<1>5. CommandTypes'
  BY <1>0, <1>1, <1>2 DEF CommandTypes
<1>6. StageInv'
  BY <1>0, <1>2, <1>3, <1>4 DEF StageInv, Waiting
<1>7. AliveInv'
  BY <1>0, <1>2, <1>3 DEF AliveInv, Main, Stopped
<1>8. ScratchInv'
  BY <1>0, <1>3, <1>4 DEF ScratchInv
<1>9. PreparedInv'
  <2>1. ASSUME NEW d \in Commands, d # c PROVE Prepared(d)'
    BY <1>0, <1>2, <1>3, <2>1, OthersStayPrepared
  <2>2. Prepared(c)'
    BY <1>3 DEF Prepared
  <2>. QED
    BY <2>1, <2>2 DEF PreparedInv
<1>. QED
  BY <1>5, <1>6, <1>7, <1>8, <1>9 DEF CommandsInv

-----------------------------------------------------------------------------
(***************************************************************************)
(* The steps.                                                              *)
(***************************************************************************)
LEMMA GoOnStays ==
  ASSUME CommandsInv, NEW c \in Commands, NEW s \in Waiting, GoOn(c, s), PackageStep(c),
         stage[c] \notin {"run", "ended"}, UNCHANGED <<headless, scratch>>, Kind(c) # "code",
         s \notin {"probe", "run"} => OfNode(c),
         OfNode(c) /\ s \in {"probe", "preflight", "run"} => c \in disturbed' \/ ~Missing(c, package')
  PROVE  CommandsInv'
<1>1. EnterStage(c, s) \/ End(c, "error", FALSE)
  BY Zenon DEF GoOn
<1>2. scratch' = scratch \ {c}
  BY DEF CommandsInv, ScratchInv
<1>3. CASE EnterStage(c, s)
  BY <1>3, EnterStays
<1>4. CASE End(c, "error", FALSE)
  BY <1>2, <1>4, EndStays
<1>. QED
  BY <1>1, <1>3, <1>4

\* The package after others may have seen it half done.
LEMMA TornEffect ==
  ASSUME CommandTypes, Torn
  PROVE  package' \in Packages
<1>1. PICK p \in Packages : p = package
  BY DEF CommandTypes
<1>2. PICK left \in {p.modules, "part"} :
        package' = [p EXCEPT !.modules = left, !.links = FALSE,
                             !.version = IF left = "part" THEN NoVersion ELSE p.version]
  BY <1>1 DEF Torn
<1>. QED
  BY <1>2 DEF Packages

LEMMA DisturbEffect ==
  ASSUME CommandTypes, NEW c \in Commands, Disturb(c), package' \in Packages, UNCHANGED job
  PROVE  PackageStep(c)
  BY DEF Disturb, PackageStep, OthersPreparing, CommandTypes

LEMMA SamePackage ==
  ASSUME CommandTypes, NEW c \in Commands, UNCHANGED <<job, package, disturbed>>
  PROVE  PackageStep(c)
  BY DEF PackageStep, CommandTypes

LEMMA AfterDepsEffect ==
  ASSUME NEW c \in Commands, NEW p
  PROVE  AfterDeps(c, p) \in {"probe", "preflight"} /\ (AfterDeps(c, p) = "preflight" => Kind(c) = "playwright")
  BY DEF AfterDeps

LEMMA FirstStageEffect ==
  ASSUME NEW c \in Commands
  PROVE  /\ FirstStage(c) \in Waiting \ {"run"} /\ (FirstStage(c) # "probe" => OfNode(c))
         /\ OfNode(c) /\ FirstStage(c) \in {"probe", "preflight"} => ~Missing(c, package)
<1>1. CASE ~OfNode(c)
  BY <1>1 DEF FirstStage, Waiting
<1>2. CASE OfNode(c) /\ Usable(package) /\ ~Missing(c, package)
  <2>1. FirstStage(c) = AfterDeps(c, package)
    BY <1>2 DEF FirstStage, Usable
  <2>. QED
    BY <1>2, <2>1, AfterDepsEffect DEF Waiting
<1>3. CASE OfNode(c) /\ ~(Usable(package) /\ ~Missing(c, package))
  BY <1>3 DEF FirstStage, Waiting
<1>. QED
  BY <1>1, <1>2, <1>3

LEMMA SubmitStays ==
  ASSUME CommandsInv, NEW c \in Commands, SubmitCommand(c)
  PROVE  CommandsInv'
<1>0. CommandTypes /\ ScratchInv
  BY DEF CommandsInv
<1>1. /\ stage[c] = "idle" /\ UNCHANGED <<job, package, headless, disturbed>>
      /\ \/ End(c, "refused", FALSE) /\ UNCHANGED scratch
         \/ Kind(c) = "code" /\ EnterStage(c, "run") /\ scratch' = scratch \cup {c}
         \/ Kind(c) # "code" /\ GoOn(c, FirstStage(c)) /\ UNCHANGED scratch
  BY Zenon DEF SubmitCommand
<1>2. PackageStep(c)
  BY <1>0, <1>1, SamePackage
<1>3. CASE End(c, "refused", FALSE) /\ UNCHANGED scratch
  <2>1. scratch' = scratch \ {c}
    BY <1>0, <1>1, <1>3 DEF ScratchInv
  <2>. QED
    BY <1>1, <1>2, <1>3, <2>1, EndStays
<1>4. CASE Kind(c) = "code" /\ EnterStage(c, "run") /\ scratch' = scratch \cup {c}
  <2>1. ~OfNode(c) /\ "run" \in Waiting
    BY <1>4 DEF OfNode, Waiting
  <2>. QED
    BY <1>1, <1>2, <1>4, <2>1, EnterStays
<1>5. CASE Kind(c) # "code" /\ GoOn(c, FirstStage(c)) /\ UNCHANGED scratch
  <2>1. PICK s \in Waiting : /\ s = FirstStage(c) /\ s # "run" /\ (s # "probe" => OfNode(c))
                             /\ OfNode(c) /\ s \in {"probe", "preflight"} => ~Missing(c, package)
    BY FirstStageEffect
  <2>2. GoOn(c, s) /\ Kind(c) # "code" /\ UNCHANGED scratch
    BY <1>5, <2>1
  <2>3. Missing(c, package') = Missing(c, package)
    BY <1>1
  <2>. QED
    BY <1>1, <1>2, <2>1, <2>2, <2>3, GoOnStays
<1>. QED
  BY <1>1, <1>3, <1>4, <1>5

\* The stages before the command itself.
LEMMA PrepareStays ==
  ASSUME CommandsInv, NEW c \in Commands,
         Cleaned(c) \/ Installed(c) \/ Rebuilt(c) \/ PreflightEnds(c) \/ Probed(c)
  PROVE  CommandsInv'
<1>0. CommandTypes /\ StageInv /\ ScratchInv /\ PreparedInv
  BY DEF CommandsInv
<1>1. stage[c] \in Waiting \ {"run"} /\ UNCHANGED <<job, headless, scratch>>
  BY DEF Cleaned, Installed, Rebuilt, PreflightEnds, Probed, Waiting
<1>2. Kind(c) # "code" /\ (stage[c] # "probe" => OfNode(c)) /\ scratch' = scratch \ {c}
  BY <1>0, <1>1 DEF StageInv, ScratchInv, Waiting
<1>3. ASSUME End(c, "error", FALSE), PackageStep(c) PROVE CommandsInv'
  BY <1>1, <1>2, <1>3, EndStays DEF Waiting
<1>4. ASSUME NEW s \in Waiting, GoOn(c, s), PackageStep(c), s # "probe" /\ s # "run" => OfNode(c),
             OfNode(c) /\ s \in {"probe", "preflight", "run"} => c \in disturbed' \/ ~Missing(c, package')
      PROVE  CommandsInv'
  BY <1>1, <1>2, <1>4, GoOnStays DEF Waiting
<1>5. PICK p \in Packages : p = package
  BY <1>0 DEF CommandTypes
<1>6. CASE Cleaned(c)
  <2>1. stage[c] \in {"clean", "cleanAgain"} /\ Disturb(c) /\ OfNode(c)
    BY <1>2, <1>6 DEF Cleaned
  <2>2. CASE /\ package' = [package EXCEPT !.modules = "none", !.links = FALSE, !.writable = TRUE, !.version = NoVersion]
             /\ GoOn(c, IF stage[c] = "clean" THEN "install" ELSE "reinstall")
    <3>1. package' \in Packages
      BY <1>5, <2>2 DEF Packages
    <3>2. PICK s \in {"install", "reinstall"} : GoOn(c, s)
      BY <2>2
    <3>3. s \in Waiting /\ s \notin {"probe", "preflight", "run"}
      BY DEF Waiting
    <3>. QED
      BY <1>0, <1>1, <1>4, <2>1, <3>1, <3>2, <3>3, DisturbEffect
  <2>3. CASE package' = [package EXCEPT !.modules = "part", !.links = FALSE] /\ End(c, "error", FALSE)
    <3>1. package' \in Packages
      BY <1>5, <2>3 DEF Packages
    <3>. QED
      BY <1>0, <1>1, <1>3, <2>1, <2>3, <3>1, DisturbEffect
  <2>. QED
    BY <1>6, <2>2, <2>3 DEF Cleaned
<1>7. CASE Installed(c)
  <2>1. stage[c] \in {"install", "reinstall"} /\ Disturb(c) /\ OfNode(c)
    BY <1>2, <1>7 DEF Installed
  <2>2. ASSUME NEW linked \in BOOLEAN, NEW whole \in {"full", "part"},
               package' = [package EXCEPT !.modules = whole, !.links = linked, !.writable = TRUE,
                                          !.version = package.wanted],
               GoOn(c, IF Missing(c, package') THEN "rebuild" ELSE AfterDeps(c, package'))
        PROVE  CommandsInv'
    <3>1. package' \in Packages
      BY <1>5, <2>2 DEF Packages
    <3>2. PICK s \in {"rebuild", "probe", "preflight"} :
            /\ s = IF Missing(c, package') THEN "rebuild" ELSE AfterDeps(c, package')
            /\ GoOn(c, s) /\ (s # "rebuild" => ~Missing(c, package'))
      BY <2>2, AfterDepsEffect
    <3>3. s \in Waiting
      BY DEF Waiting
    <3>. QED
      BY <1>0, <1>1, <1>4, <2>1, <3>1, <3>2, <3>3, DisturbEffect
  <2>3. ASSUME package' = [package EXCEPT !.modules = "part"],
               IF stage[c] = "install" THEN GoOn(c, "cleanAgain") ELSE End(c, "error", FALSE)
        PROVE  CommandsInv'
    <3>1. package' \in Packages
      BY <1>5, <2>3 DEF Packages
    <3>2. "cleanAgain" \in Waiting
      BY DEF Waiting
    <3>. QED
      BY <1>0, <1>1, <1>3, <1>4, <2>1, <2>3, <3>1, <3>2, DisturbEffect
  <2>4. CASE Torn /\ End(c, "error", FALSE)
    BY <1>0, <1>1, <1>3, <2>1, <2>4, TornEffect, DisturbEffect
  <2>5. \/ \E linked \in BOOLEAN, whole \in {"full"} \cup (IF c \in disturbed THEN {"part"} ELSE {}) :
             /\ package' = [package EXCEPT !.modules = whole, !.links = linked, !.writable = TRUE,
                                           !.version = package.wanted]
             /\ GoOn(c, IF Missing(c, package') THEN "rebuild" ELSE AfterDeps(c, package'))
        \/ /\ package' = [package EXCEPT !.modules = "part"]
           /\ IF stage[c] = "install" THEN GoOn(c, "cleanAgain") ELSE End(c, "error", FALSE)
        \/ Torn /\ End(c, "error", FALSE)
    BY <1>7, Zenon DEF Installed
  <2>6. {"full"} \cup (IF c \in disturbed THEN {"part"} ELSE {}) \subseteq {"full", "part"}
    OBVIOUS
  <2>. QED
    BY <2>2, <2>3, <2>4, <2>5, <2>6, Zenon
<1>8. CASE Rebuilt(c)
  <2>1. /\ Disturb(c) /\ OfNode(c)
        /\ IF Missing(c, package') THEN End(c, "error", FALSE) ELSE GoOn(c, AfterDeps(c, package'))
    BY <1>2, <1>8, Zenon DEF Rebuilt
  <2>2. package' \in Packages
    <3>1. PICK linked \in {package.links, package.modules = "full"} : package' = [package EXCEPT !.links = linked]
      BY <1>8 DEF Rebuilt
    <3>2. linked \in BOOLEAN
      BY <1>5 DEF Packages
    <3>. QED
      BY <1>5, <3>1, <3>2 DEF Packages
  <2>3. PICK s \in {"probe", "preflight"} : s = AfterDeps(c, package')
    BY AfterDepsEffect
  <2>4. s \in Waiting
    BY DEF Waiting
  <2>. QED
    BY <1>0, <1>1, <1>3, <1>4, <2>1, <2>2, <2>3, <2>4, DisturbEffect
<1>9. CASE PreflightEnds(c)
  <2>1. /\ stage[c] = "preflight" /\ UNCHANGED <<package, disturbed>>
        /\ GoOn(c, "probe") \/ End(c, "error", FALSE)
    BY <1>9, Zenon DEF PreflightEnds
  <2>2. OfNode(c) => c \in disturbed \/ ~Missing(c, package)
    BY <1>0, <2>1 DEF PreparedInv, Prepared
  <2>3. "probe" \in Waiting /\ Missing(c, package') = Missing(c, package)
    BY <2>1 DEF Waiting
  <2>. QED
    BY <1>0, <1>1, <1>3, <1>4, <2>1, <2>2, <2>3, SamePackage
<1>10. CASE Probed(c)
  <2>1. stage[c] = "probe" /\ UNCHANGED <<package, disturbed>> /\ GoOn(c, "run")
    BY <1>10, Zenon DEF Probed
  <2>2. OfNode(c) => c \in disturbed \/ ~Missing(c, package)
    BY <1>0, <2>1 DEF PreparedInv, Prepared
  <2>3. "run" \in Waiting /\ Missing(c, package') = Missing(c, package)
    BY <2>1 DEF Waiting
  <2>. QED
    BY <1>0, <1>1, <1>4, <2>1, <2>2, <2>3, SamePackage
<1>. QED
  BY <1>6, <1>7, <1>8, <1>9, <1>10

\* The package alone changes, and whoever had read it counts as disturbed.
LEMMA PackageStays ==
  ASSUME CommandsInv, NEW c \in Commands, stage[c] \notin {"probe", "preflight", "run"}, PackageStep(c),
         UNCHANGED <<stage, readAs, alive, scratch, outputTold, found, headless>>
  PROVE  CommandsInv'
<1>0. CommandTypes /\ StageInv /\ AliveInv /\ ScratchInv /\ PreparedInv
  BY DEF CommandsInv
<1>1. UNCHANGED job /\ package' \in Packages /\ disturbed' \subseteq Commands
  BY DEF PackageStep
<1>2. CommandTypes' /\ StageInv' /\ AliveInv' /\ ScratchInv'
  BY <1>0, <1>1 DEF CommandTypes, StageInv, AliveInv, ScratchInv, Kind, OfNode, Main, Stopped
<1>3. \A d \in Commands : Prepared(d)'
  <2>1. ASSUME NEW d \in Commands, d # c PROVE Prepared(d)'
    BY <1>0, <2>1, OthersStayPrepared
  <2>2. Prepared(c)'
    BY DEF Prepared
  <2>. QED
    BY <2>1, <2>2
<1>. QED
  BY <1>2, <1>3 DEF CommandsInv, PreparedInv

\* A command is killed, for a time-out or with its caller.
LEMMA KillStays ==
  ASSUME CommandsInv, NEW c \in Commands, NEW how \in {"timeout", "stopped"}, Kill(c, how)
  PROVE  CommandsInv'
<1>0. CommandTypes
  BY DEF CommandsInv
<1>1. End(c, how, c \notin headless) /\ scratch' = scratch \ {c} /\ UNCHANGED <<job, headless>>
  BY Zenon DEF Kill
<1>2. PackageStep(c)
  <2>1. CASE Torn /\ Disturb(c)
    BY <1>0, <1>1, <2>1, TornEffect, DisturbEffect
  <2>2. CASE UNCHANGED <<package, disturbed>>
    BY <1>0, <1>1, <2>2, SamePackage
  <2>. QED
    BY <2>1, <2>2, Zenon DEF Kill
<1>3. CASE c \in headless
  <2>1. End(c, how, FALSE)
    BY <1>1, <1>3
  <2>. QED
    BY <1>1, <1>2, <1>3, <2>1, EndStays
<1>4. CASE c \notin headless
  <2>1. End(c, how, TRUE)
    BY <1>1, <1>4
  <2>. QED
    BY <1>1, <1>2, <2>1, EndStays
<1>. QED
  BY <1>3, <1>4

\* A process of a command and its children.
LEMMA ProcessesStay ==
  ASSUME CommandsInv, NEW c \in Commands, Fork(c) \/ ChildExits(c) \/ MainExits(c) \/ Exits(c)
  PROVE  CommandsInv'
<1>0. CommandTypes /\ StageInv /\ AliveInv /\ ScratchInv /\ PreparedInv
  BY DEF CommandsInv
<1> DEFINE Kinds == {"main", "piped", "detached"}
<1>1. UNCHANGED <<job, package, readAs, found, disturbed>>
  BY DEF Fork, ChildExits, MainExits, Exits
<1>2. \A d \in Commands : /\ Kind(d)' = Kind(d) /\ (OfNode(d)' <=> OfNode(d))
                          /\ Missing(d, package)' <=> Missing(d, package)
  BY <1>1 DEF Kind, OfNode, Missing
<1>3. CASE Fork(c) \/ ChildExits(c) \/ MainExits(c)
  <2>1. UNCHANGED <<stage, scratch, outputTold>> /\ headless \subseteq headless' /\ headless' \subseteq Commands
    BY <1>0, <1>3 DEF Fork, ChildExits, MainExits, CommandTypes
  <2>2. /\ alive' \subseteq Commands \X Kinds
        /\ \A d \in Commands, k \in Kinds :
             <<d, k>> \in alive' => <<d, k>> \in alive \/ (d = c /\ stage[c] = "run" /\ k # "main")
    <3>1. CASE Fork(c)
      <4>1. PICK how \in {"piped", "detached"} : alive' = alive \cup {<<c, how>>}
        BY <3>1 DEF Fork
      <4>2. stage[c] = "run"
        BY <3>1 DEF Fork
      <4>. QED
        BY <1>0, <4>1, <4>2 DEF CommandTypes
    <3>2. CASE ChildExits(c) \/ MainExits(c)
      <4>1. alive' \subseteq alive
        BY <3>2 DEF ChildExits, MainExits
      <4>. QED
        BY <1>0, <4>1 DEF CommandTypes
    <3>. QED
      BY <1>3, <3>1, <3>2
  <2>3. CommandTypes' /\ StageInv' /\ ScratchInv' /\ PreparedInv'
    BY <1>0, <1>1, <1>2, <2>1, <2>2 DEF CommandTypes, StageInv, ScratchInv, PreparedInv, Prepared
  <2>4. \A d \in Commands : Stopped(d)' <=> Stopped(d)
    BY <2>1 DEF Stopped
  <2>5. stage[c] = "run" => outputTold[c].how = "none"
    BY <1>0 DEF StageInv
  <2>6. AliveInv'
    BY <1>0, <2>1, <2>2, <2>4, <2>5 DEF AliveInv, Main, Stopped
  <2>. QED
    BY <2>3, <2>6 DEF CommandsInv
<1>4. CASE Exits(c)
  <2>1. PICK out \in Outputs : outputTold' = [outputTold EXCEPT ![c] = [how |-> "result", shown |-> Shown(out)]]
    BY <1>4 DEF Exits
  <2>2. /\ stage[c] = "run" /\ <<c, "piped">> \notin alive /\ UNCHANGED headless
        /\ stage' = [stage EXCEPT ![c] = "ended"] /\ alive' = alive \ {Main(c)} /\ scratch' = scratch \ {c}
    BY <1>4 DEF Exits
  <2>3. PICK t \in Told : t = [how |-> "result", shown |-> Shown(out)] /\ t.how = "result"
    <3> DEFINE Shows == {<<>>} \cup {Shown(o) : o \in Outputs}
    <3>1. Shown(out) \in Shows
      OBVIOUS
    <3> HIDE DEF Shows
    <3>2. [how |-> "result", shown |-> Shown(out)] \in
            [how : {"none", "refused", "error", "result", "timeout", "stopped"}, shown : Shows]
      BY <3>1
    <3>. QED
      BY <3>2 DEF Told, Shows
  <2>4. outputTold' = [outputTold EXCEPT ![c] = t]
    BY <2>1, <2>3
  <2>5. stage'[c] = "ended" /\ \A d \in Commands : d # c => stage'[d] = stage[d]
    BY <1>0, <2>2 DEF CommandTypes
  <2>6. outputTold'[c].how = "result" /\ \A d \in Commands : d # c => outputTold'[d] = outputTold[d]
    BY <1>0, <2>3, <2>4 DEF CommandTypes
  <2>7. \A d \in Commands, k \in Kinds : <<d, k>> \in alive' => <<d, k>> \in alive /\ (d # c \/ k # "main")
    BY <2>2 DEF Main
  <2>8. CommandTypes'
    BY <1>0, <1>1, <2>2, <2>4 DEF CommandTypes
  <2>9. StageInv' /\ ScratchInv' /\ PreparedInv'
    BY <1>0, <1>1, <1>2, <2>2, <2>5, <2>6 DEF StageInv, ScratchInv, PreparedInv, Prepared, Waiting
  <2>10. AliveInv'
    BY <1>0, <2>2, <2>5, <2>6, <2>7 DEF AliveInv, Main, Stopped
  <2>. QED
    BY <2>8, <2>9, <2>10 DEF CommandsInv
<1>. QED
  BY <1>3, <1>4

\* A caller that goes away.
LEMMA StopStays ==
  ASSUME CommandsInv, NEW c \in Commands, Stop(c)
  PROVE  CommandsInv'
<1>1. CASE Kill(c, "stopped")
  BY <1>1, KillStays
<1>2. CASE /\ stage[c] \in {"clean", "cleanAgain", "probe"} /\ End(c, "stopped", TRUE)
           /\ UNCHANGED <<job, package, scratch, headless, disturbed>>
  <2>1. scratch' = scratch \ {c}
    BY <1>2 DEF CommandsInv, ScratchInv
  <2>2. PackageStep(c)
    BY <1>2, SamePackage DEF CommandsInv
  <2>. QED
    BY <1>2, <2>1, <2>2, EndStays
<1>. QED
  BY <1>1, <1>2, Zenon DEF Stop

\* The directory changes under everyone: a thread whose caller is gone, and an edit of package.json.
LEMMA DirectoryStays ==
  ASSUME CommandsInv, RemovalEnds \/ Bump
  PROVE  CommandsInv'
<1>0. CommandTypes /\ StageInv /\ AliveInv /\ ScratchInv /\ PreparedInv
  BY DEF CommandsInv
<1>1. UNCHANGED <<job, stage, readAs, alive, scratch, outputTold, found, headless>>
  BY DEF RemovalEnds, Bump
<1>2. PICK p \in Packages : p = package
  BY <1>0 DEF CommandTypes
<1>3. \A c \in Commands : Kind(c)' = Kind(c) /\ (OfNode(c)' <=> OfNode(c))
  BY <1>1 DEF Kind, OfNode
<1>4. CASE RemovalEnds
  <2>1. PICK left \in {"none", "part"} :
          package' = [package EXCEPT !.modules = left, !.links = FALSE, !.version = NoVersion]
    BY <1>4 DEF RemovalEnds
  <2>2. disturbed' = disturbed \cup {c \in Commands : stage[c] \in Waiting /\ OfNode(c)}
    BY <1>4 DEF RemovalEnds
  <2>3. package' \in Packages
    BY <1>2, <2>1 DEF Packages
  <2>4. CommandTypes' /\ StageInv' /\ AliveInv' /\ ScratchInv'
    BY <1>0, <1>1, <1>3, <2>2, <2>3 DEF CommandTypes, StageInv, AliveInv, ScratchInv, Main, Stopped
  <2>5. PreparedInv'
    BY <1>0, <1>1, <1>3, <2>2 DEF StageInv, PreparedInv, Prepared, Waiting
  <2>. QED
    BY <2>4, <2>5 DEF CommandsInv
<1>5. CASE Bump
  <2>1. PICK v \in Versions : package' = [p EXCEPT !.wanted = v]
    BY <1>2, <1>5 DEF Bump
  <2>2. /\ package' \in Packages /\ package'.modules = package.modules /\ package'.links = package.links
        /\ package'.version = package.version
    BY <1>2, <2>1 DEF Packages
  <2>3. UNCHANGED disturbed
    BY <1>5 DEF Bump
  <2>4. CommandTypes' /\ StageInv' /\ AliveInv' /\ ScratchInv'
    BY <1>0, <1>1, <1>3, <2>2, <2>3 DEF CommandTypes, StageInv, AliveInv, ScratchInv, Main, Stopped
  <2>5. \A c \in Commands : Missing(c, package)' <=> Missing(c, package)
    BY <1>1, <2>2 DEF Missing, Kind
  <2>6. PreparedInv'
    BY <1>0, <1>1, <1>3, <2>2, <2>3, <2>5 DEF PreparedInv, Prepared
  <2>. QED
    BY <2>4, <2>6 DEF CommandsInv
<1>. QED
  BY <1>4, <1>5

LEMMA CommandsStay ==
  ASSUME CommandsInv, [ProcessNext]_processVars
  PROVE  CommandsInv'
<1>1. ASSUME NEW c \in Commands, Unpacks(c) PROVE CommandsInv'
  <2>1. /\ stage[c] \in {"install", "reinstall"} /\ Torn /\ Disturb(c)
        /\ UNCHANGED <<job, stage, readAs, alive, scratch, outputTold, found, headless>>
    BY <1>1, Zenon DEF Unpacks
  <2>2. PackageStep(c)
    BY <2>1, TornEffect, DisturbEffect DEF CommandsInv
  <2>. QED
    BY <2>1, <2>2, PackageStays
<1>2. ASSUME NEW c \in Commands, TimesOut(c) PROVE CommandsInv'
  BY <1>2, KillStays, Zenon DEF TimesOut
<1>3. CASE UNCHANGED processVars
  BY <1>3 DEF processVars, CommandsInv, CommandTypes, StageInv, AliveInv, ScratchInv, PreparedInv, Prepared,
              Kind, OfNode, Missing, Main, Stopped
<1>4. ASSUME NEW c \in Commands,
             SubmitCommand(c) \/ CommandMoves(c) \/ Fork(c) \/ ChildExits(c) \/ Stop(c)
      PROVE  CommandsInv'
  BY <1>1, <1>2, <1>4, SubmitStays, PrepareStays, ProcessesStay, StopStays, Zenon DEF CommandMoves
<1>. QED
  BY <1>3, <1>4, DirectoryStays, Zenon DEF ProcessNext

\* What was verified, and what stopped commands left behind.
LEMMA LedgerStays ==
  ASSUME CommandsInv, LedgerInv, [ProcessNext]_processVars
  PROVE  LedgerInv'
<1> USE DEF LedgerInv, VerifiedHasBrowser
<1>0. MaxStops \in Nat
  BY JobsAssumption DEF JobsAssumption
<1>1. ASSUME NEW c \in Commands, PreflightEnds(c) PROVE LedgerInv'
  <2>1. stage[c] = "preflight" /\ UNCHANGED <<removing, stops, package>>
    BY <1>1 DEF PreflightEnds
  <2>2. c \in disturbed \/ readAs[c] = package.version
    BY <2>1 DEF CommandsInv, PreparedInv, Prepared
  <2>3. readAs[c] \in Versions \cup {NoVersion}
    BY DEF CommandsInv, CommandTypes
  <2>4. \/ UNCHANGED <<browsers, verified, jobsCrossed>>
        \/ /\ browsers' = IF package.version \in Versions THEN browsers \cup {package.version} ELSE browsers
           /\ verified' = IF readAs[c] \in Versions THEN verified \cup {readAs[c]} ELSE verified
           /\ jobsCrossed' = IF c \in disturbed THEN jobsCrossed \cup {readAs[c]} ELSE jobsCrossed
    BY <1>1, Zenon DEF PreflightEnds
  <2>. QED
    BY <2>1, <2>2, <2>3, <2>4
<1>2. ASSUME NEW c \in Commands, Stop(c) PROVE LedgerInv'
  <2>1. /\ stops < MaxStops /\ stops' = stops + 1 /\ UNCHANGED <<verified, browsers, jobsCrossed>>
        /\ removing' = removing \/ removing' = removing + 1 \/ removing' = removing + 0
    <3>1. CASE Kill(c, "stopped") /\ UNCHANGED removing
      BY <1>2, <3>1 DEF Stop, Kill
    <3>2. CASE /\ removing' = removing + (IF stage[c] = "probe" THEN 0 ELSE 1)
               /\ UNCHANGED <<verified, browsers, jobsCrossed>>
      BY <1>2, <3>2 DEF Stop
    <3>. QED
      BY <1>2, <3>1, <3>2, Zenon DEF Stop
  <2>. QED
    BY <1>0, <2>1
<1>3. CASE RemovalEnds
  BY <1>0, <1>3 DEF RemovalEnds
<1>4. ASSUME UNCHANGED <<verified, browsers, jobsCrossed, removing, stops>> PROVE LedgerInv'
  BY <1>4
<1>5. ASSUME NEW c \in Commands,
             \/ SubmitCommand(c) \/ Cleaned(c) \/ Unpacks(c) \/ Installed(c) \/ Rebuilt(c) \/ Probed(c)
             \/ MainExits(c) \/ Exits(c) \/ Fork(c) \/ ChildExits(c)
      PROVE  UNCHANGED <<verified, browsers, jobsCrossed, removing, stops>>
  BY <1>5, Zenon DEF SubmitCommand, Cleaned, Unpacks, Installed, Rebuilt, Probed, MainExits, Exits, Fork, ChildExits
<1>6. ASSUME NEW c \in Commands, TimesOut(c) PROVE UNCHANGED <<verified, browsers, jobsCrossed, removing, stops>>
  BY <1>6, Zenon DEF TimesOut, Kill
<1>7. Bump \/ UNCHANGED processVars => UNCHANGED <<verified, browsers, jobsCrossed, removing, stops>>
  BY DEF Bump, processVars
<1>. QED
  BY <1>1, <1>2, <1>3, <1>4, <1>5, <1>6, <1>7, Zenon DEF ProcessNext, CommandMoves

-----------------------------------------------------------------------------
\* Neither half of a secret is shown: the second is only there behind the first.
LEMMA OutputsAreMasked ==
  ASSUME NEW out \in Outputs
  PROVE  \A i \in DOMAIN Shown(out) : Shown(out)[i].part = 0
<1> DEFINE O == {out[i].of : i \in DOMAIN out}
           R == [of : O, part : 0 .. 2]
           M == Masked(out)
           n == IF Len(M) < MaxOutput THEN Len(M) ELSE MaxOutput
<1>1. /\ out \in Seq(R) /\ MaxOutput \in Nat
      /\ \A i \in DOMAIN out :
           /\ out[i].part = 1 => i < Len(out) /\ out[i + 1] = [out[i] EXCEPT !.part = 2]
           /\ out[i].part = 2 => i > 1 /\ out[i - 1] = [out[i] EXCEPT !.part = 1]
  BY OutputsAssumption, JobsAssumption DEF OutputsAssumption, JobsAssumption
<1>2. \A r \in R : /\ r.part \in 0 .. 2 /\ [r EXCEPT !.part = 0] \in R /\ [r EXCEPT !.part = 0].part = 0
                   /\ [r EXCEPT !.part = 2].part = 2
                   /\ r.part = 1 => [[r EXCEPT !.part = 2] EXCEPT !.part = 1] = r
  <2> HIDE DEF O
  <2>1. ASSUME NEW r \in R
        PROVE  /\ r.part \in 0 .. 2 /\ [r EXCEPT !.part = 0] \in R /\ [r EXCEPT !.part = 0].part = 0
               /\ [r EXCEPT !.part = 2].part = 2
    OBVIOUS
  <2>2. ASSUME NEW r \in R, r.part = 1 PROVE [[r EXCEPT !.part = 2] EXCEPT !.part = 1] = r
    <3>1. r = [of |-> r.of, part |-> 1]
      BY <2>2
    <3>2. PICK o : o = r.of
      OBVIOUS
    <3>3. [r EXCEPT !.part = 2] = [of |-> o, part |-> 2]
      BY <3>1, <3>2
    <3>4. [[of |-> o, part |-> 2] EXCEPT !.part = 1] = [of |-> o, part |-> 1]
      OBVIOUS
    <3>. QED
      BY <3>1, <3>2, <3>3, <3>4
  <2>. QED
    BY <2>1, <2>2
<1> HIDE DEF R
<1>3. ASSUME NEW i \in 1 .. Len(out) PROVE M[i] \in R /\ M[i].part = 0
  <2>1. out[i] \in R /\ i \in DOMAIN out
    BY <1>1
  <2>2. M[i] = IF Ends(out, i) \/ Ends(out, i + 1) THEN [out[i] EXCEPT !.part = 0] ELSE out[i]
    BY <2>1 DEF Masked
  <2>3. out[i].part = 1 => Ends(out, i + 1)
    <3>1. SUFFICES ASSUME out[i].part = 1 PROVE Ends(out, i + 1)
      OBVIOUS
    <3>2. i < Len(out) /\ out[i + 1] = [out[i] EXCEPT !.part = 2]
      BY <1>1, <2>1, <3>1
    <3>3. i + 1 \in 2 .. Len(out) /\ (i + 1) - 1 = i
      BY <1>1, <3>2
    <3>4. out[i + 1].part = 2 /\ out[i] = [out[i + 1] EXCEPT !.part = 1]
      BY <1>2, <2>1, <3>1, <3>2
    <3>. QED
      BY <3>3, <3>4 DEF Ends
  <2>4. out[i].part = 2 => Ends(out, i)
    <3>1. SUFFICES ASSUME out[i].part = 2 PROVE Ends(out, i)
      OBVIOUS
    <3>2. i > 1 /\ out[i - 1] = [out[i] EXCEPT !.part = 1]
      BY <1>1, <2>1, <3>1
    <3>3. i \in 2 .. Len(out)
      BY <1>1, <3>2
    <3>. QED
      BY <3>1, <3>2, <3>3 DEF Ends
  <2>5. out[i].part \in 0 .. 2
    BY <1>2, <2>1
  <2>6. CASE Ends(out, i) \/ Ends(out, i + 1)
    BY <1>2, <2>1, <2>2, <2>6
  <2>7. CASE ~(Ends(out, i) \/ Ends(out, i + 1))
    <3>1. M[i] = out[i] /\ out[i].part \notin {1, 2}
      BY <2>2, <2>3, <2>4, <2>7
    <3>2. out[i].part = 0
      BY <2>5, <3>1
    <3>. QED
      BY <2>1, <3>1, <3>2
  <2>. QED
    BY <2>6, <2>7
<1>4. M \in Seq(R) /\ Len(M) = Len(out)
  <2>1. M = [i \in 1 .. Len(out) |-> M[i]]
    BY <1>1 DEF Masked
  <2>2. Len(out) \in Nat
    BY <1>1
  <2> HIDE DEF M
  <2>. QED
    BY <1>3, <2>1, <2>2
<1> HIDE DEF M
<1>5. n \in 0 .. Len(M)
  BY <1>1, <1>4
<1> HIDE DEF n
<1>6. DOMAIN SubSeq(M, 1, n) = 1 .. n /\ \A i \in 1 .. n : SubSeq(M, 1, n)[i] = M[i]
  BY <1>4, <1>5
<1>7. Shown(out) = SubSeq(M, 1, n)
  BY DEF Shown, Cut, M, n
<1>. QED
  BY <1>1, <1>3, <1>4, <1>5, <1>6, <1>7

\* What the parts say together (CommandsAreContained).
LEMMA CommandsInvContains == CommandsInv /\ LedgerInv => CommandsAreContained
<1> SUFFICES ASSUME CommandsInv, LedgerInv PROVE CommandsAreContained
  OBVIOUS
<1>0. CommandTypes /\ StageInv /\ AliveInv /\ ScratchInv /\ PreparedInv
  BY DEF CommandsInv
<1>1. NothingRunsOn
  <2>1. ASSUME NEW p \in alive
        PROVE  /\ Stopped(p[1]) => p[1] \in headless
               /\ p[2] # "detached" /\ stage[p[1]] = "ended" => p[1] \in headless /\ Stopped(p[1])
    <3>1. PICK c \in Commands, k \in {"main", "piped", "detached"} : p = <<c, k>>
      BY <1>0 DEF CommandTypes
    <3>2. Stopped(c) => stage[c] = "ended"
      BY <1>0 DEF StageInv, Stopped
    <3>. QED
      BY <1>0, <3>1, <3>2 DEF AliveInv, Main, Spawns
  <2>2. ASSUME NEW c \in Commands, Kind(c) = "code", Main(c) \in alive PROVE c \in scratch
    BY <1>0, <2>2 DEF AliveInv, StageInv, ScratchInv, Spawns
  <2>3. scratch = {c \in Commands : Kind(c) = "code" /\ stage[c] = "run"}
    BY <1>0 DEF ScratchInv, CommandTypes
  <2>. QED
    BY <2>1, <2>2, <2>3 DEF NothingRunsOn
<1>2. RunsPrepared
  BY <1>0 DEF PreparedInv, Prepared, RunsPrepared
<1>3. SecretsAreMasked
  <2>1. ASSUME NEW c \in Commands, NEW i \in DOMAIN outputTold[c].shown
        PROVE  outputTold[c].shown[i].part = 0
    <3>1. outputTold[c].shown = <<>> \/ \E out \in Outputs : outputTold[c].shown = Shown(out)
      BY <1>0 DEF CommandTypes, Told
    <3>2. DOMAIN <<>> = {}
      OBVIOUS
    <3>. QED
      BY <2>1, <3>1, <3>2, OutputsAreMasked
  <2>. QED
    BY <2>1 DEF SecretsAreMasked
<1>. QED
  BY <1>1, <1>2, <1>3 DEF CommandsAreContained, LedgerInv

LEMMA CommandsTyped == CommandsInv /\ LedgerInv => ProcessTypeOK
<1> SUFFICES ASSUME CommandsInv, LedgerInv PROVE ProcessTypeOK
  OBVIOUS
<1>1. package.modules \in {"none", "part", "full"} /\ package.version \in Versions \cup {NoVersion}
  BY DEF CommandsInv, CommandTypes, Packages
<1>2. removing \in 0 .. MaxStops
  BY JobsAssumption DEF LedgerInv, JobsAssumption
<1>. QED
  BY <1>1, <1>2 DEF CommandsInv, CommandTypes, LedgerInv, ProcessTypeOK

LEMMA CommandsStart == ProcessInit => CommandsInv /\ LedgerInv
<1> SUFFICES ASSUME ProcessInit PROVE CommandsInv /\ LedgerInv
  OBVIOUS
<1>1. job \in Jobs /\ job.modules \in {"none", "part", "full"} /\ job.writable \in BOOLEAN /\ MaxStops \in Nat
  BY JobsAssumption DEF ProcessInit, JobsAssumption
<1>2. package \in Packages
  BY <1>1, OldVersionIsOne DEF ProcessInit, Packages
<1>3. NothingTold \in Told /\ NothingTold.how = "none"
  BY DEF NothingTold, Told
<1>4. CommandTypes
  BY <1>1, <1>2, <1>3 DEF ProcessInit, CommandTypes
<1>5. StageInv /\ AliveInv /\ ScratchInv /\ PreparedInv
  BY <1>3 DEF ProcessInit, StageInv, AliveInv, ScratchInv, PreparedInv, Prepared, Waiting, Stopped
<1>6. LedgerInv
  BY <1>1 DEF ProcessInit, LedgerInv, VerifiedHasBrowser
<1>. QED
  BY <1>4, <1>5, <1>6 DEF CommandsInv

ProcessSpec == ProcessInit /\ [][ProcessNext]_processVars

LEMMA CommandsInvHolds == ProcessSpec => [](CommandsInv /\ LedgerInv)
<1>1. CommandsInv /\ LedgerInv /\ [ProcessNext]_processVars => (CommandsInv /\ LedgerInv)'
  BY CommandsStay, LedgerStays
<1>. QED
  BY <1>1, CommandsStart, PTL DEF ProcessSpec

\* The variables of the commands have their types, for any commands, jobs and outputs.
THEOREM ProcessTypeCorrect == ProcessSpec => []ProcessTypeOK
<1>. QED
  BY CommandsInvHolds, CommandsTyped, PTL

\* However commands, npm, cancellations and edits of the package interleave: a process ends with
\* its command unless it had left its session behind, a command runs in a package that was
\* prepared for it or changed by somebody else, a verified browser is there, and no part of a
\* secret is shown (tools/shell.py, tools/code_executor.py).
THEOREM CommandsStayContained == ProcessSpec => []CommandsAreContained
<1>. QED
  BY CommandsInvHolds, CommandsInvContains, PTL

-----------------------------------------------------------------------------
(***************************************************************************)
(* ClientSockets.  SocketInv says of the table that it is within the cap   *)
(* and that every entry is sound: which timer may be armed beside which    *)
(* socket, and that nobody without a socket is left without one.  Every    *)
(* function of the composable keeps a table sound, whichever table it is   *)
(* given (ConnectIsSound), so that a kick, which applies connect() to one  *)
(* connection after the other, does too (TriedIsSound).                    *)
(***************************************************************************)
\* The connections that hold a socket.
Held(p) == {c \in Known(p) : p.ws[c] # "none"}

\* A table, each conversation in it once.
TableShape(p) ==
  /\ p \in [order : Seq(Chats), failed : SUBSET Chats, ws : [Chats -> SocketStates],
            timer : [Chats -> Timers], stable : [Chats -> BOOLEAN], retries : [Chats -> 0..MaxRetries],
            terminal : [Chats -> BOOLEAN], probe : [Chats -> BOOLEAN]]
  /\ IsInjective(p.order)

\* A backoff runs beside a socket that is down, a poll beside no socket, and nobody who has
\* neither socket nor timer is left in the table, unless refused.
EntryIsSound(p, c) ==
  /\ c \notin Known(p) => p.ws[c] = "none" /\ c \notin p.failed
  /\ p.timer[c] = "backoff" => c \in Known(p) /\ p.ws[c] = "down"
  /\ p.timer[c] = "poll" => c \in Known(p) /\ p.ws[c] = "none"
  /\ c \in Known(p) /\ p.ws[c] \in {"none", "down"} => p.timer[c] # "off" \/ p.terminal[c]
  /\ c \in p.failed => p.ws[c] # "open"

\* The table is within the cap and the entries of D are sound.
IsSoundOn(p, D) ==
  /\ TableShape(p)
  /\ Cardinality(Held(p)) <= MaxConnections
  /\ \A c \in D : EntryIsSound(p, c)

TableIsSound(p) == IsSoundOn(p, Chats)

\* The inductive invariant of the sockets.
SocketInv ==
  /\ TableIsSound(pool)
  /\ \A c \in silent : pool.ws[c] = "open"
  /\ shown \in Chats \cup {NoChat} /\ streaming \subseteq Chats
  /\ dead \subseteq silent /\ silent \subseteq Chats
  /\ faults \in 0..MaxFaults /\ busy \in 0..MaxBusy

SocketSpec == SocketInit /\ [][SocketNext]_socketVars
-----------------------------------------------------------------------------
LEMMA LeastExists ==
  ASSUME NEW S \in SUBSET Nat, S # {}
  PROVE  Min(S) \in S /\ \A y \in S : Min(S) <= y
<1>1. PICK x \in S : \A y \in S : ~(<<y, x>> \in OpToRel(<, Nat))
  BY NatLessThanWellFounded, WFMin
<1>2. \A y \in S : x <= y
  <2>. SUFFICES ASSUME NEW y \in S PROVE x <= y
    OBVIOUS
  <2>1. x \in Nat /\ y \in Nat
    OBVIOUS
  <2>2. ~(y < x)
    BY <1>1, <2>1 DEF OpToRel
  <2>. QED BY <2>1, <2>2
<1>. QED BY <1>1, <1>2 DEF Min

\* An entry that leaves the table leaves the others in it, each once.
LEMMA RemovedOnce ==
  ASSUME NEW S, NEW s \in Seq(S), IsInjective(s), NEW c \in ToSet(s)
  PROVE  /\ RemoveFirst(s, c) \in Seq(S) /\ IsInjective(RemoveFirst(s, c))
         /\ ToSet(RemoveFirst(s, c)) = ToSet(s) \ {c}
<1> DEFINE At == {i \in 1..Len(s) : s[i] = c}
           k  == Min(At)
           t  == RemoveFirst(s, c)
<1>1. At # {}
  BY DEF ToSet
<1>2. k \in 1..Len(s) /\ s[k] = c
  <2>1. At \in SUBSET Nat
    OBVIOUS
  <2>2. k \in At
    <3> HIDE DEF At
    <3>. QED BY <1>1, <2>1, LeastExists
  <2>. QED BY <2>2
<1>3. t = SubSeq(s, 1, k - 1) \o SubSeq(s, k + 1, Len(s))
  <2>1. t = RemoveAt(s, k)
    BY <1>1 DEF RemoveFirst, SelectInSeq
  <2>. QED BY <2>1 DEF RemoveAt
<1> HIDE DEF k, t
<1>4. /\ t \in Seq(S) /\ Len(t) = Len(s) - 1
      /\ \A i \in 1..Len(t) : t[i] = IF i < k THEN s[i] ELSE s[i + 1]
  <2> DEFINE a == SubSeq(s, 1, k - 1)
             b == SubSeq(s, k + 1, Len(s))
  <2>1. k - 1 \in 0..Len(s) /\ k \in Nat /\ Len(s) \in Nat
    BY <1>2
  <2>2. /\ a \in Seq(S) /\ Len(a) = k - 1
        /\ \A i \in 1..(k - 1) : a[i] = s[i]
    BY <2>1, <1>2
  <2>3. /\ b \in Seq(S) /\ Len(b) = Len(s) - k
        /\ \A i \in 1..(Len(s) - k) : b[i] = s[k + i]
    BY <2>1, <1>2
  <2>4. t = a \o b
    BY <1>3
  <2> HIDE DEF a, b
  <2>5. t \in Seq(S) /\ Len(t) = Len(s) - 1
    BY <2>1, <2>2, <2>3, <2>4
  <2>6. ASSUME NEW i \in 1..Len(t) PROVE t[i] = IF i < k THEN s[i] ELSE s[i + 1]
    <3>1. t[i] = IF i <= Len(a) THEN a[i] ELSE b[i - Len(a)]
      BY <2>1, <2>2, <2>3, <2>4, <2>5
    <3>. QED BY <1>2, <2>1, <2>2, <2>3, <2>5, <3>1
  <2>. QED BY <2>5, <2>6
<1>5. IsInjective(t)
  <2>. SUFFICES ASSUME NEW i \in 1..Len(t), NEW j \in 1..Len(t), t[i] = t[j] PROVE i = j
    BY <1>4 DEF IsInjective
  <2>1. \A m, n \in 1..Len(s) : s[m] = s[n] => m = n
    BY DEF IsInjective
  <2> DEFINE f(m) == IF m < k THEN m ELSE m + 1
  <2>2. f(i) \in 1..Len(s) /\ f(j) \in 1..Len(s) /\ s[f(i)] = s[f(j)]
    BY <1>2, <1>4
  <2>3. f(i) = f(j)
    BY <2>1, <2>2
  <2>. QED BY <1>2, <1>4, <2>3
<1>6. ToSet(t) = ToSet(s) \ {c}
  <2>1. ASSUME NEW x \in ToSet(t) PROVE x \in ToSet(s) \ {c}
    BY <1>2, <1>4 DEF ToSet, IsInjective
  <2>2. ASSUME NEW x \in ToSet(s) \ {c} PROVE x \in ToSet(t)
    <3>1. PICK j \in 1..Len(s) : s[j] = x
      BY DEF ToSet
    <3>2. CASE j < k
      <4>1. j \in 1..Len(t) /\ t[j] = x
        BY <1>2, <1>4, <3>1, <3>2
      <4>. QED BY <1>4, <4>1 DEF ToSet
    <3>3. CASE j > k
      <4>1. j - 1 \in 1..Len(t) /\ t[j - 1] = x
        BY <1>2, <1>4, <3>1, <3>3
      <4>. QED BY <1>4, <4>1 DEF ToSet
    <3>. QED BY <1>2, <3>1, <3>2, <3>3
  <2>. QED BY <2>1, <2>2
<1>. QED BY <1>4, <1>5, <1>6 DEF t

\* A new entry comes last.
LEMMA AppendedOnce ==
  ASSUME NEW S, NEW s \in Seq(S), IsInjective(s), NEW c \in S, c \notin ToSet(s)
  PROVE  /\ Append(s, c) \in Seq(S) /\ IsInjective(Append(s, c))
         /\ ToSet(Append(s, c)) = ToSet(s) \cup {c}
<1> DEFINE t == Append(s, c)
<1>1. /\ t \in Seq(S) /\ Len(t) = Len(s) + 1
      /\ \A i \in 1..Len(s) : t[i] = s[i]
      /\ t[Len(s) + 1] = c
  OBVIOUS
<1> HIDE DEF t
<1>2. IsInjective(t)
  BY <1>1 DEF IsInjective, ToSet
<1>3. ToSet(t) = ToSet(s) \cup {c}
  <2>1. ASSUME NEW x \in ToSet(s) PROVE x \in ToSet(t)
    BY <1>1 DEF ToSet
  <2>2. c \in ToSet(t)
    BY <1>1 DEF ToSet
  <2>3. ASSUME NEW x \in ToSet(t) PROVE x \in ToSet(s) \cup {c}
    BY <1>1 DEF ToSet
  <2>. QED BY <2>1, <2>2, <2>3
<1>. QED BY <1>1, <1>2, <1>3 DEF t

\* p and q differ in the entry of c alone.
SameBut(p, q, c) ==
  \A d \in Chats \ {c} :
    /\ q.ws[d] = p.ws[d] /\ q.timer[d] = p.timer[d] /\ q.terminal[d] = p.terminal[d]
    /\ d \in q.failed <=> d \in p.failed
    /\ d \in Known(q) <=> d \in Known(p)

LEMMA KnownAreChats ==
  ASSUME NEW p, TableShape(p)
  PROVE  Known(p) \subseteq Chats
BY DEF TableShape, Known, ToSet

\* A change of one entry keeps the table sound if it keeps that entry sound and takes no slot
\* where there is none.
LEMMA OneEntryOf ==
  ASSUME NEW D \in SUBSET Chats, NEW p, NEW q, NEW c \in Chats, IsSoundOn(p, D \ {c}), TableShape(q),
         SameBut(p, q, c),
         EntryIsSound(q, c),
         c \in Held(q) => c \in Held(p) \/ Cardinality(Held(p)) < MaxConnections
  PROVE  IsSoundOn(q, D)
<1>1. IsFiniteSet(Chats) /\ MaxConnections \in Nat
  BY ClientSocketsAssumption
<1>2. Held(p) \subseteq Chats /\ Held(q) \subseteq Chats
  BY KnownAreChats DEF IsSoundOn, Held
<1>3. IsFiniteSet(Held(p)) /\ Cardinality(Held(p)) \in Nat
  BY <1>1, <1>2, FS_Subset, FS_CardinalityType
<1>4. \A d \in D \ {c} : EntryIsSound(q, d)
  BY DEF IsSoundOn, SameBut, EntryIsSound
<1>5. \A d \in Chats \ {c} : d \in Held(q) <=> d \in Held(p)
  BY DEF SameBut, Held
<1>6. Cardinality(Held(q)) <= MaxConnections
  <2>1. CASE c \in Held(q) => c \in Held(p)
    <3>1. Held(q) \subseteq Held(p)
      BY <1>2, <1>5, <2>1
    <3>2. Cardinality(Held(q)) <= Cardinality(Held(p)) /\ Cardinality(Held(q)) \in Nat
      BY <1>3, <3>1, FS_Subset, FS_CardinalityType
    <3>. QED BY <1>1, <1>3, <3>2 DEF IsSoundOn
  <2>2. CASE c \in Held(q) /\ c \notin Held(p)
    <3>1. Held(q) = Held(p) \cup {c}
      BY <1>2, <1>5, <2>2
    <3>2. Cardinality(Held(q)) = Cardinality(Held(p)) + 1
      BY <1>3, <2>2, <3>1, FS_AddElement
    <3>. QED BY <1>1, <1>3, <2>2, <3>2
  <2>. QED BY <2>1, <2>2
<1>. QED BY <1>4, <1>6 DEF IsSoundOn

LEMMA OneEntryChanges ==
  ASSUME NEW p, NEW q, NEW c \in Chats, TableIsSound(p), TableShape(q), SameBut(p, q, c),
         EntryIsSound(q, c),
         c \in Held(q) => c \in Held(p) \/ Cardinality(Held(p)) < MaxConnections
  PROVE  TableIsSound(q)
<1>1. IsSoundOn(p, Chats \ {c})
  BY DEF TableIsSound, IsSoundOn
<1>. QED BY <1>1, OneEntryOf DEF TableIsSound

-----------------------------------------------------------------------------
LEMMA CloseEffect ==
  ASSUME NEW p, TableShape(p), NEW c \in Chats
  PROVE  /\ TableShape(CloseSocket(p, c))
         /\ CloseSocket(p, c).order = p.order /\ CloseSocket(p, c).failed = p.failed
         /\ CloseSocket(p, c).ws = [p.ws EXCEPT ![c] = "none"]
         /\ CloseSocket(p, c).timer = [p.timer EXCEPT ![c] = "off"]
         /\ CloseSocket(p, c).terminal = p.terminal
BY DEF TableShape, CloseSocket, SocketStates, Timers

LEMMA ParkEffect ==
  ASSUME NEW p, TableShape(p), NEW c \in Chats
  PROVE  /\ TableShape(Park(p, c))
         /\ Park(p, c).order = p.order /\ Park(p, c).failed = p.failed
         /\ Park(p, c).ws = [p.ws EXCEPT ![c] = "none"]
         /\ Park(p, c).timer = [p.timer EXCEPT ![c] = "poll"]
         /\ Park(p, c).terminal = p.terminal
<1> DEFINE q == CloseSocket(p, c)
<1>1. /\ TableShape(q) /\ q.order = p.order /\ q.failed = p.failed
      /\ q.ws = [p.ws EXCEPT ![c] = "none"] /\ q.timer = [p.timer EXCEPT ![c] = "off"]
      /\ q.terminal = p.terminal
  BY CloseEffect
<1>2. Park(p, c) = [q EXCEPT !.retries[c] = 0, !.timer[c] = "poll"]
  BY DEF Park
<1> HIDE DEF q
<1>3. 0 \in 0..MaxRetries /\ "poll" \in Timers
  BY ClientSocketsAssumption DEF Timers
<1> DEFINE r == Park(p, c)
<1>4. /\ r.order = q.order /\ r.failed = q.failed /\ r.ws = q.ws /\ r.terminal = q.terminal
      /\ r.timer = [q.timer EXCEPT ![c] = "poll"]
  BY <1>1, <1>2 DEF TableShape
<1> DEFINE O == Seq(Chats)
           R == 0..MaxRetries
<1>5. TableShape(r)
  <2>1. q \in [order : O, failed : SUBSET Chats, ws : [Chats -> SocketStates],
             timer : [Chats -> Timers], stable : [Chats -> BOOLEAN], retries : [Chats -> R],
             terminal : [Chats -> BOOLEAN], probe : [Chats -> BOOLEAN]]
    BY <1>1 DEF TableShape
  <2>2. 0 \in R
    BY <1>3
  <2>3. r \in [order : O, failed : SUBSET Chats, ws : [Chats -> SocketStates],
             timer : [Chats -> Timers], stable : [Chats -> BOOLEAN], retries : [Chats -> R],
             terminal : [Chats -> BOOLEAN], probe : [Chats -> BOOLEAN]]
    <3> DEFINE retries == [q.retries EXCEPT ![c] = 0]
               timer == [q.timer EXCEPT ![c] = "poll"]
    <3> HIDE DEF O, R
    <3>1. retries \in [Chats -> R] /\ timer \in [Chats -> Timers]
      BY <1>3, <2>1, <2>2
    <3>2. r = [q EXCEPT !.retries = retries, !.timer = timer]
      BY <1>2, <2>1
    <3> HIDE DEF retries, timer, r
    <3>. QED BY <2>1, <3>1, <3>2
  <2>. QED BY <1>1, <1>4, <2>3 DEF TableShape
<1> HIDE DEF r
<1>6. r.timer = [p.timer EXCEPT ![c] = "poll"]
  BY <1>1, <1>4 DEF TableShape
<1>. QED BY <1>1, <1>4, <1>5, <1>6 DEF r

LEMMA CleanUpEffect ==
  ASSUME NEW p, TableShape(p), NEW c \in Chats, c \in Known(p)
  PROVE  /\ TableShape(CleanUp(p, c))
         /\ Known(CleanUp(p, c)) = Known(p) \ {c} /\ CleanUp(p, c).failed = p.failed
         /\ CleanUp(p, c).ws = [p.ws EXCEPT ![c] = "none"]
         /\ CleanUp(p, c).timer = [p.timer EXCEPT ![c] = "off"]
         /\ CleanUp(p, c).terminal = p.terminal
<1> DEFINE q == CloseSocket(p, c)
           s == RemoveFirst(p.order, c)
<1>1. /\ TableShape(q) /\ q.order = p.order /\ q.failed = p.failed
      /\ q.ws = [p.ws EXCEPT ![c] = "none"] /\ q.timer = [p.timer EXCEPT ![c] = "off"]
      /\ q.terminal = p.terminal
  BY CloseEffect
<1>2. s \in Seq(Chats) /\ IsInjective(s) /\ ToSet(s) = Known(p) \ {c}
  BY RemovedOnce DEF TableShape, Known
<1>3. CleanUp(p, c) = [q EXCEPT !.order = s]
  BY <1>1 DEF CleanUp
<1> HIDE DEF q, s
<1>. QED BY <1>1, <1>2, <1>3 DEF TableShape, Known

LEMMA NewEntryEffect ==
  ASSUME NEW p, TableShape(p), NEW c \in Chats, c \notin Known(p)
  PROVE  /\ TableShape(NewEntry(p, c))
         /\ Known(NewEntry(p, c)) = Known(p) \cup {c} /\ NewEntry(p, c).failed = p.failed
         /\ NewEntry(p, c).ws = [p.ws EXCEPT ![c] = "none"]
         /\ NewEntry(p, c).timer = p.timer
         /\ NewEntry(p, c).terminal = [p.terminal EXCEPT ![c] = FALSE]
<1> DEFINE s == Append(p.order, c)
<1>1. s \in Seq(Chats) /\ IsInjective(s) /\ ToSet(s) = Known(p) \cup {c}
  BY AppendedOnce DEF TableShape, Known
<1>2. NewEntry(p, c) = [p EXCEPT !.order = s, !.ws[c] = "none", !.retries[c] = 0,
                                 !.terminal[c] = FALSE, !.probe[c] = FALSE]
  BY DEF NewEntry
<1> HIDE DEF s
<1> DEFINE r == NewEntry(p, c)
<1>3. 0 \in 0..MaxRetries /\ "none" \in SocketStates
  BY ClientSocketsAssumption DEF SocketStates
<1>4. /\ r.order = s /\ r.failed = p.failed /\ r.timer = p.timer
      /\ r.ws = [p.ws EXCEPT ![c] = "none"] /\ r.terminal = [p.terminal EXCEPT ![c] = FALSE]
  BY <1>2 DEF TableShape
<1> DEFINE O == Seq(Chats)
           R == 0..MaxRetries
<1>5. r \in [order : O, failed : SUBSET Chats, ws : [Chats -> SocketStates],
             timer : [Chats -> Timers], stable : [Chats -> BOOLEAN], retries : [Chats -> R],
             terminal : [Chats -> BOOLEAN], probe : [Chats -> BOOLEAN]]
  <2>1. p \in [order : O, failed : SUBSET Chats, ws : [Chats -> SocketStates],
             timer : [Chats -> Timers], stable : [Chats -> BOOLEAN], retries : [Chats -> R],
             terminal : [Chats -> BOOLEAN], probe : [Chats -> BOOLEAN]]
    BY DEF TableShape
  <2>2. 0 \in R /\ s \in O
    BY <1>1, <1>3
  <2> DEFINE ws == [p.ws EXCEPT ![c] = "none"]
             retries == [p.retries EXCEPT ![c] = 0]
             terminal == [p.terminal EXCEPT ![c] = FALSE]
             probe == [p.probe EXCEPT ![c] = FALSE]
  <2> HIDE DEF O, R
  <2>3. /\ ws \in [Chats -> SocketStates] /\ retries \in [Chats -> R]
        /\ terminal \in [Chats -> BOOLEAN] /\ probe \in [Chats -> BOOLEAN]
    BY <1>3, <2>1, <2>2
  <2>4. r = [p EXCEPT !.order = s, !.ws = ws, !.retries = retries, !.terminal = terminal, !.probe = probe]
    BY <1>2, <2>1
  <2> HIDE DEF ws, retries, terminal, probe, r
  <2>. QED BY <2>1, <2>2, <2>3, <2>4
<1> HIDE DEF r
<1>. QED BY <1>1, <1>4, <1>5 DEF TableShape, Known, r

LEMMA OpenEffect ==
  ASSUME NEW p, TableShape(p), NEW c \in Chats
  PROVE  /\ TableShape(OpenSocket(p, c))
         /\ OpenSocket(p, c).order = p.order /\ OpenSocket(p, c).failed = p.failed
         /\ OpenSocket(p, c).ws = [p.ws EXCEPT ![c] = "connecting"]
         /\ OpenSocket(p, c).timer = p.timer
         /\ OpenSocket(p, c).terminal = p.terminal
BY DEF TableShape, OpenSocket, SocketStates

\* What connect() does on its real-attempt path.
Fresh(p, c) == OpenSocket(NewEntry([CleanUp(p, c) EXCEPT !.failed = @ \ {c}], c), c)

LEMMA FreshEffect ==
  ASSUME NEW p, TableShape(p), NEW c \in Chats, EntryIsSound(p, c)
  PROVE  /\ TableShape(Fresh(p, c)) /\ SameBut(p, Fresh(p, c), c) /\ EntryIsSound(Fresh(p, c), c)
         /\ Known(Fresh(p, c)) = Known(p) \cup {c}
<1> DEFINE a == CleanUp(p, c)
           b == [a EXCEPT !.failed = @ \ {c}]
           d == NewEntry(b, c)
           e == OpenSocket(d, c)
<1>1. /\ TableShape(a) /\ Known(a) = Known(p) \ {c} /\ a.failed = p.failed
      /\ a.ws = [p.ws EXCEPT ![c] = "none"] /\ a.timer = [p.timer EXCEPT ![c] = "off"]
      /\ a.terminal = p.terminal
  <2>1. CASE c \in Known(p)
    BY <2>1, CleanUpEffect
  <2>2. CASE c \notin Known(p)
    <3>1. a = p
      BY <2>2 DEF CleanUp
    <3>2. p.ws[c] = "none" /\ p.timer[c] = "off"
      BY <2>2 DEF EntryIsSound, TableShape, Timers
    <3>3. p.ws \in [Chats -> SocketStates] /\ p.timer \in [Chats -> Timers]
      BY DEF TableShape
    <3>4. p.ws = [p.ws EXCEPT ![c] = "none"] /\ p.timer = [p.timer EXCEPT ![c] = "off"]
      BY <3>2, <3>3
    <3>. QED BY <2>2, <3>1, <3>4
  <2>. QED BY <2>1, <2>2
<1> HIDE DEF a
<1>2. /\ TableShape(b) /\ Known(b) = Known(p) \ {c} /\ b.failed = p.failed \ {c}
      /\ b.ws = a.ws /\ b.timer = a.timer /\ b.terminal = a.terminal
  BY <1>1 DEF TableShape, Known
<1> HIDE DEF b
<1>3. /\ TableShape(d) /\ Known(d) = Known(b) \cup {c} /\ d.failed = b.failed
      /\ d.ws = [b.ws EXCEPT ![c] = "none"] /\ d.timer = b.timer
      /\ d.terminal = [b.terminal EXCEPT ![c] = FALSE]
  BY <1>2, NewEntryEffect
<1> HIDE DEF d
<1>4. /\ TableShape(e) /\ e.order = d.order /\ e.failed = d.failed
      /\ e.ws = [d.ws EXCEPT ![c] = "connecting"] /\ e.timer = d.timer /\ e.terminal = d.terminal
  BY <1>3, OpenEffect
<1>5. e = Fresh(p, c)
  BY DEF e, d, b, a, Fresh
<1> HIDE DEF e
<1>6. Known(e) = Known(p) \cup {c}
  BY <1>2, <1>3, <1>4 DEF Known
<1>7. /\ p.ws \in [Chats -> SocketStates] /\ p.timer \in [Chats -> Timers] /\ p.terminal \in [Chats -> BOOLEAN]
  BY DEF TableShape
<1>8. SameBut(p, e, c)
  <2>. SUFFICES ASSUME NEW x \in Chats \ {c}
                PROVE  /\ e.ws[x] = p.ws[x] /\ e.timer[x] = p.timer[x] /\ e.terminal[x] = p.terminal[x]
                       /\ x \in e.failed <=> x \in p.failed
                       /\ x \in Known(e) <=> x \in Known(p)
    BY DEF SameBut
  <2>. QED BY <1>1, <1>2, <1>3, <1>4, <1>6, <1>7
<1>9. EntryIsSound(e, c)
  <2>1. e.ws[c] = "connecting" /\ e.timer[c] = "off" /\ c \notin e.failed /\ c \in Known(e)
    BY <1>1, <1>2, <1>3, <1>4, <1>6, <1>7
  <2>. QED BY <2>1 DEF EntryIsSound
<1>. QED BY <1>4, <1>5, <1>6, <1>8, <1>9

\* No socket of the conversation on screen or of a live turn is closed between p and q.
Spares(p, q, on) ==
  \A d \in Chats : (d = on \/ d \in streaming) /\ p.ws[d] = "open" => q.ws[d] = "open"

LEMMA HeldIsFinite ==
  ASSUME NEW p, TableShape(p)
  PROVE  /\ IsFiniteSet(Held(p)) /\ Cardinality(Held(p)) \in Nat
         /\ Held(p) \subseteq Chats /\ SocketCount(p) = Cardinality(Held(p))
<1>1. Held(p) \subseteq Chats
  BY KnownAreChats DEF Held
<1>2. IsFiniteSet(Chats)
  BY ClientSocketsAssumption
<1>. QED BY <1>1, <1>2, FS_Subset, FS_CardinalityType DEF Held, SocketCount

\* Who is evicted is neither on screen nor busy, and its socket becomes free.
LEMMA RoomIsMade ==
  ASSUME NEW D \in SUBSET Chats, NEW p, IsSoundOn(p, D), NEW c \in Chats, NEW on, ~Full(p, c, on)
  PROVE  LET q == MakeRoom(p, c, on) IN
         /\ IsSoundOn(q, D) /\ Cardinality(Held(q)) < MaxConnections
         /\ Known(q) = Known(p) /\ q.ws[c] = p.ws[c]
         /\ q.timer[c] = p.timer[c] /\ q.terminal[c] = p.terminal[c] /\ q.failed = p.failed
         /\ Spares(p, q, on)
<1> DEFINE q == MakeRoom(p, c, on)
<1>0. /\ TableShape(p) /\ MaxConnections \in Nat
      /\ Cardinality(Held(p)) \in Nat /\ IsFiniteSet(Held(p)) /\ SocketCount(p) = Cardinality(Held(p))
  BY HeldIsFinite, ClientSocketsAssumption DEF IsSoundOn
<1>1. CASE SocketCount(p) < MaxConnections
  <2>1. q = p
    BY <1>0, <1>1 DEF MakeRoom
  <2>2. Spares(p, p, on)
    BY DEF Spares
  <2>. QED BY <1>0, <1>1, <2>1, <2>2
<1>2. CASE SocketCount(p) >= MaxConnections
  <2> DEFINE I == IdleOthers(p, c, on)
             v == p.order[Min(I)]
  <2>1. I # {} /\ I \in SUBSET Nat
    BY <1>0, <1>2 DEF Full, IdleOthers, TableShape
  <2>2. Min(I) \in I
    <3> HIDE DEF I
    <3>. QED BY <2>1, LeastExists
  <2>3. v \in Known(p) /\ v \in Chats /\ v # c /\ v # on /\ v \notin streaming /\ p.ws[v] = "open"
    <3> DEFINE i == Min(I)
    <3> HIDE DEF i
    <3>1. i \in DOMAIN p.order /\ p.order[i] \notin {c, on} \cup streaming /\ p.ws[p.order[i]] = "open"
      BY <2>2 DEF i, IdleOthers
    <3>2. p.order[i] \in ToSet(p.order)
      BY <3>1 DEF ToSet
    <3>. QED BY <1>0, <3>1, <3>2, KnownAreChats DEF i, Known
  <2>4. q = Park(p, v)
    BY <1>2 DEF MakeRoom
  <2> HIDE DEF q, v
  <2>5. /\ TableShape(q) /\ q.order = p.order /\ q.failed = p.failed
        /\ q.ws = [p.ws EXCEPT ![v] = "none"] /\ q.timer = [p.timer EXCEPT ![v] = "poll"]
        /\ q.terminal = p.terminal
    BY <1>0, <2>3, <2>4, ParkEffect
  <2>6. p.ws \in [Chats -> SocketStates] /\ p.timer \in [Chats -> Timers]
    BY <1>0 DEF TableShape
  <2>7. Known(q) = Known(p)
    BY <2>5 DEF Known
  <2>8. /\ q.ws[v] = "none" /\ q.timer[v] = "poll"
        /\ \A d \in Chats \ {v} : q.ws[d] = p.ws[d] /\ q.timer[d] = p.timer[d]
    BY <2>3, <2>5, <2>6
  <2>9. SameBut(p, q, v)
    BY <2>5, <2>7, <2>8 DEF SameBut
  <2>10. EntryIsSound(q, v) /\ v \notin Held(q)
    BY <2>3, <2>7, <2>8 DEF EntryIsSound, Held
  <2>11. IsSoundOn(q, D)
    <3>1. IsSoundOn(p, D \ {v})
      BY DEF IsSoundOn
    <3>. QED BY <2>3, <2>5, <2>9, <2>10, <3>1, OneEntryOf
  <2>12. Held(q) = Held(p) \ {v} /\ v \in Held(p)
    <3>1. v \in Held(p)
      BY <2>3 DEF Held
    <3>2. \A d \in Chats \ {v} : d \in Held(q) <=> d \in Held(p)
      BY <2>7, <2>8 DEF Held
    <3>3. Held(q) \subseteq Chats /\ Held(p) \subseteq Chats
      BY <1>0, <2>5, HeldIsFinite
    <3>. QED BY <2>10, <3>1, <3>2, <3>3
  <2>13. Cardinality(Held(q)) = Cardinality(Held(p)) - 1
    BY <1>0, <2>12, FS_RemoveElement
  <2>14. Cardinality(Held(p)) <= MaxConnections
    BY DEF IsSoundOn
  <2>15. Spares(p, q, on)
    BY <2>3, <2>8 DEF Spares
  <2>16. q.ws[c] = p.ws[c] /\ q.timer[c] = p.timer[c] /\ q.terminal[c] = p.terminal[c] /\ q.failed = p.failed
    BY <2>3, <2>5, <2>8
  <2>17. Cardinality(Held(q)) < MaxConnections
    BY <1>0, <2>13, <2>14
  <2>. QED BY <2>7, <2>11, <2>15, <2>16, <2>17 DEF q
<1>. QED BY <1>0, <1>1, <1>2

\* Whatever connect() does, the table stays sound, nobody leaves it, and nobody on screen or
\* busy loses a socket.
LEMMA ConnectIsSound ==
  ASSUME NEW p, TableIsSound(p), NEW c \in Chats, NEW on
  PROVE  LET q == Connect(p, c, on) IN
         /\ TableIsSound(q) /\ Known(p) \subseteq Known(q) /\ Spares(p, q, on)
<1> DEFINE q == Connect(p, c, on)
           slotless == c \notin Known(p) \/ p.ws[c] = "none"
<1>0. /\ TableShape(p) /\ EntryIsSound(p, c) /\ MaxConnections \in Nat
  BY ClientSocketsAssumption DEF TableIsSound, IsSoundOn
<1>s. Spares(p, p, on)
  BY DEF Spares
<1>1. CASE p.ws[c] = "open"
  <2>1. q = p
    BY <1>0, <1>1 DEF Connect, EntryIsSound
  <2>. QED BY <1>s, <2>1
<1>2. CASE slotless /\ Full(p, c, on) /\ c \in Known(p)
  <2>1. q = p
    BY <1>2 DEF Connect
  <2>. QED BY <1>s, <2>1
<1>3. CASE slotless /\ Full(p, c, on) /\ c \notin Known(p)
  <2> DEFINE n == NewEntry(p, c)
  <2>0. p.ws[c] = "none" /\ c \notin p.failed
    BY <1>0, <1>3 DEF EntryIsSound
  <2>1. q = Park(n, c)
    BY <1>3, <2>0 DEF Connect
  <2>2. /\ TableShape(n) /\ Known(n) = Known(p) \cup {c} /\ n.failed = p.failed
        /\ n.ws = [p.ws EXCEPT ![c] = "none"] /\ n.timer = p.timer
        /\ n.terminal = [p.terminal EXCEPT ![c] = FALSE]
    BY <1>0, <1>3, NewEntryEffect
  <2> HIDE DEF n, q
  <2>3. /\ TableShape(q) /\ q.order = n.order /\ q.failed = n.failed
        /\ q.ws = [n.ws EXCEPT ![c] = "none"] /\ q.timer = [n.timer EXCEPT ![c] = "poll"]
        /\ q.terminal = n.terminal
    BY <2>1, <2>2, ParkEffect
  <2>4. /\ p.ws \in [Chats -> SocketStates] /\ p.timer \in [Chats -> Timers] /\ p.terminal \in [Chats -> BOOLEAN]
    BY <1>0 DEF TableShape
  <2>5. Known(q) = Known(p) \cup {c} /\ q.failed = p.failed
    BY <2>2, <2>3 DEF Known
  <2>6. /\ q.ws[c] = "none" /\ q.timer[c] = "poll"
        /\ \A d \in Chats \ {c} : q.ws[d] = p.ws[d] /\ q.timer[d] = p.timer[d] /\ q.terminal[d] = p.terminal[d]
    BY <2>2, <2>3, <2>4
  <2>7. SameBut(p, q, c)
    BY <2>5, <2>6 DEF SameBut
  <2>8. EntryIsSound(q, c) /\ c \notin Held(q)
    BY <2>5, <2>6 DEF EntryIsSound, Held
  <2>9. TableIsSound(q)
    BY <2>3, <2>7, <2>8, OneEntryChanges
  <2>10. Spares(p, q, on)
    BY <2>0, <2>6 DEF Spares
  <2>. QED BY <2>5, <2>9, <2>10 DEF q
<1>4. CASE slotless /\ ~Full(p, c, on)
  <2> DEFINE r == MakeRoom(p, c, on)
  <2>1. /\ TableIsSound(r) /\ Cardinality(Held(r)) < MaxConnections
        /\ Known(r) = Known(p) /\ r.ws[c] = p.ws[c] /\ Spares(p, r, on)
    BY <1>4, RoomIsMade DEF TableIsSound
  <2>2. p.ws[c] = "none"
    BY <1>0, <1>4 DEF EntryIsSound
  <2>3. q = Fresh(r, c)
    BY <1>4, <2>2 DEF Connect, Fresh
  <2> HIDE DEF r, q
  <2>4. TableShape(r) /\ EntryIsSound(r, c)
    BY <2>1 DEF TableIsSound, IsSoundOn
  <2>5. /\ TableShape(q) /\ SameBut(r, q, c) /\ EntryIsSound(q, c) /\ Known(q) = Known(r) \cup {c}
    BY <2>3, <2>4, FreshEffect
  <2>6. TableIsSound(q)
    BY <2>1, <2>5, OneEntryChanges
  <2>7. Spares(p, q, on)
    <3>. SUFFICES ASSUME NEW d \in Chats, d = on \/ d \in streaming, p.ws[d] = "open"
                  PROVE  q.ws[d] = "open"
      BY DEF Spares
    <3>1. r.ws[d] = "open" /\ d # c
      BY <2>1, <2>2 DEF Spares
    <3>. QED BY <2>5, <3>1 DEF SameBut
  <2>. QED BY <2>1, <2>5, <2>6, <2>7 DEF q
<1>5. CASE ~slotless /\ p.ws[c] # "open"
  <2>1. q = Fresh(p, c)
    BY <1>5 DEF Connect, Fresh
  <2> HIDE DEF q
  <2>2. /\ TableShape(q) /\ SameBut(p, q, c) /\ EntryIsSound(q, c) /\ Known(q) = Known(p) \cup {c}
    BY <1>0, <2>1, FreshEffect
  <2>3. c \in Held(p)
    BY <1>5 DEF Held
  <2>4. TableIsSound(q)
    BY <2>2, <2>3, OneEntryChanges
  <2>5. Spares(p, q, on)
    BY <1>5, <2>2 DEF Spares, SameBut
  <2>. QED BY <2>2, <2>4, <2>5 DEF q
<1>. QED BY <1>1, <1>2, <1>3, <1>4, <1>5

-----------------------------------------------------------------------------
(***************************************************************************)
(* The kick tries the connections one after the other.  Tried is a         *)
(* recursive function; that there is one is shown by the first prefix that *)
(* would have none.                                                        *)
(***************************************************************************)
\* What is tried next after f.
Again(f, k) == [i \in 0..k |-> IF i = 0 THEN pool ELSE Connect(f[i - 1], pool.order[i], shown)]

LEMMA PrefixesAreTried ==
  ASSUME NEW k \in Nat
  PROVE  \E f : f = Again(f, k)
<1> DEFINE F(n) == \E f : f = Again(f, n)
           Bad  == {n \in Nat : ~F(n)}
<1>1. F(0)
  <2> DEFINE g == [i \in 0..0 |-> pool]
  <2>1. g = Again(g, 0)
    BY DEF Again
  <2>. QED BY <2>1
<1>2. ASSUME NEW n \in Nat, F(n) PROVE F(n + 1)
  <2>1. PICK f : f = Again(f, n)
    BY <1>2
  <2>2. \A i \in 0..n : f[i] = IF i = 0 THEN pool ELSE Connect(f[i - 1], pool.order[i], shown)
    BY Zenon, <2>1 DEF Again
  <2> DEFINE last == Connect(f[n], pool.order[n + 1], shown)
             g == [i \in 0..(n + 1) |-> IF i = n + 1 THEN last ELSE f[i]]
  <2>3. /\ \A i \in 0..n : g[i] = f[i]
        /\ g[n + 1] = last
    <3> HIDE DEF last
    <3>. QED OBVIOUS
  <2>4. ASSUME NEW i \in 0..(n + 1)
        PROVE  g[i] = IF i = 0 THEN pool ELSE Connect(g[i - 1], pool.order[i], shown)
    <3> HIDE DEF g
    <3>1. CASE i = n + 1
      <4>1. n \in 0..n /\ i # 0 /\ i - 1 = n
        BY <3>1
      <4>2. g[i] = Connect(g[n], pool.order[n + 1], shown)
        BY <2>3, <3>1, <4>1
      <4>. QED BY <3>1, <4>1, <4>2
    <3>2. CASE i # n + 1
      <4>1. i \in 0..n /\ (i # 0 => i - 1 \in 0..n)
        BY <3>2
      <4>. QED BY <2>2, <2>3, <4>1
    <3>. QED BY <3>1, <3>2
  <2>5. g = [i \in 0..(n + 1) |-> g[i]]
    OBVIOUS
  <2> HIDE DEF g
  <2>6. g = Again(g, n + 1)
    <3>1. Again(g, n + 1) = [i \in 0..(n + 1) |-> g[i]]
      BY Zenon, <2>4 DEF Again
    <3>. QED BY <2>5, <3>1
  <2>. QED BY <2>6
<1> HIDE DEF F
<1>3. Bad = {}
  <2>1. SUFFICES ASSUME Bad # {} PROVE FALSE
    OBVIOUS
  <2>2. PICK n \in Bad : \A m \in Bad : ~(<<m, n>> \in OpToRel(<, Nat))
    BY <2>1, NatLessThanWellFounded, WFMin
  <2>3. n \in Nat /\ n # 0
    BY <1>1, <2>2
  <2>4. n - 1 \in Nat /\ (n - 1) + 1 = n /\ n \in Nat
    BY <2>3
  <2>5. <<n - 1, n>> \in OpToRel(<, Nat)
    BY <2>4 DEF OpToRel
  <2>6. n - 1 \notin Bad
    BY <2>2, <2>5
  <2>. QED BY <1>2, <2>2, <2>4, <2>6
<1>. QED BY <1>3 DEF F

LEMMA TriedUnfolds ==
  ASSUME Len(pool.order) \in Nat
  PROVE  \A i \in 0..Len(pool.order) :
           Tried[i] = IF i = 0 THEN pool ELSE Connect(Tried[i - 1], pool.order[i], shown)
<1>1. \E f : f = [i \in 0..Len(pool.order) |->
                   IF i = 0 THEN pool ELSE Connect(f[i - 1], pool.order[i], shown)]
  BY PrefixesAreTried DEF Again
<1>2. Tried = [i \in 0..Len(pool.order) |->
                 IF i = 0 THEN pool ELSE Connect(Tried[i - 1], pool.order[i], shown)]
  BY Zenon, <1>1 DEF Tried
<1>. QED BY Zenon, <1>2

LEMMA TriedIsSound ==
  ASSUME TableIsSound(pool)
  PROVE  LET q == Tried[Len(pool.order)] IN
         TableIsSound(q) /\ Known(pool) \subseteq Known(q) /\ Spares(pool, q, shown)
<1> DEFINE F(n) == TableIsSound(Tried[n]) /\ Known(pool) \subseteq Known(Tried[n]) /\ Spares(pool, Tried[n], shown)
           N == 0..Len(pool.order)
           Bad == {n \in N : ~F(n)}
<1>0. pool.order \in Seq(Chats) /\ Len(pool.order) \in Nat
  BY DEF TableIsSound, IsSoundOn, TableShape
<1>1. F(0)
  <2>1. Tried[0] = pool
    BY <1>0, TriedUnfolds
  <2>2. Spares(pool, pool, shown)
    BY DEF Spares
  <2>. QED BY <2>1, <2>2
<1>2. ASSUME NEW n \in N, n # 0, F(n - 1) PROVE F(n)
  <2>1. Tried[n] = Connect(Tried[n - 1], pool.order[n], shown)
    BY <1>0, <1>2, TriedUnfolds
  <2>2. pool.order[n] \in Chats
    BY <1>0, <1>2
  <2>3. /\ TableIsSound(Tried[n]) /\ Known(Tried[n - 1]) \subseteq Known(Tried[n])
        /\ Spares(Tried[n - 1], Tried[n], shown)
    BY <1>2, <2>1, <2>2, ConnectIsSound
  <2>4. Spares(pool, Tried[n], shown)
    BY <1>2, <2>3 DEF Spares
  <2>. QED BY <1>2, <2>3, <2>4
<1>3. Bad = {}
  <2>1. SUFFICES ASSUME Bad # {} PROVE FALSE
    OBVIOUS
  <2> HIDE DEF F
  <2>2. Bad \subseteq Nat
    BY <1>0
  <2>3. PICK n \in Bad : \A m \in Bad : ~(<<m, n>> \in OpToRel(<, Nat))
    BY <2>1, <2>2, NatLessThanWellFounded, WFMin
  <2>4. n \in N /\ n # 0
    BY <1>1, <2>3
  <2>5. n - 1 \in N /\ n - 1 \in Nat /\ n \in Nat /\ n - 1 < n
    BY <1>0, <2>4
  <2>6. <<n - 1, n>> \in OpToRel(<, Nat)
    BY <2>5 DEF OpToRel
  <2>7. n - 1 \notin Bad
    BY <2>3, <2>6
  <2>. QED BY <1>2, <2>3, <2>4, <2>5, <2>7
<1> HIDE DEF F
<1>4. F(Len(pool.order))
  BY <1>0, <1>3
<1>. QED BY <1>4 DEF F

-----------------------------------------------------------------------------
\* The table is a table of the declared type: no conversation is in it twice, so that it is no
\* longer than there are conversations.
LEMMA TableHasType ==
  ASSUME SocketInv
  PROVE  SocketTypeOK
<1>1. TableShape(pool) /\ \A c \in Chats : EntryIsSound(pool, c)
  BY DEF SocketInv, TableIsSound, IsSoundOn
<1>2. pool.order \in Seq(Chats) /\ IsInjective(pool.order)
  BY <1>1 DEF TableShape
<1> DEFINE n == Len(pool.order)
<1>3. n \in Nat /\ pool.order \in [1..n -> Chats]
  BY <1>2
<1>4. IsFiniteSet(Chats) /\ Cardinality(Chats) \in Nat
  BY ClientSocketsAssumption, FS_CardinalityType
<1>5. n <= Cardinality(Chats)
  <2>1. \A i, j \in 1..n : pool.order[i] = pool.order[j] => i = j
    BY <1>2, <1>3 DEF IsInjective
  <2> DEFINE s == pool.order
  <2>3. IsFiniteSet(1..n) /\ Cardinality(1..n) = n
    <3> HIDE DEF n
    <3>1. 1 \in Int /\ n \in Int
      BY <1>3
    <3>. QED BY <1>3, <3>1, FS_Interval
  <2>4. s \in Injection(1..n, Chats)
    BY <1>3, <2>1 DEF Injection, IsInjective
  <2>. QED BY <1>4, <2>3, <2>4, FS_Injection
<1>6. pool.order \in SeqOf(Chats, Cardinality(Chats))
  <2>1. n \in 0..Cardinality(Chats)
    BY <1>3, <1>4, <1>5
  <2> HIDE DEF n
  <2>. QED BY <1>3, <2>1 DEF SeqOf
<1>7. SocketTypeOK
  BY <1>1, <1>2, <1>6 DEF SocketInv, SocketTypeOK, TableShape
<1>. QED BY <1>7

\* The invariant says what the run checks of the tab.
LEMMA TabIsConnected ==
  ASSUME SocketInv
  PROVE  TabStaysConnected
<1>1. TableShape(pool) /\ (\A c \in Chats : EntryIsSound(pool, c)) /\ Cardinality(Held(pool)) <= MaxConnections
  BY DEF SocketInv, TableIsSound, IsSoundOn
<1>2. Known(pool) \subseteq Chats /\ pool.failed \subseteq Chats /\ pool.timer \in [Chats -> Timers]
  BY <1>1, KnownAreChats DEF TableShape
<1>3. CapIsKept
  BY <1>1, HeldIsFinite DEF CapIsKept
<1>4. NobodyIsStranded
  BY <1>1, <1>2 DEF NobodyIsStranded, EntryIsSound
<1>5. OneAttemptAtATime
  BY <1>1, <1>2 DEF OneAttemptAtATime, EntryIsSound, Timers
<1>6. FailedIsDown
  BY <1>1, <1>2 DEF FailedIsDown, EntryIsSound
<1>. QED BY <1>3, <1>4, <1>5, <1>6 DEF TabStaysConnected

-----------------------------------------------------------------------------
\* A retry is counted, up to the slow phase.
LEMMA CountIsBounded ==
  ASSUME NEW n \in 0..MaxRetries
  PROVE  Min({n + 1, MaxRetries}) \in 0..MaxRetries
<1>1. MaxRetries \in Nat
  BY ClientSocketsAssumption
<1> DEFINE S == {n + 1, MaxRetries}
<1>2. S \in SUBSET Nat /\ S # {}
  BY <1>1
<1>3. Min(S) \in S /\ Min(S) <= MaxRetries
  <2>1. MaxRetries \in S
    OBVIOUS
  <2> HIDE DEF S
  <2>. QED BY <1>2, <2>1, LeastExists
<1> DEFINE m == Min(S)
<1>4. m \in Nat /\ m <= MaxRetries
  BY <1>2, <1>3
<1> HIDE DEF m
<1>5. m \in 0..MaxRetries
  BY <1>1, <1>4
<1>. QED BY <1>5 DEF m

\* Replacing the table keeps to open sockets what is known of silence.
LEMMA SilenceIsKept ==
  ASSUME SocketInv, NEW p, TableIsSound(p), Becomes(p)
  PROVE  /\ TableIsSound(pool') /\ dead' \subseteq silent' /\ silent' \subseteq Chats
         /\ \A c \in silent' : pool'.ws[c] = "open"
BY DEF SocketInv, Becomes

\* What a step must not do to the conversation on screen or to a live turn.
SparesLive ==
  \A c \in Chats :
    pool.ws[c] = "open" /\ pool'.ws[c] = "none" /\ (c = shown' \/ c \in streaming)
      => c \notin Known(pool')

\* The rest of the invariant, after a step.
OthersFit ==
  /\ \A c \in silent' : pool'.ws[c] = "open"
  /\ shown' \in Chats \cup {NoChat} /\ streaming' \subseteq Chats
  /\ dead' \subseteq silent' /\ silent' \subseteq Chats
  /\ faults' \in 0..MaxFaults /\ busy' \in 0..MaxBusy

LEMMA InvAfter ==
  ASSUME TableIsSound(pool'), OthersFit
  PROVE  SocketInv'
BY DEF SocketInv, OthersFit, TableIsSound, IsSoundOn, TableShape, EntryIsSound, Held, Known

\* The entry of c is written in its place: what its new timer, socket and marks must be.
LEMMA InPlace ==
  ASSUME NEW p, TableIsSound(p), NEW c \in Chats, NEW q, TableShape(q), SameBut(p, q, c), q.order = p.order,
         c \in Known(p), p.ws[c] # "none", q.ws[c] # "none",
         q.timer[c] = "off" \/ (q.timer[c] = "backoff" /\ q.ws[c] = "down"),
         q.ws[c] = "down" => q.timer[c] # "off" \/ q.terminal[c], c \in q.failed => q.ws[c] # "open"
  PROVE  /\ TableIsSound(q) /\ Known(q) = Known(p)
         /\ \A d \in Chats \ {c} : q.ws[d] = p.ws[d]
<1>1. Known(q) = Known(p)
  BY DEF Known
<1>2. EntryIsSound(q, c)
  BY <1>1 DEF EntryIsSound
<1>3. c \in Held(p)
  BY DEF Held
<1>4. TableIsSound(q)
  BY <1>2, <1>3, OneEntryChanges
<1>. QED BY <1>1, <1>4 DEF SameBut

\* The entry of c, as the invariant has it.
LEMMA EntryFits ==
  ASSUME NEW p, TableIsSound(p), NEW c \in Chats
  PROVE  /\ TableShape(p) /\ EntryIsSound(p, c)
         /\ p.ws[c] \in SocketStates /\ p.timer[c] \in Timers
         /\ p.retries[c] \in 0..MaxRetries /\ p.terminal[c] \in BOOLEAN
         /\ p.failed \in SUBSET Chats
BY DEF TableIsSound, IsSoundOn, TableShape

OpenedTable(p, c) ==
  [p EXCEPT !.ws[c] = "open", !.timer[c] = "off", !.stable[c] = TRUE,
                       !.probe[c] = FALSE, !.failed = @ \ {c}]

LEMMA OpenedFits ==
  ASSUME NEW p, TableIsSound(p), NEW c \in Chats, p.ws[c] = "connecting", NEW q,
         q = OpenedTable(p, c)
  PROVE  /\ TableIsSound(q) /\ Known(q) = Known(p) /\ q.ws[c] = "open"
         /\ \A d \in Chats \ {c} : q.ws[d] = p.ws[d]
<1>1. TableShape(p) /\ EntryIsSound(p, c) /\ p.terminal \in [Chats -> BOOLEAN]
  BY DEF TableIsSound, IsSoundOn, TableShape
<1>2. /\ TableShape(q) /\ q.order = p.order /\ q.ws = [p.ws EXCEPT ![c] = "open"]
      /\ q.timer = [p.timer EXCEPT ![c] = "off"] /\ q.terminal = p.terminal /\ q.failed = p.failed \ {c}
  BY <1>1 DEF OpenedTable, TableShape, SocketStates, Timers
<1>3. c \in Known(p)
  BY <1>1 DEF EntryIsSound
<1>4. SameBut(p, q, c) /\ q.ws[c] = "open" /\ q.timer[c] = "off" /\ c \notin q.failed
  BY <1>1, <1>2 DEF SameBut, Known, TableShape
<1>5. TableShape(q) /\ q.order = p.order /\ SameBut(p, q, c) /\ c \in Known(p)
  BY <1>2, <1>3, <1>4
<1>6. /\ p.ws[c] # "none" /\ q.ws[c] # "none" /\ q.timer[c] = "off"
      /\ q.ws[c] = "down" => q.terminal[c]
      /\ c \in q.failed => q.ws[c] # "open"
  BY <1>4
<1>. QED BY <1>4, <1>5, <1>6, InPlace

DownTable(p, c, stable) == ScheduleRetry([p EXCEPT !.ws[c] = "down", !.stable[c] = stable], c)

\* A socket goes down: a retry is armed unless the server has refused the connection.
LEMMA DownFits ==
  ASSUME NEW p, TableIsSound(p), NEW c \in Chats, p.ws[c] \in {"connecting", "open", "closing"},
         NEW stable \in BOOLEAN, NEW q,
         q = DownTable(p, c, stable)
  PROVE  /\ TableIsSound(q) /\ Known(q) = Known(p) /\ q.ws[c] = "down"
         /\ \A d \in Chats \ {c} : q.ws[d] = p.ws[d]
<1>1. /\ TableShape(p) /\ EntryIsSound(p, c) /\ p.terminal \in [Chats -> BOOLEAN] /\ p.timer \in [Chats -> Timers]
  BY DEF TableIsSound, IsSoundOn, TableShape
<1>2. c \in Known(p) /\ p.timer[c] = "off"
  BY <1>1 DEF EntryIsSound, Timers
<1> DEFINE r == [p EXCEPT !.ws[c] = "down", !.stable[c] = stable]
<1>3. /\ TableShape(r) /\ r.order = p.order /\ r.ws = [p.ws EXCEPT ![c] = "down"]
      /\ r.timer = p.timer /\ r.terminal = p.terminal /\ r.failed = p.failed /\ r.retries = p.retries
  BY <1>1 DEF TableShape, SocketStates
<1>4. q = ScheduleRetry(r, c)
  BY DEF DownTable
<1> HIDE DEF r
<1>6. CASE p.terminal[c]
  <2>1. q = r
    BY <1>3, <1>4, <1>6 DEF ScheduleRetry
  <2>2. SameBut(p, q, c) /\ q.ws[c] = "down" /\ q.timer[c] = "off" /\ q.terminal[c]
    BY <1>1, <1>2, <1>3, <1>6, <2>1 DEF SameBut, Known, TableShape
  <2>. QED BY <1>2, <1>3, <2>1, <2>2, InPlace
<1>7. CASE ~p.terminal[c]
  <2> DEFINE f == IF r.retries[c] >= MaxRetries THEN r.failed \cup {c} ELSE r.failed
  <2>1. q = [r EXCEPT !.failed = f, !.timer[c] = "backoff"]
    BY <1>2, <1>3, <1>4, <1>7 DEF ScheduleRetry, TableShape
  <2>2. f \in SUBSET Chats /\ \A d \in Chats \ {c} : d \in f <=> d \in p.failed
    BY <1>3 DEF TableShape
  <2> HIDE DEF f
  <2> DEFINE t == [r.timer EXCEPT ![c] = "backoff"]
  <2>3. t \in [Chats -> Timers]
    BY <1>3 DEF TableShape, Timers
  <2>4. q = [r EXCEPT !.failed = f, !.timer = t]
    BY <1>3, <2>1 DEF TableShape
  <2> HIDE DEF t
  <2>5. /\ TableShape(q) /\ q.order = r.order /\ q.ws = r.ws /\ q.timer = t
        /\ q.terminal = r.terminal /\ q.failed = f
    BY <1>3, <2>2, <2>3, <2>4 DEF TableShape
  <2>6. q.timer = [p.timer EXCEPT ![c] = "backoff"]
    BY <1>3, <2>5 DEF t
  <2>7. SameBut(p, q, c) /\ q.ws[c] = "down" /\ q.timer[c] = "backoff"
    BY <1>1, <1>3, <2>2, <2>5, <2>6 DEF SameBut, Known, TableShape
  <2>. QED BY <1>2, <1>3, <2>5, <2>7, InPlace
<1>. QED BY <1>6, <1>7

RefusedTable(p, c) ==
  [p EXCEPT !.ws[c] = "down", !.stable[c] = FALSE, !.timer[c] = "off", !.terminal[c] = TRUE]

LEMMA RefusedFits ==
  ASSUME NEW p, TableIsSound(p), NEW c \in Chats, p.ws[c] = "open", NEW q,
         q = RefusedTable(p, c)
  PROVE  /\ TableIsSound(q) /\ Known(q) = Known(p) /\ q.ws[c] = "down"
         /\ \A d \in Chats \ {c} : q.ws[d] = p.ws[d]
<1>1. TableShape(p) /\ EntryIsSound(p, c)
  BY DEF TableIsSound, IsSoundOn
<1>2. /\ TableShape(q) /\ q.order = p.order /\ q.ws = [p.ws EXCEPT ![c] = "down"]
      /\ q.timer = [p.timer EXCEPT ![c] = "off"] /\ q.terminal = [p.terminal EXCEPT ![c] = TRUE] /\ q.failed = p.failed
  BY <1>1 DEF RefusedTable, TableShape, SocketStates, Timers
<1>3. c \in Known(p)
  BY <1>1 DEF EntryIsSound
<1>4. SameBut(p, q, c) /\ q.ws[c] = "down" /\ q.timer[c] = "off" /\ q.terminal[c]
  BY <1>1, <1>2 DEF SameBut, Known, TableShape
<1>5. TableShape(q) /\ q.order = p.order /\ SameBut(p, q, c) /\ c \in Known(p)
  BY <1>2, <1>3, <1>4
<1>6. /\ p.ws[c] # "none" /\ q.ws[c] # "none" /\ q.timer[c] = "off"
      /\ q.ws[c] = "down" => q.terminal[c]
      /\ c \in q.failed => q.ws[c] # "open"
  BY <1>4
<1>. QED BY <1>4, <1>5, <1>6, InPlace

GivenUpTable(p, c) ==
  [p EXCEPT !.ws[c] = "closing"]

\* The watchdog gives a socket up.
LEMMA GivenUpFits ==
  ASSUME NEW p, TableIsSound(p), NEW c \in Chats, p.ws[c] = "open", NEW q, q = GivenUpTable(p, c)
  PROVE  /\ TableIsSound(q) /\ Known(q) = Known(p) /\ q.ws[c] = "closing"
         /\ \A d \in Chats \ {c} : q.ws[d] = p.ws[d]
<1>1. /\ TableShape(p) /\ EntryIsSound(p, c) /\ p.terminal \in [Chats -> BOOLEAN] /\ p.timer \in [Chats -> Timers]
  BY DEF TableIsSound, IsSoundOn, TableShape
<1>2. c \in Known(p) /\ p.timer[c] = "off"
  BY <1>1 DEF EntryIsSound, Timers
<1>3. /\ TableShape(q) /\ q.order = p.order /\ q.ws = [p.ws EXCEPT ![c] = "closing"]
      /\ q.timer = p.timer /\ q.terminal = p.terminal /\ q.failed = p.failed
  BY <1>1 DEF GivenUpTable, TableShape, SocketStates
<1>4. SameBut(p, q, c) /\ q.ws[c] = "closing" /\ q.timer[c] = "off"
  BY <1>1, <1>2, <1>3 DEF SameBut, Known, TableShape
<1>. QED BY <1>2, <1>3, <1>4, InPlace

\* A change of marks that no entry depends on.
LEMMA MarksFit ==
  ASSUME NEW p, TableIsSound(p), NEW q, TableShape(q), q.order = p.order, q.ws = p.ws, q.timer = p.timer,
         q.terminal = p.terminal, q.failed = p.failed
  PROVE  TableIsSound(q)
<1>1. Known(q) = Known(p) /\ Held(q) = Held(p)
  BY DEF Known, Held
<1>2. \A c \in Chats : EntryIsSound(q, c)
  BY <1>1 DEF TableIsSound, IsSoundOn, EntryIsSound
<1>. QED BY <1>1, <1>2 DEF TableIsSound, IsSoundOn

LEMMA ProbeFits ==
  ASSUME NEW p, TableIsSound(p), NEW c \in Chats, NEW b \in BOOLEAN, NEW q, q = [p EXCEPT !.probe[c] = b]
  PROVE  TableIsSound(q) /\ q.ws = p.ws /\ Known(q) = Known(p)
<1>1. /\ TableShape(q) /\ q.order = p.order /\ q.ws = p.ws /\ q.timer = p.timer /\ q.terminal = p.terminal
      /\ q.failed = p.failed
  BY DEF TableIsSound, IsSoundOn, TableShape
<1>. QED BY <1>1, MarksFit DEF Known

StableTable(p, c) == [p EXCEPT !.stable[c] = FALSE, !.retries[c] = 0]

LEMMA StableFits ==
  ASSUME NEW p, TableIsSound(p), NEW c \in Chats, NEW q, q = StableTable(p, c)
  PROVE  TableIsSound(q) /\ q.ws = p.ws /\ Known(q) = Known(p)
<1> DEFINE O == Seq(Chats)
           R == 0..MaxRetries
<1>1. p \in [order : O, failed : SUBSET Chats, ws : [Chats -> SocketStates],
             timer : [Chats -> Timers], stable : [Chats -> BOOLEAN], retries : [Chats -> R],
             terminal : [Chats -> BOOLEAN], probe : [Chats -> BOOLEAN]] /\ IsInjective(p.order)
  BY DEF TableIsSound, IsSoundOn, TableShape
<1>2. 0 \in R
  BY ClientSocketsAssumption
<1>3. /\ q \in [order : O, failed : SUBSET Chats, ws : [Chats -> SocketStates],
             timer : [Chats -> Timers], stable : [Chats -> BOOLEAN], retries : [Chats -> R],
             terminal : [Chats -> BOOLEAN], probe : [Chats -> BOOLEAN]]
      /\ q.order = p.order /\ q.ws = p.ws /\ q.timer = p.timer /\ q.terminal = p.terminal /\ q.failed = p.failed
  <2> HIDE DEF O, R
  <2>. QED BY <1>1, <1>2 DEF StableTable
<1>4. TableShape(q)
  BY <1>1, <1>3 DEF TableShape
<1>. QED BY <1>3, <1>4, MarksFit DEF Known

LEMMA CountEffect ==
  ASSUME NEW p, TableShape(p), NEW c \in Chats
  PROVE  /\ TableShape(CountRetry(p, c))
         /\ CountRetry(p, c).order = p.order /\ CountRetry(p, c).ws = p.ws
         /\ CountRetry(p, c).timer = [p.timer EXCEPT ![c] = "off"]
         /\ CountRetry(p, c).terminal = p.terminal /\ CountRetry(p, c).failed = p.failed
<1> DEFINE O == Seq(Chats)
           R == 0..MaxRetries
           n == Min({p.retries[c] + 1, MaxRetries})
           q == [p EXCEPT !.timer[c] = "off", !.retries[c] = n]
<1>1. p \in [order : O, failed : SUBSET Chats, ws : [Chats -> SocketStates],
             timer : [Chats -> Timers], stable : [Chats -> BOOLEAN], retries : [Chats -> R],
             terminal : [Chats -> BOOLEAN], probe : [Chats -> BOOLEAN]] /\ IsInjective(p.order)
  BY DEF TableShape
<1>2. n \in R
  BY <1>1, CountIsBounded
<1>3. CountRetry(p, c) = q
  BY DEF CountRetry
<1>4. /\ q \in [order : O, failed : SUBSET Chats, ws : [Chats -> SocketStates],
             timer : [Chats -> Timers], stable : [Chats -> BOOLEAN], retries : [Chats -> R],
             terminal : [Chats -> BOOLEAN], probe : [Chats -> BOOLEAN]]
      /\ q.order = p.order /\ q.ws = p.ws /\ q.timer = [p.timer EXCEPT ![c] = "off"]
      /\ q.terminal = p.terminal /\ q.failed = p.failed
  <2> HIDE DEF O, R, n
  <2>. QED BY <1>1, <1>2 DEF Timers
<1> HIDE DEF q
<1>5. TableShape(q)
  BY <1>1, <1>4 DEF TableShape
<1>. QED BY <1>3, <1>4, <1>5

\* A retry opens a socket in the place of one that is down.
LEMMA RetryFits ==
  ASSUME NEW p, TableIsSound(p), NEW c \in Chats, p.timer[c] = "backoff", NEW q,
         q = OpenSocket(CountRetry(p, c), c)
  PROVE  /\ TableIsSound(q) /\ Known(q) = Known(p) /\ q.ws[c] = "connecting" /\ p.ws[c] = "down"
         /\ \A d \in Chats \ {c} : q.ws[d] = p.ws[d]
<1>1. TableShape(p) /\ EntryIsSound(p, c)
  BY DEF TableIsSound, IsSoundOn
<1>2. c \in Known(p) /\ p.ws[c] = "down"
  BY <1>1 DEF EntryIsSound
<1> DEFINE r == CountRetry(p, c)
<1>3. /\ TableShape(r) /\ r.order = p.order /\ r.ws = p.ws /\ r.timer = [p.timer EXCEPT ![c] = "off"]
      /\ r.terminal = p.terminal /\ r.failed = p.failed
  BY <1>1, CountEffect
<1> HIDE DEF r
<1>4. /\ TableShape(q) /\ q.order = r.order /\ q.failed = r.failed
      /\ q.ws = [r.ws EXCEPT ![c] = "connecting"] /\ q.timer = r.timer /\ q.terminal = r.terminal
  BY <1>3, OpenEffect DEF r
<1>5. SameBut(p, q, c) /\ q.ws[c] = "connecting" /\ q.timer[c] = "off"
  BY <1>1, <1>3, <1>4 DEF SameBut, Known, TableShape
<1>6. TableShape(q) /\ q.order = p.order
  BY <1>3, <1>4
<1>7. q.ws[c] # "none" /\ q.ws[c] # "down" /\ q.ws[c] # "open" /\ p.ws[c] # "none"
  BY <1>2, <1>5
<1>. QED BY <1>2, <1>5, <1>6, <1>7, InPlace

\* A poll opens a socket where there is room or can be made, and is armed again otherwise.
PollTable(p, c, on) ==
  LET r == CountRetry([p EXCEPT !.failed = IF p.retries[c] >= MaxRetries THEN @ \cup {c} ELSE @], c)
  IN IF Full(r, c, on) THEN [r EXCEPT !.timer[c] = "poll"] ELSE OpenSocket(MakeRoom(r, c, on), c)

LEMMA PollFits ==
  ASSUME NEW p, TableIsSound(p), NEW c \in Chats, p.timer[c] = "poll", NEW on, NEW q, q = PollTable(p, c, on)
  PROVE  TableIsSound(q) /\ Known(q) = Known(p) /\ Spares(p, q, on)
<1>1. TableShape(p) /\ EntryIsSound(p, c)
  BY DEF TableIsSound, IsSoundOn
<1>2. c \in Known(p) /\ p.ws[c] = "none"
  BY <1>1 DEF EntryIsSound
<1> DEFINE f == IF p.retries[c] >= MaxRetries THEN p.failed \cup {c} ELSE p.failed
           a == [p EXCEPT !.failed = f]
           r == CountRetry(a, c)
<1>3. f \in SUBSET Chats /\ \A d \in Chats \ {c} : d \in f <=> d \in p.failed
  BY <1>1 DEF TableShape
<1>4. q = IF Full(r, c, on) THEN [r EXCEPT !.timer[c] = "poll"] ELSE OpenSocket(MakeRoom(r, c, on), c)
  BY DEF PollTable
<1> HIDE DEF f
<1>5. /\ TableShape(a) /\ a.order = p.order /\ a.ws = p.ws /\ a.timer = p.timer /\ a.terminal = p.terminal
      /\ a.failed = f
  BY <1>1, <1>3 DEF TableShape
<1> HIDE DEF a
<1>6. /\ TableShape(r) /\ r.order = a.order /\ r.ws = a.ws /\ r.timer = [a.timer EXCEPT ![c] = "off"]
      /\ r.terminal = a.terminal /\ r.failed = a.failed
  BY <1>5, CountEffect
<1> HIDE DEF r
<1>7. /\ SameBut(p, r, c) /\ r.ws[c] = "none" /\ Known(r) = Known(p) /\ Spares(p, r, on)
      /\ \A d \in Chats : r.ws[d] = p.ws[d]
  BY <1>1, <1>2, <1>3, <1>5, <1>6 DEF SameBut, Known, TableShape, Spares
<1>8. Held(r) = Held(p) /\ c \notin Held(r)
  BY <1>5, <1>6, <1>7 DEF Held
<1>9. CASE Full(r, c, on)
  <2>1. q = [r EXCEPT !.timer[c] = "poll"]
    BY <1>4, <1>9
  <2>2. /\ TableShape(q) /\ q.order = r.order /\ q.ws = r.ws /\ q.timer = [r.timer EXCEPT ![c] = "poll"]
        /\ q.terminal = r.terminal /\ q.failed = r.failed
    BY <1>6, <2>1 DEF TableShape, Timers
  <2>3. /\ q.ws[c] = "none" /\ q.timer[c] = "poll" /\ Known(q) = Known(p)
        /\ SameBut(p, q, c) /\ \A d \in Chats : q.ws[d] = p.ws[d]
    BY <1>6, <1>7, <2>2 DEF SameBut, Known, TableShape
  <2>4. EntryIsSound(q, c) /\ c \notin Held(q)
    BY <1>2, <2>3 DEF EntryIsSound, Held
  <2>5. TableIsSound(q)
    BY <2>2, <2>3, <2>4, OneEntryChanges
  <2>6. Spares(p, q, on)
    BY <2>3 DEF Spares
  <2>. QED BY <2>3, <2>5, <2>6
<1>10. CASE ~Full(r, c, on)
  <2> DEFINE D == Chats \ {c}
             m == MakeRoom(r, c, on)
  <2>1. IsSoundOn(r, D)
    <3>1. IsSoundOn(p, D \ {c})
      BY DEF TableIsSound, IsSoundOn
    <3>2. \A d \in D : EntryIsSound(r, d)
      BY <1>7 DEF SameBut, EntryIsSound, TableIsSound, IsSoundOn
    <3>3. Cardinality(Held(r)) <= MaxConnections
      BY <1>8 DEF TableIsSound, IsSoundOn
    <3>. QED BY <1>6, <3>2, <3>3 DEF IsSoundOn
  <2>2. /\ IsSoundOn(m, D) /\ Cardinality(Held(m)) < MaxConnections
        /\ Known(m) = Known(r) /\ m.ws[c] = r.ws[c] /\ m.timer[c] = r.timer[c]
        /\ Spares(r, m, on)
    BY <1>10, <2>1, RoomIsMade
  <2>3. q = OpenSocket(m, c)
    BY <1>4, <1>10
  <2> HIDE DEF m
  <2>4. TableShape(m) /\ m.ws \in [Chats -> SocketStates]
    BY <2>2 DEF IsSoundOn, TableShape
  <2>5. /\ TableShape(q) /\ q.order = m.order /\ q.failed = m.failed
        /\ q.ws = [m.ws EXCEPT ![c] = "connecting"] /\ q.timer = m.timer /\ q.terminal = m.terminal
    BY <2>3, <2>4, OpenEffect
  <2>6. /\ Known(q) = Known(p) /\ q.ws[c] = "connecting" /\ q.timer[c] = "off"
        /\ \A d \in D : q.ws[d] = m.ws[d]
    BY <1>1, <1>5, <1>6, <1>7, <2>2, <2>4, <2>5 DEF Known, TableShape
  <2>7. SameBut(m, q, c)
    BY <2>5, <2>6 DEF SameBut, Known
  <2>8. EntryIsSound(q, c)
    BY <1>2, <2>6 DEF EntryIsSound
  <2>9. IsSoundOn(m, Chats \ {c})
    BY <2>2
  <2>10. TableIsSound(q)
    BY <2>2, <2>5, <2>7, <2>8, <2>9, OneEntryOf DEF TableIsSound
  <2>11. Spares(p, q, on)
    <3>. SUFFICES ASSUME NEW d \in Chats, d = on \/ d \in streaming, p.ws[d] = "open"
                  PROVE  q.ws[d] = "open"
      BY DEF Spares
    <3>1. d # c /\ r.ws[d] = "open"
      BY <1>2, <1>7
    <3>2. m.ws[d] = "open"
      BY <2>2, <3>1 DEF Spares
    <3>. QED BY <2>6, <3>1, <3>2
  <2>. QED BY <2>6, <2>10, <2>11
<1>. QED BY <1>9, <1>10

\* A conversation that is forgotten leaves the table.
LEMMA ForgetFits ==
  ASSUME NEW p, TableIsSound(p), NEW c \in Chats, c \in Known(p), NEW q, q = Forget(p, c)
  PROVE  /\ TableIsSound(q) /\ Known(q) = Known(p) \ {c}
         /\ \A d \in Chats \ {c} : q.ws[d] = p.ws[d]
<1>1. TableShape(p) /\ p.ws \in [Chats -> SocketStates] /\ p.timer \in [Chats -> Timers]
  BY DEF TableIsSound, IsSoundOn, TableShape
<1> DEFINE r == CleanUp(p, c)
<1>2. /\ TableShape(r) /\ Known(r) = Known(p) \ {c} /\ r.failed = p.failed
      /\ r.ws = [p.ws EXCEPT ![c] = "none"] /\ r.timer = [p.timer EXCEPT ![c] = "off"]
      /\ r.terminal = p.terminal
  BY <1>1, CleanUpEffect
<1>3. q = [r EXCEPT !.failed = r.failed \ {c}]
  BY DEF Forget
<1> HIDE DEF r
<1>4. /\ TableShape(q) /\ q.order = r.order /\ q.failed = p.failed \ {c}
      /\ q.ws = r.ws /\ q.timer = r.timer /\ q.terminal = r.terminal
  <2> DEFINE g == r.failed \ {c}
             R == 0..MaxRetries
             O == Seq(Chats)
  <2>1. g \in SUBSET Chats /\ g = p.failed \ {c} /\ q = [r EXCEPT !.failed = g]
    BY <1>2, <1>3 DEF TableShape
  <2>2. r \in [order : O, failed : SUBSET Chats, ws : [Chats -> SocketStates],
                timer : [Chats -> Timers], stable : [Chats -> BOOLEAN], retries : [Chats -> R],
                terminal : [Chats -> BOOLEAN], probe : [Chats -> BOOLEAN]]
    BY <1>2 DEF TableShape
  <2> HIDE DEF g, R, O
  <2>3. /\ q.order = r.order /\ q.failed = g /\ q.ws = r.ws /\ q.timer = r.timer /\ q.terminal = r.terminal
        /\ q \in [order : O, failed : SUBSET Chats, ws : [Chats -> SocketStates],
                   timer : [Chats -> Timers], stable : [Chats -> BOOLEAN], retries : [Chats -> R],
                   terminal : [Chats -> BOOLEAN], probe : [Chats -> BOOLEAN]]
    BY <2>1, <2>2
  <2>4. IsInjective(q.order)
    BY <1>2, <2>3 DEF TableShape
  <2>. QED BY <2>1, <2>3, <2>4 DEF TableShape, R, O
<1>5. /\ Known(q) = Known(p) \ {c} /\ q.ws[c] = "none" /\ q.timer[c] = "off"
      /\ \A d \in Chats \ {c} : q.ws[d] = p.ws[d] /\ q.timer[d] = p.timer[d]
  BY <1>1, <1>2, <1>4 DEF Known
<1>6. SameBut(p, q, c)
  BY <1>2, <1>4, <1>5 DEF SameBut
<1>7. EntryIsSound(q, c) /\ c \notin Held(q)
  BY <1>4, <1>5 DEF EntryIsSound, Held
<1>8. TableIsSound(q)
  BY <1>4, <1>6, <1>7, OneEntryChanges
<1>. QED BY <1>5, <1>8

\* A table that nobody is in.
LEMMA EmptyFits ==
  ASSUME NEW p, TableIsSound(p), NEW q,
         q = [p EXCEPT !.order = <<>>, !.failed = {}, !.ws = [c \in Chats |-> "none"],
                       !.timer = [c \in Chats |-> "off"], !.stable = [c \in Chats |-> FALSE]]
  PROVE  TableIsSound(q) /\ Known(q) = {}
<1>1. TableShape(p)
  BY DEF TableIsSound, IsSoundOn
<1>2. /\ q.order = <<>> /\ q.failed = {} /\ q.ws = [c \in Chats |-> "none"]
      /\ q.timer = [c \in Chats |-> "off"]
  BY <1>1 DEF TableShape
<1>3. <<>> \in Seq(Chats) /\ IsInjective(<<>>) /\ ToSet(<<>>) = {}
  BY DEF IsInjective, ToSet
<1>4. TableShape(q)
  BY <1>1, <1>2, <1>3 DEF TableShape, SocketStates, Timers
<1>5. Known(q) = {} /\ Held(q) = {}
  BY <1>2, <1>3 DEF Known, Held
<1>6. Cardinality(Held(q)) <= MaxConnections
  BY <1>5, FS_EmptySet, ClientSocketsAssumption
<1>7. \A c \in Chats : EntryIsSound(q, c)
  BY <1>2, <1>5 DEF EntryIsSound
<1>. QED BY <1>4, <1>5, <1>6, <1>7 DEF TableIsSound, IsSoundOn

-----------------------------------------------------------------------------
\* Every step keeps the invariant and spares who is on screen or busy.
LEMMA SocketInitSound == SocketInit => SocketInv
<1>. SUFFICES ASSUME SocketInit PROVE SocketInv
  OBVIOUS
<1>1. MaxRetries \in Nat /\ MaxFaults \in Nat /\ MaxBusy \in Nat /\ MaxConnections \in Nat
  BY ClientSocketsAssumption
<1>2. <<>> \in Seq(Chats) /\ IsInjective(<<>>) /\ ToSet(<<>>) = {}
  BY DEF IsInjective, ToSet
<1>3. /\ pool.order = <<>> /\ pool.failed = {} /\ pool.ws = [c \in Chats |-> "none"]
      /\ pool.timer = [c \in Chats |-> "off"]
  BY DEF SocketInit
<1>4. TableShape(pool)
  <2> DEFINE O == Seq(Chats)
             R == 0..MaxRetries
  <2>1. <<>> \in O /\ 0 \in R
    BY <1>1, <1>2
  <2>2. pool \in [order : O, failed : SUBSET Chats, ws : [Chats -> SocketStates],
             timer : [Chats -> Timers], stable : [Chats -> BOOLEAN], retries : [Chats -> R],
             terminal : [Chats -> BOOLEAN], probe : [Chats -> BOOLEAN]]
    <3> HIDE DEF O, R
    <3>. QED BY <2>1 DEF SocketInit, SocketStates, Timers
  <2>. QED BY <1>2, <1>3, <2>2 DEF TableShape
<1>5. Known(pool) = {} /\ Held(pool) = {}
  BY <1>2, <1>3 DEF Known, Held
<1>6. Cardinality(Held(pool)) <= MaxConnections
  BY <1>1, <1>5, FS_EmptySet
<1>7. \A c \in Chats : EntryIsSound(pool, c)
  BY <1>3, <1>5 DEF EntryIsSound
<1>8. TableIsSound(pool)
  BY <1>4, <1>6, <1>7 DEF TableIsSound, IsSoundOn
<1>. QED BY <1>1, <1>8 DEF SocketInit, SocketInv

LEMMA TimerSteps ==
  ASSUME SocketInv, NEW c \in Chats, RetryFires(c) \/ PollFires(c) \/ StableFires(c) \/ PingFires(c)
  PROVE  TableIsSound(pool') /\ OthersFit /\ SparesLive
<1>0. TableIsSound(pool) /\ TableShape(pool)
  BY DEF SocketInv, TableIsSound, IsSoundOn
<1>1. CASE RetryFires(c)
  <2>1. /\ TableIsSound(pool') /\ Known(pool') = Known(pool) /\ pool'.ws[c] = "connecting" /\ pool.ws[c] = "down"
        /\ \A d \in Chats \ {c} : pool'.ws[d] = pool.ws[d]
    BY <1>0, <1>1, RetryFits DEF RetryFires
  <2>2. OthersFit
    BY <1>1, <2>1 DEF RetryFires, OthersFit, SocketInv
  <2>3. SparesLive
    BY <2>1 DEF SparesLive
  <2>. QED BY <2>1, <2>2, <2>3
<1>2. CASE PollFires(c)
  <2> DEFINE q == PollTable(pool, c, shown)
  <2>1. pool.timer[c] = "poll" /\ Becomes(q) /\ UNCHANGED <<shown, streaming, faults, busy>>
    BY <1>2 DEF PollFires, PollTable
  <2>2. TableIsSound(q) /\ Spares(pool, q, shown)
    BY <1>0, <2>1, PollFits
  <2> HIDE DEF q
  <2>3. /\ TableIsSound(pool') /\ dead' \subseteq silent' /\ silent' \subseteq Chats
        /\ \A d \in silent' : pool'.ws[d] = "open"
    BY <2>1, <2>2, SilenceIsKept
  <2>4. OthersFit
    BY <2>1, <2>3 DEF OthersFit, SocketInv
  <2>5. SparesLive
    BY <2>1, <2>2 DEF SparesLive, Spares, Becomes
  <2>. QED BY <2>3, <2>4, <2>5
<1>3. CASE StableFires(c)
  <2>1. pool' = StableTable(pool, c)
    BY <1>3 DEF StableFires, StableTable
  <2>2. TableIsSound(pool') /\ pool'.ws = pool.ws
    BY <1>0, <2>1, StableFits
  <2>3. OthersFit /\ SparesLive
    BY <1>3, <2>2 DEF StableFires, OthersFit, SocketInv, SparesLive
  <2>. QED BY <2>2, <2>3
<1>4. CASE PingFires(c)
  <2>1. c \in silent /\ pool.ws[c] = "open"
    BY <1>4 DEF PingFires, SocketInv
  <2>2. CASE pool.probe[c]
    <3>1. pool' = GivenUpTable(pool, c) /\ silent' = silent \ {c} /\ dead' = dead \ {c}
      BY <1>4, <2>2 DEF PingFires, GivenUpTable
    <3>2. /\ TableIsSound(pool') /\ pool'.ws[c] = "closing" /\ \A d \in Chats \ {c} : pool'.ws[d] = pool.ws[d]
      BY <1>0, <2>1, <3>1, GivenUpFits
    <3>3. OthersFit
      BY <1>4, <3>1, <3>2 DEF PingFires, OthersFit, SocketInv
    <3>4. SparesLive
      BY <3>2 DEF SparesLive
    <3>. QED BY <3>2, <3>3, <3>4
  <2>3. CASE ~pool.probe[c]
    <3>1. pool' = [pool EXCEPT !.probe[c] = TRUE] /\ UNCHANGED <<shown, streaming, silent, dead, faults, busy>>
      BY <1>4, <2>3 DEF PingFires
    <3>2. TableIsSound(pool') /\ pool'.ws = pool.ws
      BY <1>0, <3>1, ProbeFits
    <3>3. OthersFit /\ SparesLive
      BY <3>1, <3>2 DEF OthersFit, SocketInv, SparesLive
    <3>. QED BY <3>2, <3>3
  <2>. QED BY <2>2, <2>3
<1>. QED BY <1>1, <1>2, <1>3, <1>4

LEMMA SocketEvents ==
  ASSUME SocketInv, NEW c \in Chats,
         Opened(c) \/ Errors(c) \/ Closed(c) \/ Dropped(c) \/ Refused(c) \/ GoesSilent(c) \/ FrameArrives(c)
           \/ TurnShows(c) \/ TurnWindsDown(c)
  PROVE  TableIsSound(pool') /\ OthersFit /\ SparesLive
<1>0. TableIsSound(pool) /\ TableShape(pool) /\ MaxFaults \in Nat
  BY ClientSocketsAssumption DEF SocketInv, TableIsSound, IsSoundOn
<1>1. CASE Opened(c)
  <2>1. pool.ws[c] = "connecting" /\ pool' = OpenedTable(pool, c)
    BY <1>1 DEF Opened, OpenedTable
  <2>2. TableIsSound(pool') /\ pool'.ws[c] = "open" /\ \A d \in Chats \ {c} : pool'.ws[d] = pool.ws[d]
    BY <1>0, <2>1, OpenedFits
  <2>3. OthersFit /\ SparesLive
    BY <1>1, <2>2 DEF Opened, OthersFit, SocketInv, SparesLive
  <2>. QED BY <2>2, <2>3
<1>2. CASE Errors(c)
  <2> DEFINE b == pool.stable[c]
  <2>0. b \in BOOLEAN /\ pool.stable \in [Chats -> BOOLEAN]
    BY <1>0 DEF TableShape
  <2>1. pool.ws[c] \in {"connecting", "open"} /\ pool' = ScheduleRetry([pool EXCEPT !.ws[c] = "down"], c)
    BY <1>2 DEF Errors
  <2>2. [pool EXCEPT !.ws[c] = "down"] = [pool EXCEPT !.ws[c] = "down", !.stable[c] = b]
    BY <1>0 DEF TableShape
  <2>3. pool' = DownTable(pool, c, b)
    BY <2>1, <2>2 DEF DownTable
  <2> HIDE DEF b
  <2>4. TableIsSound(pool') /\ pool'.ws[c] = "down" /\ \A d \in Chats \ {c} : pool'.ws[d] = pool.ws[d]
    <3>1. pool.ws[c] \in {"connecting", "open", "closing"}
      BY <2>1
    <3>. QED BY <1>0, <2>0, <2>3, <3>1, DownFits
  <2>5. OthersFit
    BY <1>0, <1>2, <2>4 DEF Errors, OthersFit, SocketInv
  <2>6. SparesLive
    BY <2>4 DEF SparesLive
  <2>. QED BY <2>4, <2>5, <2>6
<1>3. CASE Closed(c) \/ Dropped(c)
  <2>1. pool.ws[c] \in {"open", "closing"}
        /\ pool' = ScheduleRetry([pool EXCEPT !.ws[c] = "down", !.stable[c] = FALSE], c)
    BY <1>3 DEF Closed, Dropped, Drop
  <2>2. TableIsSound(pool') /\ pool'.ws[c] = "down" /\ \A d \in Chats \ {c} : pool'.ws[d] = pool.ws[d]
    <3>1. pool.ws[c] \in {"connecting", "open", "closing"} /\ FALSE \in BOOLEAN
      BY <2>1
    <3>2. PICK b \in BOOLEAN : pool' = DownTable(pool, c, b)
      BY <2>1 DEF DownTable
    <3>. QED BY <1>0, <3>1, <3>2, DownFits
  <2>3. OthersFit
    BY <1>0, <1>3, <2>1, <2>2 DEF Closed, Dropped, OthersFit, SocketInv
  <2>4. SparesLive
    BY <2>2 DEF SparesLive
  <2>. QED BY <2>2, <2>3, <2>4
<1>4. CASE Refused(c)
  <2>1. pool.ws[c] = "open" /\ pool' = RefusedTable(pool, c)
    BY <1>4 DEF Refused, RefusedTable
  <2>2. TableIsSound(pool') /\ pool'.ws[c] = "down" /\ \A d \in Chats \ {c} : pool'.ws[d] = pool.ws[d]
    BY <1>0, <2>1, RefusedFits
  <2>3. OthersFit
    BY <1>0, <1>4, <2>2 DEF Refused, OthersFit, SocketInv
  <2>4. SparesLive
    BY <2>2 DEF SparesLive
  <2>. QED BY <2>2, <2>3, <2>4
<1>5. CASE FrameArrives(c)
  <2>1. pool' = [pool EXCEPT !.probe[c] = FALSE]
    BY <1>5 DEF FrameArrives
  <2>2. TableIsSound(pool') /\ pool'.ws = pool.ws
    BY <1>0, <2>1, ProbeFits
  <2>3. OthersFit /\ SparesLive
    BY <1>5, <2>2 DEF FrameArrives, OthersFit, SocketInv, SparesLive
  <2>. QED BY <2>2, <2>3
<1>6. CASE GoesSilent(c) \/ TurnShows(c) \/ TurnWindsDown(c)
  <2>1. pool' = pool
    BY <1>6 DEF GoesSilent, TurnShows, TurnWindsDown
  <2>2. OthersFit
    <3>1. MaxFaults \in Nat /\ MaxBusy \in Nat
      BY ClientSocketsAssumption
    <3>. QED BY <1>6, <2>1, <3>1 DEF GoesSilent, TurnShows, TurnWindsDown, OthersFit, SocketInv
  <2>3. SparesLive
    BY <2>1 DEF SparesLive
  <2>. QED BY <1>0, <2>1, <2>2, <2>3
<1>. QED BY <1>1, <1>2, <1>3, <1>4, <1>5, <1>6

\* A table that replaces the present one, whoever is shown then.
LEMMA Replaced ==
  ASSUME SocketInv, NEW q, TableIsSound(q), Becomes(q), shown' \in Chats \cup {NoChat},
         streaming' \subseteq Chats, faults' = faults, busy' \in 0..MaxBusy,
         Spares(pool, q, shown') \/ \A c \in Chats : pool.ws[c] = "open" /\ q.ws[c] = "none" => c \notin Known(q)
  PROVE  TableIsSound(pool') /\ OthersFit /\ SparesLive
<1>1. /\ TableIsSound(pool') /\ dead' \subseteq silent' /\ silent' \subseteq Chats
      /\ \A d \in silent' : pool'.ws[d] = "open"
  BY SilenceIsKept
<1>2. OthersFit
  BY <1>1 DEF OthersFit, SocketInv
<1>3. SparesLive
  BY DEF SparesLive, Spares, Becomes
<1>. QED BY <1>1, <1>2, <1>3

LEMMA UserSteps ==
  ASSUME SocketInv,
         (\E c \in Chats : Show(c) \/ DeleteChat(c)) \/ Kick \/ Submit \/ Reconnect \/ LeaveAll
  PROVE  TableIsSound(pool') /\ OthersFit /\ SparesLive
<1>0. /\ TableIsSound(pool) /\ TableShape(pool) /\ shown \in Chats \cup {NoChat} /\ streaming \subseteq Chats
      /\ busy \in 0..MaxBusy /\ MaxBusy \in Nat
  BY ClientSocketsAssumption DEF SocketInv, TableIsSound, IsSoundOn
<1>1. ASSUME NEW c \in Chats, Show(c) PROVE TableIsSound(pool') /\ OthersFit /\ SparesLive
  <2>1. TableIsSound(Connect(pool, c, c)) /\ Spares(pool, Connect(pool, c, c), c)
    BY <1>0, ConnectIsSound
  <2>. QED BY <1>0, <1>1, <2>1, Replaced DEF Show
<1>2. ASSUME NEW c \in Chats, DeleteChat(c) PROVE TableIsSound(pool') /\ OthersFit /\ SparesLive
  <2> DEFINE q == Forget(pool, c)
  <2>1. /\ TableIsSound(q) /\ Known(q) = Known(pool) \ {c}
        /\ \A d \in Chats \ {c} : q.ws[d] = pool.ws[d]
    BY <1>0, <1>2, ForgetFits DEF DeleteChat
  <2> HIDE DEF q
  <2>2. \A d \in Chats : pool.ws[d] = "open" /\ q.ws[d] = "none" => d \notin Known(q)
    BY <2>1
  <2>3. Becomes(q)
    BY <1>2 DEF DeleteChat, q
  <2>4. shown' \in Chats \cup {NoChat} /\ streaming' \subseteq Chats /\ faults' = faults /\ busy' \in 0..MaxBusy
    BY <1>0, <1>2 DEF DeleteChat
  <2>. QED BY <2>1, <2>2, <2>3, <2>4, Replaced
<1>3. CASE Kick
  <2> DEFINE q == Tried[Len(pool.order)]
  <2>1. TableIsSound(q) /\ Spares(pool, q, shown)
    BY <1>0, TriedIsSound
  <2>2. Becomes(q) /\ UNCHANGED <<shown, streaming, faults, busy>>
    BY <1>3 DEF Kick
  <2> HIDE DEF q
  <2>. QED BY <1>0, <2>1, <2>2, Replaced
<1>4. CASE Submit
  <2>1. CASE pool.ws[shown] = "open"
    <3>1. UNCHANGED <<pool, silent, dead, shown, faults>> /\ streaming' = streaming \cup {shown}
          /\ shown \in Chats /\ busy < MaxBusy /\ busy' = busy + 1
      BY <1>0, <1>4, <2>1 DEF Submit
    <3>2. OthersFit
      BY <1>0, <3>1 DEF OthersFit, SocketInv
    <3>3. SparesLive
      BY <3>1 DEF SparesLive
    <3>. QED BY <1>0, <3>1, <3>2, <3>3
  <2>2. CASE pool.ws[shown] # "open"
    <3> DEFINE q == Connect(pool, shown, shown)
    <3>1. shown \in Chats /\ Becomes(q) /\ UNCHANGED <<shown, streaming, faults, busy>>
      BY <1>0, <1>4, <2>2 DEF Submit
    <3>2. TableIsSound(q) /\ Spares(pool, q, shown)
      BY <1>0, <3>1, ConnectIsSound
    <3> HIDE DEF q
    <3>. QED BY <1>0, <3>1, <3>2, Replaced
  <2>. QED BY <2>1, <2>2
<1>5. CASE Reconnect
  <2> DEFINE q == Connect(pool, shown, shown)
  <2>1. shown \in Chats /\ Becomes(q) /\ UNCHANGED <<shown, streaming, faults, busy>>
    BY <1>0, <1>5 DEF Reconnect
  <2>2. TableIsSound(q) /\ Spares(pool, q, shown)
    BY <1>0, <2>1, ConnectIsSound
  <2> HIDE DEF q
  <2>. QED BY <1>0, <2>1, <2>2, Replaced
<1>6. CASE LeaveAll
  <2> DEFINE q == [pool EXCEPT !.order = <<>>, !.failed = {}, !.ws = [c \in Chats |-> "none"],
                               !.timer = [c \in Chats |-> "off"], !.stable = [c \in Chats |-> FALSE]]
  <2>1. TableIsSound(q) /\ Known(q) = {}
    BY <1>0, EmptyFits
  <2>2. Becomes(q)
    BY <1>6 DEF LeaveAll
  <2>3. shown' = NoChat /\ streaming' = {} /\ UNCHANGED <<faults, busy>>
    BY <1>6 DEF LeaveAll
  <2> HIDE DEF q
  <2>. QED BY <1>0, <2>1, <2>2, <2>3, Replaced
<1>. QED BY <1>1, <1>2, <1>3, <1>4, <1>5, <1>6

LEMMA SocketStep ==
  ASSUME SocketInv, [SocketNext]_socketVars
  PROVE  SocketInv' /\ SparesLive
<1>1. CASE SocketNext
  <2>1. TableIsSound(pool') /\ OthersFit /\ SparesLive
    BY <1>1, TimerSteps, SocketEvents, UserSteps DEF SocketNext
  <2>. QED BY <2>1, InvAfter
<1>2. CASE UNCHANGED socketVars
  <2>1. SocketInv'
    BY <1>2 DEF socketVars, SocketInv, TableIsSound, IsSoundOn, TableShape, EntryIsSound, Held, Known
  <2>2. SparesLive
    BY <1>2 DEF socketVars, SparesLive
  <2>. QED BY <2>1, <2>2
<1>. QED BY <1>1, <1>2

\* Every variable has its type.
THEOREM SocketTypeCorrect == SocketSpec => []SocketTypeOK
<1>1. SocketInit => SocketInv
  BY SocketInitSound
<1>2. SocketInv /\ [SocketNext]_socketVars => SocketInv'
  BY SocketStep
<1>3. SocketInv => SocketTypeOK
  BY TableHasType
<1>. QED BY <1>1, <1>2, <1>3, PTL DEF SocketSpec

\* The connections of a tab stay within the cap; one that is down has a timer armed or was
\* refused for good, one that is up has none, and the degraded marker is shown of those that
\* are not up only, for any number of conversations, any cap and any faults.
THEOREM TabsStayConnected == SocketSpec => []TabStaysConnected
<1>1. SocketInit => SocketInv
  BY SocketInitSound
<1>2. SocketInv /\ [SocketNext]_socketVars => SocketInv'
  BY SocketStep
<1>3. SocketInv => TabStaysConnected
  BY TabIsConnected
<1>. QED BY <1>1, <1>2, <1>3, PTL DEF SocketSpec

\* Neither connecting nor a poll nor a kick closes the socket of the conversation on screen or
\* of a live turn.
THEOREM LiveStaysConnected == SocketSpec => LiveIsNotEvicted
<1>1. SocketInit => SocketInv
  BY SocketInitSound
<1>2. SocketInv /\ [SocketNext]_socketVars => SocketInv' /\ SparesLive
  BY SocketStep
<1>3. SparesLive =>
        \A c \in Chats :
          pool.ws[c] = "open" /\ pool'.ws[c] = "none" /\ (c = shown' \/ c \in streaming)
            => c \notin Known(pool')
  BY DEF SparesLive
<1>. QED BY <1>1, <1>2, <1>3, PTL DEF SocketSpec, LiveIsNotEvicted
=============================================================================
