------------------------------ MODULE TurnClaim ------------------------------
(***************************************************************************)
(* What claim_turn and release_turn promise their callers: the turns and   *)
(* deliveries of a conversation own it one at a time, each at most once,   *)
(* and it passes from one to the next only through being free.             *)
(***************************************************************************)
CONSTANTS Claimants, None

VARIABLES
  owner,   \* who owns the conversation, or None
  served   \* who owned it and gave it back, or was turned away

Init == owner = None /\ served = {}

Take(h) ==
  /\ owner = None /\ h \notin served
  /\ owner' = h
  /\ UNCHANGED served

Give(h) ==
  /\ owner = h
  /\ owner' = None
  /\ served' = served \cup {h}

TurnAway(h) ==
  /\ owner # h /\ h \notin served
  /\ served' = served \cup {h}
  /\ UNCHANGED owner

Next == \E h \in Claimants : Take(h) \/ Give(h) \/ TurnAway(h)

Spec == Init /\ [][Next]_<<owner, served>>
=============================================================================
