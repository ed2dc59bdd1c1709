------------------------------- MODULE MCTurn --------------------------------
(***************************************************************************)
(* Two casts for one conversation: tabs that send messages, and one tab    *)
(* beside a scheduled run, a delegation that reports back and two          *)
(* deletions.  A behaviour is one of either cast.                          *)
(***************************************************************************)
EXTENDS TurnLifecycleProps, TLC

TabsAlone ==
  /\ \A h \in Jobs \cup Deliveries : pc[h] = "idle"
  /\ \A d \in Deletes : deletion[d] = "idle"

\* Bounds: the tabs are alone; beside the others there is one tab, with one message.
Casts ==
  \/ TabsAlone
  \/ /\ Cardinality(open) <= 1
     /\ Cardinality({m \in Msgs : pc[m] # "idle"} \cup rows) <= 1

Symmetry == Permutations(Sockets) \cup Permutations(Msgs) \cup Permutations(Deletes)

=============================================================================
