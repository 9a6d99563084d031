---------------------------- MODULE FairSlots ----------------------------
(***************************************************************************)
(* What the embedding middleware promises: Capacity slots, granted in the  *)
(* order of arrival.  A client takes a free slot only when nobody waits,   *)
(* otherwise it joins the line; a slot that is given back goes to the head *)
(* of the line in the same step; a client may leave the line at any time.  *)
(***************************************************************************)
EXTENDS Naturals, FiniteSets

CONSTANTS Clients, Capacity

VARIABLES
    holders,   \* the clients that have a slot
    waiting,   \* the clients in line
    ahead      \* ahead[c]: who was in line when c joined, and still is

vars == <<holders, waiting, ahead>>

Init ==
    /\ holders = {} /\ waiting = {}
    /\ ahead = [c \in Clients |-> {}]

Free == Cardinality(holders) < Capacity /\ waiting = {}

Enter(c) ==
    /\ c \notin holders \union waiting
    /\ Free
    /\ holders' = holders \union {c}
    /\ UNCHANGED <<waiting, ahead>>

Join(c) ==
    /\ c \notin holders \union waiting
    /\ ~Free
    /\ waiting' = waiting \union {c}
    /\ ahead' = [ahead EXCEPT ![c] = waiting]
    /\ UNCHANGED holders

\* Client c is no longer in line.
StepOut(c) ==
    /\ c \in waiting
    /\ waiting' = waiting \ {c}
    /\ ahead' = [d \in Clients |-> IF d = c THEN {} ELSE ahead[d] \ {c}]

Leave(c) == StepOut(c) /\ UNCHANGED holders

GiveBack(c) ==
    /\ c \in holders
    /\ \/ /\ waiting = {}
          /\ holders' = holders \ {c}
          /\ UNCHANGED <<waiting, ahead>>
       \/ \E next \in waiting :
             /\ ahead[next] = {}
             /\ holders' = (holders \ {c}) \union {next}
             /\ StepOut(next)

Next == \E c \in Clients : Enter(c) \/ Join(c) \/ Leave(c) \/ GiveBack(c)

Spec == Init /\ [][Next]_vars

===========================================================================
