------------------------------ MODULE EventLedger ------------------------------
(****************************************************************************)
(* What the CDC stream promises of the events of a topic, whatever crashes  *)
(* and restarts happen on the way: they are settled in offset order, none   *)
(* is settled before something was done with it, and nothing more is done   *)
(* with an event once it is settled.  Before that, an event may be given    *)
(* more than one outcome: a batch that is run again after a restart may     *)
(* find that the approved schema has changed.                               *)
(****************************************************************************)
EXTENDS Integers

CONSTANT MaxLog

VARIABLES
    published,  \* offsets 1..published hold events
    settled,    \* offsets 1..settled are behind the consumer for good
    outcome     \* what was done with each offset

ledger == <<published, settled, outcome>>

Outcomes == {"applied", "quarantined"}

Init ==
    /\ published = 0
    /\ settled = 0
    /\ outcome = [o \in 1..MaxLog |-> {}]

Publish ==
    /\ published < MaxLog
    /\ published' = published + 1
    /\ UNCHANGED <<settled, outcome>>

Record(S, v) ==
    /\ S \subseteq settled + 1 .. published
    /\ outcome' = [o \in 1..MaxLog |->
                     IF o \in S THEN outcome[o] \cup {v} ELSE outcome[o]]
    /\ UNCHANGED <<published, settled>>

Settle(n) ==
    /\ \A o \in settled + 1 .. n : outcome[o] # {}
    /\ settled' = n
    /\ UNCHANGED <<published, outcome>>

Next ==
    \/ Publish
    \/ \E S \in SUBSET (settled + 1 .. published), v \in Outcomes : Record(S, v)
    \/ \E n \in settled + 1 .. published : Settle(n)

Spec == Init /\ [][Next]_ledger
================================================================================
