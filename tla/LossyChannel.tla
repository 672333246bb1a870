---------------------------- MODULE LossyChannel ----------------------------
(***************************************************************************)
(* What the queue between a source and its pipeline worker promises,       *)
(* without locks, threads or a stored sequence: units are numbered in the  *)
(* order they are pushed, the backlog is always the numbers head+1..sent,  *)
(* the receiver takes the oldest one, and a push that finds the backlog    *)
(* full loses the oldest one and nothing else.                             *)
(***************************************************************************)
EXTENDS Naturals

CONSTANTS Capacity,   \* the most units the backlog may hold
          MaxSends    \* bound on the number of units ever sent

VARIABLES sent,       \* the number of units sent so far
          head,       \* every unit up to this number has left the backlog
          last,       \* the number of the unit received last, 0 before the first
          lost        \* how many units were displaced by newer ones

vars == <<sent, head, last, lost>>

Init == sent = 0 /\ head = 0 /\ last = 0 /\ lost = 0

\* A send into a backlog with room: nothing is lost.
Send ==
    /\ sent < MaxSends
    /\ sent - head < Capacity
    /\ sent' = sent + 1
    /\ UNCHANGED <<head, last, lost>>

\* A send into a full backlog: exactly the oldest unit makes room.
SendDisplacing ==
    /\ sent < MaxSends
    /\ sent - head = Capacity
    /\ sent' = sent + 1
    /\ head' = head + 1
    /\ lost' = lost + 1
    /\ UNCHANGED last

Receive ==
    /\ head < sent
    /\ head' = head + 1
    /\ last' = head + 1
    /\ UNCHANGED <<sent, lost>>

\* The owner throws the rest of the backlog away.
Discard ==
    /\ head' = sent
    /\ UNCHANGED <<sent, last, lost>>

Next == Send \/ SendDisplacing \/ Receive \/ Discard

Spec == Init /\ [][Next]_vars
=============================================================================
