---------------------------- MODULE DurableQueue ----------------------------
(***************************************************************************)
(* What the worker's outbox promises: a queue of numbered events that      *)
(* survives restarts.  An event gets the next number and stays until       *)
(* everything up to it is removed; numbers are never used twice.           *)
(***************************************************************************)
EXTENDS Naturals

VARIABLES
  last,     \* the last number handed out
  pending   \* the numbers of the events still to be delivered

queueVars == <<last, pending>>

Init == last = 0 /\ pending = {}

Put ==
  /\ last' = last + 1
  /\ pending' = pending \cup {last + 1}

\* Only what is pending is removed, with everything before it.
Remove(n) ==
  /\ n \in pending
  /\ pending' = {k \in pending : k > n}
  /\ UNCHANGED last

Next == Put \/ \E n \in pending : Remove(n)

Spec == Init /\ [][Next]_queueVars
=============================================================================
