----------------------------- MODULE ProgressLog -----------------------------
(***************************************************************************)
(* What the log page of a job promises, with no outbox, batches, handlers  *)
(* or lost calls in sight.  A run emits numbered events; the log of each   *)
(* run shows them in their order, without a gap, at its end, so a reader   *)
(* who asks for what came after the last row misses nothing.  Events that  *)
(* a run left behind may be shown with a later one, never the other way    *)
(* round.  A log is complete when its run reports, and stays as it is.     *)
(* WorkerRunner implements this.                                           *)
(***************************************************************************)
EXTENDS Naturals

CONSTANT Attempts   \* the runs

VARIABLES
  emitted,   \* the number of the last event
  by,        \* per event, the run that emitted it
  open,      \* the run in progress, if there is one
  shown,     \* the rows <<run, event>> of the logs
  closed     \* the runs that have reported their result

logVars == <<emitted, by, open, shown, closed>>

Init ==
  /\ emitted = 0
  /\ \A n \in DOMAIN by : by[n] \notin Attempts
  /\ open = {}
  /\ shown = {}
  /\ closed = {}

Start(a) ==
  /\ open = {}
  /\ a \notin closed
  /\ \A n \in 1..emitted : by[n] # a /\ <<a, n>> \notin shown
  /\ open' = {a}
  /\ UNCHANGED <<emitted, by, shown, closed>>

Emit(a) ==
  /\ a \in open \ closed
  /\ emitted' = emitted + 1
  /\ by' = [by EXCEPT ![emitted + 1] = a]
  /\ UNCHANGED <<open, shown, closed>>

\* The row that follows the last one.
Show(a, n) ==
  /\ a \notin closed
  /\ <<a, n>> \notin shown
  /\ by[n] \in open => by[n] = a
  /\ \A k \in 1..emitted : <<a, k>> \in shown => k < n /\ <<a, n - 1>> \in shown
  /\ shown' = shown \cup {<<a, n>>}
  /\ UNCHANGED <<emitted, by, open, closed>>

Close(a) ==
  /\ a \in open \ closed
  /\ \A n \in 1..emitted : by[n] = a => <<a, n>> \in shown
  /\ closed' = closed \cup {a}
  /\ UNCHANGED <<emitted, by, open, shown>>

\* By its end or by a crash, with or without a result.
Leave ==
  /\ open' = {}
  /\ UNCHANGED <<emitted, by, shown, closed>>

Next ==
  \/ Leave
  \/ \E a \in Attempts :
       \/ Start(a) \/ Emit(a) \/ Close(a)
       \/ \E n \in 1..emitted : Show(a, n)

Spec == Init /\ [][Next]_logVars
=============================================================================
