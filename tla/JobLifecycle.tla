---------------------------- MODULE JobLifecycle ----------------------------
(***************************************************************************)
(* What the control plane promises about a job, with no leases, attempts,  *)
(* handlers or SQL in sight: a job waits, is handed to one worker once,    *)
(* and ends once.  A cancellation ends a waiting job and is only a wish    *)
(* about one that was handed out.  LeaseStore implements this.             *)
(***************************************************************************)
CONSTANTS
  Jobs,      \* job ids
  Workers,   \* workers a job may be handed to
  Outcomes   \* the ways a job may end

VARIABLES
  phase,        \* per job: "absent", "queued", "leased" or an outcome
  cancelAsked,  \* the jobs whose cancellation was requested
  ranBy         \* per job, every worker it was ever handed to

lifecycleVars == <<phase, cancelAsked, ranBy>>

Init ==
  /\ phase = [j \in Jobs |-> "absent"]
  /\ cancelAsked = {}
  /\ ranBy = [j \in Jobs |-> {}]

Submit(j) ==
  /\ phase[j] = "absent"
  /\ phase' = [phase EXCEPT ![j] = "queued"]
  /\ UNCHANGED <<cancelAsked, ranBy>>

AskCancel(j) ==
  /\ phase[j] # "absent"
  /\ cancelAsked' = cancelAsked \cup {j}
  /\ phase' = [phase EXCEPT ![j] = IF @ = "queued" THEN "cancelled" ELSE @]
  /\ UNCHANGED ranBy

\* Handed out at most once, and never after a cancellation was asked for.
Take(j, w) ==
  /\ phase[j] = "queued"
  /\ j \notin cancelAsked
  /\ ranBy[j] = {}
  /\ phase' = [phase EXCEPT ![j] = "leased"]
  /\ ranBy' = [ranBy EXCEPT ![j] = {w}]
  /\ UNCHANGED cancelAsked

\* Only a job that was handed out finishes, and it finishes once.
Finish(j, outcome) ==
  /\ phase[j] = "leased"
  /\ phase' = [phase EXCEPT ![j] = outcome]
  /\ UNCHANGED <<cancelAsked, ranBy>>

Next ==
  \E j \in Jobs :
    \/ Submit(j)
    \/ AskCancel(j)
    \/ \E w \in Workers : Take(j, w)
    \/ \E outcome \in Outcomes : Finish(j, outcome)

Spec == Init /\ [][Next]_lifecycleVars
=============================================================================
