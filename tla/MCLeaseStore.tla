---------------------------- MODULE MCLeaseStore ----------------------------
(* Small instances of LeaseStore for TLC.                                  *)
EXTENDS LeaseStore, TLC

CONSTANTS j1, j2, j3, a1, a2, a3, w1, w2, c1, c2, r1, r2

\* w1 can run every configuration, w2 only the second.
MCCanRun == {<<c1, w1>>, <<c2, w1>>, <<c2, w2>>}

\* Only the second configuration has a worker.
MCPartlyRunnable == {<<c2, w1>>}

\* Jobs, attempts and handlers are interchangeable; nothing orders them.
MCSymmetry ==
  Permutations({j1, j2}) \cup Permutations({a1, a2}) \cup Permutations({r1, r2})
=============================================================================
