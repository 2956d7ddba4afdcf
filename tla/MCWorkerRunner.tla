--------------------------- MODULE MCWorkerRunner ---------------------------
(* Small instances of WorkerRunner for TLC.                                *)
EXTENDS WorkerRunner, TLC

CONSTANTS j1, j2, a1, a2, w1, c1, c2, c3, r1, r2

\* The one worker can run every configuration.
MCCanRun == Configs \X Workers

\* The one worker matches all configurations but the last.
MCCanRunFirst == {c1, c2} \X Workers

\* Handlers are interchangeable, and so are attempts and jobs before they
\* are used; nothing orders them.
MCSymmetry ==
  Permutations({j1, j2}) \cup Permutations({a1, a2}) \cup Permutations({r1, r2})
=============================================================================
