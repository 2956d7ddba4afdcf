------------------------- MODULE MCTranslationCache -------------------------
(* A small instance of TranslationCache for TLC. *)
EXTENDS TranslationCache, TLC

CONSTANTS i1, i2, old, new, branch, moved, k1, k2, p1, p2

\* Two versions of one source, the same one with another output root or on
\* another branch with the same output root.
MCKeyOf ==
  (old :> k1) @@ (new :> k1) @@ (moved :> k1) @@ (branch :> k2)
MCPathOf ==
  (old :> p1) @@ (new :> p1) @@ (moved :> p2) @@ (branch :> p1)

\* Instances are interchangeable, and so are the two versions.
MCSymmetry == Permutations({i1, i2}) \cup Permutations({old, new})
=============================================================================
