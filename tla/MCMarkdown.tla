----------------------------- MODULE MCMarkdown -----------------------------
(* A small instance of Markdown for TLC. *)
EXTENDS Markdown

\* Any two matches, and one that is empty.
MCMatches ==
  {S \in SUBSET {s \in Interval : s[1] < s[2] \/ s = <<2, 2>>} : Cardinality(S) <= 2}
=============================================================================
