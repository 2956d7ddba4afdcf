----------------------------- MODULE MCContract -----------------------------
(* A small instance of Contract for TLC. *)
EXTENDS Contract, TLC

CONSTANTS p1, p2, d, r, w, a, b, u, en, fr, zh

MCNames == {d, r, w, a, b, u}
MCSafeNames == MCNames \ {u}

\* An own model and a review-only one, with the two ways they are declared.
Local(roles) == [name |-> a, kind |-> "ollama", roles |-> roles, localPath |-> FALSE]
Remote == [name |-> b, kind |-> "openai", roles |-> {"review"}, localPath |-> FALSE]
Table(root, providers, keys) ==
  [name |-> w, sets |-> {d}, roots |-> root, providers |-> providers, keys |-> keys]

Symmetry == Permutations(Workers)

\* Two that start, one that the server refuses, and one that does not start.
MCSettings == {
  Table({r}, {Local({"translate"}), Remote}, {"openai", "token"}),
  Table({}, {Local({"translate", "review"})}, {"token"}),
  Table({r}, {[Local({"translate"}) EXCEPT !.localPath = TRUE]}, {"token"}),
  Table({r}, {Remote, Local({"translate"})}, {"token"})}

\* dictionary_en.json, dictionary_EN.json, one that is no dictionary, and
\* a tag that the server refuses.
Found(tag, lower, good) == [set |-> d, tag |-> tag, lower |-> lower, good |-> good]
MCDisks == {
  {Found(en, TRUE, TRUE)},
  {Found(en, TRUE, TRUE), Found(fr, FALSE, TRUE)},
  {Found(en, TRUE, TRUE), Found(fr, TRUE, FALSE)},
  {Found(en, TRUE, TRUE), Found(zh, TRUE, TRUE)}}

Order(languages, review, flaws) ==
  [set |-> d, languages |-> languages, root |-> r, translate |-> a, review |-> review,
   flaws |-> flaws]
MCSubmissions == {
  Order({en}, None, {}),
  Order({en, fr}, b, {}),
  [Order({en}, None, {}) EXCEPT !.translate = b],
  Order({en}, None, {"lock_end"}),
  Order({en}, None, {"not_https"})}
=============================================================================
