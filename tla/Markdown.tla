------------------------------ MODULE Markdown ------------------------------
(***************************************************************************)
(* One file in one language: parse_markdown cuts the source into protected *)
(* parts and segments, a provider answers for the segments, the answer is  *)
(* checked, the file is put together again and verified mechanically.      *)
(*                                                                         *)
(* A source is the class of each of its characters and the set of all      *)
(* matches of the seven patterns that protect markup, which may overlap    *)
(* in any way; which text a pattern matches is left out.  Intervals are    *)
(* half open, as slices are.  The list of merged intervals and the list of *)
(* parts are kept as sets: both grow in the order of their starts.  A part *)
(* stands for the id that a segment is numbered with.                      *)
(***************************************************************************)
EXTENDS Naturals, FiniteSets

CONSTANTS
  Length,     \* of the source
  Classes,    \* of characters
  Matches     \* the sets of pattern matches considered

Position == 0..Length
Interval == {s \in Position \X Position : s[1] <= s[2]}

ASSUME LengthAssumption == Length \in Nat \ {0}
ASSUME ClassesAssumption == "text" \in Classes
ASSUME MatchesAssumption == Matches \subseteq SUBSET Interval

Ended == {"accepted", "rejected", "refused"}

VARIABLES
  class,       \* of the character at each position
  matches,     \* the intervals matched by some pattern
  phase,
  unmerged,    \* intervals _merge_intervals has yet to look at
  merged,      \* its result so far: the protected intervals
  uncut,       \* protected intervals the loop of parse_markdown has yet to reach
  position,    \* how far the source has been cut up
  parts,
  answered,    \* the segments that have a translation
  items        \* how many items of the response were looked at

markdownVars == <<class, matches, phase, unmerged, merged, uncut, position, parts,
                 answered, items>>

\* A part is source[start:end]; of a segment, source[from:to] is translated
\* and the rest is its prefix and suffix.
Part == [kind : {"protected", "segment"}, start : Position, end : Position,
         from : Position, to : Position]
Protected(s, e) == [kind |-> "protected", start |-> s, end |-> e, from |-> s, to |-> s]
Segment(s, e, a, b) == [kind |-> "segment", start |-> s, end |-> e, from |-> a, to |-> b]
Segments == {p \in parts : p.kind = "segment"}

MarkdownInit ==
  /\ class \in [0..(Length - 1) -> Classes]
  /\ matches \in Matches
  /\ phase = "merge"
  /\ unmerged = matches
  /\ merged = {}
  /\ uncut = {}
  /\ position = 0
  /\ parts = {}
  /\ answered = {}
  /\ items = 0

-----------------------------------------------------------------------------
(* _merge_intervals, over the sorted matches.                              *)

Before(s, t) == s[1] < t[1] \/ (s[1] = t[1] /\ s[2] <= t[2])
Last(m) == \A n \in merged : n[1] <= m[1]

\* A mistake: the end of the later interval is taken, without max.
MergedShort(s) ==
  IF s[1] = s[2] THEN merged
  ELSE IF \A m \in merged : Last(m) => m[2] < s[1] THEN merged \cup {s}
  ELSE {IF Last(m) THEN <<m[1], s[2]>> ELSE m : m \in merged}

\* A mistake: an empty match is kept like any other.
MergedEmpty(s) ==
  IF \A m \in merged : Last(m) => m[2] < s[1] THEN merged \cup {s}
  ELSE {IF Last(m) /\ m[2] < s[2] THEN <<m[1], s[2]>> ELSE m : m \in merged}

\* An interval that begins in the last one, or at its end, extends it.
MergedWith(s) ==
  IF s[1] = s[2] THEN merged
  ELSE IF \A m \in merged : Last(m) => m[2] < s[1] THEN merged \cup {s}
  ELSE {IF Last(m) /\ m[2] < s[2] THEN <<m[1], s[2]>> ELSE m : m \in merged}

Merge(s) ==
  /\ phase = "merge"
  /\ s \in unmerged
  /\ \A t \in unmerged : Before(s, t)
  /\ unmerged' = unmerged \ {s}
  /\ merged' = MergedWith(s)
  /\ UNCHANGED <<class, matches, phase, uncut, position, parts, answered, items>>

StartCutting ==
  /\ phase = "merge"
  /\ unmerged = {}
  /\ phase' = "cut"
  /\ uncut' = merged
  /\ UNCHANGED <<class, matches, unmerged, merged, position, parts, answered, items>>

-----------------------------------------------------------------------------
(* parse_markdown, with _append_text_part and _append_single_text_part.    *)

\* The interval the loop has come to.
Next(m) == m \in uncut /\ \A n \in uncut : Before(m, n)

Protect(m) ==
  /\ phase = "cut"
  /\ Next(m)
  /\ m[1] <= position
  /\ uncut' = uncut \ {m}
  /\ position' = m[2]
  /\ parts' = parts \cup {Protected(m[1], m[2])}
  /\ UNCHANGED <<class, matches, phase, unmerged, merged, answered, items>>

\* The text from position on goes up to the next interval, or to the end.
TextEnd(x) ==
  /\ position < x
  /\ \/ uncut = {} /\ x = Length
     \/ \E m \in uncut : Next(m) /\ m[1] = x

\* A match of \n[ \t]*\n+ begins at b, in a text that ends at x.
Breaks(b, x) ==
  /\ class[b] = "newline"
  /\ \E n \in (b + 1)..(x - 1) :
       class[n] = "newline" /\ \A i \in (b + 1)..(n - 1) : class[i] = "space"

\* It ends at e, as late as it can.
Break(b, e, x) ==
  /\ b + 1 < e /\ e <= x
  /\ \A i \in b..(e - 1) : class[i] \in {"newline", "space"}
  /\ \E n \in (b + 1)..(e - 1) :
       /\ \A i \in (b + 1)..(n - 1) : class[i] = "space"
       /\ \A i \in n..(e - 1) : class[i] = "newline"
  /\ e < x => class[e] # "newline"

\* A mistake: the text is one piece, whatever paragraphs it has.
WholeText(e, x) == e = x

\* re.split with its separators: up to the next break, or the break itself.
Chunk(e, x) ==
  IF Breaks(position, x)
  THEN Break(position, e, x)
  ELSE /\ position < e /\ e <= x
       /\ e < x => Breaks(e, x)
       /\ \A b \in (position + 1)..(e - 1) : ~Breaks(b, x)

Blank(s, e) == \A i \in s..(e - 1) : class[i] # "text"

\* A mistake: a chunk without text is dropped.
DropBlanks(s, e) ==
  IF Blank(s, e)
  THEN parts' = parts
  ELSE \E a \in s..(e - 1), b \in (s + 1)..e :
         /\ Blank(s, a) /\ class[a] = "text"
         /\ Blank(b, e) /\ class[b - 1] = "text"
         /\ parts' = parts \cup {Segment(s, e, a, b)}

\* _append_single_text_part: strip() finds prefix and suffix.
AppendPart(s, e) ==
  IF Blank(s, e)
  THEN parts' = parts \cup {Protected(s, e)}
  ELSE \E a \in s..(e - 1), b \in (s + 1)..e :
         /\ Blank(s, a) /\ class[a] = "text"
         /\ Blank(b, e) /\ class[b - 1] = "text"
         /\ parts' = parts \cup {Segment(s, e, a, b)}

AppendText(e) ==
  /\ phase = "cut"
  /\ \E x \in Position : TextEnd(x) /\ Chunk(e, x)
  /\ AppendPart(position, e)
  /\ position' = e
  /\ UNCHANGED <<class, matches, phase, unmerged, merged, uncut, answered, items>>

\* A source without segments is its own output.
Parsed ==
  /\ phase = "cut"
  /\ uncut = {}
  /\ position = Length
  /\ phase' = IF Segments = {} THEN "verify" ELSE "ask"
  /\ UNCHANGED <<class, matches, unmerged, merged, uncut, position, parts, answered, items>>

-----------------------------------------------------------------------------
(* The provider's answer, validate_segment_response and verification.      *)

\* An id that no segment has.
Unknown == Protected(0, 0)

\* A mistake: a second translation replaces the first.
AnswerAgain(p) ==
  /\ phase = "ask"
  /\ IF p \in Segments
     THEN answered' = answered \cup {p} /\ UNCHANGED phase
     ELSE phase' = "refused" /\ UNCHANGED answered
  /\ items' = items + 1
  /\ UNCHANGED <<class, matches, unmerged, merged, uncut, position, parts>>

\* The next item of the response: its id must be a segment's, and no item
\* before it may have had it.
Answer(p) ==
  /\ phase = "ask"
  /\ IF p \in Segments \ answered
     THEN answered' = answered \cup {p} /\ UNCHANGED phase
     ELSE phase' = "refused" /\ UNCHANGED answered
  /\ items' = items + 1
  /\ UNCHANGED <<class, matches, unmerged, merged, uncut, position, parts>>

\* What is no list of objects with an id and a translation, or no answer.
BadAnswer ==
  /\ phase = "ask"
  /\ phase' = "refused"
  /\ UNCHANGED <<class, matches, unmerged, merged, uncut, position, parts, answered, items>>

EndOfAnswer ==
  /\ phase = "ask"
  /\ phase' = IF Segments \ answered = {} THEN "verify" ELSE "refused"
  /\ UNCHANGED <<class, matches, unmerged, merged, uncut, position, parts, answered, items>>

\* verify_translation compares the markup of source and output and looks for
\* terms and Japanese text: its verdict depends on the words.
Verify ==
  /\ phase = "verify"
  /\ phase' \in {"accepted", "rejected"}
  /\ UNCHANGED <<class, matches, unmerged, merged, uncut, position, parts, answered, items>>

Step ==
  \/ \E s \in unmerged : Merge(s)
  \/ StartCutting
  \/ \E m \in uncut : Protect(m)
  \/ \E e \in Position : AppendText(e)
  \/ Parsed
  \/ \E p \in Segments \cup {Unknown} : Answer(p)
  \/ BadAnswer
  \/ EndOfAnswer
  \/ Verify

MarkdownSpec == MarkdownInit /\ [][Step]_markdownVars

-----------------------------------------------------------------------------
(* Properties.                                                             *)

Parsing == phase \in {"merge", "cut"}
Within(i, p) == p.start <= i /\ i < p.end
Marked(i) == \E s \in matches : s[1] <= i /\ i < s[2]

\* However the matches overlap, nest or touch: every character of the source
\* is in exactly one part, markup is never sent for translation, and all
\* text outside it is, so that an accepted output has an answer for it.
CharactersAccountedFor ==
  ~Parsing =>
    \A i \in 0..(Length - 1) :
      \E p \in parts :
        /\ Within(i, p)
        /\ \A q \in parts : Within(i, q) => q = p
        /\ Marked(i) => p.kind = "protected"
        /\ class[i] = "text" /\ ~Marked(i) =>
             /\ p.kind = "segment" /\ p.from <= i /\ i < p.to
             /\ phase = "accepted" => p \in answered

\* A segment is part of one paragraph, and what is sent of it begins and
\* ends with text: the whitespace around it is the source's.
SegmentsAreParagraphs ==
  \A p \in Segments :
    /\ p.from < p.to
    /\ class[p.from] = "text" /\ class[p.to - 1] = "text"
    /\ \A b \in p.start..(p.end - 1) : ~Breaks(b, p.end)

\* The next part ends at e: a protected interval, or a chunk of the text
\* before the next one.
NextPart(e) ==
  \/ \E m \in uncut : Next(m) /\ m[1] <= position /\ m[2] = e
  \/ \E x \in Position : TextEnd(x) /\ Chunk(e, x)

\* What the stable ids of segments rest on: until the source is cut up there
\* is always a next part, it is never empty, and source and matches leave no
\* choice of it.
OneWayToCut ==
  phase = "cut" /\ position < Length =>
    \E e \in (position + 1)..Length : \A d \in Position : NextPart(d) <=> d = e

\* A translation that is judged at all was made from one item for each
\* segment: an answer with an unknown id, the same id twice or too few of them
\* is refused as a whole, in whatever order its items come.
OneAnswerEach ==
  phase \in {"verify", "accepted", "rejected"} =>
    answered = Segments /\ items = Cardinality(Segments)

-----------------------------------------------------------------------------
(* The inductive invariant.                                                *)

MarkdownTypeOK ==
  /\ class \in [0..(Length - 1) -> Classes]
  /\ matches \subseteq Interval
  /\ phase \in {"merge", "cut", "ask", "verify"} \cup Ended
  /\ unmerged \subseteq matches
  /\ merged \subseteq Interval
  /\ position \in Position
  /\ parts \subseteq Part
  /\ uncut \subseteq merged
  /\ answered \subseteq Segments
  /\ items \in Nat

\* The merged intervals lie apart and cover what the matches do.
MergedSoFar ==
  /\ \A m \in merged :
       /\ m[1] < m[2]
       /\ \A i \in m[1]..(m[2] - 1) : Marked(i)
       /\ \A n \in merged : m = n \/ m[2] < n[1] \/ n[2] < m[1]
       /\ \A t \in unmerged : m[1] <= t[1]
  /\ \A s \in matches \ unmerged :
       s[1] < s[2] => \E m \in merged : m[1] <= s[1] /\ s[2] <= m[2]

\* The parts cover the source up to position, and each is a merged interval,
\* whitespace, or a segment.
CutSoFar ==
  /\ \A m \in merged :
       \/ position <= m[1]
       \/ m[2] <= position /\ Protected(m[1], m[2]) \in parts
  /\ \A i \in 0..(position - 1) : \E p \in parts : Within(i, p)
  /\ \A p \in parts :
       /\ p.start < p.end /\ p.end <= position
       /\ \A q \in parts : p = q \/ p.end <= q.start \/ q.end <= p.start
       /\ p.kind = "protected" => <<p.start, p.end>> \in merged \/ Blank(p.start, p.end)
       /\ p.kind = "segment" => Blank(p.start, p.from) /\ Blank(p.to, p.end)

MInv ==
  /\ MarkdownTypeOK
  /\ MergedSoFar
  /\ CutSoFar
  /\ SegmentsAreParagraphs
  /\ phase = "merge" => position = 0 /\ parts = {} /\ uncut = {}
  /\ phase # "merge" => unmerged = {}
  /\ ~Parsing => position = Length
  /\ phase = "cut" => uncut = {m \in merged : position <= m[1]}
  /\ OneAnswerEach
  /\ phase \notin Ended => IsFiniteSet(answered) /\ items = Cardinality(answered)
=============================================================================
