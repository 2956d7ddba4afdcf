--------------------------- MODULE MarkdownProofs ---------------------------
(***************************************************************************)
(* Proofs about Markdown, for a source of any length and any set of        *)
(* matches: the merged intervals cover the matches, the parts cover the    *)
(* source, and what is sent for translation is the text outside markup.    *)
(***************************************************************************)
EXTENDS Markdown, FiniteSetTheorems, WellFoundedInduction, TLAPS

\* A non-empty set of numbers up to L has a greatest one.
LEMMA Greatest ==
  ASSUME NEW L \in Nat, NEW S, S \subseteq 0..L, S # {}
  PROVE  \E x \in S : \A y \in S : y <= x
<1> DEFINE T == {L - x : x \in S}
           R == OpToRel(<, Nat)
<1>1. \A x \in S : L - x \in Nat
  OBVIOUS
<1>2. T \subseteq Nat /\ T # {}
  BY <1>1
<1>3. IsWellFoundedOn(R, Nat)
  BY NatLessThanWellFounded
<1>4. \A x, y \in Nat : x < y => <<x, y>> \in R
  BY DEF OpToRel
<1> HIDE DEF R, T
<1>5. \E x \in T : \A y \in T : ~(<<y, x>> \in R)
  BY <1>2, <1>3, WFMin
<1>6. \E x \in T : \A y \in T : ~(y < x)
  BY <1>2, <1>4, <1>5
<1>7. QED
  BY <1>6 DEF T

LEMMA Ends ==
  ASSUME NEW s \in Interval
  PROVE  /\ s[1] \in Int /\ s[2] \in Int
         /\ 0 <= s[1] /\ s[1] <= s[2] /\ s[2] <= Length
         /\ s = <<s[1], s[2]>>
BY LengthAssumption DEF Interval, Position

\* The interval that was added last, if there is one.
LEMMA LastExists ==
  ASSUME MarkdownTypeOK, merged # {}
  PROVE  \E m \in merged : Last(m)
<1> DEFINE S == {m[1] : m \in merged}
<1>1. \A m \in merged : m[1] \in 0..Length
  BY Ends, LengthAssumption DEF MarkdownTypeOK
<1>2. S \subseteq 0..Length /\ S # {}
  BY <1>1
<1>3. \E x \in S : \A y \in S : y <= x
  BY <1>2, Greatest, LengthAssumption
<1>4. QED
  BY <1>3 DEF Last

LEMMA LastIsBehind ==
  ASSUME MarkdownTypeOK, MergedSoFar, NEW l \in merged, Last(l)
  PROVE  \A m \in merged : m = l \/ m[2] < l[1]
BY Ends DEF MarkdownTypeOK, MergedSoFar, Last

\* One round of _merge_intervals.
LEMMA MergeRound ==
  ASSUME MarkdownTypeOK, MergedSoFar, NEW s \in unmerged, Merge(s)
  PROVE  merged' \subseteq Interval /\ MergedSoFar'
<1> USE DEF MarkdownTypeOK
<1>1. /\ s \in Interval /\ s \in matches /\ matches' = matches /\ unmerged' = unmerged \ {s}
      /\ merged' = MergedWith(s)
      /\ \A t \in unmerged : s[1] <= t[1]
  BY Ends DEF Merge, Before
<1>2. /\ s[1] \in Int /\ s[2] \in Int /\ s[1] <= s[2] /\ \A m \in merged : m[1] <= s[1]
      /\ \A i : Marked(i)' <=> Marked(i)
  BY <1>1, Ends DEF MergedSoFar, Marked
<1>3. CASE s[1] = s[2]
  BY <1>1, <1>2, <1>3 DEF MergedWith, MergedSoFar
<1>4. CASE s[1] # s[2] /\ \A m \in merged : Last(m) => m[2] < s[1]
  <2>1. merged' = merged \cup {s}
    BY <1>1, <1>4 DEF MergedWith
  <2>2. \A m \in merged : m[2] < s[1]
    BY <1>2, <1>4, LastExists, LastIsBehind, Ends DEF MergedSoFar
  <2>3. \A i \in s[1]..(s[2] - 1) : Marked(i)
    BY <1>1, <1>2 DEF Marked
  <2>4. QED
    BY <1>1, <1>2, <1>4, <2>1, <2>2, <2>3, Ends DEF MergedSoFar
<1>5. CASE s[1] # s[2] /\ \E m \in merged : Last(m) /\ ~(m[2] < s[1])
  <2>1. PICK l \in merged : Last(l) /\ s[1] <= l[2]
    BY <1>2, <1>5, Ends
  <2> DEFINE e == IF l[2] < s[2] THEN s[2] ELSE l[2]
             w == <<l[1], e>>
  <2>2. \A m \in merged : m = l \/ m[2] < l[1]
    BY <2>1, LastIsBehind
  <2>3. \A m \in merged : Last(m) <=> m = l
    BY <2>1, <2>2, Ends DEF Last, MergedSoFar
  <2>4. l \in Interval /\ l[1] \in Int /\ l[2] \in Int /\ l[1] < l[2] /\ l[1] <= s[1]
        /\ l = <<l[1], l[2]>>
    BY <1>2, Ends DEF MergedSoFar
  <2>5. merged' = (merged \ {l}) \cup {w}
    <3>1. merged' = {IF Last(m) /\ m[2] < s[2] THEN <<m[1], s[2]>> ELSE m : m \in merged}
      BY <1>1, <1>5 DEF MergedWith
    <3>2. merged' = {IF m = l THEN w ELSE m : m \in merged}
      BY <2>3, <2>4, <3>1
    <3>3. QED
      BY <3>2
  <2>6. w \in Interval /\ w[1] = l[1] /\ w[2] = e /\ e \in Int /\ l[2] <= e /\ s[2] <= e
    BY <1>1, <1>2, <2>4, Ends DEF Interval
  <2>7. \A i \in l[1]..(e - 1) : Marked(i)
    <3> SUFFICES ASSUME NEW i \in l[1]..(e - 1) PROVE Marked(i)
      OBVIOUS
    <3>1. CASE i < l[2]
      BY <2>4, <3>1 DEF MergedSoFar
    <3>2. CASE l[2] <= i
      BY <1>1, <1>2, <2>1, <2>4, <2>6, <3>2 DEF Marked
    <3>3. QED
      BY <2>4, <2>6, <3>1, <3>2
  <2> HIDE DEF w, e
  <2>8. merged' \subseteq Interval
    BY <2>5, <2>6
  <2>9. \A m \in merged' : m[1] < m[2] /\ \A i \in m[1]..(m[2] - 1) : Marked(i)
    BY <2>4, <2>5, <2>6, <2>7 DEF MergedSoFar
  <2>10. \A m, n \in merged' : m = n \/ m[2] < n[1] \/ n[2] < m[1]
    BY <2>2, <2>5, <2>6 DEF MergedSoFar
  <2>11. \A m \in merged', t \in unmerged' : m[1] <= t[1]
    BY <1>1, <1>2, <2>4, <2>5, <2>6 DEF MergedSoFar
  <2>12. \A t \in matches \ unmerged' : t[1] < t[2] =>
           \E m \in merged' : m[1] <= t[1] /\ t[2] <= m[2]
    <3> SUFFICES ASSUME NEW t \in matches \ unmerged', t[1] < t[2]
                 PROVE  \E m \in merged' : m[1] <= t[1] /\ t[2] <= m[2]
      OBVIOUS
    <3>1. CASE t = s
      BY <2>4, <2>5, <2>6, <3>1
    <3>2. CASE t # s
      <4>1. PICK m \in merged : m[1] <= t[1] /\ t[2] <= m[2]
        BY <1>1, <3>2 DEF MergedSoFar
      <4>2. t[2] \in Int
        BY Ends
      <4>3. QED
        BY <2>4, <2>5, <2>6, <4>1, <4>2
    <3>3. QED
      BY <3>1, <3>2
  <2>13. QED
    BY <1>1, <1>2, <2>8, <2>9, <2>10, <2>11, <2>12 DEF MergedSoFar
<1>6. QED
  BY <1>3, <1>4, <1>5

\* The loop comes to the intervals in the order of their starts.
LEMMA NextIsFirst ==
  ASSUME MInv, phase = "cut", NEW m \in merged, Next(m)
  PROVE  \A n \in merged : position <= n[1] => m[1] <= n[1]
BY Ends DEF MInv, MarkdownTypeOK, Next, Before

\* What one chunk of text is, whatever comes of it.
LEMMA ChunkFacts ==
  ASSUME MInv, phase = "cut", NEW e \in Position, NEW x \in Position, TextEnd(x), Chunk(e, x)
  PROVE  /\ position < e /\ e <= x
         /\ \A m \in merged : m[1] < position \/ e <= m[1]
         /\ ~Blank(position, e) => \A b \in position..(e - 1) : ~Breaks(b, e)
<1> USE LengthAssumption DEF MInv, MarkdownTypeOK, Position
<1>1. position < e /\ e <= x
  BY DEF Chunk, Break
<1>2. ASSUME NEW m \in merged PROVE m[1] < position \/ e <= m[1]
  <2>1. m[1] \in Int /\ m[1] <= Length
    BY Ends, <1>2
  <2>2. CASE uncut = {}
    BY <1>1, <2>1, <2>2 DEF TextEnd
  <2>3. CASE uncut # {}
    <3>1. PICK n \in uncut : Next(n) /\ n[1] = x
      BY <2>3 DEF TextEnd
    <3>2. position <= m[1] => x <= m[1]
      BY <3>1, NextIsFirst
    <3>3. QED
      BY <1>1, <2>1, <3>2
  <2>4. QED
    BY <2>2, <2>3
<1>3. ASSUME ~Blank(position, e), NEW b \in position..(e - 1), Breaks(b, e) PROVE FALSE
  <2>1. ~Breaks(position, x)
    <3>1. SUFFICES ASSUME Breaks(position, x) PROVE FALSE
      OBVIOUS
    <3>2. \A i \in position..(e - 1) : class[i] \in {"newline", "space"}
      BY <3>1 DEF Chunk, Break
    <3>3. QED
      BY <1>3, <3>2 DEF Blank
  <2>2. \A c \in position..(e - 1) : ~Breaks(c, x)
    BY <2>1, <1>1 DEF Chunk
  <2>3. Breaks(b, x)
    BY <1>1, <1>3 DEF Breaks
  <2>4. QED
    BY <2>2, <2>3
<1>4. QED
  BY <1>1, <1>2, <1>3

\* The part appended is the chunk itself, with its text found by strip().
LEMMA PartFacts ==
  ASSUME MarkdownTypeOK, NEW e \in Position, position < e, AppendPart(position, e)
  PROVE  \E p \in Part :
           /\ parts' = parts \cup {p}
           /\ p.start = position /\ p.end = e
           /\ p.kind = "protected" => Blank(position, e)
           /\ p.kind = "segment" =>
                /\ ~Blank(position, e)
                /\ p.from < p.to /\ p.start <= p.from /\ p.to <= p.end
                /\ Blank(p.start, p.from) /\ Blank(p.to, p.end)
                /\ class[p.from] = "text" /\ class[p.to - 1] = "text"
<1> USE LengthAssumption DEF MarkdownTypeOK, Position
<1>1. CASE Blank(position, e)
  <2>1. Protected(position, e) \in Part
    BY DEF Protected, Part
  <2>2. QED
    BY <1>1, <2>1 DEF AppendPart, Protected
<1>2. CASE ~Blank(position, e)
  <2>1. PICK a \in position..(e - 1), b \in (position + 1)..e :
          /\ Blank(position, a) /\ class[a] = "text"
          /\ Blank(b, e) /\ class[b - 1] = "text"
          /\ parts' = parts \cup {Segment(position, e, a, b)}
    BY <1>2 DEF AppendPart
  <2>2. a < b
    BY <2>1 DEF Blank
  <2>3. Segment(position, e, a, b) \in Part
    BY DEF Segment, Part
  <2>4. QED
    BY <1>2, <2>1, <2>2, <2>3 DEF Segment
<1>3. QED
  BY <1>1, <1>2

-----------------------------------------------------------------------------
\* What a step that only looks at the sources keeps.
LEMMA SameSource ==
  ASSUME class' = class, matches' = matches
  PROVE  /\ \A s, e : Blank(s, e)' <=> Blank(s, e)
         /\ \A b, x : Breaks(b, x)' <=> Breaks(b, x)
         /\ \A i : Marked(i)' <=> Marked(i)
BY DEF Blank, Breaks, Marked

\* The parts go on where the last one ended.
LEMMA PartAppended ==
  ASSUME MInv, phase = "cut", NEW p \in Part,
         class' = class, matches' = matches, merged' = merged,
         parts' = parts \cup {p}, position' = p.end,
         p.start = position, p.start < p.end,
         \A m \in merged :
           \/ p.end <= m[1]
           \/ m[2] <= p.end /\ (m[2] <= position \/ p = Protected(m[1], m[2])),
         p.kind = "protected" => <<p.start, p.end>> \in merged \/ Blank(p.start, p.end),
         p.kind = "segment" => Blank(p.start, p.from) /\ Blank(p.to, p.end)
  PROVE  CutSoFar'
<1> USE LengthAssumption DEF MInv, MarkdownTypeOK, Position, Part
<1>1. \A s, e : Blank(s, e)' <=> Blank(s, e)
  BY SameSource
<1>2. ASSUME NEW m \in merged'
      PROVE  \/ position' <= m[1]
             \/ m[2] <= position' /\ Protected(m[1], m[2]) \in parts'
  <2>1. CASE m[2] <= position
    <3>1. m \in Interval /\ m[1] < m[2]
      BY DEF MergedSoFar
    <3>2. ~(position <= m[1])
      BY <2>1, <3>1, Ends
    <3>3. Protected(m[1], m[2]) \in parts
      BY <3>2 DEF CutSoFar
    <3>4. QED
      BY <2>1, <3>1, <3>3, Ends
  <2>2. CASE ~(m[2] <= position)
    BY <2>2
  <2>3. QED
    BY <2>1, <2>2
<1>3. ASSUME NEW i \in 0..(position' - 1) PROVE \E q \in parts' : Within(i, q)
  <2>1. CASE i < position
    <3>1. i \in 0..(position - 1)
      BY <2>1
    <3>2. QED
      BY <3>1 DEF CutSoFar, Within
  <2>2. CASE ~(i < position)
    BY <2>2 DEF Within
  <2>3. QED
    BY <2>1, <2>2
<1>4. \A q \in parts' : q.start < q.end /\ q.end <= position'
  <2>1. \A q \in parts : q \in Part /\ q.start < q.end /\ q.end <= position
    BY DEF CutSoFar
  <2>2. QED
    BY <2>1
<1>5. \A q, r \in parts' : q = r \/ q.end <= r.start \/ r.end <= q.start
  BY DEF CutSoFar
<1>6. \A q \in parts' :
        /\ q.kind = "protected" => <<q.start, q.end>> \in merged' \/ Blank(q.start, q.end)'
        /\ q.kind = "segment" => Blank(q.start, q.from)' /\ Blank(q.to, q.end)'
  BY <1>1 DEF CutSoFar
<1>7. QED
  BY <1>2, <1>3, <1>4, <1>5, <1>6 DEF CutSoFar

\* A protected interval becomes a part.
LEMMA ProtectStep ==
  ASSUME MInv, NEW m \in uncut, Protect(m)
  PROVE  MInv'
<1> USE LengthAssumption DEF MInv, MarkdownTypeOK, Protect
<1>0. m \in merged /\ m[1] = position
  BY Ends DEF Position
<1> DEFINE p == Protected(m[1], m[2])
<1>1. m[1] \in Position /\ m[2] \in Position /\ m[1] < m[2] /\ m = <<m[1], m[2]>>
  BY <1>0, Ends DEF MergedSoFar, Position
<1>2. p \in Part /\ p.kind = "protected" /\ p.start = m[1] /\ p.end = m[2]
  BY <1>1 DEF Protected, Part
<1>3. \A n \in merged : m = n \/ m[2] < n[1] \/ n[2] < m[1]
  BY <1>0 DEF MergedSoFar
<1>4. \A n \in merged :
        \/ p.end <= n[1]
        \/ n[2] <= p.end /\ (n[2] <= position \/ p = Protected(n[1], n[2]))
  BY <1>0, <1>1, <1>2, <1>3, Ends DEF Position
<1> HIDE DEF p
<1>5. parts' = parts \cup {p}
  BY DEF p
<1>6. CutSoFar'
  BY <1>0, <1>1, <1>2, <1>4, <1>5, PartAppended
<1>7. Segments' = Segments
  BY <1>2, <1>5 DEF Segments
<1>8. SegmentsAreParagraphs'
  BY <1>7, SameSource DEF SegmentsAreParagraphs
<1>9. MergedSoFar'
  BY SameSource DEF MergedSoFar
<1>10. MarkdownTypeOK'
  BY <1>1, <1>2, <1>5, <1>7
<1>11. uncut' = {n \in merged' : position' <= n[1]}
  <2>1. ASSUME NEW n \in merged PROVE n \in uncut \ {m} <=> m[2] <= n[1]
    <3>1. n[1] \in Int /\ n[2] \in Int /\ n[1] < n[2]
      BY Ends DEF MergedSoFar
    <3>2. n \in uncut <=> m[1] <= n[1]
      BY <1>0
    <3>3. QED
      BY <1>1, <1>3, <3>1, <3>2 DEF Position
  <2>2. QED
    BY <2>1
<1>12. QED
  BY <1>6, <1>7, <1>8, <1>9, <1>10, <1>11 DEF Parsing, OneAnswerEach

\* A chunk of text becomes a part.
LEMMA AppendTextStep ==
  ASSUME MInv, NEW e \in Position, AppendText(e)
  PROVE  MInv'
<1> USE LengthAssumption DEF MInv, AppendText
<1>1. PICK x \in Position : TextEnd(x) /\ Chunk(e, x)
  OBVIOUS
<1>2. /\ position < e
      /\ \A m \in merged : m[1] < position \/ e <= m[1]
      /\ ~Blank(position, e) => \A b \in position..(e - 1) : ~Breaks(b, e)
  BY <1>1, ChunkFacts
<1>3. PICK p \in Part :
        /\ parts' = parts \cup {p}
        /\ p.start = position /\ p.end = e
        /\ p.kind = "protected" => Blank(position, e)
        /\ p.kind = "segment" =>
             /\ ~Blank(position, e)
             /\ p.from < p.to /\ p.start <= p.from /\ p.to <= p.end
             /\ Blank(p.start, p.from) /\ Blank(p.to, p.end)
             /\ class[p.from] = "text" /\ class[p.to - 1] = "text"
  BY <1>2, PartFacts
<1>4. \A m \in merged : p.end <= m[1] \/ m[2] <= position
  BY <1>2, <1>3, Ends DEF CutSoFar, MarkdownTypeOK, Position
<1>5. \A m \in merged : m[2] <= position => m[2] <= p.end
  BY <1>2, <1>3, Ends DEF MarkdownTypeOK, Position
<1>6. CutSoFar'
  BY <1>2, <1>3, <1>4, <1>5, PartAppended
<1>7. SegmentsAreParagraphs'
  <2>1. \A q \in Segments' : q \in Segments \/ q = p
    BY <1>3 DEF Segments
  <2>2. p.kind = "segment" => \A b \in p.start..(p.end - 1) : ~Breaks(b, p.end)
    BY <1>2, <1>3
  <2>3. class' = class /\ \A b, y : Breaks(b, y)' <=> Breaks(b, y)
    BY SameSource
  <2>4. ASSUME NEW q \in Segments', q \in Segments
        PROVE  /\ q.from < q.to
               /\ class'[q.from] = "text" /\ class'[q.to - 1] = "text"
               /\ \A b \in q.start..(q.end - 1) : ~Breaks(b, q.end)'
    BY <2>3, <2>4 DEF SegmentsAreParagraphs
  <2>5. ASSUME p \in Segments'
        PROVE  /\ p.from < p.to
               /\ class'[p.from] = "text" /\ class'[p.to - 1] = "text"
               /\ \A b \in p.start..(p.end - 1) : ~Breaks(b, p.end)'
    BY <1>3, <2>2, <2>3, <2>5 DEF Segments
  <2>6. QED
    BY <2>1, <2>4, <2>5 DEF SegmentsAreParagraphs
<1>8. MergedSoFar'
  BY SameSource DEF MergedSoFar
<1>9. MarkdownTypeOK'
  BY <1>3 DEF MarkdownTypeOK, Segments
<1>10. uncut' = {m \in merged' : position' <= m[1]}
  <2>1. \A m \in merged : position <= m[1] <=> e <= m[1]
    BY <1>2, Ends DEF MarkdownTypeOK, Position
  <2>2. QED
    BY <2>1
<1>11. QED
  BY <1>6, <1>7, <1>8, <1>9, <1>10 DEF Parsing, OneAnswerEach

\* Once the source is cut up, only the phase and the answer change.
LEMMA SameParts ==
  ASSUME MInv, phase # "merge", phase' # "merge",
         class' = class, matches' = matches, unmerged' = unmerged,
         merged' = merged, position' = position, parts' = parts
  PROVE  /\ MergedSoFar' /\ CutSoFar' /\ SegmentsAreParagraphs'
         /\ Segments' = Segments
         /\ phase' # "merge" => unmerged' = {}
<1>1. \A s, e : Blank(s, e)' <=> Blank(s, e)
  BY SameSource
<1>2. MergedSoFar'
  BY SameSource DEF MInv, MergedSoFar
<1>3. CutSoFar'
  BY <1>1 DEF MInv, CutSoFar
<1>4. Segments' = Segments
  BY DEF Segments
<1>5. SegmentsAreParagraphs'
  BY <1>4, SameSource DEF MInv, SegmentsAreParagraphs
<1>6. QED
  BY <1>2, <1>3, <1>4, <1>5 DEF MInv

LEMMA MergeStep ==
  ASSUME MInv, NEW s \in unmerged, Merge(s)
  PROVE  MInv'
<1>1. merged' \subseteq Interval /\ MergedSoFar'
  BY MergeRound DEF MInv
<1>2. /\ class' = class /\ matches' = matches /\ phase' = "merge" /\ phase = "merge"
      /\ position' = 0 /\ parts' = {} /\ parts = {}
      /\ uncut' = {} /\ answered' = answered /\ items' = items /\ Segments = {}
      /\ unmerged' \subseteq matches'
  BY DEF MInv, Merge, MarkdownTypeOK, Segments
<1>3. MarkdownTypeOK'
  BY <1>1, <1>2 DEF MInv, MarkdownTypeOK, Segments, Position
<1>4. CutSoFar'
  BY <1>1, <1>2, Ends DEF CutSoFar
<1>5. SegmentsAreParagraphs'
  BY <1>2 DEF SegmentsAreParagraphs, Segments
<1>6. QED
  BY <1>1, <1>2, <1>3, <1>4, <1>5 DEF MInv, Parsing, OneAnswerEach, Ended

LEMMA StartCuttingStep ==
  ASSUME MInv, StartCutting
  PROVE  MInv'
<1> USE DEF StartCutting
<1>1. CutSoFar'
  BY SameSource, Ends, LengthAssumption DEF MInv, CutSoFar, MarkdownTypeOK
<1>2. SegmentsAreParagraphs'
  BY DEF MInv, SegmentsAreParagraphs, Segments
<1>3. MergedSoFar'
  BY SameSource DEF MInv, MergedSoFar
<1>4. uncut' = {m \in merged' : position' <= m[1]}
  BY Ends DEF MInv, MarkdownTypeOK
<1>5. QED
  BY <1>1, <1>2, <1>3, <1>4 DEF MInv, MarkdownTypeOK, Segments, Parsing, OneAnswerEach, Ended

\* The steps after the source is cut up.
LEMMA LateStep ==
  ASSUME MInv,
         \/ Parsed
         \/ \E p \in Segments \cup {Unknown} : Answer(p)
         \/ BadAnswer
         \/ EndOfAnswer
         \/ Verify
  PROVE  MInv'
<1> DEFINE Kept == /\ class' = class /\ matches' = matches /\ unmerged' = unmerged
                   /\ merged' = merged /\ uncut' = uncut /\ position' = position
                   /\ parts' = parts /\ phase # "merge"
           Unanswered == answered' = answered /\ items' = items
<1> USE DEF OneAnswerEach, Ended
<1>1. CASE Parsed
  <2>1. /\ Kept /\ Unanswered /\ phase' \in {"verify", "ask"} /\ phase = "cut"
        /\ position = Length
        /\ phase' = "verify" => Segments = {}
    BY <1>1 DEF Parsed
  <2>2. phase' = "verify" => answered = Segments
    BY <2>1 DEF MInv, MarkdownTypeOK
  <2>3. QED
    BY <2>1, <2>2, SameParts DEF MInv, MarkdownTypeOK, Parsing
<1>2. CASE \E p \in Segments \cup {Unknown} : Answer(p)
  <2>1. PICK p \in Segments \cup {Unknown} : Answer(p)
    BY <1>2
  <2>2. Kept /\ phase = "ask" /\ items' = items + 1
    BY <2>1 DEF Answer
  <2>3. CASE p \in Segments \ answered
    <3>1. phase' = "ask" /\ answered' = answered \cup {p}
      BY <2>1, <2>2, <2>3 DEF Answer
    <3>2. IsFiniteSet(answered') /\ Cardinality(answered') = Cardinality(answered) + 1
      BY <2>2, <2>3, <3>1, FS_AddElement DEF MInv
    <3>3. QED
      BY <2>2, <2>3, <3>1, <3>2, SameParts DEF MInv, MarkdownTypeOK, Parsing
  <2>4. CASE p \notin Segments \ answered
    <3>1. phase' = "refused" /\ answered' = answered
      BY <2>1, <2>4 DEF Answer
    <3>2. QED
      BY <2>2, <3>1, SameParts DEF MInv, MarkdownTypeOK, Parsing
  <2>5. QED
    BY <2>3, <2>4
<1>3. CASE BadAnswer
  <2>1. Kept /\ Unanswered /\ phase' = "refused" /\ phase = "ask"
    BY <1>3 DEF BadAnswer
  <2>2. QED
    BY <2>1, SameParts DEF MInv, MarkdownTypeOK, Parsing
<1>4. CASE EndOfAnswer
  <2>1. /\ Kept /\ Unanswered /\ phase' \in {"verify", "refused"} /\ phase = "ask"
        /\ phase' = "verify" => Segments \ answered = {}
    BY <1>4 DEF EndOfAnswer
  <2>2. phase' = "verify" => answered = Segments
    BY <2>1 DEF MInv, MarkdownTypeOK
  <2>3. QED
    BY <2>1, <2>2, SameParts DEF MInv, MarkdownTypeOK, Parsing
<1>5. CASE Verify
  <2>1. Kept /\ Unanswered /\ phase' \in {"accepted", "rejected"} /\ phase = "verify"
    BY <1>5 DEF Verify
  <2>2. QED
    BY <2>1, SameParts DEF MInv, MarkdownTypeOK, Parsing
<1>6. QED
  BY <1>1, <1>2, <1>3, <1>4, <1>5

LEMMA MarkdownStutter ==
  ASSUME MInv, UNCHANGED markdownVars
  PROVE  MInv'
<1> USE DEF markdownVars
<1>1. CutSoFar' /\ MergedSoFar'
  BY SameSource DEF MInv, CutSoFar, MergedSoFar
<1>2. SegmentsAreParagraphs'
  BY SameSource DEF MInv, SegmentsAreParagraphs, Segments
<1>3. QED
  BY <1>1, <1>2 DEF MInv, MarkdownTypeOK, Segments, Parsing, OneAnswerEach

-----------------------------------------------------------------------------
(* How the cutting goes on.                                                *)

\* A non-empty set of numbers has a least one.
LEMMA Least ==
  ASSUME NEW L \in Nat, NEW S, S \subseteq 0..L, S # {}
  PROVE  \E x \in S : \A y \in S : x <= y
<1> DEFINE T == {L - x : x \in S}
<1>1. \A x \in S : x \in Int /\ L - x \in 0..L
  OBVIOUS
<1>2. T \subseteq 0..L /\ T # {}
  BY <1>1
<1> HIDE DEF T
<1>3. PICK t \in T : \A y \in T : y <= t
  BY <1>2, Greatest
<1>4. PICK x \in S : t = L - x
  BY DEF T
<1>5. \A y \in S : L - y <= t
  BY <1>3 DEF T
<1>6. QED
  BY <1>1, <1>4, <1>5

\* As long as the loop has not ended, it comes to one interval next.
LEMMA OneNext ==
  ASSUME MInv, phase = "cut", uncut # {}
  PROVE  \E m \in uncut : Next(m) /\ \A n \in uncut : Next(n) => n = m
<1> USE LengthAssumption DEF MInv, MarkdownTypeOK
<1> DEFINE S == {m[1] : m \in uncut}
<1>1. \A m \in uncut : m \in merged /\ m[1] \in 0..Length /\ m[1] < m[2] /\ m[2] \in Int
  BY Ends DEF MergedSoFar
<1>2. S \subseteq 0..Length /\ S # {}
  BY <1>1
<1>3. \E x \in S : \A y \in S : x <= y
  <2> HIDE DEF S
  <2>1. QED
    BY <1>2, Least
<1>4. PICK m \in uncut : \A n \in uncut : m[1] <= n[1]
  BY <1>3
<1>5. ASSUME NEW n \in uncut, n[1] = m[1] PROVE n = m
  <2>1. m = n \/ m[2] < n[1] \/ n[2] < m[1]
    BY <1>1 DEF MergedSoFar
  <2>2. QED
    BY <1>1, <1>5, <2>1
<1>6. Next(m)
  BY <1>1, <1>4, <1>5 DEF Next, Before
<1>7. ASSUME NEW n \in uncut, Next(n) PROVE n = m
  <2>1. n[1] <= m[1]
    BY <1>1, <1>7 DEF Next, Before
  <2>2. n[1] = m[1]
    BY <1>1, <1>4, <2>1
  <2>3. QED
    BY <1>5, <2>2
<1>8. QED
  BY <1>6, <1>7

\* A match of the paragraph pattern is as long as it can be.
LEMMA OneBreak ==
  ASSUME MarkdownTypeOK, NEW b \in Position, NEW x \in Position, Breaks(b, x)
  PROVE  \E e \in Position : Break(b, e, x) /\ \A f \in Position : Break(b, f, x) => f = e
<1> USE LengthAssumption DEF Position
<1>1. PICK n \in (b + 1)..(x - 1) :
        class[n] = "newline" /\ \A i \in (b + 1)..(n - 1) : class[i] = "space"
  BY DEF Breaks
<1> DEFINE S == {e \in (n + 1)..x : \A i \in n..(e - 1) : class[i] = "newline"}
<1>2. n + 1 \in S /\ S \subseteq 0..Length
  BY <1>1
<1>3. PICK e \in S : \A f \in S : f <= e
  <2> HIDE DEF S
  <2>1. QED
    BY <1>2, Greatest
<1>4. Break(b, e, x)
  <2>1. ASSUME e < x, class[e] = "newline" PROVE FALSE
    <3>1. e + 1 \in S
      BY <1>1, <1>3, <2>1
    <3>2. QED
      BY <1>3, <3>1
  <2>2. \A i \in b..(e - 1) : class[i] \in {"newline", "space"}
    <3>1. \A i \in b..(e - 1) : i = b \/ i \in (b + 1)..(n - 1) \/ i \in n..(e - 1)
      BY <1>1, <1>3
    <3>2. QED
      BY <1>1, <1>3, <3>1 DEF Breaks
  <2>3. n \in (b + 1)..(e - 1) /\ \A i \in n..(e - 1) : class[i] = "newline"
    BY <1>1, <1>3
  <2>4. b + 1 < e /\ e <= x
    BY <1>1, <1>3
  <2>5. QED
    BY <1>1, <2>1, <2>2, <2>3, <2>4 DEF Break
<1>5. ASSUME NEW f \in Position, NEW g \in Position, f < g, Break(b, f, x), Break(b, g, x)
      PROVE  FALSE
  <2>1. PICK k \in (b + 1)..(f - 1) :
          /\ \A i \in (b + 1)..(k - 1) : class[i] = "space"
          /\ \A i \in k..(f - 1) : class[i] = "newline"
    BY <1>5 DEF Break
  <2>2. PICK l \in (b + 1)..(g - 1) :
          /\ \A i \in (b + 1)..(l - 1) : class[i] = "space"
          /\ \A i \in l..(g - 1) : class[i] = "newline"
    BY <1>5 DEF Break
  <2>3. class[k] = "newline"
    BY <2>1
  <2>4. l <= k
    BY <2>1, <2>2, <2>3
  <2>5. class[f] = "newline"
    BY <1>5, <2>1, <2>2, <2>4
  <2>6. g <= x
    BY <1>5 DEF Break
  <2>7. f < x
    BY <1>5, <2>6
  <2>8. QED
    BY <1>5, <2>5, <2>7 DEF Break
<1>6. e \in Position
  BY <1>2, <1>3
<1>7. QED
  BY <1>4, <1>5, <1>6

\* So a text has one first chunk.
LEMMA OneChunk ==
  ASSUME MarkdownTypeOK, NEW x \in Position, position < x
  PROVE  \E e \in Position : Chunk(e, x) /\ \A f \in Position : Chunk(f, x) => f = e
<1> USE LengthAssumption DEF MarkdownTypeOK, Position
<1>1. CASE Breaks(position, x)
  BY <1>1, OneBreak DEF Chunk
<1>2. CASE ~Breaks(position, x)
  <2> DEFINE S == {e \in Position : position < e /\ e <= x /\ (e < x => Breaks(e, x))}
  <2>1. x \in S /\ S \subseteq 0..Length
    OBVIOUS
  <2>2. PICK e \in S : \A f \in S : e <= f
    <3> HIDE DEF S
    <3>1. QED
      BY <2>1, Least
  <2>3. ASSUME NEW b \in (position + 1)..(e - 1), Breaks(b, x) PROVE FALSE
    <3>1. b \in S
      BY <2>2, <2>3
    <3>2. QED
      BY <2>2, <3>1
  <2>4. Chunk(e, x)
    BY <1>2, <2>2, <2>3 DEF Chunk
  <2>5. ASSUME NEW f \in Position, Chunk(f, x) PROVE f = e
    <3>1. f \in S
      BY <1>2, <2>5 DEF Chunk
    <3>2. e <= f
      BY <2>2, <3>1
    <3>3. ~(e < f)
      <4>1. SUFFICES ASSUME e < f PROVE FALSE
        OBVIOUS
      <4>2. Breaks(e, x)
        BY <2>2, <3>1, <4>1
      <4>3. \A b \in (position + 1)..(f - 1) : ~Breaks(b, x)
        BY <1>2, <2>5 DEF Chunk
      <4>4. QED
        BY <2>2, <4>1, <4>2, <4>3
    <3>4. QED
      BY <2>2, <3>2, <3>3
  <2>6. QED
    BY <2>2, <2>4, <2>5
<1>3. QED
  BY <1>1, <1>2

\* MInv is an inductive invariant of parse_markdown and what follows it, for
\* every length and every set of matches, however they overlap.
THEOREM MarkdownInvariance == MarkdownSpec => []MInv
<1>1. MarkdownInit => MInv
  <2> SUFFICES ASSUME MarkdownInit PROVE MInv
    OBVIOUS
  <2> USE DEF MarkdownInit
  <2>1. MarkdownTypeOK
    BY LengthAssumption, MatchesAssumption DEF MarkdownTypeOK, Position, Segments
  <2>2. MergedSoFar
    BY DEF MergedSoFar
  <2>3. CutSoFar
    BY DEF CutSoFar
  <2>4. IsFiniteSet(answered) /\ items = Cardinality(answered)
    BY FS_EmptySet
  <2>5. QED
    BY <2>1, <2>2, <2>3, <2>4 DEF MInv, SegmentsAreParagraphs, Segments, Parsing, OneAnswerEach
<1>2. MInv /\ [Step]_markdownVars => MInv'
  BY MergeStep, StartCuttingStep, ProtectStep, AppendTextStep, LateStep, MarkdownStutter DEF Step
<1>3. QED
  BY <1>1, <1>2, PTL DEF MarkdownSpec

\* A segment is part of one paragraph and is sent without the whitespace
\* around it: SegmentsAreParagraphs holds for every source.
THEOREM SegmentsOfParagraphs == MarkdownSpec => []SegmentsAreParagraphs
<1>1. MInv => SegmentsAreParagraphs
  BY DEF MInv
<1>2. QED
  BY <1>1, MarkdownInvariance, PTL

\* Every character is in one part, markup is protected and all other text is
\* sent, and answered for if the output is accepted.
THEOREM NothingLostOrLeaked == MarkdownSpec => []CharactersAccountedFor
<1>1. MInv => CharactersAccountedFor
  <2> SUFFICES ASSUME MInv, ~Parsing, NEW i \in 0..(Length - 1)
               PROVE  \E p \in parts :
                        /\ Within(i, p)
                        /\ \A q \in parts : Within(i, q) => q = p
                        /\ Marked(i) => p.kind = "protected"
                        /\ class[i] = "text" /\ ~Marked(i) =>
                             /\ p.kind = "segment" /\ p.from <= i /\ i < p.to
                             /\ phase = "accepted" => p \in answered
    BY DEF CharactersAccountedFor
  <2> USE LengthAssumption DEF MInv, MarkdownTypeOK
  <2>1. position = Length /\ unmerged = {}
    BY DEF Parsing
  <2>2. PICK p \in parts : Within(i, p)
    BY <2>1 DEF CutSoFar
  <2>3. /\ p \in Part /\ p.start \in Int /\ p.end \in Int /\ p.from \in Int /\ p.to \in Int
        /\ p.kind \in {"protected", "segment"}
    BY DEF Part, Position
  <2>4. \A q \in parts : q.start \in Int /\ q.end \in Int
    BY DEF Part, Position
  <2>5. ASSUME NEW q \in parts, Within(i, q) PROVE q = p
    <3>1. p = q \/ p.end <= q.start \/ q.end <= p.start
      BY DEF CutSoFar
    <3>2. p.start <= i /\ i < p.end /\ q.start <= i /\ i < q.end
      BY <2>2, <2>5 DEF Within
    <3>3. QED
      BY <2>3, <2>4, <3>1, <3>2
  <2>6. ASSUME Marked(i) PROVE p.kind = "protected"
    <3>1. PICK s \in matches : s[1] <= i /\ i < s[2]
      BY <2>6 DEF Marked
    <3>2. s[1] < s[2]
      BY <3>1, Ends
    <3>3. PICK m \in merged : m[1] <= s[1] /\ s[2] <= m[2]
      BY <2>1, <3>2 DEF MergedSoFar
    <3>4. m[1] <= i /\ i < m[2]
      BY <3>1, <3>3, Ends
    <3>5. Protected(m[1], m[2]) \in parts
      BY <2>1, <3>4, Ends DEF CutSoFar
    <3>6. Within(i, Protected(m[1], m[2]))
      BY <3>4 DEF Within, Protected
    <3>7. p = Protected(m[1], m[2])
      BY <2>5, <3>5, <3>6
    <3>8. QED
      BY <3>7 DEF Protected
  <2>7. ASSUME class[i] = "text", ~Marked(i) PROVE p.kind = "segment" /\ p.from <= i /\ i < p.to
    <3>1. p.start <= i /\ i < p.end
      BY <2>2 DEF Within
    <3>2. p.kind # "protected"
      <4>1. ~Blank(p.start, p.end)
        BY <2>3, <2>7, <3>1 DEF Blank
      <4>2. <<p.start, p.end>> \notin merged
        BY <2>3, <2>7, <3>1 DEF MergedSoFar
      <4>3. QED
        BY <4>1, <4>2 DEF CutSoFar
    <3>3. p.kind = "segment" /\ Blank(p.start, p.from) /\ Blank(p.to, p.end)
      BY <2>3, <3>2 DEF CutSoFar
    <3>4. QED
      BY <2>3, <2>7, <3>1, <3>3 DEF Blank
  <2>8. p.kind = "segment" /\ phase = "accepted" => p \in answered
    BY DEF Segments, OneAnswerEach
  <2>9. QED
    BY <2>2, <2>5, <2>6, <2>7, <2>8
<1>2. QED
  BY <1>1, MarkdownInvariance, PTL

\* Until the source is cut up there is one next part and it is not empty:
\* neither the merging nor the cutting can stand still, and a parse is a
\* function of the source and its matches.
THEOREM CuttingGoesOn == MarkdownSpec => []OneWayToCut
<1>1. MInv => OneWayToCut
  <2> SUFFICES ASSUME MInv, phase = "cut", position < Length
               PROVE  \E e \in (position + 1)..Length : \A d \in Position : NextPart(d) <=> d = e
    BY DEF OneWayToCut
  <2> USE LengthAssumption DEF MInv, MarkdownTypeOK, Position
  <2>1. CASE \E m \in uncut : m[1] = position
    <3>1. PICK m \in uncut : Next(m) /\ \A n \in uncut : Next(n) => n = m
      BY <2>1, OneNext
    <3>2. m \in Interval /\ m[1] = position /\ m[1] < m[2]
      BY <2>1, <3>1, Ends DEF MergedSoFar, Next, Before
    <3>3. m[2] \in (position + 1)..Length
      BY <3>2, Ends
    <3>4. \A x \in Position : ~TextEnd(x)
      BY <3>1, <3>2 DEF TextEnd
    <3>5. \A d \in Position : NextPart(d) <=> d = m[2]
      BY <3>1, <3>2, <3>4 DEF NextPart
    <3>6. QED
      BY <3>3, <3>5
  <2>2. CASE \A m \in uncut : m[1] # position
    <3>1. \A m \in uncut : m[1] \in Position /\ position < m[1]
      BY <2>2, Ends
    <3>2. PICK x \in Position : TextEnd(x) /\ \A y \in Position : TextEnd(y) => y = x
      <4>1. CASE uncut = {}
        BY <4>1 DEF TextEnd
      <4>2. CASE uncut # {}
        BY <3>1, <4>2, OneNext DEF TextEnd
      <4>3. QED
        BY <4>1, <4>2
    <3>3. position < x
      BY <3>2 DEF TextEnd
    <3>4. PICK e \in Position : Chunk(e, x) /\ \A f \in Position : Chunk(f, x) => f = e
      BY <3>3, OneChunk
    <3>5. position < e
      BY <3>2, <3>4, ChunkFacts
    <3>6. \A m \in uncut : ~(m[1] <= position)
      BY <3>1
    <3>7. \A d \in Position : NextPart(d) <=> d = e
      BY <3>2, <3>4, <3>6 DEF NextPart
    <3>8. e \in (position + 1)..Length
      <4>1. position \in Int /\ e \in 0..Length
        OBVIOUS
      <4>2. QED
        BY <3>5, <4>1
    <3>9. QED
      BY <3>7, <3>8
  <2>3. QED
    BY <2>1, <2>2
<1>2. QED
  BY <1>1, MarkdownInvariance, PTL

\* What is verified was answered for by exactly one item per segment,
\* whatever ids the provider sends and in whatever order.
THEOREM OneItemPerSegment == MarkdownSpec => []OneAnswerEach
<1>1. MInv => OneAnswerEach
  BY DEF MInv
<1>2. QED
  BY <1>1, MarkdownInvariance, PTL
=============================================================================
