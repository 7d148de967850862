----------------------------- MODULE Highlight -----------------------------
(***************************************************************************)
(* utils/highlight.tsx: which letters of a text are marked for a query.    *)
(* The query is a quoted phrase, a pattern between slashes or a list of    *)
(* words; the text is split at the matches of a regular expression, and    *)
(* every piece is then tested a second time to decide whether to mark it.  *)
(* A pattern is a literal word with or without the flag i, and with the    *)
(* flag g or y or neither: under these the expression remembers in its     *)
(* lastIndex where the test of one piece ended when it tests the next.     *)
(***************************************************************************)
EXTENDS Integers, Sequences

CONSTANTS
  Letter,
  ToLower,     \* String.toLowerCase, letter by letter
  Canonical    \* what a regular expression compares under the flag i

ASSUME HighlightAssumption ==
  ToLower \in [Letter -> Letter] /\ Canonical \in [Letter -> Letter]

\* A phrase is one term and perhaps empty, the words are what filter(Boolean) leaves;
\* both are looked for with the flag i.
Query ==
  [mode : {"phrase"}, terms : [{1} -> Seq(Letter)], cased : {FALSE}, flag : {""}]
    \cup [mode : {"pattern"}, terms : [{1} -> Seq(Letter)], cased : BOOLEAN, flag : {"", "g", "y"}]
    \cup [mode : {"words"}, terms : Seq(Seq(Letter) \ {<<>>}), cased : {FALSE}, flag : {""}]

\* Whether the letters of a term stand at position n of the text.
SameLetter(q, x, y) == IF q.cased THEN x = y ELSE Canonical[x] = Canonical[y]

Occurs(q, term, text, n) ==
  /\ n + Len(term) - 1 <= Len(text)
  /\ \A k \in DOMAIN term : SameLetter(q, term[k], text[n + k - 1])

\* The alternatives of the expression are tried in their order.
Matching(q, text, n) == {k \in DOMAIN q.terms : Occurs(q, q.terms[k], text, n)}

MatchEnd(q, text, n) ==
  n + Len(q.terms[CHOOSE k \in Matching(q, text, n) : \A j \in Matching(q, text, n) : k <= j])

\* Where text.split(re) cuts next, from being the end of the last match: an empty
\* match there does not count.  The expression that split works with has a lastIndex
\* of its own.
Cuts(q, text, from) ==
  {n \in from .. Len(text) : Matching(q, text, n) # {} /\ MatchEnd(q, text, n) # from}

LowerCase(word) == [k \in DOMAIN word |-> ToLower[word[k]]]

\* Where re.test(piece) finds a match when its lastIndex is at, and what lastIndex
\* is afterwards: the end of the match under g and y, zero after a failure.
Found(q, piece, at) ==
  {n \in at + 1 .. Len(piece) + 1 : Matching(q, piece, n) # {} /\ (q.flag = "y" => n = at + 1)}

LastIndex(q, piece, at) ==
  IF q.flag = "" \/ Found(q, piece, at) = {} THEN 0
  ELSE MatchEnd(q, piece, CHOOSE n \in Found(q, piece, at) : \A m \in Found(q, piece, at) : n <= m) - 1

\* Mutation: the piece is compared with the terms as they were typed.
IsMark_Typed(q, piece, at) ==
  \E k \in DOMAIN q.terms : piece = q.terms[k]

\* re.test(p) for a pattern, equality without case for words and phrases.
IsMark(q, piece, at) ==
  IF q.mode = "pattern" THEN Found(q, piece, at) # {}
  ELSE \E k \in DOMAIN q.terms : LowerCase(piece) = LowerCase(q.terms[k])

\* The letters marked of the piece from i to j.
Marked(q, text, i, j, at) == IF IsMark(q, SubSeq(text, i, j), at) THEN i .. j ELSE {}

\* The letters marked from the end of a match on, when the test finds lastIndex at:
\* the last piece, or the piece before the next match, the match and what is later.
MarkedFrom(q, text, later, from, at) ==
  LET cut == CHOOSE n \in Cuts(q, text, from) : \A m \in Cuts(q, text, from) : n <= m
      end == MatchEnd(q, text, cut)
      between == LastIndex(q, SubSeq(text, from, cut - 1), at)
  IN  IF Cuts(q, text, from) = {} THEN Marked(q, text, from, Len(text), at)
      ELSE Marked(q, text, from, cut - 1, at) \cup Marked(q, text, cut, end - 1, between)
             \cup later[end][LastIndex(q, SubSeq(text, cut, end - 1), between)]

\* The positions of the marked letters.  An empty phrase or list marks nothing.
highlight(text, q) ==
  LET marks[from \in 1 .. Len(text) + 1] == [at \in 0 .. Len(text) |-> MarkedFrom(q, text, marks, from, at)]
  IN  IF q.mode # "pattern" /\ \A k \in DOMAIN q.terms : q.terms[k] = <<>> THEN {} ELSE marks[1][0]

\* The letters of each place where a term that is not empty stands.
Places(text, q) == UNION
  {{n .. n + Len(q.terms[k]) - 1 : n \in {m \in 1 .. Len(text) : Occurs(q, q.terms[k], text, m)}} :
     k \in {j \in DOMAIN q.terms : q.terms[j] # <<>>}}

=============================================================================
