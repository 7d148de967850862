------------------------------ MODULE Display ------------------------------
(***************************************************************************)
(* The helpers that turn a search result into the text of a table cell:    *)
(* utils/size.ts, utils/date.ts and utils/path.ts.  A label is its number  *)
(* and its unit, a path the lengths that shortenPath looks at; wording and *)
(* separators are left out.                                                *)
(***************************************************************************)
EXTENDS Integers, Sequences

CONSTANTS
  Kilo,     \* 1024
  MegParts, \* the parts of an MB that the decimals of a size field can name
  Missing   \* an optional field of a result that is not there

ASSUME DisplayAssumption == Kilo \in Nat /\ Kilo > 1 /\ MegParts \in Nat \ {0} /\ Missing \notin Nat

\* The cell of a missing value, and a date, which shows the time itself.
Dash == [unit |-> -1, number |-> 0]
Date(ts) == [unit |-> 0, number |-> ts]

\* The last unit of a table of thresholds that a value reaches.
Reached(from, x) == CHOOSE u \in DOMAIN from :
  from[u] <= x /\ \A v \in DOMAIN from : v > u => x < from[v]

-----------------------------------------------------------------------------
(* utils/size.ts                                                            *)

\* B, KB, MB, GB and TB: their bytes, and the digits shown as a power of ten.
UnitBytes == <<1, Kilo, Kilo * Kilo, Kilo * Kilo * Kilo, Kilo * Kilo * Kilo * Kilo>>
UnitParts == <<1, 1, 100, 100, 100>>

\* toFixed and Math.round: the nearest number, the upper one of two.
Nearest(num, den) == (2 * num + den) \div (2 * den)

\* Mutation: a value that rounds up to 1024 moves on to the next unit, unrounded.
formatBytes_Restart(bytes) ==
  LET u == Reached([UnitBytes EXCEPT ![1] = 0], bytes)
  IN  [unit |-> u, number |-> Nearest((bytes % UnitBytes[u]) * UnitParts[u], UnitBytes[u])]

\* Divided by 1024 while it is at least that, up to TB.
formatBytes(bytes) ==
  LET u == Reached([UnitBytes EXCEPT ![1] = 0], bytes)
  IN  [unit |-> u, number |-> Nearest(bytes * UnitParts[u], UnitBytes[u])]

Megabyte == Kilo * Kilo

\* Mutation: the fraction of a byte is cut off.
toBytesMb_Floor(mb) == (mb * Megabyte) \div MegParts

toBytesMb(mb) == Nearest(mb * Megabyte, MegParts)

-----------------------------------------------------------------------------
(* utils/date.ts                                                            *)

formatTs(ts) == IF ts = Missing THEN Dash ELSE Date(ts)

\* Just now, seconds, minutes, hours and days: where each begins and its length.
AgeFrom == <<0, 5, 60, 3600, 86400>>
AgeSeconds == <<5, 1, 60, 3600, 86400>>

\* Mutation: the hours are those of the clock, not of the age.
formatRelativeTs_Wraps(ts, now) ==
  LET age == now - ts
      u == Reached(AgeFrom, age)
  IN  IF ts = Missing \/ age < 0 \/ age >= 30 * 86400 THEN formatTs(ts)
      ELSE [unit |-> u, number |-> (age % 43200) \div AgeSeconds[u]]

\* Times in the future and ages from 30 days on are shown as a date.
formatRelativeTs(ts, now) ==
  LET age == now - ts
      u == Reached(AgeFrom, age)
  IN  IF ts = Missing \/ age < 0 \/ age >= 30 * 86400 THEN formatTs(ts)
      ELSE [unit |-> u, number |-> age \div AgeSeconds[u]]

-----------------------------------------------------------------------------
(* utils/path.ts                                                            *)

\* What shortenPath looks at: the length of a path, the number of its parts and
\* the lengths of the first and the last two (parts and separators fit in).
PathShape == {p \in [len : Nat, parts : Nat \ {0}, first : Nat, beforeLast : Nat, last : Nat] :
  p.parts > 2 => p.len >= p.first + p.beforeLast + p.last + p.parts - 1}

AtLeast(x, y) == IF x < y THEN y ELSE x
AtMost(x, y) == IF x < y THEN x ELSE y

\* The number of characters of slice(0, k) and of slice(k) of a text of length len.
SliceTo(len, k) == IF k < 0 THEN AtLeast(len + k, 0) ELSE IF k < len THEN k ELSE len
SliceFrom(len, k) == len - SliceTo(len, k)

Ellipsis == 3

\* The shown text: its length and how many of the last characters of the file name
\* end it.  Four ways: as it is, cut off, without the parts in the middle, or
\* without the characters in the middle.
Whole(p) == [len |-> p.len, name |-> p.last]

CutOff(p, maxLen) == [len |-> SliceTo(p.len, maxLen - 3) + Ellipsis, name |-> 0]

Candidate(p) == [len |-> p.first + 1 + Ellipsis + 1 + p.beforeLast + 1 + p.last, name |-> p.last]

\* Mutation: the tail is not shortened when the head takes its minimum.
Centred_Halves(p, maxLen) ==
  LET keep == maxLen - 3
      head == AtLeast(10, keep \div 2)
      tail == SliceFrom(p.len, p.len - (keep - keep \div 2))
  IN  [len |-> SliceTo(p.len, head) + Ellipsis + tail, name |-> AtMost(p.last, tail)]

Centred(p, maxLen) ==
  LET keep == maxLen - 3
      head == AtLeast(10, keep \div 2)
      tail == SliceFrom(p.len, p.len - (keep - head))
  IN  [len |-> SliceTo(p.len, head) + Ellipsis + tail, name |-> AtMost(p.last, tail)]

shortenPath(p, maxLen) ==
  IF p.len = 0 \/ p.len <= maxLen THEN Whole(p)
  ELSE IF p.parts <= 2 THEN CutOff(p, maxLen)
  ELSE IF Candidate(p).len <= maxLen THEN Candidate(p)
  ELSE Centred(p, maxLen)

=============================================================================
