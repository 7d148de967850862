-------------------------- MODULE ResultViewProofs --------------------------
(***************************************************************************)
(* What holds of a search and of its result list for every set of          *)
(* documents, every limit, every content of the filter fields and every    *)
(* path: the results are exact, the rows are in the chosen order and what  *)
(* their cells say is true, the detail pane shows one of them, the path    *)
(* cell keeps to its length, and the marks of the name are those of the    *)
(* query.                                                                  *)
(***************************************************************************)
EXTENDS ResultView, TLAPS, FiniteSetTheorems

-----------------------------------------------------------------------------
(* The search                                                               *)

\* The request carries what the fields say.
FiltersOfForm ==
  /\ filters.exts = parseCSV(form.exts)
  /\ filters.min = ToBound(form.min)
  /\ filters.max = ToBound(form.max)

\* The results are the wanted hits the loop has passed, in their order.
Prefix ==
  /\ results \in Seq(1 .. i - 1)
  /\ \A m, n \in 1 .. Len(results) : m < n => results[m] < results[n]
  /\ \A r \in 1 .. i - 1 : Wanted(hits[r]) <=> \E n \in 1 .. Len(results) : results[n] = r

IInv ==
  /\ hits \in Seq(Hit) /\ form \in Form
  /\ i \in 1 .. Len(hits) + 1 /\ i - 1 <= Limit
  /\ pc # "form" => FiltersOfForm
  /\ pc = "form" => i = 1 /\ results = <<>>
  /\ pc = "done" => ~HasHit
  /\ Prefix

\* A bounded sequence is a sequence.
LEMMA UpToSeq ==
  ASSUME NEW S, NEW n \in Nat, NEW s \in UpTo(S, n)
  PROVE  s \in Seq(S) /\ DOMAIN s = 1 .. Len(s)
<1>1. PICK m \in 0 .. n : s \in [1 .. m -> S]
  BY DEF UpTo
<1> QED
  BY <1>1

\* Division with a remainder.
LEMMA Division ==
  ASSUME NEW a \in Int, NEW b \in Nat \ {0}
  PROVE  a \div b \in Int /\ b * (a \div b) <= a /\ a < b * (a \div b) + b
  OBVIOUS

\* A megabyte is a number.
LEMMA MegabyteInt == Megabyte \in Int
  BY DisplayAssumption DEF Megabyte

\* A size is on the same side of a limit in MB and of its bytes.
LEMMA LimitInBytes ==
  ASSUME NEW mb \in Int, NEW size \in Int
  PROVE  /\ toBytesMb(mb) \in Int
         /\ MbOrMore(size, mb) <=> size >= toBytesMb(mb)
         /\ MbOrLess(size, mb) <=> size <= toBytesMb(mb)
<1>1. PICK num \in Int : num = mb * Megabyte
  BY MegabyteInt
<1>2. PICK den \in Nat \ {0} : den = MegParts
  BY DisplayAssumption
<1>3. PICK d2 \in Nat \ {0} : d2 = 2 * den
  BY <1>2
<1>4. PICK q \in Int : q = toBytesMb(mb) /\ d2 * q <= 2 * num + den /\ 2 * num + den < d2 * q + d2
  <2>1. toBytesMb(mb) = (2 * num + den) \div d2
    BY <1>1, <1>2, <1>3 DEF toBytesMb, Nearest
  <2>2. 2 * num + den \in Int
    OBVIOUS
  <2> QED
    BY <2>1, <2>2, Division
<1>5. /\ MbOrMore(size, mb) <=> d2 * size > 2 * num - den
      /\ MbOrLess(size, mb) <=> d2 * size <= 2 * num + den
  BY <1>1, <1>2, <1>3 DEF MbOrMore, MbOrLess
<1>6. d2 * size \in Int /\ d2 * q \in Int
  OBVIOUS
<1>7. ASSUME size >= q PROVE d2 * size >= d2 * q
  BY <1>7
<1>8. ASSUME size < q PROVE d2 * size <= d2 * q - d2
  <2>1. d2 * size <= d2 * (q - 1)
    BY <1>8
  <2>2. d2 * (q - 1) = d2 * q - d2
    OBVIOUS
  <2> QED
    BY <2>1, <2>2
<1>9. ASSUME size <= q PROVE d2 * size <= d2 * q
  BY <1>9
<1>10. ASSUME size > q PROVE d2 * size >= d2 * q + d2
  <2>1. d2 * size >= d2 * (q + 1)
    BY <1>10
  <2>2. d2 * (q + 1) = d2 * q + d2
    OBVIOUS
  <2> QED
    BY <2>1, <2>2
<1> DEFINE x == d2 * size
           y == d2 * q
<1>11. /\ x \in Int /\ y \in Int /\ y <= 2 * num + den /\ 2 * num + den < y + d2
       /\ size >= q => x >= y
       /\ size < q => x <= y - d2
       /\ size <= q => x <= y
       /\ size > q => x >= y + d2
  BY <1>4, <1>6, <1>7, <1>8, <1>9, <1>10
<1> HIDE DEF x, y
<1>12. (x > 2 * num - den <=> size >= q) /\ (x <= 2 * num + den <=> size <= q)
  BY <1>3, <1>11
<1> QED
  BY <1>4, <1>5, <1>12 DEF x

\* The two tests of the loop keep exactly the hits the fields ask for.
LEMMA SkipsAreRight ==
  ASSUME FiltersOfForm, form \in Form, NEW h \in Hit
  PROVE  Wanted(h) <=> ~SkipByExt(h) /\ ~SkipBySize(h)
<1> DEFINE byExt == \/ \A n \in DOMAIN form.exts : form.exts[n] = NoExt
                    \/ \E n \in DOMAIN form.exts : form.exts[n] # NoExt /\ Lower[form.exts[n]] = Lower[h.ext]
           bySize == h.size # Missing => /\ form.min.kind = "num" => MbOrMore(h.size, form.min.mb)
                                         /\ form.max.kind = "num" => MbOrLess(h.size, form.max.mb)
<1>1. form.min \in Field /\ form.max \in Field
  BY DEF Form
<1>2. ASSUME NEW f \in Field
      PROVE  /\ ToBound(f).some <=> f.kind = "num"
             /\ f.kind = "num" => ToBound(f).bytes = toBytesMb(f.mb) /\ f.mb \in Int
  <2>1. f.kind = "num" => f.mb \in Int
    BY ZenonT(40), SearchQueryAssumption DEF Field
  <2> QED
    BY <2>1 DEF ToBound, None
<1>3. ~SkipByExt(h) <=> byExt
  BY DEF SkipByExt, FiltersOfForm, parseCSV
<1>4. h.size # Missing => h.size \in Int
  BY SearchQueryAssumption
<1>5. ~SkipBySize(h) <=> bySize
  <2> DEFINE lo == filters.min.bytes
             hi == filters.max.bytes
  <2>1. /\ filters.min.some <=> form.min.kind = "num"
        /\ form.min.kind = "num" => lo = toBytesMb(form.min.mb) /\ form.min.mb \in Int
    BY <1>1, <1>2 DEF FiltersOfForm
  <2>2. /\ filters.max.some <=> form.max.kind = "num"
        /\ form.max.kind = "num" => hi = toBytesMb(form.max.mb) /\ form.max.mb \in Int
    BY <1>1, <1>2 DEF FiltersOfForm
  <2>3. ASSUME h.size # Missing, form.min.kind = "num"
        PROVE  lo \in Int /\ (MbOrMore(h.size, form.min.mb) <=> h.size >= lo)
    BY ZenonT(40), <1>4, <2>1, <2>3, LimitInBytes
  <2>4. ASSUME h.size # Missing, form.max.kind = "num"
        PROVE  hi \in Int /\ (MbOrLess(h.size, form.max.mb) <=> h.size <= hi)
    BY ZenonT(40), <1>4, <2>2, <2>4, LimitInBytes
  <2>5. SkipBySize(h) <=> /\ h.size # Missing
                          /\ \/ form.min.kind = "num" /\ h.size < lo
                             \/ form.max.kind = "num" /\ h.size > hi
    BY ZenonT(40), <2>1, <2>2 DEF SkipBySize
  <2> HIDE DEF lo, hi
  <2> QED
    BY <1>4, <2>3, <2>4, <2>5
<1>6. Wanted(h) <=> byExt /\ bySize
  BY ZenonT(40) DEF Wanted
<1> HIDE DEF byExt, bySize
<1> QED
  BY <1>3, <1>5, <1>6

\* The invariant holds before the search is submitted.
LEMMA InitInv == Init => IInv
<1> SUFFICES ASSUME Init PROVE IInv
  OBVIOUS
<1>1. hits \in Seq(Hit)
  BY UpToSeq, SearchQueryAssumption DEF Init, Ranking
<1>2. i = 1 /\ results = <<>> /\ Len(hits) \in Nat /\ pc = "form" /\ form \in Form
  BY <1>1 DEF Init
<1>3. Prefix
  BY <1>2 DEF Prefix
<1> QED
  BY <1>1, <1>2, <1>3, SearchQueryAssumption DEF IInv

\* Every step of the search preserves the invariant.
LEMMA StepInv == IInv /\ [Next]_vars => IInv'
<1> SUFFICES ASSUME IInv, [Next]_vars PROVE IInv'
  OBVIOUS
<1>t. /\ hits \in Seq(Hit) /\ form \in Form /\ Len(hits) \in Nat /\ i \in Nat /\ Limit \in Nat
      /\ i \in 1 .. Len(hits) + 1 /\ Prefix
  BY SearchQueryAssumption DEF IInv
<1>1. CASE Submit
  <2>1. FiltersOfForm'
    BY <1>1 DEF Submit, FiltersOfForm
  <2>2. hits' = hits /\ form' = form /\ i' = i /\ results' = results /\ pc = "form" /\ pc' \in {"loop", "rejected"}
    BY <1>1 DEF Submit
  <2>3. Prefix'
    BY <1>t, <2>2 DEF Prefix, Wanted
  <2> QED
    BY <2>1, <2>2, <2>3 DEF IInv
<1>2. CASE Skip
  <2>1. /\ hits' = hits /\ form' = form /\ filters' = filters /\ pc' = pc /\ pc = "loop"
        /\ results' = results /\ i' = i + 1 /\ i <= Len(hits) /\ i <= Limit
        /\ (SkipByExt(hits[i]) \/ SkipBySize(hits[i]))
    BY <1>2 DEF Skip, HasHit
  <2>2. FiltersOfForm /\ hits[i] \in Hit
    BY <1>t, <2>1 DEF IInv
  <2>3. ~Wanted(hits[i])
    BY <1>t, <2>1, <2>2, SkipsAreRight
  <2>4. \A r \in DOMAIN hits : Wanted(hits[r])' <=> Wanted(hits[r])
    BY <2>1 DEF Wanted
  <2>5. Prefix'
    <3>1. results \in Seq(1 .. i' - 1)
      BY <1>t, <2>1 DEF Prefix
    <3>2. \A n \in 1 .. Len(results) : results[n] \in 1 .. i - 1
      BY <1>t DEF Prefix
    <3>3. \A r \in 1 .. i' - 1 : r \in DOMAIN hits /\ (r \in 1 .. i - 1 \/ r = i)
      BY <1>t, <2>1
    <3>4. \A r \in 1 .. i' - 1 : Wanted(hits[r])' <=> \E n \in 1 .. Len(results) : results[n] = r
      BY <1>t, <2>3, <2>4, <3>2, <3>3 DEF Prefix
    <3> QED
      BY <1>t, <2>1, <3>1, <3>4 DEF Prefix
  <2>6. FiltersOfForm'
    BY <2>1, <2>2 DEF FiltersOfForm
  <2> QED
    BY <1>t, <2>1, <2>5, <2>6 DEF IInv
<1>3. CASE Push
  <2>1. /\ hits' = hits /\ form' = form /\ filters' = filters /\ pc' = pc /\ pc = "loop"
        /\ results' = Append(results, i) /\ i' = i + 1 /\ i <= Len(hits) /\ i <= Limit
        /\ ~SkipByExt(hits[i]) /\ ~SkipBySize(hits[i])
    BY <1>3 DEF Push, HasHit
  <2>2. FiltersOfForm /\ hits[i] \in Hit
    BY <1>t, <2>1 DEF IInv
  <2>3. Wanted(hits[i])
    BY <1>t, <2>1, <2>2, SkipsAreRight
  <2>4. \A r \in DOMAIN hits : Wanted(hits[r])' <=> Wanted(hits[r])
    BY <2>1 DEF Wanted
  <2>5. Prefix'
    <3>1. results \in Seq(1 .. i - 1) /\ Len(results) \in Nat
      BY <1>t DEF Prefix
    <3>2. /\ results' \in Seq(1 .. i' - 1) /\ Len(results') = Len(results) + 1
          /\ results'[Len(results) + 1] = i /\ \A n \in 1 .. Len(results) : results'[n] = results[n]
      BY <1>t, <2>1, <3>1
    <3>3. \A m, n \in 1 .. Len(results') : m < n => results'[m] < results'[n]
      <4>1. \A n \in 1 .. Len(results) : results[n] \in Nat /\ results[n] < i
        BY <1>t, <3>1
      <4>2. \A m, n \in 1 .. Len(results) : m < n => results[m] < results[n]
        BY <1>t DEF Prefix
      <4>3. TAKE m, n \in 1 .. Len(results')
      <4>4. CASE n = Len(results) + 1
        BY <3>1, <3>2, <4>1, <4>4
      <4>5. CASE n \in 1 .. Len(results)
        BY <3>1, <3>2, <4>2, <4>5
      <4> QED
        BY <3>1, <3>2, <4>4, <4>5
    <3>4. \A r \in 1 .. i' - 1 : Wanted(hits[r])' <=> \E n \in 1 .. Len(results') : results'[n] = r
      <4>1. TAKE r \in 1 .. i' - 1
      <4>2. r \in DOMAIN hits /\ (r \in 1 .. i - 1 \/ r = i)
        BY <1>t, <2>1
      <4>3. CASE r = i
        BY <2>3, <2>4, <3>1, <3>2, <4>2, <4>3
      <4>4. CASE r \in 1 .. i - 1
        <5>1. Wanted(hits[r]) <=> \E n \in 1 .. Len(results) : results[n] = r
          BY <1>t, <4>4 DEF Prefix
        <5>2. (\E n \in 1 .. Len(results) : results[n] = r)
                <=> \E n \in 1 .. Len(results') : results'[n] = r
          <6>1. r # i
            BY <1>t, <4>4
          <6> QED
            BY <3>1, <3>2, <6>1
        <5> QED
          BY <2>4, <4>2, <5>1, <5>2
      <4> QED
        BY <4>2, <4>3, <4>4
    <3> QED
      BY <3>2, <3>3, <3>4 DEF Prefix
  <2>6. FiltersOfForm'
    BY <2>1, <2>2 DEF FiltersOfForm
  <2> QED
    BY <1>t, <2>1, <2>5, <2>6 DEF IInv
<1>4. CASE Done
  <2>1. hits' = hits /\ form' = form /\ filters' = filters /\ i' = i /\ results' = results
        /\ pc = "loop" /\ pc' = "done" /\ ~HasHit
    BY <1>4 DEF Done
  <2>2. Prefix' /\ FiltersOfForm' /\ ~HasHit'
    BY <2>1 DEF IInv, Prefix, Wanted, FiltersOfForm, HasHit
  <2> QED
    BY <2>1, <2>2 DEF IInv
<1>5. CASE UNCHANGED vars
  BY <1>5 DEF vars, IInv, Prefix, Wanted, FiltersOfForm, HasHit
<1> QED
  BY <1>1, <1>2, <1>3, <1>4, <1>5 DEF Next

\* The result list of a search is exactly what the fields ask for among the
\* best Limit hits, each once and in the order of the score.
THEOREM ResultsAlwaysExact == Spec => []ResultsExact
<1>1. IInv => ResultsExact
  <2> SUFFICES ASSUME IInv, pc = "done" PROVE ResultsExact
    BY DEF ResultsExact
  <2>1. /\ Len(hits) \in Nat /\ DOMAIN hits = 1 .. Len(hits) /\ Limit \in Nat
        /\ i \in 1 .. Len(hits) + 1 /\ i - 1 <= Limit /\ ~(i <= Len(hits) /\ i <= Limit)
    BY SearchQueryAssumption DEF IInv, HasHit
  <2>2. \A r \in DOMAIN hits : r <= Limit <=> r \in 1 .. i - 1
    BY <2>1
  <2>3. DOMAIN results = 1 .. Len(results) /\ \A n \in DOMAIN results : results[n] \in DOMAIN hits
    BY <2>1 DEF IInv, Prefix
  <2>4. \A m, n \in DOMAIN results : m < n => results[m] < results[n]
    BY <2>3 DEF IInv, Prefix
  <2>5. \A n \in DOMAIN results : results[n] \in 1 .. i - 1
    BY <2>3 DEF IInv, Prefix
  <2>6. \A r \in 1 .. i - 1 : Wanted(hits[r]) <=> \E n \in DOMAIN results : results[n] = r
    BY ZenonT(40), <2>3 DEF IInv, Prefix
  <2>7. {results[n] : n \in DOMAIN results} = {r \in DOMAIN hits : r <= Limit /\ Wanted(hits[r])}
    BY <2>2, <2>3, <2>5, <2>6
  <2> QED
    BY <2>4, <2>7 DEF ResultsExact
<1> QED
  BY <1>1, InitInv, StepInv, PTL DEF Spec

\* What doSearch sends has the types of the request.
LEMMA SubmitTypes ==
  ASSUME form \in Form
  PROVE  parseCSV(form.exts) \subseteq Ext /\ ToBound(form.min) \in Bound /\ ToBound(form.max) \in Bound
<1>1. form.exts \in UpTo(Ext \cup {NoExt}, MaxExts) /\ form.min \in Field /\ form.max \in Field
  BY DEF Form
<1>2. form.exts \in Seq(Ext \cup {NoExt})
  BY <1>1, UpToSeq, SearchQueryAssumption
<1>3. parseCSV(form.exts) \subseteq Ext
  BY <1>2 DEF parseCSV
<1>4. ASSUME NEW f \in Field PROVE ToBound(f) \in Bound
  <2>1. f.kind = "num" => f.mb \in Int
    BY ZenonT(40), SearchQueryAssumption DEF Field
  <2>2. f.kind = "num" => toBytesMb(f.mb) \in Int
    BY <2>1, LimitInBytes
  <2> QED
    BY <2>2 DEF ToBound, Bound, None
<1> QED
  BY <1>1, <1>3, <1>4

\* Every variable of a search keeps its type, and the loop never looks past the
\* best Limit hits.
THEOREM SearchTypeCorrect == Spec => []TypeOK
<1> DEFINE T == /\ hits \in Ranking /\ pc \in {"form", "loop", "done", "rejected"}
                /\ filters.exts \subseteq Ext /\ filters.min \in Bound /\ filters.max \in Bound
<1>1. Init => T
  BY DEF Init, Bound, None
<1>2. IInv /\ T /\ [Next]_vars => T'
  <2> SUFFICES ASSUME IInv, T, [Next]_vars PROVE T'
    OBVIOUS
  <2>1. CASE Submit
    <3>1. /\ filters' = [exts |-> parseCSV(form.exts), min |-> ToBound(form.min), max |-> ToBound(form.max)]
          /\ hits' = hits /\ pc' \in {"loop", "rejected"}
      BY <2>1 DEF Submit
    <3>2. form \in Form
      BY DEF IInv
    <3> QED
      BY <3>1, <3>2, SubmitTypes
  <2> QED
    BY <2>1 DEF Next, Skip, Push, Done, vars
<1>3. IInv /\ T => TypeOK
  <2> SUFFICES ASSUME IInv, T PROVE TypeOK
    OBVIOUS
  <2>1. \A n \in DOMAIN results : results[n] \in 1 .. Len(hits)
    BY DEF IInv, Prefix
  <2> QED
    BY <2>1 DEF IInv, TypeOK
<1> HIDE DEF T
<1> QED
  BY <1>1, <1>2, <1>3, InitInv, StepInv, PTL DEF Spec

-----------------------------------------------------------------------------
(* The page                                                                 *)

\* The page changes nothing of the search.
LEMMA ViewIsSearch == [ViewNext]_allVars => [Next]_vars
<1> SUFFICES ASSUME [ViewNext]_allVars PROVE [Next]_vars
  OBVIOUS
<1>1. CASE Next /\ UNCHANGED viewVars
  BY <1>1
<1>2. CASE UNCHANGED vars
  BY <1>2
<1>3. ViewNext /\ ~(Next /\ UNCHANGED viewVars) => UNCHANGED vars
  BY DEF ViewNext, Receive, Select, SetSortBy, ToggleSortDir, ToggleTime, ArrowKey, SetViewMode, SetPathMaxLen
<1> QED
  BY <1>1, <1>2, <1>3 DEF allVars

\* So the behaviours of the page are behaviours of the search.
LEMMA ViewHasSearch == ViewSpec => Spec
<1>1. ViewInit => Init
  BY DEF ViewInit
<1> QED
  BY <1>1, ViewIsSearch, PTL DEF ViewSpec, Spec

\* The search behind the list keeps its promise whatever is done to the list.
THEOREM ViewResultsExact == ViewSpec => []ResultsExact
<1> QED
  BY ViewHasSearch, ResultsAlwaysExact, PTL

\* Its variables keep their types, too.
THEOREM ViewTypeCorrect == ViewSpec => []TypeOK
<1> QED
  BY ViewHasSearch, SearchTypeCorrect, PTL

-----------------------------------------------------------------------------

\* The list is made of ranks, and the selected row is one of it.
SInv ==
  /\ list \in Seq(Nat \ {0})
  /\ IF list = <<>> THEN selected = NoRow ELSE \E n \in DOMAIN list : list[n] = selected

\* A click or an answer keeps the selection within the list.
LEMMA StepSelection == IInv /\ SInv /\ [ViewNext]_allVars => SInv'
<1> SUFFICES ASSUME IInv, SInv, [ViewNext]_allVars PROVE SInv'
  OBVIOUS
<1>1. CASE Receive
  <2>1. results \in Seq(Nat \ {0})
    <3>1. results \in Seq(1 .. i - 1) /\ i - 1 \in Int
      BY SearchQueryAssumption DEF IInv, Prefix
    <3>2. 1 .. i - 1 \subseteq Nat \ {0}
      BY <3>1
    <3> QED
      BY <3>1, <3>2
  <2>2. results # <<>> => 1 \in DOMAIN results
    BY <2>1
  <2> QED
    BY <1>1, <2>1, <2>2 DEF Receive, SInv
<1>2. CASE \E n \in 1 .. Limit : Select(n)
  BY <1>2 DEF Select, SInv
<1>3. CASE UNCHANGED <<list, selected>>
  BY <1>3 DEF SInv
<1> QED
  BY <1>1, <1>2, <1>3
     DEF ViewNext, allVars, viewVars, SetSortBy, ToggleSortDir, ToggleTime, ArrowKey, SetViewMode, SetPathMaxLen

\* The detail pane always shows one of the rows, for any documents and any limit.
THEOREM SelectionAlwaysShown == ViewSpec => []SelectionShown
<1>1. ViewInit => IInv /\ SInv
  BY InitInv DEF ViewInit, SInv
<1>2. IInv /\ SInv /\ [ViewNext]_allVars => (IInv /\ SInv)'
  BY ViewIsSearch, StepInv, StepSelection
<1>3. SInv => SelectionShown
  <2> SUFFICES ASSUME SInv PROVE SelectionShown
    OBVIOUS
  <2>1. ASSUME NEW n \in DOMAIN list, list[n] = selected, NEW now \in Clock
        PROVE  Row(list[n], now).marked
    <3>1. selected # NoRow
      BY <2>1 DEF SInv, NoRow
    <3> QED
      BY ZenonT(40), <2>1, <3>1 DEF Row
  <2> QED
    BY <2>1 DEF SInv, SelectionShown
<1> QED
  BY <1>1, <1>2, <1>3, PTL DEF ViewSpec

-----------------------------------------------------------------------------

\* The path cell fits: every path, every maximum from 20 on.
LEMMA EveryPathFits ==
  ASSUME NEW p \in PathShape, NEW n \in Int, n >= 20
  PROVE  /\ shortenPath(p, n).len <= n
         /\ p.parts > 2 => shortenPath(p, n).name >= AtMost(p.last, 7)
<1>1. /\ p.len \in Nat /\ p.parts \in Nat /\ p.first \in Nat /\ p.beforeLast \in Nat /\ p.last \in Nat
      /\ p.parts > 2 => p.len >= p.first + p.beforeLast + p.last + p.parts - 1
  BY DEF PathShape
<1>2. CASE p.len <= n
  BY <1>1, <1>2 DEF shortenPath, Whole, AtMost
<1>3. CASE p.len > n /\ p.parts <= 2
  BY <1>1, <1>3 DEF shortenPath, CutOff, SliceTo, AtLeast, Ellipsis
<1>4. CASE p.len > n /\ p.parts > 2 /\ Candidate(p).len <= n
  BY <1>1, <1>4 DEF shortenPath, Candidate, AtMost
<1>5. CASE p.len > n /\ p.parts > 2 /\ ~(Candidate(p).len <= n)
  <2> DEFINE keep == n - 3
             head == AtLeast(10, keep \div 2)
             tail == SliceFrom(p.len, p.len - (keep - head))
  <2>1. /\ keep \in Int /\ head \in Int /\ head >= 10 /\ keep - head >= 7 /\ head <= n
    BY DEF AtLeast
  <2> HIDE DEF keep, head
  <2>2. SliceTo(p.len, head) = head /\ tail = keep - head
    BY <1>1, <1>5, <2>1 DEF SliceTo, SliceFrom, AtLeast, keep
  <2>3. shortenPath(p, n) = [len |-> SliceTo(p.len, head) + Ellipsis + tail, name |-> AtMost(p.last, tail)]
    BY <1>1, <1>5 DEF shortenPath, Centred, keep, head
  <2> QED
    BY <1>1, <2>1, <2>2, <2>3 DEF AtMost, Ellipsis, keep
<1> QED
  BY <1>1, <1>2, <1>3, <1>4, <1>5

\* The texts stay what they are, and the settings among those offered.
TInv == text \in Texts /\ view \in View

\* The texts never change and the controls keep to their values.
LEMMA StepTexts == TInv /\ [ViewNext]_allVars => TInv'
<1> SUFFICES ASSUME TInv, [ViewNext]_allVars PROVE TInv'
  OBVIOUS
<1>1. CASE UNCHANGED <<view, text>>
  BY <1>1 DEF TInv
<1>2. CASE \E k \in {"score", "time", "size"} : SetSortBy(k)
  BY <1>2 DEF SetSortBy, TInv, View
<1>3. CASE ToggleSortDir
  BY <1>3 DEF ToggleSortDir, TInv, View
<1>4. CASE ToggleTime
  <2>1. (~view.showRelativeTime) \in BOOLEAN
    OBVIOUS
  <2> QED
    BY ZenonT(40), <1>4, <2>1 DEF ToggleTime, TInv, View
<1>5. CASE \E m \in {"table", "card"} : SetViewMode(m)
  BY <1>5 DEF SetViewMode, TInv, View
<1>6. CASE \E n \in MaxLen : SetPathMaxLen(n)
  BY <1>6 DEF SetPathMaxLen, TInv, View
<1> QED
  BY <1>1, <1>2, <1>3, <1>4, <1>5, <1>6 DEF ViewNext, allVars, viewVars, Receive, Select, ArrowKey

\* Whatever paths the index holds and whatever maximum is configured, the path
\* cells keep to it and show the end of the file name.
THEOREM PathsAlwaysFit == ViewSpec => []PathsFit
<1>1. ViewInit => TInv
  BY ZenonT(40) DEF ViewInit, TInv, View
<1>2. TInv => PathsFit
  <2> SUFFICES ASSUME TInv, view.pathMaxLen >= 20, NEW d \in DOMAIN text.path
               PROVE  /\ PathCell(d).len <= view.pathMaxLen
                      /\ text.path[d].parts > 2 => PathCell(d).name >= AtMost(text.path[d].last, 7)
    BY DEF PathsFit
  <2>1. text.path[d] \in PathShape /\ view.pathMaxLen \in Int
    BY ZenonT(40), ResultViewAssumption DEF TInv, View
  <2> QED
    BY <2>1, EveryPathFits DEF PathCell
<1> QED
  BY <1>1, <1>2, StepTexts, PTL DEF ViewSpec

-----------------------------------------------------------------------------
(* Numbers, units and the cells                                             *)

\* Dividing keeps the order ...
LEMMA DivisionGrows ==
  ASSUME NEW a \in Int, NEW c \in Int, NEW b \in Nat \ {0}, a <= c
  PROVE  a \div b <= c \div b
<1>1. PICK q \in Int : q = a \div b /\ b * q <= a
  BY Division
<1>2. PICK r \in Int : r = c \div b /\ c < b * r + b
  BY Division
<1>3. b * q < b * (r + 1)
  BY <1>1, <1>2
<1>4. q < r + 1
  BY <1>3
<1> QED
  BY <1>1, <1>2, <1>4

\* ... and so does rounding, ...
LEMMA NearestGrows ==
  ASSUME NEW a \in Nat, NEW c \in Nat, NEW den \in Nat \ {0}, a <= c
  PROVE  Nearest(a, den) <= Nearest(c, den) /\ Nearest(a, den) \in Int
<1>1. 2 * a + den \in Int /\ 2 * c + den \in Int /\ 2 * a + den <= 2 * c + den /\ 2 * den \in Nat \ {0}
  OBVIOUS
<1> QED
  BY <1>1, Division, DivisionGrows DEF Nearest

\* ... which is off by at most half.
LEMMA NearestIsNear ==
  ASSUME NEW num \in Nat, NEW den \in Nat \ {0}
  PROVE  Nearest(num, den) \in Int /\ Near((2 * Nearest(num, den)) * den, 2 * num, den)
<1>1. 2 * num + den \in Int /\ 2 * den \in Nat \ {0}
  OBVIOUS
<1>2. PICK q \in Int : q = Nearest(num, den) /\ (2 * den) * q <= 2 * num + den /\ 2 * num + den < (2 * den) * q + 2 * den
  BY <1>1, Division DEF Nearest
<1>3. (2 * den) * q = (2 * q) * den /\ (2 * q) * den \in Int
  OBVIOUS
<1> QED
  BY <1>2, <1>3 DEF Near

\* A table of five thresholds that begins at 0 has a last one that a value reaches.
LEMMA ReachedIs ==
  ASSUME NEW from, DOMAIN from = 1 .. 5, \A u \in 1 .. 5 : from[u] \in Int, from[1] = 0, NEW x \in Nat
  PROVE  /\ Reached(from, x) \in 1 .. 5 /\ from[Reached(from, x)] <= x
         /\ \A v \in 1 .. 5 : v > Reached(from, x) => x < from[v]
<1>1. \E u \in 1 .. 5 : from[u] <= x /\ \A v \in 1 .. 5 : v > u => x < from[v]
  <2>1. 1 \in 1 .. 5 /\ 2 \in 1 .. 5 /\ 3 \in 1 .. 5 /\ 4 \in 1 .. 5 /\ 5 \in 1 .. 5
    OBVIOUS
  <2>2. \A v \in 1 .. 5 : v = 1 \/ v = 2 \/ v = 3 \/ v = 4 \/ v = 5
    OBVIOUS
  <2>3. CASE from[5] <= x
    BY <2>1, <2>2, <2>3
  <2>4. CASE x < from[5] /\ from[4] <= x
    BY <2>1, <2>2, <2>4
  <2>5. CASE x < from[5] /\ x < from[4] /\ from[3] <= x
    BY <2>1, <2>2, <2>5
  <2>6. CASE x < from[5] /\ x < from[4] /\ x < from[3] /\ from[2] <= x
    BY <2>1, <2>2, <2>6
  <2>7. CASE x < from[5] /\ x < from[4] /\ x < from[3] /\ x < from[2]
    BY <2>1, <2>2, <2>7
  <2> QED
    BY <2>1, <2>3, <2>4, <2>5, <2>6, <2>7
<1> QED
  BY ZenonT(40), <1>1 DEF Reached

\* A greater value reaches no earlier threshold.
LEMMA ReachedGrows ==
  ASSUME NEW from, DOMAIN from = 1 .. 5, \A u \in 1 .. 5 : from[u] \in Int, from[1] = 0,
         NEW x \in Nat, NEW y \in Nat, x <= y
  PROVE  Reached(from, x) <= Reached(from, y)
<1>1. PICK u \in 1 .. 5 : u = Reached(from, x) /\ from[u] <= x
  BY ReachedIs
<1>2. PICK v \in 1 .. 5 : v = Reached(from, y) /\ \A w \in 1 .. 5 : w > v => y < from[w]
  BY ReachedIs
<1>3. ~(u > v)
  <2>1. from[u] \in Int
    OBVIOUS
  <2> QED
  BY <1>1, <1>2, <2>1
<1> QED
  BY <1>1, <1>2, <1>3

\* The thresholds of formatBytes.
SizeFrom == [UnitBytes EXCEPT ![1] = 0]

\* The units of sizes and of ages are such tables.
LEMMA SizeTable ==
  /\ DOMAIN SizeFrom = 1 .. 5 /\ SizeFrom[1] = 0 /\ \A u \in 1 .. 5 : SizeFrom[u] \in Int
  /\ \A u \in 1 .. 5 : UnitBytes[u] \in Nat \ {0} /\ UnitParts[u] \in Nat
<1>1. PICK k \in Nat \ {0} : k = Kilo
  BY DisplayAssumption
<1>2. PICK k2 \in Nat \ {0} : k2 = Kilo * Kilo
  BY <1>1
<1>3. PICK k3 \in Nat \ {0} : k3 = Kilo * Kilo * Kilo
  BY <1>1, <1>2
<1>4. PICK k4 \in Nat \ {0} : k4 = Kilo * Kilo * Kilo * Kilo
  BY <1>1, <1>3
<1>5. UnitBytes = <<1, k, k2, k3, k4>>
  BY ZenonT(40), <1>1, <1>2, <1>3, <1>4 DEF UnitBytes
<1>6. DOMAIN SizeFrom = 1 .. 5 /\ SizeFrom = <<0, k, k2, k3, k4>>
  BY <1>5 DEF SizeFrom
<1> QED
  BY <1>5, <1>6 DEF UnitParts

\* The units of an age, and where they begin.
LEMMA AgeTable ==
  /\ DOMAIN AgeFrom = 1 .. 5 /\ AgeFrom[1] = 0 /\ \A u \in 1 .. 5 : AgeFrom[u] \in Int
  /\ \A u \in 1 .. 5 : AgeSeconds[u] \in Nat \ {0}
  BY DEF AgeFrom, AgeSeconds

\* What formatBytes says of a size is near it.
LEMMA SizeLabel ==
  ASSUME NEW bytes \in Nat
  PROVE  LET label == formatBytes(bytes)
         IN  /\ label.unit \in 1 .. 5 /\ label.unit = Reached(SizeFrom, bytes)
             /\ label.number = Nearest(bytes * UnitParts[label.unit], UnitBytes[label.unit])
             /\ Near(2 * label.number * UnitBytes[label.unit], 2 * bytes * UnitParts[label.unit],
                     UnitBytes[label.unit])
<1>1. PICK u \in 1 .. 5 : u = Reached(SizeFrom, bytes)
  BY ZenonT(40), SizeTable, ReachedIs
<1>2. PICK den \in Nat \ {0} : den = UnitBytes[u]
  BY ZenonT(40), SizeTable
<1>3. PICK parts \in Nat : parts = UnitParts[u]
  BY ZenonT(40), SizeTable
<1>4. PICK num \in Nat : num = bytes * parts
  OBVIOUS
<1>5. formatBytes(bytes).unit = u /\ formatBytes(bytes).number = Nearest(bytes * UnitParts[u], UnitBytes[u])
  BY ZenonT(40), <1>1 DEF formatBytes, SizeFrom
<1>6. Near((2 * Nearest(num, den)) * den, 2 * num, den)
  BY ZenonT(40), NearestIsNear
<1>7. 2 * num = 2 * bytes * parts
  BY <1>4
<1> QED
  BY ZenonT(40), <1>1, <1>2, <1>3, <1>4, <1>5, <1>6, <1>7

\* A greater size never reads as a smaller one.
LEMMA SizeLabelsGrow ==
  ASSUME NEW x \in Nat, NEW y \in Nat, x <= y
  PROVE  NotAbove(formatBytes(x), formatBytes(y))
<1>1. PICK u \in 1 .. 5 : /\ u = formatBytes(x).unit /\ u = Reached(SizeFrom, x)
                          /\ formatBytes(x).number = Nearest(x * UnitParts[u], UnitBytes[u])
  BY ZenonT(40), SizeLabel
<1>2. PICK v \in 1 .. 5 : /\ v = formatBytes(y).unit /\ v = Reached(SizeFrom, y)
                          /\ formatBytes(y).number = Nearest(y * UnitParts[v], UnitBytes[v])
  BY ZenonT(40), SizeLabel
<1>3. u <= v
  BY ZenonT(40), <1>1, <1>2, SizeTable, ReachedGrows
<1>4. u = v => formatBytes(x).number <= formatBytes(y).number
  <2>1. PICK den \in Nat \ {0} : den = UnitBytes[u]
    BY ZenonT(40), SizeTable
  <2>2. PICK parts \in Nat : parts = UnitParts[u]
    BY ZenonT(40), SizeTable
  <2>3. x * parts \in Nat /\ y * parts \in Nat /\ x * parts <= y * parts
    OBVIOUS
  <2>4. Nearest(x * parts, den) <= Nearest(y * parts, den)
    BY ZenonT(40), <2>3, NearestGrows
  <2> QED
    BY ZenonT(40), <1>1, <1>2, <2>1, <2>2, <2>4
<1>5. u < v \/ u = v
  BY <1>3
<1> QED
  BY ZenonT(40), <1>1, <1>2, <1>4, <1>5 DEF NotAbove

\* An age is shown only of a time that has passed, in whole units.
LEMMA AgeLabel ==
  ASSUME NEW ts \in Nat \cup {Missing}, NEW now \in Nat
  PROVE  LET label == formatRelativeTs(ts, now)
         IN  label.unit > 0 =>
               /\ ts \in Nat /\ now - ts \in Nat
               /\ label.unit \in 1 .. 5 /\ label.unit = Reached(AgeFrom, now - ts)
               /\ label.number = (now - ts) \div AgeSeconds[label.unit]
<1> DEFINE dated == ts = Missing \/ now - ts < 0 \/ now - ts >= 30 * 86400
<1>1. dated => formatRelativeTs(ts, now) = Dash \/ formatRelativeTs(ts, now) = Date(ts)
  BY DEF formatRelativeTs, formatTs
<1>2. ~dated => /\ formatRelativeTs(ts, now).unit = Reached(AgeFrom, now - ts)
                /\ formatRelativeTs(ts, now).number = (now - ts) \div AgeSeconds[Reached(AgeFrom, now - ts)]
  BY DEF formatRelativeTs
<1>3. ~dated => ts \in Nat /\ now - ts \in Nat
  OBVIOUS
<1> HIDE DEF dated
<1>4. CASE dated
  <2>1. Dash.unit = -1 /\ Date(ts).unit = 0
    BY DEF Dash, Date
  <2> QED
    BY <1>1, <1>4, <2>1
<1>5. CASE ~dated
  <2>1. PICK u \in 1 .. 5 : u = Reached(AgeFrom, now - ts)
    BY ZenonT(40), <1>3, <1>5, AgeTable, ReachedIs
  <2> QED
    BY ZenonT(40), <1>2, <1>3, <1>5, <2>1
<1> QED
  BY ZenonT(40), <1>4, <1>5

\* An earlier time never reads as a smaller age.
LEMMA AgeLabelsGrow ==
  ASSUME NEW ts \in Nat \cup {Missing}, NEW us \in Nat \cup {Missing}, NEW now \in Nat,
         ts \in Nat /\ us \in Nat => ts <= us
  PROVE  NotAbove(formatRelativeTs(us, now), formatRelativeTs(ts, now))
<1> SUFFICES ASSUME formatRelativeTs(us, now).unit > 0, formatRelativeTs(ts, now).unit > 0
             PROVE  LET x == formatRelativeTs(us, now)
                        y == formatRelativeTs(ts, now)
                    IN  x.unit < y.unit \/ (x.unit = y.unit /\ x.number <= y.number)
  BY ZenonT(40) DEF NotAbove
<1>1. PICK u \in 1 .. 5 : /\ ts \in Nat /\ now - ts \in Nat
                          /\ u = formatRelativeTs(ts, now).unit /\ u = Reached(AgeFrom, now - ts)
                          /\ formatRelativeTs(ts, now).number = (now - ts) \div AgeSeconds[u]
  BY ZenonT(40), AgeLabel
<1>2. PICK v \in 1 .. 5 : /\ us \in Nat /\ now - us \in Nat
                          /\ v = formatRelativeTs(us, now).unit /\ v = Reached(AgeFrom, now - us)
                          /\ formatRelativeTs(us, now).number = (now - us) \div AgeSeconds[v]
  BY ZenonT(40), AgeLabel
<1>3. now - us <= now - ts /\ now - us \in Int /\ now - ts \in Int
  BY <1>1, <1>2
<1>4. v <= u
  BY ZenonT(40), <1>1, <1>2, <1>3, AgeTable, ReachedGrows
<1>5. v = u => formatRelativeTs(us, now).number <= formatRelativeTs(ts, now).number
  <2>1. PICK len \in Nat \ {0} : len = AgeSeconds[u]
    BY ZenonT(40), AgeTable
  <2>2. (now - us) \div len <= (now - ts) \div len
    BY ZenonT(40), <1>3, DivisionGrows
  <2> QED
    BY ZenonT(40), <1>1, <1>2, <2>1, <2>2
<1>6. v < u \/ v = u
  BY <1>4
<1> QED
  BY ZenonT(40), <1>1, <1>2, <1>5, <1>6

-----------------------------------------------------------------------------
(* The order of the rows                                                    *)

\* The list shows hits, in the order of the search.
LInv ==
  /\ list \in Seq(Nat \ {0})
  /\ \A n \in DOMAIN list : list[n] \in DOMAIN hits
  /\ \A m, n \in DOMAIN list : m < n => list[m] < list[n]

Shown == IInv /\ LInv /\ TInv

\* An answer brings hits in the order of the search; nothing else changes the list.
LEMMA StepList == IInv /\ LInv /\ [ViewNext]_allVars => LInv'
<1> SUFFICES ASSUME IInv, LInv, [ViewNext]_allVars PROVE LInv'
  OBVIOUS
<1>0. hits' = hits
  BY ViewIsSearch DEF Next, Submit, Skip, Push, Done, vars
<1>1. CASE Receive
  <2>1. results \in Seq(1 .. i - 1) /\ i - 1 \in Nat /\ i - 1 <= Len(hits) /\ hits \in Seq(Hit)
    BY SearchQueryAssumption DEF IInv, Prefix
  <2>2. DOMAIN results = 1 .. Len(results) /\ DOMAIN hits = 1 .. Len(hits) /\ Len(hits) \in Nat
    BY <2>1
  <2>3. 1 .. i - 1 \subseteq Nat \ {0} /\ 1 .. i - 1 \subseteq DOMAIN hits
    BY <2>1, <2>2
  <2>4. results \in Seq(Nat \ {0}) /\ \A n \in DOMAIN results : results[n] \in DOMAIN hits
    <3>1. results \in Seq(Nat \ {0})
      <4>1. \A S, T : S \subseteq T => Seq(S) \subseteq Seq(T)
        OBVIOUS
      <4> QED
        BY ZenonT(40), <2>1, <2>3, <4>1
    <3>2. \A n \in DOMAIN results : results[n] \in 1 .. i - 1
      BY <2>1
    <3> QED
      BY ZenonT(40), <2>3, <3>1, <3>2
  <2>5. \A m, n \in DOMAIN results : m < n => results[m] < results[n]
    BY ZenonT(40), <2>2 DEF IInv, Prefix
  <2>6. list' = results
    BY <1>1 DEF Receive
  <2> QED
    BY ZenonT(40), <1>0, <2>4, <2>5, <2>6 DEF LInv
<1>2. CASE UNCHANGED list
  BY ZenonT(40), <1>0, <1>2 DEF LInv
<1> QED
  BY ZenonT(40), <1>1, <1>2
     DEF ViewNext, allVars, viewVars, Select, SetSortBy, ToggleSortDir, ToggleTime, ArrowKey, SetViewMode, SetPathMaxLen

\* The three invariants hold together in every behaviour.
LEMMA AlwaysShown == ViewSpec => []Shown
<1>1. ViewInit => Shown
  <2>1. ViewInit => LInv
    BY DEF ViewInit, LInv
  <2>2. ViewInit => TInv
    BY ZenonT(40) DEF ViewInit, TInv, View
  <2> QED
    BY <2>1, <2>2, InitInv DEF ViewInit, Shown
<1>2. Shown /\ [ViewNext]_allVars => Shown'
  BY ZenonT(40), ViewIsSearch, StepInv, StepList, StepTexts DEF Shown
<1> QED
  BY <1>1, <1>2, PTL DEF ViewSpec

\* What is known of a row.
LEMMA RowFields ==
  ASSUME Shown, NEW r \in DOMAIN hits
  PROVE  /\ hits[r].score \in Nat /\ hits[r].size \in Nat \cup {Missing}
         /\ hits[r].modified_ts \in Nat \cup {Missing}
<1>1. hits[r] \in Hit
  BY DEF Shown, IInv
<1> QED
  BY ZenonT(40), <1>1, SearchQueryAssumption

\* Every sort key is a number.
LEMMA SortKeyType ==
  ASSUME Shown, NEW r \in DOMAIN hits
  PROVE  SortKey(r) \in Nat
<1>1. OrZero(hits[r].size) \in Nat /\ OrZero(hits[r].modified_ts) \in Nat
  <2>1. 0 \in Nat
    OBVIOUS
  <2> QED
    BY ZenonT(40), <2>1, RowFields DEF OrZero
<1>2. view.sortBy = "score" \/ view.sortBy = "time" \/ view.sortBy = "size"
  BY ZenonT(40) DEF Shown, TInv, View
<1>3. CASE view.sortBy = "score"
  BY <1>3, RowFields DEF SortKey
<1>4. CASE view.sortBy = "time"
  BY <1>1, <1>4 DEF SortKey
<1>5. CASE view.sortBy = "size"
  BY <1>1, <1>5 DEF SortKey
<1> QED
  BY ZenonT(40), <1>2, <1>3, <1>4, <1>5

\* What it is for a row to precede another, in terms of the keys.
LEMMA PrecedesMeans ==
  ASSUME Shown, NEW m \in DOMAIN list, NEW n \in DOMAIN list
  PROVE  Precedes(m, n) <=>
           \/ SortKey(list[m]) = SortKey(list[n]) /\ m < n
           \/ view.sortDir = "asc" /\ SortKey(list[m]) < SortKey(list[n])
           \/ view.sortDir # "asc" /\ SortKey(list[m]) > SortKey(list[n])
<1>1. list[m] \in DOMAIN hits /\ list[n] \in DOMAIN hits
  BY ZenonT(40) DEF Shown, LInv
<1>2. PICK a \in Nat : a = SortKey(list[m])
  BY ZenonT(40), <1>1, SortKeyType
<1>3. PICK b \in Nat : b = SortKey(list[n])
  BY ZenonT(40), <1>1, SortKeyType
<1>4. compare(list[m], list[n]) = (a - b) * (IF view.sortDir = "asc" THEN 1 ELSE -1)
  BY ZenonT(40), <1>2, <1>3 DEF compare
<1>5. CASE view.sortDir = "asc"
  <2>1. compare(list[m], list[n]) = a - b
    BY <1>4, <1>5
  <2>2. Precedes(m, n) <=> a - b < 0 \/ (a - b = 0 /\ m < n)
    BY ZenonT(40), <2>1 DEF Precedes
  <2> QED
    BY <1>2, <1>3, <1>5, <2>2
<1>6. CASE view.sortDir # "asc"
  <2>1. compare(list[m], list[n]) = b - a
    BY <1>4, <1>6
  <2>2. Precedes(m, n) <=> b - a < 0 \/ (b - a = 0 /\ m < n)
    BY ZenonT(40), <2>1 DEF Precedes
  <2> QED
    BY <1>2, <1>3, <1>6, <2>2
<1> QED
  BY ZenonT(40), <1>5, <1>6

\* It is a strict total order of the places of the list.
LEMMA PrecedesOrder ==
  ASSUME Shown, NEW k \in DOMAIN list, NEW m \in DOMAIN list, NEW n \in DOMAIN list
  PROVE  /\ ~Precedes(n, n)
         /\ Precedes(k, m) /\ Precedes(m, n) => Precedes(k, n)
         /\ m # n => Precedes(m, n) \/ Precedes(n, m)
<1>1. list[k] \in DOMAIN hits /\ list[m] \in DOMAIN hits /\ list[n] \in DOMAIN hits
  BY ZenonT(40) DEF Shown, LInv
<1>2. PICK x \in Nat : x = SortKey(list[k])
  BY ZenonT(40), <1>1, SortKeyType
<1>3. PICK y \in Nat : y = SortKey(list[m])
  BY ZenonT(40), <1>1, SortKeyType
<1>4. PICK z \in Nat : z = SortKey(list[n])
  BY ZenonT(40), <1>1, SortKeyType
<1>5. k \in Nat /\ m \in Nat /\ n \in Nat
  BY DEF Shown, LInv
<1>6. ~Precedes(n, n)
  BY <1>4, <1>5, PrecedesMeans
<1>7. Precedes(k, m) /\ Precedes(m, n) => Precedes(k, n)
  BY <1>2, <1>3, <1>4, <1>5, PrecedesMeans
<1>8. m # n => Precedes(m, n) \/ Precedes(n, m)
  BY <1>3, <1>4, <1>5, PrecedesMeans
<1> QED
  BY ZenonT(40), <1>6, <1>7, <1>8

Before(n) == {m \in DOMAIN list : Precedes(m, n)}

\* The list is finite, so its rows can be counted.
LEMMA ListFinite ==
  ASSUME Shown
  PROVE  /\ DOMAIN list = 1 .. Len(list) /\ Len(list) \in Nat
         /\ IsFiniteSet(DOMAIN list) /\ Cardinality(DOMAIN list) = Len(list)
<1>1. DOMAIN list = 1 .. Len(list) /\ Len(list) \in Nat
  BY DEF Shown, LInv
<1>2. IsFiniteSet(1 .. Len(list)) /\ Cardinality(1 .. Len(list)) = IF 1 > Len(list) THEN 0 ELSE Len(list) - 1 + 1
  BY <1>1, FS_Interval
<1> QED
  BY <1>1, <1>2

\* The sort gives every row a place in the list ...
LEMMA PlaceType ==
  ASSUME Shown, NEW n \in DOMAIN list
  PROVE  Place(n) \in DOMAIN list /\ IsFiniteSet(Before(n)) /\ Cardinality(Before(n)) \in Nat
<1>1. Before(n) \subseteq DOMAIN list \ {n}
  BY ZenonT(40), PrecedesOrder DEF Before
<1>2. IsFiniteSet(DOMAIN list \ {n}) /\ Cardinality(DOMAIN list \ {n}) = Len(list) - 1
  BY ListFinite, FS_RemoveElement
<1>3. IsFiniteSet(Before(n)) /\ Cardinality(Before(n)) <= Cardinality(DOMAIN list \ {n})
  BY ZenonT(40), <1>1, <1>2, FS_Subset
<1>4. PICK c \in Nat : c = Cardinality(Before(n))
  BY ZenonT(40), <1>3, FS_CardinalityType
<1>5. Place(n) = c + 1
  BY ZenonT(40), <1>4 DEF Place, Before
<1>6. PICK len \in Nat : len = Len(list) /\ DOMAIN list = 1 .. len
  BY ZenonT(40), ListFinite
<1>7. c <= len - 1
  BY <1>2, <1>3, <1>4, <1>6
<1>8. c + 1 \in 1 .. len
  BY <1>7
<1> QED
  BY ZenonT(40), <1>3, <1>4, <1>5, <1>6, <1>8

\* ... behind the places of those that precede it ...
LEMMA PlaceGrows ==
  ASSUME Shown, NEW m \in DOMAIN list, NEW n \in DOMAIN list, Precedes(m, n)
  PROVE  Place(m) < Place(n)
<1>1. Before(m) \cup {m} \subseteq Before(n) /\ m \notin Before(m)
  BY ZenonT(40), PrecedesOrder DEF Before
<1>2. IsFiniteSet(Before(m)) /\ Cardinality(Before(m)) \in Nat
      /\ IsFiniteSet(Before(n)) /\ Cardinality(Before(n)) \in Nat
  BY ZenonT(40), PlaceType
<1>3. Cardinality(Before(m) \cup {m}) = Cardinality(Before(m)) + 1
  BY ZenonT(40), <1>1, <1>2, FS_AddElement
<1>4. Cardinality(Before(m) \cup {m}) <= Cardinality(Before(n))
  BY ZenonT(40), <1>1, <1>2, FS_Subset
<1>5. Place(m) = Cardinality(Before(m)) + 1 /\ Place(n) = Cardinality(Before(n)) + 1
  BY ZenonT(40) DEF Place, Before
<1> QED
  BY <1>2, <1>3, <1>4, <1>5

\* ... and fills every place of it.
LEMMA PlaceOnto ==
  ASSUME Shown, NEW k \in DOMAIN list
  PROVE  \E n \in DOMAIN list : Place(n) = k
<1> SUFFICES ASSUME \A n \in DOMAIN list : Place(n) # k PROVE FALSE
  OBVIOUS
<1> DEFINE f == [n \in DOMAIN list |-> Place(n)]
<1>1. f \in [DOMAIN list -> DOMAIN list \ {k}]
  BY ZenonT(40), PlaceType
<1>2. IsFiniteSet(DOMAIN list \ {k}) /\ Cardinality(DOMAIN list \ {k}) = Len(list) - 1
  BY ListFinite, FS_RemoveElement
<1>3. Cardinality(DOMAIN list \ {k}) < Cardinality(DOMAIN list) /\ IsFiniteSet(DOMAIN list)
  BY <1>2, ListFinite
<1>0. \A n \in DOMAIN list : f[n] = Place(n)
  OBVIOUS
<1>4. \E m, n \in DOMAIN list : m # n /\ f[m] = f[n]
  <2> HIDE DEF f
  <2> QED
    BY ZenonT(40), <1>1, <1>2, <1>3, FS_PigeonHole
<1>5. PICK m \in DOMAIN list, n \in DOMAIN list : m # n /\ Place(m) = Place(n)
  <2> HIDE DEF f
  <2> QED
    BY ZenonT(40), <1>0, <1>4
<1>6. Place(m) \in Nat /\ Place(n) \in Nat
  <2>1. DOMAIN list \subseteq Nat
    BY ListFinite
  <2> QED
    BY ZenonT(40), <2>1, PlaceType
<1>7. Place(m) < Place(n) \/ Place(n) < Place(m)
  BY ZenonT(40), <1>5, PrecedesOrder, PlaceGrows
<1> QED
  BY <1>5, <1>6, <1>7

\* Which row of the list is shown at k.
At(k) == CHOOSE n \in DOMAIN list : Place(n) = k

\* At every place of the sorted list there is the one row that belongs there.
LEMMA AtPlace ==
  ASSUME Shown
  PROVE  /\ DOMAIN sortedResults = DOMAIN list
         /\ \A k \in DOMAIN list : /\ At(k) \in DOMAIN list /\ Place(At(k)) = k
                                   /\ sortedResults[k] = list[At(k)]
         /\ \A n \in DOMAIN list : Place(n) \in DOMAIN list /\ At(Place(n)) = n
         /\ \A j, k \in DOMAIN list : j < k => Precedes(At(j), At(k))
<1>1. DOMAIN sortedResults = DOMAIN list /\ \A k \in DOMAIN list : sortedResults[k] = list[At(k)]
  BY ZenonT(40) DEF sortedResults, At
<1>2. \A k \in DOMAIN list : At(k) \in DOMAIN list /\ Place(At(k)) = k
  BY ZenonT(40), PlaceOnto DEF At
<1>3. DOMAIN list \subseteq Nat
  BY ListFinite
<1>4. ASSUME NEW m \in DOMAIN list, NEW n \in DOMAIN list, Place(m) = Place(n) PROVE m = n
  <2>1. Place(m) \in Nat
    BY ZenonT(40), <1>3, PlaceType
  <2>2. ~(Place(m) < Place(m))
    BY <2>1
  <2> QED
    BY ZenonT(40), <1>4, <2>2, PrecedesOrder, PlaceGrows
<1>5. \A n \in DOMAIN list : Place(n) \in DOMAIN list /\ At(Place(n)) = n
  BY ZenonT(40), <1>2, <1>4, PlaceType
<1>6. ASSUME NEW j \in DOMAIN list, NEW k \in DOMAIN list, j < k PROVE Precedes(At(j), At(k))
  <2>1. ~(k < j) /\ j # k
    BY <1>3, <1>6
  <2>2. At(j) # At(k)
    BY ZenonT(40), <1>2, <2>1
  <2>3. ~Precedes(At(k), At(j))
    BY ZenonT(40), <1>2, <2>1, PlaceGrows
  <2> QED
    BY ZenonT(40), <1>2, <2>2, <2>3, PrecedesOrder
<1> QED
  BY ZenonT(40), <1>1, <1>2, <1>5, <1>6

\* For any results, scores, sizes and times, and whatever orders were chosen before,
\* the rows are the results by the chosen key in the chosen direction.
THEOREM RowsAlwaysInOrder == ViewSpec => []RowsInOrder
<1>1. ASSUME Shown PROVE RowsInOrder
  <2>1. {sortedResults[n] : n \in DOMAIN sortedResults} = {list[n] : n \in DOMAIN list}
    <3>1. \A k \in DOMAIN sortedResults : \E n \in DOMAIN list : sortedResults[k] = list[n]
      BY ZenonT(40), <1>1, AtPlace
    <3>2. \A n \in DOMAIN list : \E k \in DOMAIN sortedResults : list[n] = sortedResults[k]
      <4> TAKE n \in DOMAIN list
      <4>1. Place(n) \in DOMAIN sortedResults /\ At(Place(n)) = n
        BY ZenonT(40), <1>1, AtPlace
      <4>2. sortedResults[Place(n)] = list[At(Place(n))]
        BY ZenonT(40), <1>1, <4>1, AtPlace
      <4> QED
        BY ZenonT(40), <4>1, <4>2
    <3>3. PICK rows : rows = sortedResults
      OBVIOUS
    <3> QED
      BY <3>1, <3>2, <3>3
  <2>2. Len(sortedResults) = Len(list)
    <3>1. sortedResults = [k \in 1 .. Len(list) |-> sortedResults[k]] /\ Len(list) \in Nat
      BY ZenonT(40), <1>1, AtPlace, ListFinite DEF sortedResults
    <3>2. PICK rows : rows = sortedResults
      OBVIOUS
    <3> QED
      BY <3>1, <3>2
  <2>3. ASSUME NEW m \in DOMAIN sortedResults, NEW n \in DOMAIN sortedResults, m < n
        PROVE  IF SortKey(sortedResults[m]) = SortKey(sortedResults[n]) THEN sortedResults[m] < sortedResults[n]
               ELSE SortKey(sortedResults[m]) < SortKey(sortedResults[n]) <=> view.sortDir = "asc"
    <3>1. PICK a \in DOMAIN list : a = At(m) /\ sortedResults[m] = list[a]
      BY ZenonT(40), <1>1, AtPlace
    <3>2. PICK b \in DOMAIN list : b = At(n) /\ sortedResults[n] = list[b]
      BY ZenonT(40), <1>1, AtPlace
    <3>3. Precedes(a, b)
      BY ZenonT(40), <1>1, <2>3, <3>1, <3>2, AtPlace
    <3>4. list[a] \in DOMAIN hits /\ list[b] \in DOMAIN hits /\ (a < b => list[a] < list[b])
      BY ZenonT(40), <1>1 DEF Shown, LInv
    <3>5. PICK x \in Nat : x = SortKey(list[a])
      BY ZenonT(40), <1>1, <3>4, SortKeyType
    <3>6. PICK y \in Nat : y = SortKey(list[b])
      BY ZenonT(40), <1>1, <3>4, SortKeyType
    <3>7. \/ x = y /\ a < b
          \/ view.sortDir = "asc" /\ x < y
          \/ view.sortDir # "asc" /\ x > y
      BY ZenonT(40), <1>1, <3>3, <3>5, <3>6, PrecedesMeans
    <3> QED
      BY <3>1, <3>2, <3>4, <3>5, <3>6, <3>7
  <2> QED
    BY ZenonT(40), <2>1, <2>2, <2>3 DEF RowsInOrder
<1>2. Shown => RowsInOrder
  BY <1>1
<1> QED
  BY <1>2, AlwaysShown, PTL

\* What the cells of a list sorted by size or by time say never runs against its
\* order, for every size and time there is.
THEOREM LabelsAlwaysFollowRows == ViewSpec => []LabelsFollowRows
<1>1. ASSUME Shown, NEW j \in DOMAIN list, NEW k \in DOMAIN list,
             (j < k /\ view.sortDir = "asc") \/ (k < j /\ view.sortDir # "asc")
      PROVE  /\ sortedResults[j] \in DOMAIN hits /\ sortedResults[k] \in DOMAIN hits
             /\ SortKey(sortedResults[j]) <= SortKey(sortedResults[k])
  <2>1. PICK a \in DOMAIN list : a = At(j) /\ sortedResults[j] = list[a]
    BY ZenonT(40), <1>1, AtPlace
  <2>2. PICK b \in DOMAIN list : b = At(k) /\ sortedResults[k] = list[b]
    BY ZenonT(40), <1>1, AtPlace
  <2>3. list[a] \in DOMAIN hits /\ list[b] \in DOMAIN hits
    BY ZenonT(40), <1>1 DEF Shown, LInv
  <2>4. PICK x \in Nat : x = SortKey(list[a])
    BY ZenonT(40), <1>1, <2>3, SortKeyType
  <2>5. PICK y \in Nat : y = SortKey(list[b])
    BY ZenonT(40), <1>1, <2>3, SortKeyType
  <2>6. IF view.sortDir = "asc" THEN Precedes(a, b) ELSE Precedes(b, a)
    BY ZenonT(40), <1>1, <2>1, <2>2, AtPlace
  <2>7. x <= y
    <3>1. CASE view.sortDir = "asc"
      <4>1. x = y \/ x < y
        BY ZenonT(40), <1>1, <2>4, <2>5, <2>6, <3>1, PrecedesMeans
      <4> QED
        BY <4>1
    <3>2. CASE view.sortDir # "asc"
      <4>1. x = y \/ y > x
        BY ZenonT(40), <1>1, <2>4, <2>5, <2>6, <3>2, PrecedesMeans
      <4> QED
        BY <4>1
    <3> QED
      BY ZenonT(40), <3>1, <3>2
  <2> QED
    BY ZenonT(40), <2>1, <2>2, <2>3, <2>4, <2>5, <2>7
<1>2. ASSUME Shown, NEW r \in DOMAIN hits, NEW s \in DOMAIN hits, SortKey(r) <= SortKey(s), NEW now \in Clock
      PROVE  /\ view.sortBy = "size" => NotAbove(Row(r, now).size, Row(s, now).size)
             /\ view.sortBy = "time" => NotAbove(Row(s, now).time, Row(r, now).time)
  <2>0. ASSUME NEW x, NEW y, x.unit \in {-1, 0} \/ y.unit \in {-1, 0} PROVE NotAbove(x, y)
    BY <2>0 DEF NotAbove
  <2>1. PICK rs \in Nat \cup {Missing} : rs = hits[r].size
    BY ZenonT(40), <1>2, RowFields
  <2>2. PICK ss \in Nat \cup {Missing} : ss = hits[s].size
    BY ZenonT(40), <1>2, RowFields
  <2>3. PICK rt \in Nat \cup {Missing} : rt = hits[r].modified_ts
    BY ZenonT(40), <1>2, RowFields
  <2>4. PICK st \in Nat \cup {Missing} : st = hits[s].modified_ts
    BY ZenonT(40), <1>2, RowFields
  <2>5. Dash.unit = -1 /\ \A ts : Date(ts).unit = 0
    BY DEF Dash, Date
  <2>6. CASE view.sortBy = "size"
    <3>1. SortKey(r) = OrZero(rs) /\ SortKey(s) = OrZero(ss)
      BY <2>1, <2>2, <2>6 DEF SortKey
    <3>2. /\ Row(r, now).size = (IF rs # Missing THEN formatBytes(rs) ELSE Dash)
          /\ Row(s, now).size = (IF ss # Missing THEN formatBytes(ss) ELSE Dash)
      BY ZenonT(40), <2>1, <2>2 DEF Row, SizeCell
    <3>3. CASE rs = Missing \/ ss = Missing
      <4>1. Row(r, now).size = Dash \/ Row(s, now).size = Dash
        BY ZenonT(40), <3>2, <3>3
      <4> QED
        BY ZenonT(40), <2>0, <2>5, <2>6, <4>1
    <3>4. CASE rs # Missing /\ ss # Missing
      <4>1. rs \in Nat /\ ss \in Nat /\ rs <= ss
        BY ZenonT(40), <1>2, <3>1, <3>4 DEF OrZero
      <4> QED
        BY ZenonT(40), <2>6, <3>2, <3>4, <4>1, SizeLabelsGrow
    <3> QED
      BY ZenonT(40), <3>3, <3>4
  <2>7. CASE view.sortBy = "time"
    <3>1. SortKey(r) = OrZero(rt) /\ SortKey(s) = OrZero(st)
      BY <2>3, <2>4, <2>7 DEF SortKey
    <3>2. /\ Row(r, now).time = (IF view.showRelativeTime THEN formatRelativeTs(rt, now) ELSE formatTs(rt))
          /\ Row(s, now).time = (IF view.showRelativeTime THEN formatRelativeTs(st, now) ELSE formatTs(st))
      BY ZenonT(40), <2>3, <2>4 DEF Row, TimeCell
    <3>3. CASE view.showRelativeTime
      <4>1. rt \in Nat /\ st \in Nat => rt <= st
        BY ZenonT(40), <1>2, <3>1, DisplayAssumption DEF OrZero
      <4>2. now \in Nat
        BY ZenonT(40), <1>2, ResultViewAssumption
      <4>3. NotAbove(formatRelativeTs(st, now), formatRelativeTs(rt, now))
        BY ZenonT(40), <4>1, <4>2, AgeLabelsGrow
      <4> QED
        BY ZenonT(40), <2>7, <3>2, <3>3, <4>3
    <3>4. CASE ~view.showRelativeTime
      <4>1. Row(r, now).time = Dash \/ Row(r, now).time = Date(rt)
        BY ZenonT(40), <3>2, <3>4 DEF formatTs
      <4> QED
        BY ZenonT(40), <2>0, <2>5, <2>7, <4>1
    <3> QED
      BY ZenonT(40), <3>3, <3>4
  <2> QED
    BY ZenonT(40), <2>6, <2>7
<1>3. ASSUME Shown PROVE LabelsFollowRows
  <2>1. SUFFICES ASSUME NEW m \in DOMAIN sortedResults, NEW n \in DOMAIN sortedResults,
                        IF view.sortDir = "asc" THEN m < n ELSE n < m, NEW now \in Clock
                 PROVE  /\ view.sortBy = "size" =>
                             NotAbove(Row(sortedResults[m], now).size, Row(sortedResults[n], now).size)
                        /\ view.sortBy = "time" =>
                             NotAbove(Row(sortedResults[n], now).time, Row(sortedResults[m], now).time)
    BY ZenonT(40) DEF LabelsFollowRows
  <2>2. DOMAIN sortedResults = DOMAIN list
    BY ZenonT(40), <1>3, AtPlace
  <2>3. (m < n /\ view.sortDir = "asc") \/ (n < m /\ view.sortDir # "asc")
    BY ZenonT(40), <2>1
  <2> QED
    BY ZenonT(40), <1>1, <1>2, <1>3, <2>1, <2>2, <2>3
<1>4. Shown => LabelsFollowRows
  BY <1>3
<1> QED
  BY <1>4, AlwaysShown, PTL

\* A size cell is off by at most half of its last digit and an age by less than one
\* of its unit, for every size, every time and every unit.
THEOREM CellsAlwaysTrue == ViewSpec => []CellsTrue
<1>1. ASSUME Shown, NEW n \in DOMAIN list, NEW now \in Clock,
             NEW h, h = hits[list[n]], NEW size, size = Row(list[n], now).size, NEW age, age = Row(list[n], now).time
      PROVE  /\ size.unit > 0 =>
                  Near(2 * size.number * UnitBytes[size.unit], 2 * h.size * UnitParts[size.unit], UnitBytes[size.unit])
             /\ age.unit > 0 =>
                  LET since == now - h.modified_ts - age.number * AgeSeconds[age.unit]
                  IN  0 <= since /\ since < AgeSeconds[age.unit]
  <2>1. list[n] \in DOMAIN hits
    BY ZenonT(40), <1>1 DEF Shown, LInv
  <2>2. h.size \in Nat \cup {Missing} /\ h.modified_ts \in Nat \cup {Missing} /\ now \in Nat
    BY ZenonT(40), <1>1, <2>1, RowFields, ResultViewAssumption
  <2>3. Dash.unit = -1 /\ \A ts : Date(ts).unit = 0
    BY DEF Dash, Date
  <2>4. size = (IF h.size # Missing THEN formatBytes(h.size) ELSE Dash)
    BY ZenonT(40), <1>1 DEF Row, SizeCell
  <2>5. age = (IF view.showRelativeTime THEN formatRelativeTs(h.modified_ts, now) ELSE formatTs(h.modified_ts))
    BY ZenonT(40), <1>1 DEF Row, TimeCell
  <2>6. ASSUME size.unit > 0
        PROVE  Near(2 * size.number * UnitBytes[size.unit], 2 * h.size * UnitParts[size.unit], UnitBytes[size.unit])
    <3>1. size # Dash
      BY <2>3, <2>6
    <3>2. h.size \in Nat /\ size = formatBytes(h.size)
      BY ZenonT(40), <2>2, <2>4, <3>1
    <3> QED
      BY ZenonT(40), <3>2, SizeLabel
  <2>7. ASSUME age.unit > 0, NEW since, since = now - h.modified_ts - age.number * AgeSeconds[age.unit]
        PROVE  0 <= since /\ since < AgeSeconds[age.unit]
    <3>1. age # Dash /\ age # Date(h.modified_ts)
      BY <2>3, <2>7
    <3>2. age = formatRelativeTs(h.modified_ts, now)
      BY ZenonT(40), <2>5, <3>1 DEF formatTs
    <3>3. PICK u \in 1 .. 5 : u = age.unit /\ h.modified_ts \in Nat /\ age.number = (now - h.modified_ts) \div AgeSeconds[u]
      BY ZenonT(40), <2>2, <2>7, <3>2, AgeLabel
    <3>4. PICK len \in Nat \ {0} : len = AgeSeconds[u]
      BY ZenonT(40), AgeTable
    <3>5. PICK a \in Int : a = now - h.modified_ts
      BY <2>2, <3>3
    <3>6. PICK q \in Int : q = a \div len /\ len * q <= a /\ a < len * q + len
      BY ZenonT(40), Division
    <3>7. since = a - q * len
      BY ZenonT(40), <2>7, <3>3, <3>4, <3>5, <3>6
    <3>8. 0 <= since /\ since < len
      BY <3>6, <3>7
    <3> QED
      BY ZenonT(40), <3>3, <3>4, <3>8
  <2> QED
    BY ZenonT(40), <2>6, <2>7
<1>2. Shown => CellsTrue
  BY ZenonT(40), <1>1 DEF CellsTrue
<1> QED
  BY <1>2, AlwaysShown, PTL

-----------------------------------------------------------------------------
(* The marks                                                                *)

\* A set of natural numbers that is not empty has a least member.
LEMMA LeastMember ==
  ASSUME NEW T, T \subseteq Nat, T # {}
  PROVE  \E x \in T : \A y \in T : x <= y
<1> DEFINE R == OpToRel(<, Nat)
<1>1. IsWellFoundedOn(R, Nat)
  BY Zenon, NatLessThanWellFounded
<1>2. \A x, y \in Nat : <<x, y>> \in R <=> x < y
  BY DEF OpToRel
<1> HIDE DEF R
<1>3. PICK x \in T : \A y \in T : ~ (<<y, x>> \in R)
  BY Zenon, <1>1, WFMin
<1>4. SUFFICES ASSUME NEW y \in T PROVE x <= y
  OBVIOUS
<1>5. <<y, x>> \notin R /\ y \in Nat /\ x \in Nat
  BY <1>3
<1>6. ~ (y < x)
  BY Zenon, <1>2, <1>5
<1> QED
  BY <1>5, <1>6

\* A set of numbers up to N that is not empty has a greatest member.
LEMMA GreatestMember ==
  ASSUME NEW N \in Nat, NEW T, T \subseteq 0 .. N, T # {}
  PROVE  \E x \in T : \A y \in T : y <= x
<1> DEFINE D == {N - x : x \in T}
<1>1. D \subseteq Nat /\ D # {}
  <2>1. \A x \in T : N - x \in Nat
    OBVIOUS
  <2>2. PICK x \in T : TRUE
    OBVIOUS
  <2> QED
    BY <2>1, <2>2
<1> HIDE DEF D
<1>2. PICK d \in D : \A e \in D : d <= e
  BY <1>1, LeastMember
<1>3. PICK x \in T : d = N - x
  BY DEF D
<1>4. ASSUME NEW y \in T PROVE y <= x
  <2>1. N - y \in D
    BY DEF D
  <2> QED
    BY <2>1, <1>2, <1>3
<1> QED
  BY <1>4

\* What a query is: terms that are words, none of them empty unless it is one empty
\* phrase or pattern; only a pattern looks at case or keeps a lastIndex.
LEMMA QueryFacts ==
  ASSUME NEW q \in Query
  PROVE  /\ q.terms \in Seq(Seq(Letter))
         /\ q.terms = <<<<>>>> \/ \A k \in DOMAIN q.terms : q.terms[k] # <<>>
         /\ q.mode # "pattern" => q.cased = FALSE /\ q.flag = ""
<1>1. ASSUME NEW t \in [{1} -> Seq(Letter)]
      PROVE  t \in Seq(Seq(Letter)) /\ (t = <<<<>>>> \/ \A k \in DOMAIN t : t[k] # <<>>)
  <2>1. PICK w \in Seq(Letter) : t = <<w>>
    <3>1. t = <<t[1]>> /\ t[1] \in Seq(Letter)
      OBVIOUS
    <3> QED
      BY <3>1
  <2>2. \A k \in DOMAIN t : t[k] = w
    BY <2>1
  <2>3. <<w>> \in Seq(Seq(Letter))
    OBVIOUS
  <2> QED
    BY Zenon, <2>1, <2>2, <2>3
<1>2. ASSUME NEW t \in Seq(Seq(Letter) \ {<<>>})
      PROVE  t \in Seq(Seq(Letter)) /\ \A k \in DOMAIN t : t[k] # <<>>
  OBVIOUS
<1> QED
  BY <1>1, <1>2 DEF Query

\* A term stands in a piece of the text where it stands in the text, if it ends there.
LEMMA PieceOccurs ==
  ASSUME NEW q, NEW term \in Seq(Letter), NEW s \in Seq(Letter),
         NEW a \in 1 .. Len(s) + 1, NEW b \in a - 1 .. Len(s), NEW n \in Nat, n >= 1
  PROVE  /\ SubSeq(s, a, b) \in Seq(Letter) /\ Len(SubSeq(s, a, b)) = b - a + 1
         /\ Occurs(q, term, SubSeq(s, a, b), n)
              <=> Occurs(q, term, s, a + n - 1) /\ n + Len(term) - 1 <= b - a + 1
<1> DEFINE piece == SubSeq(s, a, b)
<1>1. piece \in Seq(Letter) /\ Len(piece) = b - a + 1
      /\ \A m \in 1 .. b - a + 1 : piece[m] = s[a + m - 1]
  OBVIOUS
<1> HIDE DEF piece
<1>2. ASSUME n + Len(term) - 1 <= b - a + 1, NEW k \in DOMAIN term
      PROVE  piece[n + k - 1] = s[(a + n - 1) + k - 1]
  <2>1. n + k - 1 \in 1 .. b - a + 1 /\ a + (n + k - 1) - 1 = (a + n - 1) + k - 1
    BY <1>2
  <2> QED
    BY <2>1, <1>1
<1>3. Occurs(q, term, piece, n)
        <=> Occurs(q, term, s, a + n - 1) /\ n + Len(term) - 1 <= b - a + 1
  <2>1. CASE n + Len(term) - 1 <= b - a + 1
    <3>1. n + Len(term) - 1 <= Len(piece) /\ (a + n - 1) + Len(term) - 1 <= Len(s)
      BY <2>1, <1>1
    <3>2. \A k \in DOMAIN term : piece[n + k - 1] = s[(a + n - 1) + k - 1]
      BY <2>1, <1>2
    <3> QED
      BY Zenon, <3>1, <3>2, <2>1 DEF Occurs
  <2>2. CASE ~ (n + Len(term) - 1 <= b - a + 1)
    BY <2>2, <1>1 DEF Occurs
  <2> QED
    BY <2>1, <2>2
<1> QED
  BY <1>1, <1>3 DEF piece

\* A match is that of one of the terms, and ends where that term does.
LEMMA MatchIsTerm ==
  ASSUME NEW q, q.terms \in Seq(Seq(Letter)), NEW s \in Seq(Letter),
         NEW n \in 1 .. Len(s) + 1, Matching(q, s, n) # {}
  PROVE  /\ \E k \in DOMAIN q.terms :
              Occurs(q, q.terms[k], s, n) /\ MatchEnd(q, s, n) = n + Len(q.terms[k])
         /\ MatchEnd(q, s, n) \in n .. Len(s) + 1
<1> DEFINE M == Matching(q, s, n)
           k == CHOOSE k \in M : \A l \in M : k <= l
<1>1. M \subseteq DOMAIN q.terms /\ M \subseteq Nat
  BY DEF Matching
<1>2. k \in M
  BY <1>1, LeastMember
<1>3. MatchEnd(q, s, n) = n + Len(q.terms[k])
  BY DEF MatchEnd
<1>4. k \in DOMAIN q.terms /\ Occurs(q, q.terms[k], s, n)
  BY <1>2 DEF Matching
<1> HIDE DEF k
<1>5. n + Len(q.terms[k]) - 1 <= Len(s)
  BY <1>4 DEF Occurs
<1>6. Len(q.terms[k]) \in Nat
  BY <1>4
<1> QED
  BY <1>3, <1>4, <1>5, <1>6

\* The after cut.
Cut(q, s, from) == CHOOSE n \in Cuts(q, s, from) : \A m \in Cuts(q, s, from) : n <= m

\* The match at the after cut ends later than the one before it.
LEMMA CutFacts ==
  ASSUME NEW q, q.terms \in Seq(Seq(Letter)), NEW s \in Seq(Letter),
         NEW from \in 1 .. Len(s) + 1, Cuts(q, s, from) # {}
  PROVE  /\ Cut(q, s, from) \in from .. Len(s) /\ Matching(q, s, Cut(q, s, from)) # {}
         /\ \A m \in Cuts(q, s, from) : Cut(q, s, from) <= m
         /\ MatchEnd(q, s, Cut(q, s, from)) \in from + 1 .. Len(s) + 1
         /\ MatchEnd(q, s, Cut(q, s, from)) >= Cut(q, s, from)
<1> DEFINE n == Cut(q, s, from)
<1>1. Cuts(q, s, from) \subseteq Nat
  BY DEF Cuts
<1>2. n \in Cuts(q, s, from) /\ \A m \in Cuts(q, s, from) : n <= m
  BY <1>1, LeastMember DEF Cut
<1> HIDE DEF n
<1>3. n \in from .. Len(s) /\ Matching(q, s, n) # {} /\ MatchEnd(q, s, n) # from
  BY <1>2 DEF Cuts
<1>4. MatchEnd(q, s, n) \in n .. Len(s) + 1
  BY <1>3, MatchIsTerm
<1>5. MatchEnd(q, s, n) \in from + 1 .. Len(s) + 1 /\ MatchEnd(q, s, n) >= n
  BY <1>3, <1>4
<1> QED
  BY <1>2, <1>3, <1>5 DEF n

\* lastIndex stays within the piece that was tested.
LEMMA LastIndexWithin ==
  ASSUME NEW q, q.terms \in Seq(Seq(Letter)), NEW s \in Seq(Letter), NEW at \in Nat
  PROVE  LastIndex(q, s, at) \in 0 .. Len(s)
<1> DEFINE F == Found(q, s, at)
           n == CHOOSE n \in F : \A m \in F : n <= m
<1>1. CASE q.flag = "" \/ F = {}
  <2>1. LastIndex(q, s, at) = 0
    BY Zenon, <1>1 DEF LastIndex
  <2> QED
    BY <2>1
<1>2. CASE ~ (q.flag = "" \/ F = {})
  <2>1. F \subseteq Nat /\ F \subseteq 1 .. Len(s) + 1 /\ \A m \in F : Matching(q, s, m) # {}
    BY DEF Found
  <2>2. n \in F
    BY <1>2, <2>1, LeastMember
  <2>3. LastIndex(q, s, at) = MatchEnd(q, s, n) - 1
    BY <1>2 DEF LastIndex
  <2> HIDE DEF n, F
  <2>4. MatchEnd(q, s, n) \in n .. Len(s) + 1 /\ n \in 1 .. Len(s) + 1
    BY <2>1, <2>2, MatchIsTerm
  <2> QED
    BY <2>3, <2>4
<1> QED
  BY <1>1, <1>2

\* What is marked from a position on depends on what is marked later alone.
LEMMA MarkedFromLater ==
  ASSUME NEW q, q.terms \in Seq(Seq(Letter)), NEW s \in Seq(Letter),
         NEW from \in 1 .. Len(s) + 1, NEW at, NEW g, NEW h,
         \A e \in from + 1 .. Len(s) + 1 : g[e] = h[e]
  PROVE  MarkedFrom(q, s, g, from, at) = MarkedFrom(q, s, h, from, at)
<1>1. CASE Cuts(q, s, from) = {}
  BY Zenon, <1>1 DEF MarkedFrom
<1>2. CASE Cuts(q, s, from) # {}
  <2>1. g[MatchEnd(q, s, Cut(q, s, from))] = h[MatchEnd(q, s, Cut(q, s, from))]
    BY <1>2, CutFacts
  <2> QED
    BY Zenon, <1>2, <2>1 DEF MarkedFrom, Cut
<1> QED
  BY <1>1, <1>2

\* The function of highlight: what is marked from a position on, by lastIndex.
MarksOf(q, s) ==
  CHOOSE g : g = [from \in 1 .. Len(s) + 1 |-> [at \in 0 .. Len(s) |-> MarkedFrom(q, s, g, from, at)]]

\* There is such a function: from the end of the text it is continued to its beginning.
LEMMA MarksDefined ==
  ASSUME NEW q, q.terms \in Seq(Seq(Letter)), NEW s \in Seq(Letter)
  PROVE  \E g : g = [from \in 1 .. Len(s) + 1 |-> [at \in 0 .. Len(s) |-> MarkedFrom(q, s, g, from, at)]]
<1> DEFINE L == Len(s) + 1
           Values(g, from) == [at \in 0 .. Len(s) |-> MarkedFrom(q, s, g, from, at)]
           Solves(g, a) == g = [from \in a .. L |-> Values(g, from)]
           T == {a \in 1 .. L : \E g : Solves(g, a)}
<1>0. L \in Nat /\ L >= 1
  OBVIOUS
<1>1. ASSUME NEW from \in 1 .. L, NEW g, NEW h, \A e \in from + 1 .. L : g[e] = h[e]
      PROVE  Values(g, from) = Values(h, from)
  <2>1. \A at \in 0 .. Len(s) : MarkedFrom(q, s, g, from, at) = MarkedFrom(q, s, h, from, at)
    BY <1>1, MarkedFromLater
  <2> QED
    BY Zenon, <2>1
<1> HIDE DEF Values, L
<1>2. L \in T
  <2> DEFINE g == [from \in L .. L |-> Values(<<>>, from)]
  <2>1. ASSUME NEW from \in L .. L PROVE Values(<<>>, from) = Values(g, from)
    <3>1. from \in 1 .. L /\ from + 1 .. L = {}
      BY <1>0
    <3> HIDE DEF g
    <3> QED
      BY Zenon, <3>1, <1>1
  <2>2. Solves(g, L)
    BY Zenon, <2>1
  <2>3. L \in 1 .. L
    BY <1>0
  <2> HIDE DEF g, Solves
  <2> QED
    BY Zenon, <2>2, <2>3
<1>3. ASSUME NEW a \in T, a # 1 PROVE a - 1 \in T
  <2>1. PICK g : Solves(g, a)
    OBVIOUS
  <2>2. a \in 1 .. L /\ a - 1 \in 1 .. L
    BY <1>0, <1>3
  <2> DEFINE h == [from \in a - 1 .. L |-> Values(g, from)]
  <2>3. ASSUME NEW e \in a .. L PROVE h[e] = g[e]
    <3>1. e \in a - 1 .. L
      BY <1>0, <2>2
    <3>2. h[e] = Values(g, e)
      BY Zenon, <3>1
    <3> HIDE DEF h
    <3> QED
      BY Zenon, <3>2, <2>1
  <2>4. ASSUME NEW from \in a - 1 .. L PROVE Values(g, from) = Values(h, from)
    <3>1. from \in 1 .. L /\ \A e \in from + 1 .. L : e \in a .. L
      BY <1>0, <2>2
    <3> HIDE DEF h
    <3> QED
      BY Zenon, <3>1, <2>3, <1>1
  <2>5. Solves(h, a - 1)
    BY Zenon, <2>4
  <2> HIDE DEF h, Solves
  <2> QED
    BY Zenon, <2>2, <2>5
<1>4. PICK a \in T : \A b \in T : a <= b
  <2> HIDE DEF Solves
  <2>1. T \subseteq 1 .. L
    BY Zenon
  <2> HIDE DEF T
  <2>2. T \subseteq Nat /\ T # {}
    BY <1>0, <1>2, <2>1
  <2> QED
    BY <2>2, LeastMember
<1>5. a = 1
  <2>1. a \in Nat /\ (a - 1 \in T => a <= a - 1)
    BY <1>0, <1>4
  <2> QED
    BY <2>1, <1>3
<1> QED
  <2>1. PICK g : Solves(g, 1)
    BY <1>5
  <2> QED
    BY Zenon, <2>1 DEF Values, L

\* Hence it has the values its definition says.
LEMMA MarksValue ==
  ASSUME NEW q, q.terms \in Seq(Seq(Letter)), NEW s \in Seq(Letter)
  PROVE  \A from \in 1 .. Len(s) + 1, at \in 0 .. Len(s) :
           MarksOf(q, s)[from][at] = MarkedFrom(q, s, MarksOf(q, s), from, at)
<1> DEFINE g == MarksOf(q, s)
<1>1. g = [from \in 1 .. Len(s) + 1 |-> [at \in 0 .. Len(s) |-> MarkedFrom(q, s, g, from, at)]]
  BY Zenon, MarksDefined DEF MarksOf
<1> HIDE DEF g
<1>2. SUFFICES ASSUME NEW from \in 1 .. Len(s) + 1, NEW at \in 0 .. Len(s)
               PROVE  g[from][at] = MarkedFrom(q, s, g, from, at)
  BY DEF g
<1>3. g[from] = [b \in 0 .. Len(s) |-> MarkedFrom(q, s, g, from, b)]
  BY Zenon, <1>1
<1> QED
  BY Zenon, <1>3

\* What highlight marks.
LEMMA HighlightMarks ==
  ASSUME NEW q, NEW s
  PROVE  highlight(s, q) =
           IF q.mode # "pattern" /\ \A k \in DOMAIN q.terms : q.terms[k] = <<>> THEN {}
           ELSE MarksOf(q, s)[1][0]
BY Zenon DEF highlight, MarksOf

\* Lower-casing and the comparison of regular expressions identify the same letters.
Alike == \A x, y \in Letter : ToLower[x] = ToLower[y] <=> Canonical[x] = Canonical[y]

\* For a phrase or words, the piece that equals a term without case is one where the
\* term stands, and stands from end to end.
LEMMA EqualStands ==
  ASSUME Alike, NEW q, q.cased = FALSE, NEW term \in Seq(Letter), NEW s \in Seq(Letter)
  PROVE  LowerCase(s) = LowerCase(term) <=> Occurs(q, term, s, 1) /\ Len(s) = Len(term)
<1>1. ASSUME Len(s) = Len(term), NEW k \in DOMAIN term
      PROVE  SameLetter(q, term[k], s[1 + k - 1]) <=> ToLower[s[k]] = ToLower[term[k]]
  <2>1. k \in DOMAIN s /\ 1 + k - 1 = k
    BY <1>1
  <2>2. s[k] \in Letter /\ term[k] \in Letter
    BY <2>1
  <2>3. ToLower[s[k]] = ToLower[term[k]] <=> Canonical[s[k]] = Canonical[term[k]]
    BY Zenon, <2>2 DEF Alike
  <2> QED
    BY Zenon, <2>1, <2>3 DEF SameLetter
<1>2. Len(s) = Len(term) <=> DOMAIN s = DOMAIN term
  OBVIOUS
<1>3. CASE Len(s) = Len(term)
  <2>1. LowerCase(s) = LowerCase(term) <=> \A k \in DOMAIN term : ToLower[s[k]] = ToLower[term[k]]
    BY <1>2, <1>3 DEF LowerCase
  <2>2. 1 + Len(term) - 1 <= Len(s)
    BY <1>3
  <2> QED
    BY Zenon, <1>1, <1>3, <2>1, <2>2 DEF Occurs
<1>4. CASE Len(s) # Len(term)
  <2>1. DOMAIN LowerCase(s) = DOMAIN s /\ DOMAIN LowerCase(term) = DOMAIN term
    BY DEF LowerCase
  <2> QED
    BY Zenon, <1>2, <1>4, <2>1
<1> QED
  BY <1>3, <1>4

\* The query of the after lemmas, none of whose terms is empty.
Usual(q) == q \in Query /\ \A k \in DOMAIN q.terms : q.terms[k] # <<>>

\* What such a query is.
LEMMA UsualFacts ==
  ASSUME NEW q, Usual(q)
  PROVE  /\ q.terms \in Seq(Seq(Letter))
         /\ q.mode # "pattern" => q.cased = FALSE
         /\ \A k \in DOMAIN q.terms : /\ q.terms[k] \in Seq(Letter)
                                     /\ Len(q.terms[k]) \in Nat /\ Len(q.terms[k]) >= 1
<1>1. q \in Query
  BY Zenon DEF Usual
<1>2. q.terms \in Seq(Seq(Letter)) /\ (q.mode # "pattern" => q.cased = FALSE)
  BY Zenon, <1>1, QueryFacts
<1>3. ASSUME NEW k \in DOMAIN q.terms
      PROVE  q.terms[k] \in Seq(Letter) /\ Len(q.terms[k]) \in Nat /\ Len(q.terms[k]) >= 1
  <2>1. PICK t \in Seq(Letter) : t = q.terms[k]
    BY <1>2
  <2>2. t # <<>>
    BY Zenon, <2>1 DEF Usual
  <2>3. Len(t) \in Nat /\ Len(t) >= 1
    BY <2>2
  <2> QED
    BY <2>1, <2>3
<1> QED
  BY <1>2, <1>3

\* A piece in which no match begins is not marked, wherever lastIndex is.
LEMMA NoMatchNoMark ==
  ASSUME Alike, NEW q, Usual(q), NEW s \in Seq(Letter), NEW a \in 1 .. Len(s) + 1, NEW b \in a - 1 .. Len(s),
         \A n \in a .. b : Matching(q, s, n) = {}, NEW at \in Nat
  PROVE  Marked(q, s, a, b, at) = {} /\ LastIndex(q, SubSeq(s, a, b), at) = 0
<1> DEFINE piece == SubSeq(s, a, b)
<1>1. piece \in Seq(Letter) /\ Len(piece) = b - a + 1
  OBVIOUS
<1>2. ASSUME NEW n \in 1 .. Len(piece) + 1, NEW k \in DOMAIN q.terms PROVE ~ Occurs(q, q.terms[k], piece, n)
  <2>1. q.terms[k] \in Seq(Letter) /\ Len(q.terms[k]) >= 1 /\ Len(q.terms[k]) \in Nat
    BY Zenon, UsualFacts
  <2>2. Occurs(q, q.terms[k], piece, n)
          => Occurs(q, q.terms[k], s, a + n - 1) /\ n + Len(q.terms[k]) - 1 <= b - a + 1
    <3>1. n \in Nat /\ n >= 1
      BY <1>1
    <3> QED
      BY <2>1, <3>1, PieceOccurs
  <2>3. n + Len(q.terms[k]) - 1 <= b - a + 1 => a + n - 1 \in a .. b
    BY <1>1, <2>1
  <2>4. a + n - 1 \in a .. b => ~ Occurs(q, q.terms[k], s, a + n - 1)
    BY Zenon DEF Matching
  <2> QED
    BY Zenon, <2>2, <2>3, <2>4
<1>3. \A n \in 1 .. Len(piece) + 1 : Matching(q, piece, n) = {}
  BY Zenon, <1>2 DEF Matching
<1>4. Found(q, piece, at) = {}
  BY <1>1, <1>3 DEF Found
<1>5. ~ IsMark(q, piece, at)
  <2>1. CASE q.mode = "pattern"
    BY Zenon, <1>4, <2>1 DEF IsMark
  <2>2. CASE q.mode # "pattern"
    <3>1. ASSUME NEW k \in DOMAIN q.terms PROVE LowerCase(piece) # LowerCase(q.terms[k])
      <4>1. q.terms[k] \in Seq(Letter) /\ q.cased = FALSE
        BY Zenon, <2>2, UsualFacts
      <4>2. 1 \in 1 .. Len(piece) + 1
        BY <1>1
      <4> HIDE DEF piece
      <4> QED
        BY <4>1, <4>2, <1>1, <1>2, EqualStands
    <3> QED
      BY Zenon, <2>2, <3>1 DEF IsMark
  <2> QED
    BY <2>1, <2>2
<1> QED
  BY Zenon, <1>4, <1>5 DEF Marked, LastIndex

\* A match is marked, if the test begins at its beginning.
LEMMA MatchMarked ==
  ASSUME Alike, NEW q, Usual(q), NEW s \in Seq(Letter), NEW n \in 1 .. Len(s), Matching(q, s, n) # {}
  PROVE  Marked(q, s, n, MatchEnd(q, s, n) - 1, 0) = n .. MatchEnd(q, s, n) - 1
<1>0. q.terms \in Seq(Seq(Letter)) /\ (q.mode # "pattern" => q.cased = FALSE)
  BY Zenon, UsualFacts
<1>1. PICK k \in DOMAIN q.terms : Occurs(q, q.terms[k], s, n) /\ MatchEnd(q, s, n) = n + Len(q.terms[k])
  <2>1. n \in 1 .. Len(s) + 1
    OBVIOUS
  <2> QED
    BY Zenon, <2>1, <1>0, MatchIsTerm
<1>2. q.terms[k] \in Seq(Letter) /\ Len(q.terms[k]) \in Nat
  BY Zenon, UsualFacts
<1> DEFINE b == n + Len(q.terms[k]) - 1
           piece == SubSeq(s, n, b)
<1>3. n \in 1 .. Len(s) + 1 /\ b \in n - 1 .. Len(s) /\ 1 + Len(q.terms[k]) - 1 <= b - n + 1
      /\ n + 1 - 1 = n /\ b - n + 1 = Len(q.terms[k]) /\ MatchEnd(q, s, n) - 1 = b
  BY <1>1, <1>2 DEF Occurs
<1> HIDE DEF b
<1>4. piece \in Seq(Letter) /\ Len(piece) = Len(q.terms[k]) /\ Occurs(q, q.terms[k], piece, 1)
  <2>1. PICK one \in Nat : one = 1
    OBVIOUS
  <2>2. n + one - 1 = n /\ one + Len(q.terms[k]) - 1 <= b - n + 1 /\ one >= 1
    BY <1>3, <2>1
  <2>3. piece \in Seq(Letter) /\ Len(piece) = b - n + 1 /\ Occurs(q, q.terms[k], piece, one)
    BY <1>1, <1>2, <1>3, <2>2, PieceOccurs
  <2> QED
    BY <1>3, <2>1, <2>3
<1> HIDE DEF piece
<1>5. IsMark(q, piece, 0)
  <2>1. CASE q.mode = "pattern"
    <3>1. 1 \in 0 + 1 .. Len(piece) + 1 /\ Matching(q, piece, 1) # {} /\ 1 = 0 + 1
      BY <1>4 DEF Matching
    <3>2. 1 \in Found(q, piece, 0)
      BY <3>1 DEF Found
    <3> QED
      BY Zenon, <2>1, <3>2 DEF IsMark
  <2>2. CASE q.mode # "pattern"
    <3>1. LowerCase(piece) = LowerCase(q.terms[k])
      BY <2>2, <1>0, <1>2, <1>4, EqualStands
    <3> QED
      BY Zenon, <2>2, <3>1 DEF IsMark
  <2> QED
    BY <2>1, <2>2
<1> QED
  BY Zenon, <1>3, <1>5 DEF Marked, piece

\* What is marked from a position on is right: it meets every place of a term that
\* begins there or later, and lies in the places.
RightFrom(q, s, from, at) ==
  /\ \A k \in DOMAIN q.terms, n \in from .. Len(s) :
       Occurs(q, q.terms[k], s, n) =>
         (n .. n + Len(q.terms[k]) - 1) \cap MarksOf(q, s)[from][at] # {}
  /\ MarksOf(q, s)[from][at] \subseteq UNION Places(s, q)

\* The letters of a match are those of a place.
LEMMA MatchInPlace ==
  ASSUME NEW q, Usual(q), NEW s \in Seq(Letter), NEW n \in 1 .. Len(s), Matching(q, s, n) # {}
  PROVE  n .. MatchEnd(q, s, n) - 1 \subseteq UNION Places(s, q)
<1>1. n \in 1 .. Len(s) + 1
  OBVIOUS
<1>2. PICK k \in DOMAIN q.terms : Occurs(q, q.terms[k], s, n) /\ MatchEnd(q, s, n) = n + Len(q.terms[k])
  BY Zenon, <1>1, UsualFacts, MatchIsTerm
<1>3. q.terms[k] # <<>>
  BY Zenon DEF Usual
<1> DEFINE at(l) == {m .. m + Len(q.terms[l]) - 1 : m \in {o \in 1 .. Len(s) : Occurs(q, q.terms[l], s, o)}}
<1>4. n .. n + Len(q.terms[k]) - 1 \in at(k)
  BY <1>2
<1>5. Places(s, q) = UNION {at(l) : l \in {j \in DOMAIN q.terms : q.terms[j] # <<>>}}
  BY Zenon DEF Places
<1> HIDE DEF at
<1>6. PICK place \in Places(s, q) : place = n .. n + Len(q.terms[k]) - 1
  BY Zenon, <1>3, <1>4, <1>5
<1>7. place = n .. MatchEnd(q, s, n) - 1
  BY <1>2, <1>6
<1> QED
  BY Zenon, <1>7

\* What is marked from a position on is right if what is marked later is.
LEMMA RightStep ==
  ASSUME Alike, NEW q, Usual(q), NEW s \in Seq(Letter), NEW from \in 1 .. Len(s) + 1, NEW at \in 0 .. Len(s),
         \A e \in from + 1 .. Len(s) + 1, b \in 0 .. Len(s) : RightFrom(q, s, e, b)
  PROVE  RightFrom(q, s, from, at)
<1> DEFINE marks == MarksOf(q, s)
<1>0. q.terms \in Seq(Seq(Letter))
  BY Zenon, UsualFacts
<1>1. marks[from][at] = MarkedFrom(q, s, marks, from, at)
  BY Zenon, <1>0, MarksValue
<1> HIDE DEF marks
<1>2. ASSUME NEW n \in from .. Len(s), Matching(q, s, n) # {} PROVE n \in Cuts(q, s, from)
  <2>1. n \in 1 .. Len(s) + 1
    OBVIOUS
  <2>2. PICK k \in DOMAIN q.terms : MatchEnd(q, s, n) = n + Len(q.terms[k])
    BY Zenon, <2>1, <1>0, <1>2, MatchIsTerm
  <2>3. Len(q.terms[k]) \in Nat /\ Len(q.terms[k]) >= 1
    BY Zenon, UsualFacts
  <2>4. MatchEnd(q, s, n) # from
    BY <2>2, <2>3
  <2> QED
    BY Zenon, <1>2, <2>4 DEF Cuts
<1>3. ASSUME NEW k \in DOMAIN q.terms, NEW n \in from .. Len(s), Occurs(q, q.terms[k], s, n)
      PROVE  n \in Cuts(q, s, from)
  <2>1. Matching(q, s, n) # {}
    BY Zenon, <1>3 DEF Matching
  <2> QED
    BY Zenon, <2>1, <1>2
<1>4. CASE Cuts(q, s, from) = {}
  <2>1. \A n \in from .. Len(s) : Matching(q, s, n) = {}
    BY Zenon, <1>2, <1>4
  <2>2. PICK b : b = Len(s)
    OBVIOUS
  <2>3. b \in from - 1 .. Len(s) /\ at \in Nat
    BY <2>2
  <2>4. Marked(q, s, from, b, at) = {}
    BY Zenon, <2>1, <2>2, <2>3, NoMatchNoMark
  <2>5. marks[from][at] = {}
    BY Zenon, <1>1, <1>4, <2>2, <2>4 DEF MarkedFrom
  <2> QED
    BY Zenon, <1>3, <1>4, <2>5 DEF RightFrom, marks
<1>5. CASE Cuts(q, s, from) # {}
  <2> DEFINE cut == Cut(q, s, from)
             end == MatchEnd(q, s, cut)
  <2>1. /\ cut \in from .. Len(s) /\ Matching(q, s, cut) # {}
        /\ \A m \in Cuts(q, s, from) : cut <= m
        /\ end \in from + 1 .. Len(s) + 1 /\ end >= cut
    BY Zenon, <1>0, <1>5, CutFacts
  <2>2. marks[from][at] =
          Marked(q, s, from, cut - 1, at)
            \cup Marked(q, s, cut, end - 1, LastIndex(q, SubSeq(s, from, cut - 1), at))
            \cup marks[end][LastIndex(q, SubSeq(s, cut, end - 1), LastIndex(q, SubSeq(s, from, cut - 1), at))]
    BY Zenon, <1>1, <1>5 DEF MarkedFrom, Cut
  <2> HIDE DEF cut
  <2>3. PICK c : c = cut - 1
    OBVIOUS
  <2>4. c \in from - 1 .. Len(s) /\ at \in Nat /\ \A n \in from .. c : n \in from .. Len(s) /\ ~ (cut <= n)
    BY <2>1, <2>3
  <2>5. \A n \in from .. c : Matching(q, s, n) = {}
    BY Zenon, <2>1, <2>4, <1>2
  <2>6. Marked(q, s, from, c, at) = {} /\ LastIndex(q, SubSeq(s, from, c), at) = 0
    BY Zenon, <2>4, <2>5, NoMatchNoMark
  <2>7. cut \in 1 .. Len(s)
    BY <2>1
  <2>8. Marked(q, s, cut, end - 1, 0) = cut .. end - 1 /\ cut .. end - 1 \subseteq UNION Places(s, q)
    BY Zenon, <2>1, <2>7, MatchMarked, MatchInPlace
  <2> DEFINE after == LastIndex(q, SubSeq(s, cut, end - 1), 0)
  <2>9. after \in 0 .. Len(s)
    <3>1. SubSeq(s, cut, end - 1) \in Seq(Letter) /\ Len(SubSeq(s, cut, end - 1)) <= Len(s)
      BY <2>1
    <3>2. after \in 0 .. Len(SubSeq(s, cut, end - 1))
      BY <3>1, <1>0, LastIndexWithin
    <3> HIDE DEF after
    <3> QED
      BY <3>1, <3>2
  <2>10. marks[from][at] = (cut .. end - 1) \cup marks[end][after]
    BY Zenon, <2>2, <2>3, <2>6, <2>8
  <2>11. RightFrom(q, s, end, after)
    BY Zenon, <2>1, <2>9
  <2> HIDE DEF after
  <2>12. ASSUME NEW k \in DOMAIN q.terms, NEW n \in from .. Len(s), Occurs(q, q.terms[k], s, n)
         PROVE  (n .. n + Len(q.terms[k]) - 1) \cap marks[from][at] # {}
    <3>1. Len(q.terms[k]) \in Nat /\ Len(q.terms[k]) >= 1
      BY Zenon, UsualFacts
    <3>2. cut <= n
      BY Zenon, <2>1, <2>12, <1>3
    <3>3. CASE n < end
      <4>1. n \in n .. n + Len(q.terms[k]) - 1 /\ n \in cut .. end - 1
        BY <2>1, <3>1, <3>2, <3>3
      <4> QED
        BY Zenon, <4>1, <2>10
    <3>4. CASE n >= end
      <4>1. n \in end .. Len(s)
        BY <2>1, <3>4
      <4>2. (n .. n + Len(q.terms[k]) - 1) \cap marks[end][after] # {}
        BY Zenon, <4>1, <2>11, <2>12 DEF RightFrom, marks
      <4> QED
        BY Zenon, <4>2, <2>10
    <3> QED
      BY <2>1, <3>3, <3>4
  <2>13. marks[from][at] \subseteq UNION Places(s, q)
    BY Zenon, <2>8, <2>10, <2>11 DEF RightFrom, marks
  <2> QED
    BY Zenon, <2>12, <2>13 DEF RightFrom, marks
<1> QED
  BY <1>4, <1>5

\* Hence it is right from every position on, by induction from the end of the text.
LEMMA RightEverywhere ==
  ASSUME Alike, NEW q, Usual(q), NEW s \in Seq(Letter)
  PROVE  \A from \in 1 .. Len(s) + 1, at \in 0 .. Len(s) : RightFrom(q, s, from, at)
<1> DEFINE Wrong == {from \in 1 .. Len(s) + 1 : \E at \in 0 .. Len(s) : ~ RightFrom(q, s, from, at)}
<1>1. SUFFICES ASSUME Wrong # {} PROVE FALSE
  OBVIOUS
<1>2. Wrong \subseteq 0 .. Len(s) + 1 /\ Len(s) + 1 \in Nat
  OBVIOUS
<1>3. PICK from \in Wrong : \A e \in Wrong : e <= from
  <2> HIDE DEF Wrong
  <2> QED
    BY <1>1, <1>2, GreatestMember
<1>4. PICK at \in 0 .. Len(s) : ~ RightFrom(q, s, from, at)
  BY Zenon
<1>5. from \in 1 .. Len(s) + 1
  BY Zenon
<1>6. \A e \in from + 1 .. Len(s) + 1 : e \in 1 .. Len(s) + 1 /\ ~ (e <= from)
  BY <1>5
<1>7. \A e \in from + 1 .. Len(s) + 1, b \in 0 .. Len(s) : RightFrom(q, s, e, b)
  BY Zenon, <1>3, <1>6
<1> QED
  BY Zenon, <1>4, <1>5, <1>7, RightStep

\* What highlight marks is right: it meets every place of a term, and unless the query
\* is empty it lies in those places.
LEMMA HighlightRight ==
  ASSUME Alike, NEW q \in Query, NEW s \in Seq(Letter)
  PROVE  /\ \A place \in Places(s, q) : place \cap highlight(s, q) # {}
         /\ q.terms # <<<<>>>> => highlight(s, q) \subseteq UNION Places(s, q)
<1>0. q.terms = <<<<>>>> \/ \A k \in DOMAIN q.terms : q.terms[k] # <<>>
  BY Zenon, QueryFacts
<1>1. CASE q.terms = <<<<>>>>
  <2>1. \A k \in DOMAIN q.terms : q.terms[k] = <<>>
    BY <1>1
  <2>2. Places(s, q) = {}
    BY Zenon, <2>1 DEF Places
  <2> QED
    BY Zenon, <1>1, <2>2
<1>2. CASE q.terms # <<<<>>>>
  <2>1. Usual(q)
    BY Zenon, <1>0, <1>2 DEF Usual
  <2>2. 1 \in 1 .. Len(s) + 1 /\ 0 \in 0 .. Len(s)
    OBVIOUS
  <2>3. RightFrom(q, s, 1, 0)
    BY Zenon, <2>1, <2>2, RightEverywhere
  <2>4. CASE highlight(s, q) = MarksOf(q, s)[1][0]
    BY Zenon, <2>3, <2>4 DEF RightFrom, Places
  <2>5. CASE highlight(s, q) # MarksOf(q, s)[1][0]
    <3>1. highlight(s, q) = {} /\ \A k \in DOMAIN q.terms : q.terms[k] = <<>>
      BY Zenon, <2>5, HighlightMarks
    <3>2. Places(s, q) = {}
      BY Zenon, <3>1 DEF Places
    <3> QED
      BY Zenon, <3>1, <3>2
  <2> QED
    BY <2>4, <2>5
<1> QED
  BY <1>1, <1>2

\* Whatever the names and the query, the letters marked are those of its terms.
THEOREM MarksAlwaysRight == ViewSpec => []MarksRight
<1>1. ViewInit => TInv
  BY ZenonT(40) DEF ViewInit, TInv, View
<1>2. TInv => MarksRight
  <2> SUFFICES ASSUME TInv, Alike, NEW d \in DOMAIN text.name
               PROVE  /\ \A place \in Places(text.name[d], text.query) : place \cap NameCell(d) # {}
                      /\ text.query.terms # <<<<>>>> => NameCell(d) \subseteq UNION Places(text.name[d], text.query)
    BY ZenonT(40) DEF MarksRight, Alike
  <2>1. text.name[d] \in Seq(Letter) /\ text.query \in Query
    BY ZenonT(40), ResultViewAssumption DEF TInv
  <2> QED
    BY ZenonT(40), <2>1, HighlightRight DEF NameCell
<1> QED
  BY <1>1, <1>2, StepTexts, PTL DEF ViewSpec

=============================================================================
