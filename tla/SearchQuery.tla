----------------------------- MODULE SearchQuery -----------------------------
(***************************************************************************)
(* One search, from the filter fields of the search page to the result     *)
(* list: how doSearch turns the fields into filters, and search::query,    *)
(* which takes the best Limit hits of tantivy's TopDocs and then drops     *)
(* those that fail a filter.  A result is known by the rank of its hit.    *)
(*                                                                         *)
(* doSearch handles two size fields besides the list of file types.  The   *)
(* page has their state but, at present, no control that sets them; they   *)
(* are modelled as the function handles them.                              *)
(***************************************************************************)
EXTENDS Display, FiniteSets

CONSTANTS
  Ext,       \* extensions, as indexed or as listed in the field
  NoExt,     \* an empty piece of the comma-separated list
  Lower,     \* ASCII lower-casing of an extension
  Hit,       \* documents that a query may match
  Megs,      \* what may be typed into a size field, in parts of an MB
  Limit,     \* TopDocs::with_limit
  MaxHits,   \* bound on the documents that match the query
  MaxExts    \* bound on the extensions listed

ASSUME SearchQueryAssumption ==
  /\ Lower \in [Ext -> Ext] /\ NoExt \notin Ext
  /\ \A h \in Hit : /\ DOMAIN h = {"path", "ext", "score", "size", "modified_ts"}
                    /\ h.ext \in Ext /\ h.score \in Nat
                    /\ h.size \in Nat \cup {Missing} /\ h.modified_ts \in Nat \cup {Missing}
  /\ Megs \subseteq Int
  /\ Limit \in Nat /\ MaxHits \in Nat /\ MaxExts \in Nat

VARIABLES
  hits,     \* the documents that match the query, best score first
  form,     \* the filter fields
  filters,  \* req.filters
  pc,       \* where the search is
  i,        \* the hit the loop looks at
  results   \* the ranks of the results

vars == <<hits, form, filters, pc, i, results>>

UpTo(S, n) == UNION {[1 .. m -> S] : m \in 0 .. n}

\* Lists of hits, best score first; scores may be equal.
Ranking == {s \in UpTo(Hit, MaxHits) : \A m, n \in DOMAIN s : m < n => s[m].score >= s[n].score}

\* A size field is empty, not a number, or a number of MB, which may have decimals.
Field == [kind : {"blank", "nan"}, mb : {0}] \cup [kind : {"num"}, mb : Megs]

Form == [exts : UpTo(Ext \cup {NoExt}, MaxExts), min : Field, max : Field]

Bound == [some : BOOLEAN, bytes : Int]

None == [some |-> FALSE, bytes |-> 0]

\* Every variable has its type; the loop looks at no hit past the best Limit
\* (TopDocs::with_limit) and no result is out of the range of the hits.
TypeOK ==
  /\ hits \in Ranking /\ form \in Form
  /\ filters.exts \subseteq Ext /\ filters.min \in Bound /\ filters.max \in Bound
  /\ pc \in {"form", "loop", "done", "rejected"}
  /\ i \in 1 .. Len(hits) + 1
  /\ i - 1 <= Limit
  /\ \A n \in DOMAIN results : results[n] \in 1 .. Len(hits)

-----------------------------------------------------------------------------
(* doSearch                                                                 *)

\* Splits at the commas, trims and drops what is empty; the order is never used.
parseCSV(pieces) == {pieces[n] : n \in DOMAIN pieces} \ {NoExt}

ToBound(f) == IF f.kind = "num" THEN [some |-> TRUE, bytes |-> toBytesMb(f.mb)] ELSE None

\* The size fields of the request are unsigned: serde refuses a negative one.
Submit ==
  /\ pc = "form"
  /\ filters' = [exts |-> parseCSV(form.exts), min |-> ToBound(form.min), max |-> ToBound(form.max)]
  /\ pc' = IF filters'.min.bytes < 0 \/ filters'.max.bytes < 0 THEN "rejected" ELSE "loop"
  /\ UNCHANGED <<hits, form, i, results>>

-----------------------------------------------------------------------------
(* search::query                                                            *)

SkipByExt(h) ==
  filters.exts # {} /\ \A e \in filters.exts : Lower[e] # Lower[h.ext]

SkipBySize(h) ==
  /\ h.size # Missing
  /\ \/ filters.min.some /\ h.size < filters.min.bytes
     \/ filters.max.some /\ h.size > filters.max.bytes

\* Mutation: the loop runs over one hit too many.
HasHit_OneMore == i <= Len(hits) /\ i <= Limit + 1

HasHit == i <= Len(hits) /\ i <= Limit

Skip ==
  /\ pc = "loop" /\ HasHit
  /\ SkipByExt(hits[i]) \/ SkipBySize(hits[i])
  /\ i' = i + 1
  /\ UNCHANGED <<hits, form, filters, pc, results>>

Push ==
  /\ pc = "loop" /\ HasHit
  /\ ~SkipByExt(hits[i]) /\ ~SkipBySize(hits[i])
  /\ results' = Append(results, i)
  /\ i' = i + 1
  /\ UNCHANGED <<hits, form, filters, pc>>

Done ==
  /\ pc = "loop" /\ ~HasHit
  /\ pc' = "done"
  /\ UNCHANGED <<hits, form, filters, i, results>>

Init ==
  /\ hits \in Ranking /\ form \in Form
  /\ filters = [exts |-> {}, min |-> None, max |-> None]
  /\ pc = "form" /\ i = 1 /\ results = <<>>

Next == Submit \/ Skip \/ Push \/ Done

Spec == Init /\ [][Next]_vars

-----------------------------------------------------------------------------

\* A size in bytes against a number of MB, to half a byte.
MbOrMore(size, mb) == (2 * MegParts) * size > 2 * (mb * Megabyte) - MegParts
MbOrLess(size, mb) == (2 * MegParts) * size <= 2 * (mb * Megabyte) + MegParts

\* What the fields of the page mean, for a file of extension h.ext and size
\* h.size: a size limit in MB says nothing of a file whose size is unknown.
Wanted(h) ==
  /\ \/ \A n \in DOMAIN form.exts : form.exts[n] = NoExt
     \/ \E n \in DOMAIN form.exts : form.exts[n] # NoExt /\ Lower[form.exts[n]] = Lower[h.ext]
  /\ h.size # Missing =>
       /\ form.min.kind = "num" => MbOrMore(h.size, form.min.mb)
       /\ form.max.kind = "num" => MbOrLess(h.size, form.max.mb)

\* The result list is what the fields ask for among the best Limit hits: every
\* such hit once, in the order of the score, and no other.  Sizes at a bound,
\* bounds between two bytes, a field that is not a number and documents without
\* a size included.  (The limit comes first: a wanted hit of a lower rank is left
\* out although the list is short.)
ResultsExact ==
  pc = "done" =>
    /\ \A m, n \in DOMAIN results : m < n => results[m] < results[n]
    /\ {results[n] : n \in DOMAIN results} = {r \in DOMAIN hits : r <= Limit /\ Wanted(hits[r])}

=============================================================================
