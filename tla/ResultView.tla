----------------------------- MODULE ResultView -----------------------------
(***************************************************************************)
(* The result list of the search page: a search (SearchQuery) whose answer *)
(* doSearch hands to the page, the order and the form the user chooses for *)
(* the rows, the selected row, and the texts of the cells (Display and     *)
(* Highlight).  A row is known by the rank of its hit.                     *)
(*                                                                         *)
(* The buttons of the list can be pressed at any time; pressed before the  *)
(* answer they only choose the values it is then shown with, so they are   *)
(* taken here once there is an answer.                                     *)
(***************************************************************************)
EXTENDS SearchQuery, Highlight

CONSTANTS
  Clock,   \* times at which the page may be rendered
  MaxLen,  \* values of path_max_len
  Texts    \* what may be written: the paths and names of the files, and the query

ASSUME ResultViewAssumption ==
  /\ Clock \subseteq Nat /\ MaxLen \subseteq Int
  /\ \A t \in Texts : /\ DOMAIN t = {"path", "name", "query"} /\ t.query \in Query
                      /\ \A d \in DOMAIN t.path : t.path[d] \in PathShape
                      /\ \A d \in DOMAIN t.name : t.name[d] \in Seq(Letter)

VARIABLES
  list,      \* the state results of the page
  selected,  \* the selected result, or NoRow
  view,      \* how the list is shown
  text       \* what is written in the files shown and in the query

viewVars == <<list, selected, view, text>>
allVars == <<vars, viewVars>>

NoRow == 0

View ==
  [sortBy : {"score", "time", "size"}, sortDir : {"asc", "desc"}, viewMode : {"table", "card"},
   showRelativeTime : BOOLEAN, pathMaxLen : MaxLen]

ViewInit ==
  /\ text \in Texts
  /\ Init
  /\ list = <<>> /\ selected = NoRow
  /\ view \in [sortBy : {"score"}, sortDir : {"desc"}, viewMode : {"table"}, showRelativeTime : {FALSE},
               pathMaxLen : MaxLen]

-----------------------------------------------------------------------------
(* sortedResults                                                            *)

OrZero(x) == IF x = Missing THEN 0 ELSE x

SortKey(r) ==
  CASE view.sortBy = "score" -> hits[r].score
    [] view.sortBy = "time" -> OrZero(hits[r].modified_ts)
    [] view.sortBy = "size" -> OrZero(hits[r].size)

compare(a, b) == (SortKey(a) - SortKey(b)) * (IF view.sortDir = "asc" THEN 1 ELSE -1)

\* Array.sort is stable: of rows that compare equal the earlier one goes first.
Precedes(m, n) == compare(list[m], list[n]) < 0 \/ (compare(list[m], list[n]) = 0 /\ m < n)

\* Where the sort puts a row: behind all those that precede it.
Place(n) == Cardinality({m \in DOMAIN list : Precedes(m, n)}) + 1

sortedResults == [k \in DOMAIN list |-> list[CHOOSE n \in DOMAIN list : Place(n) = k]]

-----------------------------------------------------------------------------
(* The rows, as table or cards, and the detail pane                         *)

SizeCell(h) == IF h.size # Missing THEN formatBytes(h.size) ELSE Dash

TimeCell(h, now) ==
  IF view.showRelativeTime THEN formatRelativeTs(h.modified_ts, now) ELSE formatTs(h.modified_ts)

\* selected?.path === r.path
Row(r, now) ==
  [marked |-> selected # NoRow /\ hits[selected].path = hits[r].path,
   size |-> SizeCell(hits[r]), time |-> TimeCell(hits[r], now)]

PathCell(d) == shortenPath(text.path[d], view.pathMaxLen)

\* The marked letters of the name or the summary.
NameCell(d) == highlight(text.name[d], text.query)

-----------------------------------------------------------------------------

\* Mutation: the detail pane is not told of the new list.
Receive_NoSelect ==
  /\ pc = "done"
  /\ list' = results
  /\ UNCHANGED <<vars, selected, view, text>>

\* The answer of the search, and of the same search when it is repeated.
Receive ==
  /\ pc = "done"
  /\ list' = results
  /\ selected' = IF results = <<>> THEN NoRow ELSE results[1]
  /\ UNCHANGED <<vars, view, text>>

\* A click on a row or a card.
Select(n) ==
  /\ n \in DOMAIN list
  /\ selected' = list[n]
  /\ UNCHANGED <<vars, list, view, text>>

\* Mutation: showing the list has sorted it in place.
SetSortBy_InPlace(k) ==
  /\ pc = "done"
  /\ view' = [view EXCEPT !.sortBy = k]
  /\ list' = sortedResults
  /\ UNCHANGED <<vars, selected, text>>

SetSortBy(k) ==
  /\ pc = "done"
  /\ view' = [view EXCEPT !.sortBy = k]
  /\ UNCHANGED <<vars, list, selected, text>>

ToggleSortDir ==
  /\ pc = "done"
  /\ view' = [view EXCEPT !.sortDir = IF @ = "asc" THEN "desc" ELSE "asc"]
  /\ UNCHANGED <<vars, list, selected, text>>

\* The tabs, the select box and the keys Home and End choose a form ...
SetViewMode(m) ==
  /\ pc = "done"
  /\ view' = [view EXCEPT !.viewMode = m]
  /\ UNCHANGED <<vars, list, selected, text>>

\* ... and the arrow keys change it.
ArrowKey == SetViewMode(IF view.viewMode = "table" THEN "card" ELSE "table")

ToggleTime ==
  /\ pc = "done"
  /\ view' = [view EXCEPT !.showRelativeTime = ~@]
  /\ UNCHANGED <<vars, list, selected, text>>

\* The slider of the settings page.
SetPathMaxLen(n) ==
  /\ pc = "done"
  /\ view' = [view EXCEPT !.pathMaxLen = n]
  /\ UNCHANGED <<vars, list, selected, text>>

ViewNext ==
  \/ Next /\ UNCHANGED viewVars
  \/ Receive
  \/ \E n \in 1 .. Limit : Select(n)
  \/ \E k \in {"score", "time", "size"} : SetSortBy(k)
  \/ ToggleSortDir \/ ToggleTime \/ ArrowKey
  \/ \E m \in {"table", "card"} : SetViewMode(m)
  \/ \E n \in MaxLen : SetPathMaxLen(n)

ViewSpec == ViewInit /\ [][ViewNext]_allVars

-----------------------------------------------------------------------------
(* Properties                                                               *)

\* The detail pane, whose buttons open and copy a path, always speaks of a file of
\* the list on display: after a new answer, under every order and with several
\* documents of one path, it shows one of the rows and the rows marked as selected
\* are those of its file.  It is empty only when the list is.
SelectionShown ==
  IF list = <<>> THEN selected = NoRow
  ELSE \E n \in DOMAIN list : list[n] = selected /\ \A now \in Clock : Row(list[n], now).marked

\* The rows are the results, each once, by the chosen key in the chosen direction;
\* equal ones stay in the order of the search whatever orders were chosen before.
RowsInOrder ==
  LET rows == sortedResults
  IN  /\ {rows[n] : n \in DOMAIN rows} = {list[n] : n \in DOMAIN list} /\ Len(rows) = Len(list)
      /\ \A m, n \in DOMAIN rows : m < n =>
           IF SortKey(rows[m]) = SortKey(rows[n]) THEN rows[m] < rows[n]
           ELSE SortKey(rows[m]) < SortKey(rows[n]) <=> view.sortDir = "asc"

\* Labels of one kind: neither a dash nor a date.
NotAbove(x, y) ==
  (x.unit > 0 /\ y.unit > 0) => x.unit < y.unit \/ (x.unit = y.unit /\ x.number <= y.number)

\* The texts of a column never contradict its order: down a list sorted by size the
\* sizes read in B, KB, ... never run against the direction, nor the ages of a list
\* sorted by time, also where rounding or a change of unit comes in between.
LabelsFollowRows ==
  \A m, n \in DOMAIN sortedResults : (IF view.sortDir = "asc" THEN m < n ELSE n < m) =>
    \A now \in Clock :
      LET lower == Row(sortedResults[m], now)
          upper == Row(sortedResults[n], now)
      IN  /\ view.sortBy = "size" => NotAbove(lower.size, upper.size)
          /\ view.sortBy = "time" => NotAbove(upper.time, lower.time)

Near(x, y, slack) == x - y <= slack /\ y - x <= slack

\* What a cell says is true of the file: a size is off by at most half of its last
\* digit, an age by less than one of its unit.
CellsTrue ==
  \A n \in DOMAIN list : \A now \in Clock :
    LET h == hits[list[n]]
        size == Row(list[n], now).size
        age == Row(list[n], now).time
        since == now - h.modified_ts - age.number * AgeSeconds[age.unit]
    IN  /\ size.unit > 0 =>
             Near(2 * size.number * UnitBytes[size.unit], 2 * h.size * UnitParts[size.unit], UnitBytes[size.unit])
        /\ age.unit > 0 => 0 <= since /\ since < AgeSeconds[age.unit]

\* "路径显示最大长度（20–200）" (App.tsx:868): from 20 on, the least that the settings page
\* names, no path cell is longer than the maximum set; and of a path with directories
\* it always shows the end of the file name, seven characters of it or all.
PathsFit ==
  view.pathMaxLen >= 20 =>
    \A d \in DOMAIN text.path :
      /\ PathCell(d).len <= view.pathMaxLen
      /\ text.path[d].parts > 2 => PathCell(d).name >= AtMost(text.path[d].last, 7)

\* Splitting at the matches and testing each piece again comes to the same as looking
\* for the terms, whatever lastIndex the tests before it left: every place of a term
\* shares a letter with the marks (all of them, unless a match before it took some),
\* and only letters of such places are marked (an empty pattern marks everything).
\* For letters that lower-casing and regular expressions identify alike.
MarksRight ==
  (\A x, y \in Letter : ToLower[x] = ToLower[y] <=> Canonical[x] = Canonical[y]) =>
    \A d \in DOMAIN text.name :
      /\ \A place \in Places(text.name[d], text.query) : place \cap NameCell(d) # {}
      /\ text.query.terms # <<<<>>>> => NameCell(d) \subseteq UNION Places(text.name[d], text.query)

=============================================================================
