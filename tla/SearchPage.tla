----------------------------- MODULE SearchPage -----------------------------
(***************************************************************************)
(* The search page of App.tsx: the debounced effect, doSearch, the         *)
(* navigation, the configuration that arrives late, the busy flag shared   *)
(* with the other pages, and safeInvoke of api.ts with its time-out and    *)
(* its retries.                                                            *)
(*                                                                         *)
(* An input stands for the query and the three filter fields, which the    *)
(* effect watches together.  The backend is a set of pending calls that    *)
(* are answered in any order or never; an answer is known by the input     *)
(* and the index directory it was computed for.                            *)
(***************************************************************************)
EXTENDS Naturals, FiniteSets

CONSTANTS
  Input,      \* what the fields may hold
  Blank,      \* the inputs whose query is blank
  IndexDir,   \* index directories, of the default state or the configuration
  Default,    \* the directory before the configuration is loaded
  NoResult,   \* the empty result list
  Req,        \* doSearch invocations that may be pending together
  Retries,    \* retries of safeInvoke for search_query
  MaxKeys,    \* bound on what the user does
  MaxSaves    \* bound on the saves of the settings page that run together

ASSUME SearchPageAssumption ==
  /\ Blank \subseteq Input /\ Blank # {}
  /\ Default \in IndexDir
  /\ NoResult \notin [input : Input, dir : IndexDir]
  /\ Req # {} /\ Retries \in Nat /\ MaxKeys \in Nat /\ MaxSaves \in Nat

VARIABLES
  input,     \* query, extFilter, minSize, maxSize
  page,      \* the page shown
  indexDir,  \* indexDir
  loading,   \* is the answer of readConfig still to come?
  timer,     \* the pending debounce timer and what its closure captured
  req,       \* per invocation of doSearch: captured request and attempt
  calls,     \* calls of search_query the backend has not answered
  shown,     \* results
  busy,      \* busy, shared by all pages
  saves,     \* saves of the settings page that are running
  used,      \* keys and clicks so far
  last,      \* history: the doSearch started last
  moved      \* history: has indexDir changed since the effect last ran?

config == <<indexDir, loading>>
vars == <<input, page, config, timer, req, calls, shown, busy, saves, used, last, moved>>

\* The pages of the side bar (those without a search or a save are like "settings"),
\* and the empty window that is left when React gives up rendering.
Page == {"search", "index", "settings", "down"}

Result == [input : Input, dir : IndexDir]

IdleReq(i, d) == [waiting |-> FALSE, input |-> i, dir |-> d, attempt |-> 0]

Off(i, d) == [on |-> FALSE, input |-> i, dir |-> d]

Waiting == {r \in Req : req[r].waiting}

\* Every variable has its type; in particular safeInvoke never makes more than
\* Retries + 1 attempts at a search.
TypeOK ==
  /\ input \in Input /\ page \in Page /\ indexDir \in IndexDir
  /\ timer \in [on : BOOLEAN, input : Input, dir : IndexDir]
  /\ req \in [Req -> [waiting : BOOLEAN, input : Input, dir : IndexDir, attempt : 0 .. Retries]]
  /\ calls \subseteq Req \X (0 .. Retries)
  /\ shown \in Result \cup {NoResult}
  /\ loading \in BOOLEAN /\ busy \in BOOLEAN /\ saves \in 0 .. MaxSaves /\ used \in 0 .. MaxKeys
  /\ last \in [req : Req, alone : BOOLEAN, ok : BOOLEAN] /\ moved \in BOOLEAN

Key == used < MaxKeys /\ used' = used + 1

-----------------------------------------------------------------------------
(* The debounced effect.  Its dependencies are the input and the page, not  *)
(* indexDir: the timer keeps the directory of the render that set it.       *)

\* Mutation: the page is not among the dependencies of the effect.
Effect_NoPage(i, pg) ==
  timer' = IF i = input THEN [timer EXCEPT !.on = @ /\ pg = "search"]
           ELSE [on |-> pg = "search", input |-> i, dir |-> indexDir]

\* Mutation: the timer calls a doSearch of an earlier render.
Effect_StaleDir(i, pg) ==
  timer' = IF i = input /\ pg = page THEN timer
           ELSE [timer EXCEPT !.on = pg = "search", !.input = i]

\* What the effect does when the input is i and the page pg after a render.
Effect(i, pg) ==
  timer' = IF i = input /\ pg = page THEN timer
           ELSE IF pg = "search" THEN [on |-> TRUE, input |-> i, dir |-> indexDir]
           ELSE Off(timer.input, timer.dir)

Rerun(i, pg) == Effect(i, pg) /\ moved' = (moved /\ i = input /\ pg = page)

-----------------------------------------------------------------------------
(* doSearch: a request is captured and invoked.  The slot r is taken over   *)
(* with the calls an earlier invocation gave up on: nobody awaits them.     *)

doSearch(r, i, d) ==
  /\ r \notin Waiting /\ r = CHOOSE q \in Req : q \notin Waiting
  /\ req' = [req EXCEPT ![r] = [waiting |-> TRUE, input |-> i, dir |-> d, attempt |-> 0]]
  /\ calls' = {c \in calls : c[1] # r} \cup {<<r, 0>>}
  /\ busy' = TRUE
  /\ last' = [req |-> r, alone |-> Waiting = {}, ok |-> FALSE]

\* The timer fires; a blank query is not searched for.
TimerFires ==
  /\ timer.on
  /\ timer' = [timer EXCEPT !.on = FALSE]
  /\ \/ timer.input \in Blank /\ UNCHANGED <<req, calls, busy, last>>
     \/ timer.input \notin Blank /\ \E r \in Req : doSearch(r, timer.input, timer.dir)
  /\ UNCHANGED <<input, page, config, shown, saves, used, moved>>

\* Enter in the query field, at any time.
PressEnter(r) ==
  /\ page = "search" /\ Key
  /\ doSearch(r, input, indexDir)
  /\ UNCHANGED <<input, page, config, timer, shown, saves, moved>>

\* The search button.
ClickSearch(r) ==
  /\ page = "search" /\ ~busy /\ Key
  /\ doSearch(r, input, indexDir)
  /\ UNCHANGED <<input, page, config, timer, shown, saves, moved>>

\* What search::query returns; a blank query parses to one without matches.
Results(i, d) == IF i \in Blank THEN NoResult ELSE [input |-> i, dir |-> d]

\* The answer of the current attempt: results, page and selection are set,
\* and the busy flag is cleared.
Answer(r) ==
  /\ r \in Waiting /\ <<r, req[r].attempt>> \in calls
  /\ calls' = calls \ {<<r, req[r].attempt>>}
  /\ req' = [req EXCEPT ![r].waiting = FALSE]
  /\ shown' = Results(req[r].input, req[r].dir)
  /\ page' = "search"
  /\ Rerun(input, "search")
  /\ busy' = FALSE
  /\ last' = [last EXCEPT !.ok = @ \/ last.req = r]
  /\ UNCHANGED <<input, config, saves, used>>

\* Mutation: a retry does not count.
Again_NoCount(r) ==
  /\ req' = req
  /\ UNCHANGED busy

\* Mutation: the flag stays set after the last attempt.
Again_NoFinally(r) ==
  /\ req' = IF req[r].attempt < Retries THEN [req EXCEPT ![r].attempt = @ + 1]
            ELSE [req EXCEPT ![r].waiting = FALSE]
  /\ UNCHANGED busy

\* Mutation: one attempt too many.
Again_OneMore(r) ==
  IF req[r].attempt <= Retries
  THEN req' = [req EXCEPT ![r].attempt = @ + 1] /\ UNCHANGED busy
  ELSE req' = [req EXCEPT ![r].waiting = FALSE] /\ busy' = FALSE

\* The catch of safeInvoke: the next attempt, or the error goes to doSearch.
Again(r) ==
  IF req[r].attempt < Retries
  THEN req' = [req EXCEPT ![r].attempt = @ + 1] /\ UNCHANGED busy
  ELSE req' = [req EXCEPT ![r].waiting = FALSE] /\ busy' = FALSE

\* The calls after a failed attempt of r, when `left` are still pending.
Invoked(r, left) ==
  calls' = left \cup {<<q, req'[q].attempt>> : q \in {q \in {r} : req'[q].waiting}}

\* The attempt times out; its call stays with the backend.
Timeout(r) ==
  /\ r \in Waiting
  /\ Again(r)
  /\ Invoked(r, calls)
  /\ UNCHANGED <<input, page, config, timer, shown, saves, used, last, moved>>

\* The backend refuses the query (no index, query syntax).
Refused(r) ==
  /\ r \in Waiting /\ <<r, req[r].attempt>> \in calls
  /\ Again(r)
  /\ Invoked(r, calls \ {<<r, req[r].attempt>>})
  /\ UNCHANGED <<input, page, config, timer, shown, saves, used, last, moved>>

\* The answer to an attempt that timed out: the race is over, nobody sees it.
LateAnswer(c) ==
  /\ c \in calls
  /\ c[1] \in Waiting => req[c[1]].attempt # c[2]
  /\ calls' = calls \ {c}
  /\ UNCHANGED <<input, page, config, timer, req, shown, busy, saves, used, last, moved>>

-----------------------------------------------------------------------------
(* The user and the rest of the application.                                *)

\* The query field or the file type is changed.
Type(i) ==
  /\ page = "search" /\ i # input /\ Key
  /\ input' = i
  /\ Rerun(i, page)
  /\ UNCHANGED <<page, config, req, calls, shown, busy, saves, last>>

\* The hooks a render of App calls besides its own: IndexPage is called as a function
\* within it, and has an effect.
Hooks(pg) == IF pg = "index" THEN 1 ELSE 0

\* React gives up a window whose next render calls another number of hooks.
Rendered(pg) == IF Hooks(pg) = Hooks(page) THEN pg ELSE "down"

\* The state of a window that was opened, or lost, with page pg.
Fresh(i, pg) ==
  /\ input' = i /\ page' = pg /\ indexDir' = Default /\ loading' = (pg # "down")
  /\ timer' = [on |-> pg # "down", input |-> i, dir |-> Default]
  /\ req' = [r \in Req |-> IdleReq(i, Default)]
  /\ calls' = {} /\ shown' = NoResult /\ busy' = FALSE /\ saves' = 0
  /\ last' = [last EXCEPT !.alone = TRUE, !.ok = FALSE] /\ moved' = FALSE

Navigate(pg) ==
  /\ page # "down" /\ pg # page /\ Rendered(pg) = pg /\ Key
  /\ page' = pg
  /\ Rerun(input, pg)
  /\ UNCHANGED <<input, config, req, calls, shown, busy, saves, last>>

NavigateDown(pg) ==
  /\ page # "down" /\ Rendered(pg) = "down" /\ Key
  /\ \E i \in Blank : Fresh(i, "down")

\* The program is started again.
Restart ==
  /\ page = "down" /\ Key
  /\ \E i \in Blank : Fresh(i, "search")

\* readConfig answers or fails.
Loaded(d) ==
  /\ loading /\ loading' = FALSE
  /\ indexDir' = d /\ moved' = (moved \/ d # indexDir)
  /\ UNCHANGED <<input, page, timer, req, calls, shown, busy, saves, used, last>>

\* doSaveConfig on the settings page.
Save ==
  /\ page = "settings" /\ ~busy /\ saves < MaxSaves
  /\ saves' = saves + 1 /\ busy' = TRUE
  /\ UNCHANGED <<input, page, config, timer, req, calls, shown, used, last, moved>>

SaveEnds ==
  /\ saves > 0
  /\ saves' = saves - 1 /\ busy' = FALSE
  /\ UNCHANGED <<input, page, config, timer, req, calls, shown, used, last, moved>>

Init ==
  /\ input \in Blank /\ page = "search" /\ indexDir = Default /\ loading = TRUE
  /\ timer = [on |-> TRUE, input |-> input, dir |-> Default]
  /\ req = [r \in Req |-> IdleReq(input, Default)]
  /\ calls = {} /\ shown = NoResult /\ busy = FALSE /\ saves = 0 /\ used = 0
  /\ last = [req |-> CHOOSE r \in Req : TRUE, alone |-> TRUE, ok |-> FALSE] /\ moved = FALSE

Next ==
  \/ TimerFires
  \/ \E r \in Req : PressEnter(r) \/ ClickSearch(r) \/ Answer(r) \/ Timeout(r) \/ Refused(r)
  \/ \E c \in calls : LateAnswer(c)
  \/ \E i \in Input : Type(i)
  \/ \E pg \in Page \ {"down"} : Navigate(pg) \/ NavigateDown(pg)
  \/ Restart
  \/ \E d \in IndexDir : Loaded(d)
  \/ Save \/ SaveEnds

Spec == Init /\ [][Next]_vars

\* A timer of the browser fires: the debounce timer and the time-out of an
\* attempt.  Nothing is assumed of the backend.
Fairness == WF_vars(TimerFires) /\ \A r \in Req : WF_vars(Timeout(r))

FairSpec == Spec /\ Fairness

-----------------------------------------------------------------------------

Quiet == page = "search" /\ ~timer.on /\ Waiting = {}

\* Once nothing is pending and the last search was answered, the page shows the
\* answer to what its fields hold, provided that search was started while no other
\* one was pending: no order of typing, navigation and late answers leaves an older
\* input's results on the page.  The answer also comes from the index directory of
\* the configuration, unless that arrived after the input or the page last changed:
\* the effect does not watch indexDir (App.tsx:169), yet every rerun of it, a return
\* to the page included, takes up the directory loaded meanwhile.  (Two searches that
\* are pending together may be answered in the opposite order, and the older one stays.)
FreshUnlessRaced ==
  Quiet /\ input \notin Blank /\ last.alone /\ last.ok =>
    shown # NoResult /\ shown.input = input /\ (moved \/ shown.dir = indexDir)

\* Every doSearch settles, by an answer or by an error, whatever the backend
\* does: safeInvoke bounds each attempt and the number of attempts.
SearchSettles == \A r \in Req : r \in Waiting ~> r \notin Waiting

\* What the user leaves in the fields of the search page is searched for, even
\* if the page was left and entered again before the timer fired.
InputSearched ==
  \A i \in Input \ Blank :
    <>[](input = i /\ page = "search") => <>[](req[last.req].input = i)

\* The buttons are never locked for good: the busy flag is set only while a
\* search or a save is in progress.  (Not the converse: the first operation to
\* end clears the flag for the others.)
BusyOnlyWhileWorking == busy => Waiting # {} \/ saves > 0

=============================================================================
