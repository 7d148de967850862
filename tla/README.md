# SearchEvery in TLA+

SearchEvery is a desktop file search: a Tauri application with a Rust backend
(`src/src-tauri/src`) and a React window (`src/src`). This directory models the
parts of it that run concurrently or survive a restart, checks them with TLC
and proves the central facts with TLAPS. `PROJECT.json` lists every run, the
source lines of every definition, the hazards and the findings.

## The system and its modules

| Part | Source | Module | State |
|---|---|---|---|
| Full-text index (tantivy, external) | used by `pipeline.rs`, `main.rs` | `TextIndex` | modelled as it is used |
| Scan-and-index pipeline, state file, daily thread, progress on the page | `pipeline.rs`, `pipeline_state.rs`, `main.rs`, `App.tsx` | `Pipeline` | modelled |
| What indexing promises, and the pipeline as its implementation | – | `IndexPromise`, `PipelinePromise` | abstract specification |
| Duplicate detection and deletion | `dedup.rs`, `main.rs`, `App.tsx` | `Duplicates` | modelled |
| Search page, navigation, `safeInvoke` | `App.tsx`, `services/api.ts` | `SearchPage` | modelled |
| Search query and filters | `search.rs`, `App.tsx`, `types.ts`, `utils/string.ts` | `SearchQuery` | modelled |
| Result list: order, form, selection, cells | `App.tsx` | `ResultView` | modelled, on top of `SearchQuery` |
| Texts of the cells | `utils/size.ts`, `utils/date.ts`, `utils/path.ts`, `utils/highlight.tsx` | `Display`, `Highlight` | modelled |
| Event subscription hook | `hooks/useTauriEvents.ts`, `services/events.ts` | `TauriEvents` | modelled |
| Configuration file and settings form | `config.rs`, `App.tsx` | `Config` | modelled |
| Index page | `App.tsx` | `Pipeline`, `Config`, `SearchPage` | its handlers, and the loss of the window |
| Batch scanner | `scanner.rs`, `main.rs` | `Duplicates` | only as the list it yields |
| Batch indexers | `indexer.rs`, `main.rs` | – | not modelled |
| Diagnostics, open location, logging, themes, hot keys | `diagnostics.rs`, `main.rs`, `hooks/` | – | not modelled |

The modules `MC…` give the constants small values for TLC, the modules `…Proofs`
hold the theorems.

How they interact: the page calls the backend through `safeInvoke`, which
races each call with a timer and may try again; the backend answers, and sends
events, which the page hears through `useTauriEvents`. The pipeline is started
from three places (the button, the manual trigger, the daily thread). Its
calls write to one tantivy index, whose writer lock is the only thing that keeps them
apart; configuration and state file have no lock at all. A deletion would write to the
index too, but never gets a writer.

### TextIndex

A path is the sequence of its words and separators. The schema indexes the
`path` field with tantivy's default tokenizer, so the terms of a path are its
lower-cased words (`Tokens`), while `delete_term` is given the whole path as one
term. An index is a bag of documents with at most `MaxCopies` counted copies.
`NoBareWord` says that no path consists of one word only; absolute paths do not.

### Pipeline

Each slot of `run` is one call of `scan_and_index_pipeline_internal`: open the
writer, `mark_started` (truncate, write), walk the roots, `scan_done`,
`mark_completed`, `index_done`, and, after the return, the tail of its pool.
`tasks` are the closures given to `pool.spawn`: build the document (the content
is read here), delete and add and commit under the mutex, count, report. The
writer is dropped, and the lock released, with the last reference
(`LastReference`). `staged` is what the next commit in a directory publishes: the errors of
`delete_term`, `add_document` and `commit` are ignored, so a file whose commit failed may
become visible with a later one, or never. A walk leaves out entries it cannot read
(`WalkError`). The daily thread reads configuration and state, decides,
spawns and sleeps in separate steps, and tries again when the configuration cannot be
read (`AutoConfigFails`). The button is disabled by the flag that all operations of the
page share, so it can be pressed again once another one has ended (`OtherEnds`). Users edit files and press buttons, the
date changes, the process may end anywhere. `visited`, `lost` and
`owed` are histories for the properties.

### IndexPromise, PipelinePromise

`IndexPromise` has no pool, walk or state file: a caller acquires a directory,
undertakes to index files, settles each of them by publishing it or giving it up,
and may release the directory only when nothing is due; a file that was given up may be
held back and published with a later one (`held`); what is found stays found, and a
restart forgets what is due or held back. `PipelinePromise` maps the pipeline to it: the
owner is the holder of the writer lock, due are the files of the tasks whose commit
is still to come, found are the paths of the live documents, held back those that only
`staged` has. The promise is given
back by the last task, not by `index_done`; that is what the pipeline does keep,
and `ClaimIndexedWhenDone` is the difference.

### Duplicates

`runDetect` (subscribe to the progress and scan unless a list is held, hash file by
file, group by hash and by name) and `handleDelete` (remove the file, then update the
index, then shrink the groups) are jobs that may overlap: the delete buttons are not
disabled, and a call the page has given up on (`awaited` is false) goes on in the
backend. `Walks` gives the lists a scan may yield for the files on disk; a walk of nested
roots lists a file twice. `busy` is shared by all pages;
`OtherEnds` is a search or a save that ends and clears it. A deletion ends in one of two
ways. Without an index it succeeds (`Unindex`). With one, `delete_file_and_index` asks for a
writer of 10 MB (`main.rs` 401), below the 15 MB tantivy requires for each thread, so the
call fails after the file has been removed (`UnindexFails`), and `delete_term` is never reached.
Whether there is an index is an input of the step: the directory can be typed anew, and a
scan can create one. The history `manner` says whether the user waited for every call
(`serial`), deleted only from hash groups that list at least two different files
(`wary`), has seen a deletion fail since the last detection (`warned`), and has deleted
nothing after such a failure (`heeds`).

### SearchPage

The debounce timer with what its closure captured, up to two `doSearch`
invocations with their attempts, the calls the backend still owes an answer for, the
configuration, which arrives some time after the start, and the busy flag that
saves of the settings page share. An input stands for the query and the filter fields
together. `Hooks` counts the hooks a page adds to `App`: `renderContent` calls the
pages as plain functions, `IndexPage` has an effect of its own (`App.tsx` 584), and so
opening it changes the number of hooks between two renders, on which React gives up the window
(there is no error boundary). `NavigateDown` is that step and `Restart` a new start
of the program. The handlers of the index page (`doScanAndIndex`, the manual
trigger, `doResetConfig`) are modelled as they are written, in `Pipeline` and
`Config`, although the page does not stay up to call them.

### SearchQuery, ResultView, Display, Highlight

`SearchQuery` is one search: fields, request, the best `Limit` hits, the filter loop;
the ranking is any list of hits. `ResultView` extends it with the answer that reaches the
page, `sortedResults` with its stable sort (a row comes behind all those that precede it
by the comparison or, when that says equal, by their place before), the controls above the list, the path
length of the settings, the selection, and the cells of each row. `Display` has the
helpers behind the cells: a size or an age is a number with a unit, a path the lengths
`shortenPath` looks at (of the whole, the first and last component, and so on), so
that it holds for every path of those lengths. `Highlight` is `highlight` on
sequences of letters: the three kinds of query (phrase, pattern between slashes,
words), the split at the matches, and the second test of each piece with the
`lastIndex` the tests before it left: `marks` says, for each end of a match and each
`lastIndex`, what is marked from there on. Of the patterns only literal words are modelled,
without groups and anchors; a phrase is one term, and no word is empty. A size field is a number
of parts of a megabyte (`MegParts` of them make one), which `toBytesMb` rounds to the nearest
byte. `doSearch` handles two size fields that no control of the page sets
at present; they are modelled as the function handles them.

### TauriEvents

Each render of `App` passes a new array of subscribe functions, so each render
cleans up the last effect and starts another one. The loops of old effects run
on. `listen()` and `unlisten()` take effect in the webview (external).

### Config

Each call is a thread that performs the file operations of `config.rs` one by
one: remove, `exists`, read, truncate, write; its answer reaches the page in a later
step, in any order with the others, or not at all after a time-out. A call that had
opened the file when a reset removed it writes to a file without a name (`gone`). A
configuration is abstracted to three fields: `roots` for the lists, which the form shows as
one line of text (`join`) and `parseCSV` takes apart again; `dir` for `index_dir`, which
`read_config` fills in when it is empty and moves out of `src-tauri`; and `mode` for
`search_mode`, which is not on the form and which a save sets to `inverted`. An entry with
a comma, or with blanks at its ends, does not survive the way through the form. Lists of
nothing but blank entries are left out. `Left` are the configurations an earlier version
or an editor may have left. `Length` gives texts a length, so
that a text written over a longer one without truncation is distinguishable. `loaded`,
`touched`, `serial`, `mixed` and `want` are histories for the properties.

## Runs

Passing runs, with what they show:

* `PipelinePool` – calls one after the other, nested roots, two pool threads, a crash,
  and one failure of the walk, of the daily read or of a commit. `NoVisitLost`: a counted
  file is in the pool or in the index, or its commit has failed. `ProgressAccounted`:
  every counted file is reported once. `SearchableStays`: a file that is found once is
  found for good. `PipelineKeepsPromise`: every behaviour is one of `IndexPromise`.
* `PipelineDay` – midnight, a crash anywhere, an edit, the daily thread and a manual
  call. `StateFileFaithful`: `scan_state.json` is what the call that owns the writer
  wrote, or is cut short by a crash. `ContentNotOlder`: no document joins new
  metadata to an older text. `CompletedMeansIndexed`: when the state says complete
  and the pools are idle, the files are indexed, unless a crash, an edit or a fault
  came in between.
* `PipelineLive` – two calls on one directory that may overlap, a crash.
  `WriterExclusive`: one writer per directory, left-over tasks included. `WriterReleased`,
  `PromiseSettles`, `DailyScanRecorded`: writers are released, the window's promise settles,
  the daily scan is recorded after a crash.
* `Duplicates` – nested roots, a failure, a time-out or an edit by another program.
  `GroupsAreEqual`: unless others edit files, a hash group lists equal files for any
  overlap of detections and deletions. `DeletedStaysGone`: for a user who waits for each
  call, a file reported as deleted does not come back in a hash group.
  `CarefulKeepsLastCopy`: one who also reads the lists, and detects anew after a deletion
  that did not succeed, keeps a copy of every content, whatever fails, unless others edit
  files. `NoStrayListener`: an answered scan leaves no listener. `BusyEnds`.
* `SearchPage` – `FreshUnlessRaced`: a search that was pending alone leaves the results of
  the current input and directory. `SearchSettles`, `InputSearched`: every search ends,
  and what stays in the fields is searched for. `BusyOnlyWhileWorking`: the buttons are
  never locked.
* `ResultView` – `ResultsExact`: the results are the wanted hits among the best `Limit`.
  `RowsInOrder`: the rows are these results by the chosen key, equal ones in the order of
  the search, whatever was chosen before. `SelectionShown`: the detail pane shows one
  of the rows. `LabelsFollowRows`, `CellsTrue`: rounding never turns the order of a
  column round, and sizes and ages are off by less than their last digit. `PathsFit`: a
  path cell keeps to its maximum and shows the end of the name. `MarksRight`: the marks
  are those of the terms.
* `TauriEvents` – `HandlesComplete`: the last effect can remove every listener it holds.
  `DoneIsHeard`: `index_done` is heard once its loop is through. `SubscribedAtLast`.
* `Config` – `FormRepaired`, `SerialSaveDurable` (a save survives while calls do not
  overlap), `LoadedSaveKeeps` (a save writes back the fields of the form that the user did
  not touch, but for lists with a comma in an entry),
  `ResetBringsDefault` (a reset that is answered brings the default to the form).

The `Claim…` runs each check one statement that a comment, a message or a document
of the repository makes, and end in a counterexample:

* `ClaimIndexedWhenDone` – `index_done` is sent while tasks are still queued;
* `ClaimNoDuplicateDocs` – the deletion before an upsert matches no document, so a second
  visit adds a second one;
* `ClaimLastCopyKept` – two deletions in one group, one after the other, remove the last
  copy: with an index the first ends in an error after its file is gone, and the group
  still offers the other one;
* `ClaimNoListenerLeft` – a listener registered by an effect that was cleaned up
  meanwhile stays registered.

The conditions of the passing properties, and the notes of the hazards, mark what
else the code does not promise. The models reach these states; no run checks them.
Two searches pending together may be answered in the opposite order. A directory
that is loaded after the input last changed is taken up only with the next change. The
answer of a search takes the user back to the search page. Opening the index page loses
the window. A scan that fails leaves its listener behind. A deletion the page gave up on
still removes the file. The first operation to end clears the busy flag of the others. Filters apply
after the limit of 50. An event between two subscriptions is lost. A read of the
configuration that finds no file writes the default over a save that overlaps it. A
save before the load is answered writes the page's defaults. A crash after
`mark_completed` leaves the rest of that day's files unindexed. A scan past midnight
completes the new day, and a completed day can be scanned again. A file below two
roots forms a duplicate group of its own. Two deletions confirmed one upon the other
remove the last copy, too. A save replaces another `search_mode` by `inverted` and splits
list entries at their commas. A reset whose removal fails returns the
old configuration.

### Bounds

Two calls, jobs, requests or configuration calls at a time are enough for every
race here, as each is between two of them; `PipelinePool`, whose races are between the
tasks of one call, has one slot, used again after the call has ended. Files of the pipeline: two, one of them below two
roots, so that a file is visited twice by one call and again by the next. `Parse` has both
positions of the content switch but in `PipelineLive`, whose file has no text to read. A pool of one
or two threads (`Cores` 2 or 4). One midnight, one crash, one edit and one fault
where a run has them; four clicks, keys or configuration calls, enough
for two overlapping operations with another one before and after them. `Duplicates` has three files: two that may be
copies, of one name, and one that may be a third copy; `MaxMishaps` counts failures
and edits together. Three renders let two old subscription loops overlap with the
current one; two events and one retry reach every branch of the loop.

`ResultView`: up to three hits out of four documents (two of one path, sizes at a
megabyte and one byte to either side, a missing size and a missing time), a limit
of two, so that a hit beyond the limit exists. Size fields have two decimals (`MegParts`
100) and lie just below zero and one hundredth to either side of a megabyte, where one
is rounded up and one down. `Kilo` is 8 instead of 1024, which keeps
sizes small and still has every unit and every rounding. All rankings and views are
combined with one text; the other texts (lengths of paths around the maximum
of 20 and 21, names of up to four letters, all kinds of queries) come without hits and,
by the action constraint `MCShown`, without a change of the view, since a path or
name cell depends on no hit.

The counts `Max…` are guards of the actions they bound. `MaxCopies = 1` still
tells whether a document is present, and the mutation of `delete_term` shows that a
deletion that matches would be seen. Runs with `CHECK_DEADLOCK FALSE` are of
systems that may stop: the user's bounded actions are used up, or the search is over.
`SYMMETRY` is used only in runs without liveness properties, over slots of calls.

### Fairness

* `Pipeline`: a call and a task that can go on do (threads of the async runtime
  and of the pool); the daily thread goes round its loop, and finds the CPU idle
  again and again, the condition under which a daily scan can be promised at all.
* `Duplicates`: an operation of the backend that has begun goes on.
* `SearchPage`: the timers of the browser fire. Nothing is assumed of the backend.
* `TauriEvents`: promises of `listen()` settle, timers fire, `unlisten()` takes effect.

## Proofs

For every value of the constants that satisfies the named assumptions
(`TextIndexAssumption`, `PipelineAssumption` and so on, in the modules that declare the
constants):

* `PipelineProofs`. `TypeCorrect`. `OneWriter`: `WriterExclusive` is inductive
  together with `TypeOK`; it relates lock, calls and left-over tasks, which is why
  the tasks are part of it. `SearchableForever`: a whole path is a token of no path
  (`WholePathIsNoToken`), so an upsert only adds, a writer lacks none of the committed
  documents, whichever commits failed before (`Stock`), and no file is lost to a search.
  `CountedIsKept`: `Kept`, per call, is preserved because documents stay (`Grows`) and a
  task leaves the pool only once its document is in the index or its commit has failed.
  `ContentIsNotOlder`: `Ages` adds that the metadata of a task is not newer than the disk,
  because versions only grow, so what the pool reads later is at least as new.
  `CallsAlwaysAdvance`, `TasksAlwaysAdvance`, `OwnersAlways`: see below.
* `ProgressProofs`. `StateFileIsFaithful`: with one directory, `OneWriter` leaves one
  active call (`OnlyActive`), and `Marks` adds what the file is between truncation and
  write. `ProgressIsAccounted`: `Counts` adds that the tasks of a call have different
  numbers up to its count, so that a task that goes on in place neither doubles nor
  hides another one (`TaskMoves`), and the cardinality of the uncounted tasks changes
  exactly with the counter and the count.
* `PromiseProofs`. `PipelineImplementsPromise`: the initial states map to initial states, and,
  from `WriterExclusive` and `Stock`, every step maps to one of `IndexPromise` or to none: a
  commit publishes what was held back (`CommitPublishes`), a failed one holds back or
  publishes (`StoreHolds`), and the end of a writer forgets (`DropForgets`).
  `CompletedIsIndexed`: on a day without edits, faults and crashes (`CalmDay`) a walk has seen
  every file of its roots but those of the roots still before it (`WalkOwes`), nothing it
  has seen is lost (`CountedIsKept`), and a complete state file comes either from a call
  whose tasks are not over or from one all of whose files are indexed. Both theorems
  assume `NoBareWord`.
* `ResultViewProofs`. The search: `ResultsAlwaysExact`, the results so far are the wanted hits
  before `i`, in order (`Prefix`), and the filters are those of the form; every step of the
  list is a step of the search or leaves it alone (`ViewIsSearch`), which gives
  `ViewResultsExact` and `ViewTypeCorrect`. A limit in whole bytes admits the sizes that the
  limit in megabytes admits, up to the rounding (`LimitInBytes`). The list: `SelectionAlwaysShown`, the selected row
  is one of the list; `RowsAlwaysInOrder`: `Precedes` is a strict total order of the
  places of the list, so counting what precedes a row puts the rows one-to-one on the
  places (`PlaceGrows`, `PlaceOnto`) and the sort loses and repeats none. The cells:
  `PathsAlwaysFit`, `shortenPath` by its cases, for every path and maximum;
  `CellsAlwaysTrue` and `LabelsAlwaysFollowRows`, from what division with a remainder, rounding to
  the nearest and the choice of the unit do (`NearestIsNear`, `NearestGrows`, `ReachedGrows`), for
  every base of the units, so for the 1024 of the code as well as for the 8 of the run.
  `MarksAlwaysRight`: `marks` is defined at every position because a match that cuts ends
  behind the one before it (`CutFacts`, `MarksDefined`); from the last position to the first,
  what is marked from there on lies in places of terms and meets each place that begins
  there or later (`RightFrom`, `RightStep`), since a piece between two matches holds no match
  and so resets `lastIndex` for the next (`NoMatchNoMark`, `MatchMarked`). Both inductions
  go by the least or greatest position of a set (`LeastMember`, `GreatestMember`).
* `DuplicatesProofs`. `DuplicatesTypeCorrect` and `ListenersAccounted` with `DInv`: what a job holds at
  each of its steps (`Shape`), and no file on disk is reported as deleted. The other three
  rest on one lemma on steps (`StepEffect`): what a detection has read (`Read`) comes from the
  disk, what is on display (`Listed`) has been read, files vanish only by `RemoveFile` and are
  reported only by `Unindex`, and a job begins or goes on. `GroupsAlwaysEqual`: what was read
  and what is listed is in the files (`Equal`). `DeletedAlwaysGone`: with one call at a time what
  a detection has read stays on disk until it is shown (`Alone`). `CarefulAlwaysKeepsCopy`: then,
  unless a deletion has failed since the last detection, what is listed is on disk but for
  the file that is just being deleted, so the other file of the group the user saw is a
  copy (`Copied`, `CarefulClick`); a detection after a failure lists only what it found on
  disk (`DetectedAnew`).
* `TauriEventsProofs`. `HandlesAlwaysComplete`: with the range of the loop variable
  and the order of the effects (none later than the last render has begun), the
  loops of older effects touch neither the record nor the listeners of the last. With it,
  `DoneAlwaysHeard`: an event a loop has passed is subscribed to or given up (`Passed`), so at
  its end the listeners of the last effect are there (`SubscribedWhenEnded`).
* `SearchPageProofs`. `SearchPageTypeCorrect`, `BusyIsWork`. `ShownIsFresh`: `FInv` says what
  the timer will search for (`TimerOK`) and, of the search started last, if it was alone,
  that no other is pending and that it is for the fields unless the timer will start
  another (`LastOK`); so its answer is the one to show.
* `ConfigProofs`. `ConfigTypeCorrect` with `Shape`, the places each operation can be in.
  `FormAlwaysRepaired`: what a read carries is the default while it writes and repaired once
  it answers (`Cargo`). `SerialSavesLast`: what a call that runs alone makes of the file at
  each of its places (`Alone`). `SavesKeepUntouched`: file, form and running calls agree
  on the fields not edited, as far as the form shows them (`Agrees`). `ResetsBringDefault`: a reset past the removal has the
  default before it, in the file or in its answer (`Resets`).

Of six of the seven liveness properties the part without fairness is proved too: something is
always on its way that ends the wait, and its every step brings it closer to its end in a
well-founded order. What is left to the model checker is that enabled steps are taken.

| Liveness property | What is proved of it |
|---|---|
| `WriterReleased` | `OwnersAlways`: a lock is held only by a call that opened that directory and has not ended. `CallsAlwaysAdvance`: a call goes through its steps, its roots and the paths of a root, and nothing sets it back. `TasksAlwaysAdvance`: only its walk gives it tasks, and each has four steps |
| `PromiseSettles` | `OwnersAlways`: the window awaits only a call that has not returned. `CallsAlwaysAdvance` |
| `BusyEnds` | `BusyAlwaysAwaitsCall`, from the step of each job (`JobStepAdvances`), and `JobsAlwaysAdvance` |
| `SearchSettles` | `SearchesAlwaysAdvance`: a search ends or uses up one of its attempts |
| `InputSearched` | `InputAlwaysDue`: the fields have a timer set for them, or the search started last is for them |
| `SubscribedAtLast` | `SubscribedWhenEnded`: at its end a loop has subscribed to what it has not given up. `LoopsAlwaysAdvance` |

Only model-checked: that these six come true under the fairness above, and `DailyScanRecorded`.
Fairness and `ENABLED` are out of TLAPS's reach.

Every invariant and action property that a passing run checks is proved. Beyond
types the assumptions ask little: `Kilo` is greater than 1, `MegParts` is positive, and the set of jobs of
`Duplicates`, whose scans are counted, is finite.

## Not modelled

* `indexer::build`, `build_inverted_index_progress` (the batch indexers): their only
  user, `doIndex`, is not called by any control of the page. The same holds for `doScan`,
  `clearQuery` and `resetFilters` (`App.tsx` 318–333).
* `scanner::scan` and the filters of `scan_paths_progress`: what they leave out is fixed
  per path, so they yield one of the lists in `Walks`.
* `diagnostics.rs`: a report on the index page that reads and changes nothing.
* `open_location`, dialogs, icon scripts, the about page, logging, themes: input
  and output without state of their own. The hot keys hook does nothing at present.
* Ranking, snippets and segments of tantivy; regular expressions in a query other than
  literal words, with or without flags.
* `TauriEvents` and `Pipeline` are not composed: `Pipeline` delivers events at once, and
  `TauriEvents` shows when a listener is there to hear them.
* Panics: `unwrap` on a field that every schema of the program has.
