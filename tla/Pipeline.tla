------------------------------ MODULE Pipeline ------------------------------
(***************************************************************************)
(* The scan-and-index pipeline of the Rust backend: pipeline.rs, the state *)
(* file it keeps (pipeline_state.rs), the thread of main.rs that starts it *)
(* once a day, and the progress the window shows for it (App.tsx).         *)
(*                                                                         *)
(* A run walks its roots and hands every file to a thread pool; the tasks  *)
(* of the pool write to the one tantivy writer of the run and go on after  *)
(* the run has returned.  Users edit files and press buttons, the date     *)
(* changes and the process may die at any point.                           *)
(***************************************************************************)
EXTENDS TextIndex, FiniteSets

CONSTANTS
  Run, NoRun,                   \* slots for pipeline calls in progress
  Dir,                          \* index directories
  Root, Under,                  \* scan roots and the paths below each
  Excluded, Oversized,          \* excluded paths; <<path, version>> above 500 MB
  TextLike,                     \* paths with one of the text extensions
  Config,                       \* the values config.json takes
  Parse,                        \* positions of the page's content switch
  Cores,                        \* physical cores of the machine
  MaxDay, MaxEdits, MaxCrashes, MaxFaults, MaxClicks    \* bounds

ASSUME PipelineAssumption ==
  /\ NoRun \notin Run /\ Dir # {}
  /\ Under \in [Root -> SUBSET Path]
  /\ Config \subseteq [auto_scan_enabled : BOOLEAN, index_dir : Dir, scan_roots : Seq(Root)]
  /\ Parse \subseteq BOOLEAN /\ 1 \in Version
  /\ {MaxDay, MaxEdits, MaxCrashes, MaxFaults, MaxClicks} \subseteq Nat
  /\ MaxDay >= 1 /\ Cores \in Nat

VARIABLES
  day,        \* the local date
  version,    \* current version of each path
  present,    \* the paths that exist on disk
  config,     \* contents of config.json
  stateFile,  \* contents of scan_state.json
  index,      \* the committed documents of each index directory
  staged,     \* what the next commit in each index directory publishes
  lock,       \* the run holding the tantivy writer lock of each directory
  run,        \* the state of each pipeline call
  tasks,      \* tasks handed to the pools and not finished
  auto,       \* the daily thread: what it has read so far
  ui,         \* the progress state of App.tsx
  used        \* how often the environment has acted (bounds)

disk == <<version, present>>
vars == <<day, disk, config, stateFile, index, staged, lock, run, tasks, auto, ui, used>>

Day == 1 .. MaxDay
NoDay == 0

PC == {"idle", "spawned", "opened", "starting", "walking", "walked", "finishing", "marked",
       "returned"}

\* Fields of a call: its options; the date it read last (mark_started and
\* mark_completed); the paths of the current root not visited yet and those of
\* them that were there when the root was opened; its counters.  "visited" and
\* "lost" are history: the files it counted and those whose commit failed.
RunState ==
  [pc : PC, dir : Dir, roots : Seq(Root), parse : BOOLEAN,
   today : Day \cup {NoDay}, left : SUBSET Path, owed : SUBSET Path,
   scanned : Nat, counter : Nat,
   visited : SUBSET (Path \X Version), lost : SUBSET (Path \X Version)]

IdleRun ==
  [pc |-> "idle", dir |-> CHOOSE d \in Dir : TRUE, roots |-> <<>>, parse |-> FALSE,
   today |-> NoDay, left |-> {}, owed |-> {}, scanned |-> 0, counter |-> 0,
   visited |-> {}, lost |-> {}]

\* A task is queued, then has its document built, then has left the critical
\* section, then has its number "cur" and only the event is left to send.
Task ==
  [run : Run, n : Nat \ {0}, doc : Doc, st : {"queued", "built", "written", "counted"}, cur : Nat]

\* scan_state.json: absent, truncated, two writes on top of each other, or valid.
StateFile ==
  [kind : {"absent", "empty", "garbage", "valid"}, last_day : Day \cup {NoDay}, completed : BOOLEAN]

NoState(kind) == [kind |-> kind, last_day |-> NoDay, completed |-> FALSE]

-----------------------------------------------------------------------------
(* pipeline_state.rs                                                        *)

\* load_state(...).unwrap_or_default()
load_state(f) ==
  IF f.kind = "valid" THEN [last_day |-> f.last_day, completed |-> f.completed]
  ELSE [last_day |-> NoDay, completed |-> FALSE]

\* The write of fs::write, after its truncation.  When another call has written
\* in between, the text with "true" leaves the last byte of the one with "false".
WriteState(f, d, completed) ==
  IF completed /\ (f.kind = "garbage" \/ (f.kind = "valid" /\ ~f.completed))
  THEN NoState("garbage")
  ELSE [kind |-> "valid", last_day |-> d, completed |-> completed]

-----------------------------------------------------------------------------
(* App.tsx: the state the events of a run and its promise change            *)

\* The page awaits the calls in "waiting"; "busy" disables its buttons.
Waiting(r) == r \in ui.waiting

onIndexProgress(cur) == [ui EXCEPT !.current = cur, !.total = 0, !.running = TRUE]

onScanDone(total) == [ui EXCEPT !.total = total]

\* index_done, and right after it the promise of the call is resolved.
onIndexDone(r) ==
  [ui EXCEPT !.running = FALSE, !.waiting = @ \ {r}, !.busy = @ /\ ~Waiting(r)]

\* Mutation: doScanAndIndex without its finally block.
onRejected_NoFinally(r) ==
  IF Waiting(r) THEN [ui EXCEPT !.running = FALSE, !.waiting = @ \ {r}] ELSE ui

\* The promise of the call is rejected: catch and finally of doScanAndIndex.
onRejected(r) ==
  IF Waiting(r) THEN [ui EXCEPT !.running = FALSE, !.waiting = @ \ {r}, !.busy = FALSE] ELSE ui

-----------------------------------------------------------------------------
(* A pipeline call                                                          *)

TasksOf(r) == {t \in tasks : t.run = r}

InFlight(r) == {t \in TasksOf(r) : t.st # "queued"}

\* Two cores are kept free, but the pool has at least one thread.
PoolSize == IF Cores > 3 THEN Cores - 2 ELSE 1

At(r, l) == run[r].pc = l

Fault == used.faults < MaxFaults /\ used' = [used EXCEPT !.faults = @ + 1]

Start(r, dir, roots, parse) ==
  /\ At(r, "idle")
  /\ run' = [run EXCEPT ![r] = [IdleRun EXCEPT !.pc = "spawned", !.dir = dir, !.roots = roots,
                                               !.parse = parse]]

\* Mutation: the lock file is not consulted.
WriterFree_NoLock(d) == TRUE

WriterFree(d) == lock[d] = NoRun

\* Creating or opening the index, building the pool and taking the writer.
OpenWriter(r) ==
  /\ At(r, "spawned") /\ WriterFree(run[r].dir)
  /\ lock' = [lock EXCEPT ![run[r].dir] = r]
  /\ run' = [run EXCEPT ![r].pc = "opened"]
  /\ UNCHANGED <<day, disk, config, stateFile, index, staged, tasks, auto, ui, used>>

\* ... or any of these fails and the call returns an error.
OpenFails(r) ==
  /\ At(r, "spawned")
  /\ \/ ~WriterFree(run[r].dir) /\ UNCHANGED used
     \/ Fault
  /\ run' = [run EXCEPT ![r].pc = "idle"]
  /\ ui' = onRejected(r)
  /\ UNCHANGED <<day, disk, config, stateFile, index, staged, lock, tasks, auto>>

EnterRoot(rs) == [rs EXCEPT !.left = IF rs.roots = <<>> THEN {} ELSE Under[Head(rs.roots)],
                            !.owed = IF rs.roots = <<>> THEN {} ELSE Under[Head(rs.roots)] \cap present]

\* After mark_started the walk begins, after mark_completed the call returns.
AfterMark(rs) ==
  IF rs.pc \in {"opened", "starting"} THEN EnterRoot([rs EXCEPT !.pc = "walking"])
  ELSE [rs EXCEPT !.pc = "marked"]

BeginMark(rs) ==
  [rs EXCEPT !.pc = IF rs.pc = "opened" THEN "starting" ELSE "finishing", !.today = day]

\* mark_started and mark_completed up to the truncation of the file ...
MarkTruncate(r) ==
  /\ run[r].pc \in {"opened", "walked"}
  /\ run' = [run EXCEPT ![r] = BeginMark(@)]
  /\ stateFile' = NoState("empty")
  /\ UNCHANGED <<day, disk, config, index, staged, lock, tasks, auto, ui, used>>

\* ... the write ...
MarkWrite(r) ==
  /\ run[r].pc \in {"starting", "finishing"}
  /\ stateFile' = WriteState(stateFile, run[r].today, At(r, "finishing"))
  /\ run' = [run EXCEPT ![r] = AfterMark(@)]
  /\ UNCHANGED <<day, disk, config, index, staged, lock, tasks, auto, ui, used>>

\* ... and either failing, which the pipeline ignores (let _ = ...).
MarkFails(r) ==
  /\ run[r].pc \in {"opened", "walked", "starting", "finishing"}
  /\ Fault
  /\ run' = [run EXCEPT ![r] = AfterMark(@)]
  /\ UNCHANGED <<day, disk, config, stateFile, index, staged, lock, tasks, auto, ui>>

Skipped(p) == p \notin present \/ p \in Excluded \/ <<p, version[p]>> \in Oversized

Leave(rs, ps) == [rs EXCEPT !.left = @ \ ps, !.owed = @ \ ps]

WalkSkip(r, p) ==
  /\ At(r, "walking") /\ p \in run[r].left /\ Skipped(p)
  /\ run' = [run EXCEPT ![r] = Leave(@, {p})]
  /\ UNCHANGED <<day, disk, config, stateFile, index, staged, lock, tasks, auto, ui, used>>

\* The entry of a file or of a directory, or the metadata of a file, cannot be read:
\* the walk goes on without the files.
WalkError(r, ps) ==
  /\ At(r, "walking") /\ ps # {} /\ ps \subseteq run[r].left
  /\ Fault
  /\ run' = [run EXCEPT ![r] = Leave(@, ps)]
  /\ UNCHANGED <<day, disk, config, stateFile, index, staged, lock, tasks, auto, ui>>

Count(rs, p) == [rs EXCEPT !.scanned = @ + 1, !.visited = @ \cup {<<p, version[p]>>}]

\* Mutation: tasks numbered before the count is incremented.
NewTask_ZeroBased(r, p) ==
  [run |-> r, n |-> run[r].scanned, st |-> "queued", cur |-> 0,
   doc |-> [path |-> p, ver |-> version[p], content |-> NoContent]]

NewTask(r, p) ==
  [run |-> r, n |-> run[r].scanned + 1, st |-> "queued", cur |-> 0,
   doc |-> [path |-> p, ver |-> version[p], content |-> NoContent]]

\* A file is counted and handed to the pool with the metadata read here.
WalkVisit(r, p) ==
  /\ At(r, "walking") /\ p \in run[r].left /\ ~Skipped(p)
  /\ run' = [run EXCEPT ![r] = Count(Leave(@, {p}), p)]
  /\ tasks' = tasks \cup {NewTask(r, p)}
  /\ UNCHANGED <<day, disk, config, stateFile, index, staged, lock, auto, ui, used>>

NextRoot(rs) == EnterRoot([rs EXCEPT !.roots = Tail(rs.roots)])

WalkNextRoot(r) ==
  /\ At(r, "walking") /\ run[r].roots # <<>> /\ run[r].owed = {}
  /\ run' = [run EXCEPT ![r] = NextRoot(@)]
  /\ UNCHANGED <<day, disk, config, stateFile, index, staged, lock, tasks, auto, ui, used>>

WalkDone(r) ==
  /\ At(r, "walking") /\ run[r].roots = <<>>
  /\ run' = [run EXCEPT ![r].pc = "walked"]
  /\ ui' = onScanDone(run[r].scanned)
  /\ UNCHANGED <<day, disk, config, stateFile, index, staged, lock, tasks, auto, used>>

\* Mutation: dropping the pool discards the tasks no thread has begun.
Return_DropsQueue(r) ==
  /\ At(r, "marked")
  /\ run' = [run EXCEPT ![r].pc = "returned"]
  /\ ui' = onIndexDone(r)
  /\ tasks' = {t \in tasks : t.run # r \/ t.st # "queued"}
  /\ UNCHANGED <<day, disk, config, stateFile, index, staged, lock, auto, used>>

Return(r) ==
  /\ At(r, "marked")
  /\ run' = [run EXCEPT ![r].pc = "returned"]
  /\ ui' = onIndexDone(r)
  /\ UNCHANGED <<day, disk, config, stateFile, index, staged, lock, tasks, auto, used>>

\* Mutation: the writer goes away with the call, not with its last task.
LastReference_Call(r) == TRUE

\* Mutation: a finished task leaves a reference behind.
LastReference_Leak(r) == TasksOf(r) = {} /\ run[r].counter = 0

\* The writer is an Arc that the call and all of its tasks share; what it has not
\* committed goes with it.
LastReference(r) == TasksOf(r) = {}

WriterDropped(r) ==
  /\ At(r, "returned") /\ LastReference(r)
  /\ lock' = [lock EXCEPT ![run[r].dir] = NoRun]
  /\ staged' = [staged EXCEPT ![run[r].dir] = index[run[r].dir]]
  /\ run' = [run EXCEPT ![r].pc = "idle"]
  /\ UNCHANGED <<day, disk, config, stateFile, index, tasks, auto, ui, used>>

-----------------------------------------------------------------------------
(* The tasks of the pool                                                    *)

Becomes(t, u) == tasks' = (tasks \ {t}) \cup {u}

\* The content is read now; the metadata is that of the walk.
ContentNow(r, p) ==
  IF run[r].parse /\ p \in TextLike /\ p \in present THEN version[p] ELSE NoContent

\* Mutation: the walk reads the content and the task the metadata.
TaskBuild_Swapped(t) ==
  /\ t.st = "queued" /\ Cardinality(InFlight(t.run)) < PoolSize
  /\ Becomes(t, [t EXCEPT !.st = "built", !.doc.ver = version[t.doc.path],
                          !.doc.content = IF run[t.run].parse THEN t.doc.ver ELSE NoContent])
  /\ UNCHANGED <<day, disk, config, stateFile, index, staged, lock, run, auto, ui, used>>

TaskBuild(t) ==
  /\ t.st = "queued" /\ Cardinality(InFlight(t.run)) < PoolSize
  /\ Becomes(t, [t EXCEPT !.st = "built", !.doc.content = ContentNow(t.run, t.doc.path)])
  /\ UNCHANGED <<day, disk, config, stateFile, index, staged, lock, run, auto, ui, used>>

Upsert(ix, d) == add_document(delete_term(ix, d.path), d)

DirOf(t) == run[t.run].dir

Prepare(t, ix) == staged' = [staged EXCEPT ![DirOf(t)] = ix]

Commit(t, ix) == Prepare(t, ix) /\ index' = [index EXCEPT ![DirOf(t)] = ix]

\* delete_term, add_document and commit under the mutex of the writer.
TaskWrite(t) ==
  /\ t.st = "built"
  /\ Commit(t, Upsert(staged[DirOf(t)], t.doc))
  /\ Becomes(t, [t EXCEPT !.st = "written"])
  /\ UNCHANGED <<day, disk, config, stateFile, lock, run, auto, ui, used>>

Lose(rs, d) == [rs EXCEPT !.lost = @ \cup {<<d.path, d.ver>>}]

\* Mutation: the task returns early when the commit fails.
TaskWriteFails_EarlyReturn(t) ==
  /\ t.st = "built" /\ Fault
  /\ tasks' = tasks \ {t}
  /\ run' = [run EXCEPT ![t.run] = Lose(@, t.doc)]
  /\ UNCHANGED <<day, disk, config, stateFile, index, staged, lock, auto, ui>>

\* Errors of the three calls are ignored: either there is no commit, and the next one
\* publishes what was done before it, or the commit lacks the document.
TaskWriteFails(t) ==
  /\ t.st = "built" /\ Fault
  /\ LET now == staged[DirOf(t)]
         deleted == delete_term(now, t.doc.path) IN
       \/ /\ \E ix \in {now, deleted, Upsert(now, t.doc)} : Prepare(t, ix)
          /\ UNCHANGED index
       \/ Commit(t, deleted)
  /\ run' = [run EXCEPT ![t.run] = Lose(@, t.doc)]
  /\ Becomes(t, [t EXCEPT !.st = "written"])
  /\ UNCHANGED <<day, disk, config, stateFile, lock, auto, ui>>

TaskCount(t) ==
  /\ t.st = "written"
  /\ run' = [run EXCEPT ![t.run].counter = @ + 1]
  /\ Becomes(t, [t EXCEPT !.st = "counted", !.cur = run[t.run].counter + 1])
  /\ UNCHANGED <<day, disk, config, stateFile, index, staged, lock, auto, ui, used>>

TaskReport(t) ==
  /\ t.st = "counted"
  /\ tasks' = tasks \ {t}
  /\ ui' = onIndexProgress(t.cur)
  /\ UNCHANGED <<day, disk, config, stateFile, index, staged, lock, run, auto, used>>

TaskStep(t) ==
  TaskBuild(t) \/ TaskWrite(t) \/ TaskWriteFails(t) \/ TaskCount(t) \/ TaskReport(t)

RunStep(r) ==
  \/ OpenWriter(r) \/ OpenFails(r)
  \/ MarkTruncate(r) \/ MarkWrite(r) \/ MarkFails(r)
  \/ \E p \in Path : WalkSkip(r, p) \/ WalkVisit(r, p)
  \/ \E ps \in SUBSET Path : WalkError(r, ps)
  \/ WalkNextRoot(r) \/ WalkDone(r) \/ Return(r) \/ WriterDropped(r)

-----------------------------------------------------------------------------
(* The daily thread of main.rs                                              *)

AutoReadConfig ==
  /\ auto.pc = "config"
  /\ auto' = [auto EXCEPT !.pc = "state", !.cfg = config]
  /\ UNCHANGED <<day, disk, config, stateFile, index, staged, lock, run, tasks, ui, used>>

\* The configuration cannot be read: sleep for a minute.
AutoConfigFails ==
  /\ auto.pc = "config" /\ Fault
  /\ UNCHANGED <<day, disk, config, stateFile, index, staged, lock, run, tasks, auto, ui>>

\* Mutation: an unfinished scan counts as the scan of its day.
need_run_DayOnly(st, today) == st.last_day # today

need_run(st, today) == ~st.completed \/ st.last_day # today

AutoLoadState ==
  /\ auto.pc = "state"
  /\ auto' = [auto EXCEPT !.pc = "decide", !.need = /\ auto.cfg.auto_scan_enabled
                                                   /\ need_run(load_state(stateFile), day)]
  /\ UNCHANGED <<day, disk, config, stateFile, index, staged, lock, run, tasks, ui, used>>

\* A run is needed and the CPU is idle.
AutoSpawn(r) ==
  /\ auto.pc = "decide" /\ auto.need
  /\ Start(r, auto.cfg.index_dir, auto.cfg.scan_roots, FALSE)
  /\ auto' = [auto EXCEPT !.pc = "config"]
  /\ UNCHANGED <<day, disk, config, stateFile, index, staged, lock, tasks, ui, used>>

\* No run is needed, or the CPU is busy: sleep for a minute.
AutoSleep ==
  /\ auto.pc = "decide"
  /\ auto' = [auto EXCEPT !.pc = "config"]
  /\ UNCHANGED <<day, disk, config, stateFile, index, staged, lock, run, tasks, ui, used>>

-----------------------------------------------------------------------------
(* The user and the machine                                                 *)

Click == used.clicks < MaxClicks /\ used' = [used EXCEPT !.clicks = @ + 1]

\* The buttons are disabled while the page is busy.
doScanAndIndex(r, d, roots, parse) ==
  /\ ~ui.busy /\ Click
  /\ Start(r, d, roots, parse)
  /\ ui' = [busy |-> TRUE, waiting |-> ui.waiting \cup {r}, current |-> 0, total |-> 0,
            running |-> TRUE]
  /\ UNCHANGED <<day, disk, config, stateFile, index, staged, lock, tasks, auto>>

\* safeInvoke gives up after its timeout; the backend goes on.
InvokeTimeout(r) ==
  /\ Waiting(r)
  /\ ui' = onRejected(r)
  /\ UNCHANGED <<day, disk, config, stateFile, index, staged, lock, run, tasks, auto, used>>

\* The finally block of another operation of the page, a search as the user types for
\* one, clears the flag they share.
OtherEnds ==
  /\ ui.busy
  /\ ui' = [ui EXCEPT !.busy = FALSE]
  /\ UNCHANGED <<day, disk, config, stateFile, index, staged, lock, run, tasks, auto, used>>

start_auto_scan_now(r) ==
  /\ Click
  /\ Start(r, config.index_dir, config.scan_roots, FALSE)
  /\ UNCHANGED <<day, disk, config, stateFile, index, staged, lock, tasks, auto, ui>>

write_config(c) ==
  /\ Click
  /\ config' = c
  /\ UNCHANGED <<day, disk, stateFile, index, staged, lock, run, tasks, auto, ui>>

Edit == used.edits < MaxEdits /\ used' = [used EXCEPT !.edits = @ + 1]

FileWritten(p) ==
  /\ Edit /\ version[p] + 1 \in Version
  /\ version' = [version EXCEPT ![p] = @ + 1]
  /\ present' = present \cup {p}
  /\ UNCHANGED <<day, config, stateFile, index, staged, lock, run, tasks, auto, ui>>

FileRemoved(p) ==
  /\ Edit /\ p \in present
  /\ present' = present \ {p}
  /\ UNCHANGED <<day, version, config, stateFile, index, staged, lock, run, tasks, auto, ui>>

Midnight ==
  /\ day < MaxDay
  /\ day' = day + 1
  /\ UNCHANGED <<disk, config, stateFile, index, staged, lock, run, tasks, auto, ui, used>>

NewAuto(cfg) == [pc |-> "config", cfg |-> cfg, need |-> FALSE]

NewUI == [busy |-> FALSE, waiting |-> {}, current |-> 0, total |-> 0, running |-> FALSE]

\* The process dies and is started again.  Commits are atomic and the lock
\* file's lock dies with the process; everything else in memory is gone.
Crash ==
  /\ used.crashes < MaxCrashes
  /\ used' = [used EXCEPT !.crashes = @ + 1]
  /\ staged' = index
  /\ lock' = [d \in Dir |-> NoRun]
  /\ run' = [r \in Run |-> IdleRun]
  /\ tasks' = {}
  /\ auto' = NewAuto(config)
  /\ ui' = NewUI
  /\ UNCHANGED <<day, disk, config, stateFile, index>>

-----------------------------------------------------------------------------

Init ==
  /\ day = 1
  /\ version = [p \in Path |-> 1]
  /\ present \in SUBSET Path
  /\ config \in Config
  /\ stateFile = NoState("absent")
  /\ index = [d \in Dir |-> EmptyIndex] /\ staged = index
  /\ lock = [d \in Dir |-> NoRun]
  /\ run = [r \in Run |-> IdleRun]
  /\ tasks = {}
  /\ auto = NewAuto(config)
  /\ ui = NewUI
  /\ used = [edits |-> 0, crashes |-> 0, faults |-> 0, clicks |-> 0]

DailyThread ==
  \/ AutoReadConfig \/ AutoConfigFails \/ AutoLoadState \/ AutoSleep
  \/ \E r \in Run : AutoSpawn(r)

\* The roots typed into the index page are those of some configuration.
User ==
  \/ \E r \in Run, c \in Config, parse \in Parse :
       doScanAndIndex(r, c.index_dir, c.scan_roots, parse)
  \/ \E r \in Run : start_auto_scan_now(r)
  \/ \E c \in Config : write_config(c)
  \/ \E p \in Path : FileWritten(p) \/ FileRemoved(p)
  \/ \E r \in Run : InvokeTimeout(r)
  \/ OtherEnds

Next ==
  \/ \E r \in Run : RunStep(r)
  \/ \E t \in tasks : TaskStep(t)
  \/ DailyThread \/ User \/ Midnight \/ Crash

Spec == Init /\ [][Next]_vars

\* Each call is polled, each pool has a thread that is scheduled, the daily
\* thread wakes up, and it finds the CPU idle again and again: the last is an
\* assumption on the machine that main.rs makes ("while the system is idle").
PoolFairness == \A r \in Run :
  /\ WF_vars(RunStep(r))
  /\ WF_vars(\E t \in tasks : t.run = r /\ TaskStep(t))

AutoFairness ==
  /\ WF_vars(AutoReadConfig) /\ WF_vars(AutoLoadState) /\ WF_vars(AutoSleep)
  /\ SF_vars(\E r \in Run : AutoSpawn(r))

FairSpec == Spec /\ PoolFairness /\ AutoFairness

-----------------------------------------------------------------------------
(* Properties                                                               *)

\* Every variable has its type.
TypeOK ==
  /\ day \in Day
  /\ version \in [Path -> Version] /\ present \subseteq Path
  /\ config \in Config
  /\ stateFile \in StateFile
  /\ index \in [Dir -> Index] /\ staged \in [Dir -> Index]
  /\ lock \in [Dir -> Run \cup {NoRun}]
  /\ run \in [Run -> RunState]
  /\ tasks \subseteq Task
  /\ auto \in [pc : {"config", "state", "decide"}, cfg : Config, need : BOOLEAN]
  /\ ui \in [busy : BOOLEAN, waiting : SUBSET Run, current : Nat, total : Nat, running : BOOLEAN]
  /\ used \in [edits : Nat, crashes : Nat, faults : Nat, clicks : Nat]

Active(r) == run[r].pc \notin {"idle", "spawned"}

\* "Use a single writer" (pipeline.rs:62): from its opening until its last task
\* is done, long after it returned, a call holds the writer lock of its index
\* directory, so no two calls, nor tasks they left behind, write to one index.
WriterExclusive ==
  /\ \A r \in Run : Active(r) => lock[run[r].dir] = r
  /\ \A t \in tasks : Active(t.run)

Pending(r, p, v) == \E t \in TasksOf(r) :
  t.doc.path = p /\ t.doc.ver = v /\ t.st \in {"queued", "built"}

Indexed(d, p, v) == \E doc \in Live(index[d]) : doc.path = p /\ doc.ver = v

\* A file the walk counted is never forgotten, also after the call returned:
\* it waits in the pool, or its document is in the index, or its commit failed.
\* (Unless some path is a bare word, whose upsert deletes other documents.)
NoVisitLost ==
  NoBareWord =>
    \A r \in Run : \A pv \in run[r].visited :
      \/ Pending(r, pv[1], pv[2])
      \/ Indexed(run[r].dir, pv[1], pv[2])
      \/ pv \in run[r].lost

\* Every counted file is reported exactly once: the counter behind index_progress
\* accounts for all the files the walk counted except those still in the pool.
ProgressAccounted ==
  \A r \in Run : Active(r) =>
    run[r].counter + Cardinality({t \in TasksOf(r) : t.st # "counted"}) = run[r].scanned

\* The content of a document is read after its size and time, so a document
\* never shows new metadata with text from before that change.
ContentNotOlder ==
  \A d \in Dir : \A doc \in Live(index[d]) :
    doc.content # NoContent => doc.content >= doc.ver

Walking(r) == run[r].pc \in {"walking", "walked"}

\* As long as one index directory is in use and no write fails, scan_state.json
\* never says that the scan of the day is complete while one is walking, and
\* two writes never garble it, crashes included.
StateFileFaithful ==
  ((\A d, e \in Dir : d = e) /\ used.faults = 0) =>
    /\ stateFile.kind # "garbage"
    /\ \A r \in Run : Walking(r) => stateFile.kind = "valid" /\ ~stateFile.completed

\* A file that a search can find in an index directory can be found there for
\* good: neither its own upserts nor those of other files, which delete before they
\* add, take its last document away, whatever commits fail and calls are cut off.
SearchableStays ==
  [][NoBareWord =>
       \A d \in Dir, p \in Path :
         (\E doc \in Live(index[d]) : doc.path = p) => \E doc \in Live(index'[d]) : doc.path = p]_vars

\* The writer of an index directory is always given back.
WriterReleased == \A d \in Dir : lock[d] # NoRun ~> lock[d] = NoRun

\* The window never waits forever for a call it has made: its buttons are always
\* enabled again.
PromiseSettles == ui.busy ~> ~ui.busy

\* An enabled daily scan is recorded as complete for the current day again and
\* again, whatever a crash or a user has left in the state file.  (Not forever:
\* a scan spawned for a state read earlier may open a completed day again.)
DailyScanRecorded ==
  []<>(config.auto_scan_enabled =>
         load_state(stateFile) = [last_day |-> day, completed |-> TRUE])

\* As long as the process lives, no write fails, no file changes, and one list
\* of roots and one directory are configured: a scan recorded as complete that
\* nothing works on any more has left no file under its roots out of the index.
\* (A crash between mark_completed and the last task does leave some out.)
CompletedMeansIndexed ==
  (/\ stateFile.completed /\ used.edits = 0 /\ used.faults = 0 /\ used.crashes = 0
   /\ \A c \in Config : c.index_dir = config.index_dir /\ c.scan_roots = config.scan_roots
   /\ \A r \in Run : At(r, "idle")) =>
    \A i \in DOMAIN config.scan_roots : \A p \in Under[config.scan_roots[i]] :
      Skipped(p) \/ Indexed(config.index_dir, p, version[p])

-----------------------------------------------------------------------------
(* What comments, messages and documents say, and the code does not do      *)

\* "索引构建完成" (App.tsx:110): when a call has announced index_done, the files
\* it has counted are indexed, or their commit has failed.
IndexedWhenDone ==
  \A r \in Run : At(r, "returned") => \A pv \in run[r].visited : ~Pending(r, pv[1], pv[2])

\* "确保去重" (pipeline.rs:120): deleting before writing keeps one document of a path.
NoDuplicateDocs ==
  \A d \in Dir : \A x, y \in Live(index[d]) : x.path = y.path => x = y /\ index[d][x] = 1

=============================================================================
