--------------------------- MODULE PromiseProofs ---------------------------
(***************************************************************************)
(* The pipeline implements IndexPromise, for all calls, paths, directories *)
(* and bounds.  A step of a task or a call is a step of IndexPromise only  *)
(* in states where the call owns its directory and its writer lacks no     *)
(* committed document, so the proof rests on the inductive invariants      *)
(* Writers and Stock of PipelineProofs.  The second part shows what the    *)
(* state file may be believed for: a scan it calls complete has indexed    *)
(* its files.                                                              *)
(***************************************************************************)
EXTENDS PipelinePromise, PipelineProofs

DueOf == [r \in Run |-> Due(r)]
FoundOf == [d \in Dir |-> FoundIn(d)]
HeldOf == [d \in Dir |-> HeldIn(d)]

\* The files of the documents of an index.
Paths(ix) == {doc.path : doc \in Live(ix)}

\* Nothing is due and nothing is found at the start.
LEMMA InitPromise == Init => Promise!Init
<1> SUFFICES ASSUME Init PROVE Promise!Init
  OBVIOUS
<1>1. \A r \in Run : Due(r) = {}
  BY DEF Init, Due
<1>2. \A d \in Dir : FoundIn(d) = {}
  BY DEF Init, FoundIn, Live, EmptyIndex
<1>3. \A d \in Dir : HeldIn(d) = {}
  BY DEF Init, HeldIn, FoundIn, Live, EmptyIndex
<1> QED
  BY <1>1, <1>2, <1>3 DEF Init, Promise!Init

\* A step that changes neither locks, nor tasks, nor documents changes nothing of the promise.
LEMMA QuietStep == ASSUME UNCHANGED <<lock, tasks, index, staged>> PROVE UNCHANGED Promise!vars
BY DEF Promise!vars, Due, FoundIn, HeldIn, Live

\* Documents that stay where they are are found as before.
LEMMA SameFound == ASSUME UNCHANGED index PROVE FoundOf' = FoundOf
BY DEF FoundOf, FoundIn, Live

\* So are the documents that wait for a commit.
LEMMA SameHeld == ASSUME UNCHANGED <<index, staged>> PROVE HeldOf' = HeldOf
BY DEF HeldOf, HeldIn, FoundIn, Live

\* Tasks that stay where they are leave the same files due.
LEMMA SameDue == ASSUME UNCHANGED tasks PROVE DueOf' = DueOf
BY DEF DueOf, Due

\* Whether the file of a task is due.
Owed(t) == t.st \in {"queued", "built"}

\* A task that is replaced by one of the same file and call leaves everything due
\* that was due, when both are or neither is.
LEMMA TaskMoves ==
  ASSUME TypeOK, NEW t \in tasks, NEW u, Becomes(t, u), u.run = t.run, u.doc.path = t.doc.path,
         Owed(u) <=> Owed(t)
  PROVE  DueOf' = DueOf
<1>1. ASSUME NEW r \in Run PROVE Due(r)' = Due(r)
  BY DEF Due, Becomes, Owed
<1> QED
  BY <1>1 DEF DueOf

\* A task whose commit is over settles its file, once.
LEMMA TaskSettles ==
  ASSUME TypeOK, NEW t \in tasks, NEW u, Becomes(t, u), u.run = t.run, Owed(t), ~Owed(u)
  PROVE  /\ t.doc.path \in DueOf[t.run]
         /\ DueOf' \in {DueOf, [DueOf EXCEPT ![t.run] = @ \ {t.doc.path}]}
<1>t. t.run \in Run
  BY DEF TypeOK, Task
<1>1. \A r \in Run : r # t.run => Due(r)' = Due(r)
  BY DEF Due, Becomes, Owed
<1>2. t.doc.path \in Due(t.run)
  BY DEF Due, Owed
<1>3. Due(t.run)' \in {Due(t.run), Due(t.run) \ {t.doc.path}}
  <2>1. Due(t.run)' \subseteq Due(t.run)
    BY DEF Due, Becomes, Owed
  <2>2. Due(t.run) \subseteq Due(t.run)' \cup {t.doc.path}
    BY DEF Due, Becomes, Owed
  <2> QED
    BY <2>1, <2>2
<1> QED
  BY <1>t, <1>1, <1>2, <1>3 DEF DueOf

\* What a directory has found and what it holds back, in terms of its two indexes.
LEMMA FoundPaths ==
  \A d \in Dir : FoundIn(d) = Paths(index[d]) /\ HeldIn(d) = Paths(staged[d]) \ Paths(index[d])
BY ZenonT(40) DEF FoundIn, HeldIn, Paths

LEMMA FoundPathsNext ==
  \A d \in Dir : FoundIn(d)' = Paths(index'[d]) /\ HeldIn(d)' = Paths(staged'[d]) \ Paths(index'[d])
BY ZenonT(40) DEF FoundIn, HeldIn, Paths, Live

\* A writer lacks no file that is found in its directory.
LEMMA StoreCovers ==
  ASSUME TypeOK, Stocked, NEW d \in Dir
  PROVE  Paths(index[d]) \subseteq Paths(staged[d])
<1>1. \A e \in Doc : index[d][e] \in Nat /\ staged[d][e] \in Nat
  BY SMTT(40), TextIndexAssumption DEF TypeOK, Index
<1>2. \A e \in Doc : index[d][e] > 0 => staged[d][e] > 0
  BY SMTT(40), <1>1 DEF Stocked
<1> QED
  BY ZenonT(40), <1>2 DEF Paths, Live

\* An upsert adds its path and no other.
LEMMA UpsertPaths ==
  ASSUME NoBareWord, NEW ix \in Index, NEW doc \in Doc
  PROVE  Paths(Upsert(ix, doc)) = Paths(ix) \cup {doc.path}
<1>1. Upsert(ix, doc) = add_document(ix, doc)
  BY ZenonT(40), UpsertGrows DEF Upsert
<1>2. Live(add_document(ix, doc)) = Live(ix) \cup {doc}
  <2>1. ix \in [Doc -> 0 .. MaxCopies] /\ MaxCopies \in Nat \ {0}
    BY TextIndexAssumption DEF Index
  <2> QED
    BY <2>1 DEF Live, add_document
<1>3. Live(Upsert(ix, doc)) = Live(ix) \cup {doc}
  BY ZenonT(40), <1>1, <1>2
<1> QED
  BY <1>3 DEF Paths

\* A commit makes findable what its directory held back.
LEMMA CommitPublishes ==
  ASSUME TypeOK, Stocked, NEW d \in Dir, NEW ix, NEW ps, Paths(ix) = Paths(staged[d]) \cup ps,
         staged' = [staged EXCEPT ![d] = ix], index' = [index EXCEPT ![d] = ix]
  PROVE  /\ FoundOf' = [FoundOf EXCEPT ![d] = @ \cup HeldOf[d] \cup ps]
         /\ HeldOf' = [HeldOf EXCEPT ![d] = {}]
<1>i. index \in [Dir -> Index] /\ staged \in [Dir -> Index]
  BY ZenonT(40) DEF TypeOK
<1>1. index'[d] = ix /\ staged'[d] = ix
  BY ZenonT(40), <1>i
<1>2. Paths(index[d]) \subseteq Paths(staged[d])
  BY StoreCovers
<1>3. FoundIn(d)' = FoundIn(d) \cup HeldIn(d) \cup ps /\ HeldIn(d)' = {}
  BY ZenonT(40), <1>1, <1>2, FoundPaths, FoundPathsNext
<1>4. \A e \in Dir : e # d => FoundIn(e)' = FoundIn(e) /\ HeldIn(e)' = HeldIn(e)
  BY ZenonT(40), <1>i, FoundPaths, FoundPathsNext
<1> QED
  BY <1>3, <1>4 DEF FoundOf, HeldOf

\* What is done without a commit is held back.
LEMMA StoreHolds ==
  ASSUME TypeOK, NEW d \in Dir, NEW ix, NEW ps, Paths(ix) = Paths(staged[d]) \cup ps,
         staged' = [staged EXCEPT ![d] = ix], UNCHANGED index
  PROVE  HeldOf' = [HeldOf EXCEPT ![d] = @ \cup (ps \ FoundOf[d])]
<1>i. staged \in [Dir -> Index]
  BY ZenonT(40) DEF TypeOK
<1>1. staged'[d] = ix
  BY ZenonT(40), <1>i
<1>2. HeldIn(d)' = HeldIn(d) \cup (ps \ FoundIn(d))
  <2>1. FoundIn(d) = Paths(index[d]) /\ HeldIn(d) = Paths(staged[d]) \ Paths(index[d])
    BY ZenonT(40), FoundPaths
  <2>2. HeldIn(d)' = Paths(ix) \ Paths(index[d])
    BY ZenonT(40), <1>1, FoundPathsNext
  <2> QED
    BY <2>1, <2>2
<1>3. \A e \in Dir : e # d => HeldIn(e)' = HeldIn(e)
  BY ZenonT(40), <1>i, FoundPaths, FoundPathsNext
<1> QED
  BY <1>2, <1>3 DEF HeldOf, FoundOf

\* A writer that is dropped takes what it held back with it.
LEMMA DropForgets ==
  ASSUME TypeOK, NEW d \in Dir, staged' = [staged EXCEPT ![d] = index[d]], UNCHANGED index
  PROVE  HeldOf' = [HeldOf EXCEPT ![d] = {}]
<1>i. staged \in [Dir -> Index]
  BY ZenonT(40) DEF TypeOK
<1>1. HeldIn(d)' = {}
  BY ZenonT(40), <1>i, FoundPathsNext
<1>2. \A e \in Dir : e # d => HeldIn(e)' = HeldIn(e)
  BY ZenonT(40), <1>i, FoundPaths, FoundPathsNext
<1> QED
  BY <1>1, <1>2 DEF HeldOf

-----------------------------------------------------------------------------
(* The steps                                                                *)

\* What a step of the pool does to the promise.
LEMMA TaskStepPromise ==
  ASSUME Writers, Stocked, NoBareWord, NEW t \in tasks, TaskStep(t)
  PROVE  [Promise!Next]_(Promise!vars)
<1> DEFINE r == t.run
           d == run[r].dir
           p == t.doc.path
           w == [t EXCEPT !.st = "written"]
<1>t. t \in Task /\ r \in Run /\ d \in Dir /\ t.doc \in Doc /\ p \in Path /\ TypeOK
  BY DEF Writers, TypeOK, Task, RunState, Doc
<1>o. lock[d] = r
  BY <1>t DEF Writers, WriterExclusive
<1>w. w.run = r /\ ~Owed(w)
  BY <1>t DEF Task, Owed
<1>1. CASE TaskBuild(t)
  <2> DEFINE u == [t EXCEPT !.st = "built", !.doc.content = ContentNow(t.run, t.doc.path)]
  <2>1. u.run = r /\ u.doc.path = p /\ Owed(u) /\ Owed(t)
    BY <1>1, <1>t DEF TaskBuild, Task, Doc, Owed
  <2>2. DueOf' = DueOf
    BY <1>1, <1>t, <2>1, TaskMoves DEF TaskBuild
  <2>3. UNCHANGED <<lock, index, staged>>
    BY <1>1 DEF TaskBuild
  <2> QED
    BY <2>2, <2>3, SameFound, SameHeld DEF Promise!vars, DueOf, FoundOf, HeldOf
<1>2. CASE TaskWrite(t)
  <2>1. /\ p \in DueOf[r]
        /\ DueOf' \in {DueOf, [DueOf EXCEPT ![r] = @ \ {p}]}
    BY <1>2, <1>t, <1>w, TaskSettles DEF TaskWrite, Owed
  <2>2. /\ FoundOf' = [FoundOf EXCEPT ![d] = @ \cup HeldOf[d] \cup {p}]
        /\ HeldOf' = [HeldOf EXCEPT ![d] = {}]
    <3>1. PICK ix : ix = Upsert(staged[d], t.doc)
      OBVIOUS
    <3>2. Paths(ix) = Paths(staged[d]) \cup {p}
      BY ZenonT(40), <1>t, <3>1, UpsertPaths DEF TypeOK
    <3>3. staged' = [staged EXCEPT ![d] = ix] /\ index' = [index EXCEPT ![d] = ix]
      BY ZenonT(40), <1>2, <3>1 DEF TaskWrite, Commit, Prepare, DirOf
    <3> HIDE DEF d, p
    <3> QED
      BY ZenonT(40), <1>t, <3>2, <3>3, CommitPublishes
  <2>3. UNCHANGED lock
    BY <1>2 DEF TaskWrite
  <2>4. Promise!Publish(r, d, p)
    BY <1>o, <2>1, <2>2, <2>3 DEF Promise!Publish, Promise!Publishes, Promise!Settled, DueOf, FoundOf, HeldOf
  <2> QED
    BY <1>t, <2>4 DEF Promise!Next
<1>3. CASE TaskWriteFails(t)
  <2>1. /\ p \in DueOf[r]
        /\ DueOf' \in {DueOf, [DueOf EXCEPT ![r] = @ \ {p}]}
    BY <1>3, <1>t, <1>w, TaskSettles DEF TaskWriteFails, Owed
  <2>2. UNCHANGED lock
    BY <1>3 DEF TaskWriteFails
  <2>3. PICK now \in Index : now = staged[d]
    BY ZenonT(40), <1>t DEF TypeOK
  <2>4. delete_term(now, p) = now
    BY ZenonT(40), <1>t, UpsertGrows
  <2>5. \/ \E ix \in {now, Upsert(now, t.doc)} : staged' = [staged EXCEPT ![d] = ix] /\ UNCHANGED index
        \/ staged' = [staged EXCEPT ![d] = now] /\ index' = [index EXCEPT ![d] = now]
    BY ZenonT(40), <1>3, <2>3, <2>4 DEF TaskWriteFails, Commit, Prepare, DirOf
  <2>6. CASE \E ix \in {now, Upsert(now, t.doc)} : staged' = [staged EXCEPT ![d] = ix] /\ UNCHANGED index
    <3>1. PICK ix \in {now, Upsert(now, t.doc)} : staged' = [staged EXCEPT ![d] = ix] /\ UNCHANGED index
      BY <2>6
    <3>2. PICK ps \in {{}, {p}} : Paths(ix) = Paths(staged[d]) \cup ps
      <4>1. Paths(now) = Paths(staged[d]) \cup {}
        BY ZenonT(40), <2>3
      <4>2. Paths(Upsert(now, t.doc)) = Paths(staged[d]) \cup {p}
        BY ZenonT(40), <1>t, <2>3, UpsertPaths
      <4> QED
        BY ZenonT(40), <3>1, <4>1, <4>2
    <3>3. HeldOf' = [HeldOf EXCEPT ![d] = @ \cup (ps \ FoundOf[d])] /\ FoundOf' = FoundOf
      <4> HIDE DEF d, p
      <4> QED
        BY ZenonT(40), <1>t, <3>1, <3>2, StoreHolds, SameFound
    <3>4. HeldOf' \in {HeldOf, [HeldOf EXCEPT ![d] = @ \cup ({p} \ FoundOf[d])]}
      <4>1. [HeldOf EXCEPT ![d] = @ \cup ({} \ FoundOf[d])] = HeldOf
        BY DEF HeldOf
      <4>2. ps = {} \/ ps = {p}
        BY <3>2
      <4> QED
        BY ZenonT(40), <3>3, <4>1, <4>2
    <3>5. Promise!GiveUp(r, d, p)
      BY <1>o, <2>1, <2>2, <3>3, <3>4 DEF Promise!GiveUp, Promise!Settled, DueOf, FoundOf, HeldOf
    <3> QED
      BY <1>t, <3>5 DEF Promise!Next
  <2>7. CASE staged' = [staged EXCEPT ![d] = now] /\ index' = [index EXCEPT ![d] = now]
    <3>1. Paths(now) = Paths(staged[d]) \cup {}
      BY ZenonT(40), <2>3
    <3>2. /\ FoundOf' = [FoundOf EXCEPT ![d] = @ \cup HeldOf[d] \cup {}]
          /\ HeldOf' = [HeldOf EXCEPT ![d] = {}]
      <4> HIDE DEF d
      <4> QED
        BY ZenonT(40), <1>t, <2>7, <3>1, CommitPublishes
    <3>3. Promise!GiveUp(r, d, p)
      BY <1>o, <2>1, <2>2, <3>2 DEF Promise!GiveUp, Promise!Publishes, Promise!Settled, DueOf, FoundOf, HeldOf
    <3> QED
      BY <1>t, <3>3 DEF Promise!Next
  <2> QED
    BY <2>5, <2>6, <2>7
<1>4. CASE TaskCount(t)
  <2> DEFINE u == [t EXCEPT !.st = "counted", !.cur = run[t.run].counter + 1]
  <2>1. u.run = r /\ u.doc.path = p /\ ~Owed(u) /\ ~Owed(t)
    BY <1>4, <1>t DEF TaskCount, Task, Doc, Owed
  <2>2. DueOf' = DueOf
    BY <1>4, <1>t, <2>1, TaskMoves DEF TaskCount
  <2>3. UNCHANGED <<lock, index, staged>>
    BY <1>4 DEF TaskCount
  <2> QED
    BY <2>2, <2>3, SameFound, SameHeld DEF Promise!vars, DueOf, FoundOf, HeldOf
<1>5. CASE TaskReport(t)
  <2>1. DueOf' = DueOf
    <3>1. ~Owed(t) /\ tasks' = tasks \ {t}
      BY <1>5 DEF TaskReport, Owed
    <3>2. ASSUME NEW s \in Run PROVE Due(s)' = Due(s)
      BY <3>1 DEF Due, Owed
    <3> QED
      BY <3>2 DEF DueOf
  <2>2. UNCHANGED <<lock, index, staged>>
    BY <1>5 DEF TaskReport
  <2> QED
    BY <2>1, <2>2, SameFound, SameHeld DEF Promise!vars, DueOf, FoundOf, HeldOf
<1> QED
  BY <1>1, <1>2, <1>3, <1>4, <1>5 DEF TaskStep

\* What a step of a call does to the promise.
LEMMA RunStepPromise ==
  ASSUME Writers, NEW r \in Run, RunStep(r)
  PROVE  [Promise!Next]_(Promise!vars)
<1> DEFINE d == run[r].dir
<1>t. d \in Dir /\ TypeOK
  BY DEF Writers, TypeOK, RunState
<1>o. Active(r) => lock[d] = r
  BY DEF Writers, WriterExclusive
<1>1. CASE OpenWriter(r)
  <2>1. Due(r) = {}
    BY <1>1 DEF OpenWriter, At, Writers, WriterExclusive, Active, Due
  <2>2. DueOf' = DueOf /\ FoundOf' = FoundOf /\ HeldOf' = HeldOf
    BY <1>1, SameDue, SameFound, SameHeld DEF OpenWriter
  <2>3. Promise!Acquire(r, d)
    BY <1>1, <2>1, <2>2 DEF OpenWriter, WriterFree, Promise!Acquire, DueOf, FoundOf, HeldOf
  <2> QED
    BY <1>t, <2>3 DEF Promise!Next
<1>2. ASSUME NEW p \in Path, WalkVisit(r, p) PROVE [Promise!Next]_(Promise!vars)
  <2>1. DueOf' = [DueOf EXCEPT ![r] = @ \cup {p}]
    <3> DEFINE n == NewTask(r, p)
    <3>1. n.run = r /\ n.doc.path = p /\ n.st = "queued" /\ tasks' = tasks \cup {n}
      BY <1>2 DEF NewTask, WalkVisit
    <3> HIDE DEF n
    <3>2. Due(r)' = Due(r) \cup {p}
      BY <3>1 DEF Due
    <3>3. \A s \in Run : s # r => Due(s)' = Due(s)
      BY <3>1 DEF Due
    <3> QED
      BY <3>2, <3>3 DEF DueOf
  <2>2. lock[d] = r /\ UNCHANGED <<lock, index, staged>>
    BY <1>2, <1>o DEF WalkVisit, At, Active
  <2>3. Promise!Undertake(r, d, p)
    BY <2>1, <2>2, SameFound, SameHeld DEF Promise!Undertake, DueOf, FoundOf, HeldOf
  <2> QED
    BY <1>t, <2>3 DEF Promise!Next
<1>3. CASE WriterDropped(r)
  <2>1. Due(r) = {}
    BY <1>3 DEF WriterDropped, LastReference, TasksOf, Due
  <2>2. DueOf' = DueOf /\ FoundOf' = FoundOf
    BY <1>3, SameDue, SameFound DEF WriterDropped
  <2>h. HeldOf' = [HeldOf EXCEPT ![d] = {}]
    BY ZenonT(40), <1>3, <1>t, DropForgets DEF WriterDropped
  <2>3. lock[d] = r
    BY <1>3, <1>o DEF WriterDropped, At, Active
  <2>4. Promise!Release(r, d)
    BY <1>3, <2>1, <2>2, <2>h, <2>3 DEF WriterDropped, Promise!Release, DueOf, FoundOf, HeldOf
  <2> QED
    BY <1>t, <2>4 DEF Promise!Next
<1> QED
  BY <1>1, <1>2, <1>3, QuietStep DEF RunStep, OpenFails, MarkTruncate, MarkWrite, MarkFails,
     WalkSkip, WalkError, WalkNextRoot, WalkDone, Return

\* A crash is the restart of IndexPromise.
LEMMA CrashPromise == ASSUME Crash PROVE Promise!Restart
<1>1. \A r \in Run : Due(r)' = {}
  BY DEF Crash, Due
<1>2. FoundOf' = FoundOf
  BY SameFound DEF Crash
<1>3. \A d \in Dir : HeldIn(d)' = {}
  BY ZenonT(40), FoundPathsNext DEF Crash
<1> QED
  BY <1>1, <1>2, <1>3 DEF Crash, Promise!Restart, FoundOf

\* Every step of the pipeline is one of IndexPromise or leaves it as it is.
LEMMA NextPromise == ASSUME Writers, Stocked, NoBareWord, [Next]_vars PROVE [Promise!Next]_(Promise!vars)
<1>1. ASSUME DailyThread \/ User \/ Midnight \/ UNCHANGED vars PROVE UNCHANGED <<lock, tasks, index, staged>>
  BY <1>1 DEF DailyThread, AutoReadConfig, AutoConfigFails, AutoLoadState, AutoSleep, AutoSpawn, User, doScanAndIndex,
     start_auto_scan_now, write_config, FileWritten, FileRemoved, InvokeTimeout, OtherEnds, Midnight, vars
<1>2. CASE Crash
  BY <1>2, CrashPromise DEF Promise!Next
<1> QED
  BY <1>1, <1>2, QuietStep, RunStepPromise, TaskStepPromise DEF Next

\* The pipeline implements IndexPromise, unless some path is a bare word: writing is
\* for the owner of a directory, giving it back for one who has settled every file
\* it counted, and what a search finds it finds for good.
THEOREM PipelineImplementsPromise == NoBareWord => (Spec => PipelineKeepsPromise)
<1> SUFFICES ASSUME NoBareWord PROVE Spec => PipelineKeepsPromise
  OBVIOUS
<1>1. Init => Writers
  BY InitType, IdleRunType DEF Init, Writers, WriterExclusive, Active, IdleRun
<1>2. Writers /\ Stock /\ [Next]_vars => [Promise!Next]_(Promise!vars)
  BY NextPromise DEF Stock
<1> QED
  BY <1>1, <1>2, InitPromise, NextWriters, StockAlways, PTL DEF Spec, PipelineKeepsPromise, Promise!Spec

-----------------------------------------------------------------------------
(* A completed scan has indexed its files                                   *)

\* The files below a list of roots, and those below the roots after the first.
Below(roots) == UNION {Under[roots[i]] : i \in DOMAIN roots}
Rest(roots) == IF roots = <<>> THEN {} ELSE Below(Tail(roots))

\* All configurations name the same roots and the same index directory.
OneConfig == \A c, e \in Config : c.index_dir = e.index_dir /\ c.scan_roots = e.scan_roots

\* No file was changed, nothing has failed and the process has not died.
Calm == used.edits = 0 /\ used.faults = 0 /\ used.crashes = 0

Seen(r, p) == Skipped(p) \/ <<p, version[p]>> \in run[r].visited

\* A walk has seen every file of its roots, except what is left of the current root and
\* the files of the roots that follow; when it is over it has seen them all.
WalkOwes(r) ==
  /\ \A p \in Below(config.scan_roots) : Seen(r, p) \/ p \in run[r].owed \cup Rest(run[r].roots)
  /\ run[r].roots = <<>> => run[r].owed = {}

SeenAll(r) == \A p \in Below(config.scan_roots) : Seen(r, p)

OnCourse(r) ==
  /\ run[r].lost = {}
  /\ ~At(r, "idle") => run[r].dir = config.index_dir
  /\ run[r].pc \in {"spawned", "opened", "starting"} => run[r].roots = config.scan_roots
  /\ At(r, "walking") => WalkOwes(r)
  /\ run[r].pc \in {"walked", "finishing", "marked", "returned"} => SeenAll(r)

AllIndexed ==
  \A p \in Below(config.scan_roots) : Skipped(p) \/ Indexed(config.index_dir, p, version[p])

\* A call that has recorded its scan as complete and whose tasks are not over.
Recorded(r) == run[r].pc \in {"marked", "returned"}

CalmDay ==
  Calm => /\ \A r \in Run : OnCourse(r)
          /\ stateFile.completed => AllIndexed \/ \E r \in Run : Recorded(r)

\* The files below a list of roots are those of its first root and those of the rest.
LEMMA BelowSplit ==
  ASSUME NEW roots \in Seq(Root), NEW p \in Below(roots)
  PROVE  roots # <<>> /\ (p \in Under[Head(roots)] \/ p \in Rest(roots))
<1>1. PICK i \in DOMAIN roots : p \in Under[roots[i]]
  BY DEF Below
<1>2. roots # <<>>
  BY <1>1
<1>3. CASE i = 1
  BY <1>1, <1>2, <1>3
<1>4. CASE i # 1
  <2>1. i - 1 \in DOMAIN Tail(roots) /\ Tail(roots)[i - 1] = roots[i]
    BY <1>2, <1>4
  <2> QED
    BY <1>1, <1>2, <2>1 DEF Rest, Below
<1> QED
  BY <1>2, <1>3, <1>4

\* Of the files below its list of roots, a walk that enters the first root owes those
\* of this root that are there and those of the rest.
LEMMA EnterOwes ==
  ASSUME NEW rs \in RunState, NEW p \in Below(rs.roots)
  PROVE  p \notin present \/ p \in EnterRoot(rs).owed \cup Rest(rs.roots)
<1>1. rs.roots \in Seq(Root)
  BY DEF RunState
<1>2. rs.roots # <<>> /\ (p \in Under[Head(rs.roots)] \/ p \in Rest(rs.roots))
  BY <1>1, BelowSplit
<1>3. EnterRoot(rs).owed = Under[Head(rs.roots)] \cap present
  BY <1>2 DEF EnterRoot, RunState
<1> QED
  BY <1>2, <1>3

\* What entering a root leaves as it is.
LEMMA EnterShape ==
  ASSUME NEW rs \in RunState
  PROVE  /\ EnterRoot(rs).pc = rs.pc /\ EnterRoot(rs).dir = rs.dir /\ EnterRoot(rs).roots = rs.roots
         /\ EnterRoot(rs).visited = rs.visited /\ EnterRoot(rs).lost = rs.lost
         /\ rs.roots = <<>> => EnterRoot(rs).owed = {}
BY DEF EnterRoot, RunState

\* After a step that leaves the day calm it was calm before, and no file has changed.
LEMMA CalmStep ==
  ASSUME TypeOK, [Next]_vars, Calm'
  PROVE  Calm /\ UNCHANGED disk /\ ~Fault
<1>u. used \in [edits : Nat, crashes : Nat, faults : Nat, clicks : Nat]
  BY DEF TypeOK
<1>f. ~Fault /\ ~Edit /\ ~Crash
  BY <1>u DEF Fault, Edit, Crash, Calm
<1>c. Click \/ UNCHANGED used => Calm
  BY <1>u DEF Click, Calm
<1>1. ASSUME NEW r \in Run, RunStep(r) PROVE UNCHANGED <<used, disk>>
  BY <1>1, <1>f, Zenon DEF RunStep, OpenWriter, OpenFails, MarkTruncate, MarkWrite, MarkFails, WalkSkip, WalkError,
     WalkVisit, WalkNextRoot, WalkDone, Return, WriterDropped
<1>2. ASSUME NEW t \in tasks, TaskStep(t) PROVE UNCHANGED <<used, disk>>
  BY <1>2, <1>f, Zenon DEF TaskStep, TaskBuild, TaskWrite, TaskWriteFails, TaskCount, TaskReport
<1>3. ASSUME DailyThread \/ Midnight \/ UNCHANGED vars PROVE UNCHANGED <<used, disk>>
  BY <1>3, <1>f, Zenon DEF DailyThread, AutoReadConfig, AutoConfigFails, AutoLoadState, AutoSleep, AutoSpawn, Midnight, vars
<1>4. ASSUME User PROVE UNCHANGED disk /\ (Click \/ UNCHANGED used)
  BY <1>4, <1>f, Zenon DEF User, doScanAndIndex, start_auto_scan_now, write_config, FileWritten, FileRemoved,
     InvokeTimeout, OtherEnds
<1> QED
  BY <1>f, <1>c, <1>1, <1>2, <1>3, <1>4, Zenon DEF Next, disk

\* With one configuration the roots and the directory never change.
LEMMA SameConfig ==
  ASSUME OneConfig, TypeOK, TypeOK'
  PROVE  config'.scan_roots = config.scan_roots /\ config'.index_dir = config.index_dir
BY DEF OneConfig, TypeOK

Steady == UNCHANGED disk /\ config'.scan_roots = config.scan_roots /\ config'.index_dir = config.index_dir

\* A file that was seen stays seen while no file changes.
LEMMA SeenStays ==
  ASSUME UNCHANGED disk, NEW r \in Run, run[r].visited \subseteq run'[r].visited, NEW p, Seen(r, p)
  PROVE  Seen(r, p)'
BY DEF Seen, Skipped, disk

\* A call that has not moved is on course as before.
LEMMA CourseFrame ==
  ASSUME Steady, NEW r \in Run, OnCourse(r),
         run'[r].pc = run[r].pc, run'[r].dir = run[r].dir, run'[r].roots = run[r].roots,
         run'[r].owed = run[r].owed, run'[r].visited = run[r].visited, run'[r].lost = run[r].lost
  PROVE  OnCourse(r)'
<1>1. \A p : Seen(r, p) => Seen(r, p)'
  BY SeenStays DEF Steady
<1>2. WalkOwes(r) => WalkOwes(r)'
  BY <1>1 DEF WalkOwes, Steady
<1>3. SeenAll(r) => SeenAll(r)'
  BY <1>1 DEF SeenAll, Steady
<1> QED
  BY <1>2, <1>3 DEF OnCourse, At, Steady

\* A new call gets the roots and the directory of the one configuration.
LEMMA StartCourse ==
  ASSUME Steady, TypeOK, NEW r \in Run, NEW parse, \A s \in Run : OnCourse(s),
         Start(r, config.index_dir, config.scan_roots, parse)
  PROVE  \A s \in Run : OnCourse(s)'
<1>1. run \in [Run -> RunState]
  BY DEF TypeOK
<1>2. /\ run'[r].pc = "spawned" /\ run'[r].dir = config.index_dir
      /\ run'[r].roots = config.scan_roots /\ run'[r].lost = {}
  BY <1>1 DEF Start, IdleRun
<1>3. OnCourse(r)'
  BY <1>2 DEF OnCourse, At, Steady
<1>4. ASSUME NEW s \in Run, s # r PROVE OnCourse(s)'
  <2>1. run'[s] = run[s]
    BY <1>1, <1>4 DEF Start
  <2> QED
    BY <2>1, CourseFrame
<1> QED
  BY <1>3, <1>4

\* A call stays on course.
LEMMA RunStepCourse ==
  ASSUME Steady, TypeOK, ~Fault, NEW r \in Run, RunStep(r), UNCHANGED config, OnCourse(r)
  PROVE  OnCourse(r)'
<1>r. run \in [Run -> RunState] /\ run[r] \in RunState
  BY DEF TypeOK
<1>s. ASSUME run[r].visited \subseteq run'[r].visited, NEW p, Seen(r, p) PROVE Seen(r, p)'
  BY <1>s, SeenStays DEF Steady
<1>1. CASE OpenWriter(r)
  <2>1. /\ run'[r].pc = "opened" /\ run[r].pc = "spawned"
        /\ run'[r].dir = run[r].dir /\ run'[r].roots = run[r].roots /\ run'[r].lost = run[r].lost
    BY <1>1, <1>r DEF OpenWriter, At, RunState
  <2> QED
    BY <2>1 DEF OnCourse, At
<1>2. CASE OpenFails(r) \/ WriterDropped(r)
  <2>1. run'[r].pc = "idle" /\ run'[r].lost = run[r].lost
    BY <1>2, <1>r DEF OpenFails, WriterDropped, RunState
  <2> QED
    BY <2>1 DEF OnCourse, At
<1>3. CASE MarkTruncate(r)
  <2>1. /\ run'[r].dir = run[r].dir /\ run'[r].roots = run[r].roots /\ run'[r].lost = run[r].lost
        /\ run'[r].visited = run[r].visited
        /\ \/ run[r].pc = "opened" /\ run'[r].pc = "starting"
           \/ run[r].pc = "walked" /\ run'[r].pc = "finishing"
    BY <1>3, <1>r DEF MarkTruncate, BeginMark, RunState
  <2>2. SeenAll(r) => SeenAll(r)'
    BY <1>s, <2>1 DEF SeenAll
  <2> QED
    BY <2>1, <2>2 DEF OnCourse, At
<1>4. ASSUME MarkWrite(r), At(r, "starting") PROVE OnCourse(r)'
  <2> DEFINE rs == [run[r] EXCEPT !.pc = "walking"]
  <2>1. /\ rs \in RunState /\ rs.pc = "walking" /\ rs.dir = run[r].dir /\ rs.roots = run[r].roots
        /\ rs.visited = run[r].visited /\ rs.lost = run[r].lost
    BY <1>r DEF RunState, PC
  <2>2. run'[r] = EnterRoot(rs)
    BY <1>4, <1>r DEF MarkWrite, AfterMark, At
  <2> HIDE DEF rs
  <2>3. /\ run'[r].pc = "walking" /\ run'[r].dir = run[r].dir /\ run'[r].roots = run[r].roots
        /\ run'[r].visited = run[r].visited /\ run'[r].lost = run[r].lost
        /\ run'[r].roots = <<>> => run'[r].owed = {}
    BY <2>1, <2>2, EnterShape
  <2>4. run[r].roots = config.scan_roots
    BY <1>4 DEF OnCourse, At
  <2>5. ASSUME NEW p \in Below(config.scan_roots)
        PROVE  p \notin present \/ p \in run'[r].owed \cup Rest(run'[r].roots)
    BY <2>1, <2>2, <2>3, <2>4, EnterOwes
  <2>6. \A p : p \notin present => Seen(r, p)'
    BY DEF Seen, Skipped, Steady, disk
  <2>7. WalkOwes(r)'
    BY <2>3, <2>5, <2>6 DEF WalkOwes
  <2> QED
    BY <1>4, <2>3, <2>7 DEF OnCourse, At
<1>5. ASSUME MarkWrite(r), At(r, "finishing") PROVE OnCourse(r)'
  <2>1. /\ run'[r].pc = "marked" /\ run'[r].dir = run[r].dir /\ run'[r].roots = run[r].roots
        /\ run'[r].visited = run[r].visited /\ run'[r].lost = run[r].lost
    BY <1>5, <1>r DEF MarkWrite, AfterMark, At, RunState
  <2>2. SeenAll(r)'
    BY <1>5, <1>s, <2>1 DEF SeenAll, OnCourse, At
  <2> QED
    BY <1>5, <2>1, <2>2 DEF OnCourse, At
<1>6. ASSUME NEW q \in Path, WalkSkip(r, q) PROVE OnCourse(r)'
  <2>1. /\ run'[r].pc = "walking" /\ run[r].pc = "walking"
        /\ run'[r].dir = run[r].dir /\ run'[r].roots = run[r].roots
        /\ run'[r].visited = run[r].visited /\ run'[r].lost = run[r].lost
        /\ run'[r].owed = run[r].owed \ {q}
    BY <1>6, <1>r DEF WalkSkip, Leave, At, RunState
  <2>2. Seen(r, q)'
    BY <1>6 DEF WalkSkip, Seen, Skipped, Steady, disk
  <2>3. WalkOwes(r)'
    BY <1>s, <2>1, <2>2 DEF WalkOwes, OnCourse, At
  <2> QED
    BY <2>1, <2>3 DEF OnCourse, At
<1>7. ASSUME NEW q \in Path, WalkVisit(r, q) PROVE OnCourse(r)'
  <2>0. /\ Leave(run[r], {q}) \in RunState
        /\ Leave(run[r], {q}).pc = run[r].pc
        /\ Leave(run[r], {q}).dir = run[r].dir /\ Leave(run[r], {q}).roots = run[r].roots
        /\ Leave(run[r], {q}).visited = run[r].visited /\ Leave(run[r], {q}).lost = run[r].lost
        /\ Leave(run[r], {q}).owed = run[r].owed \ {q}
    BY <1>r, Zenon DEF Leave, RunState
  <2>1. \A rs \in RunState :
          /\ Count(rs, q).pc = rs.pc /\ Count(rs, q).dir = rs.dir /\ Count(rs, q).roots = rs.roots
          /\ Count(rs, q).visited = rs.visited \cup {<<q, version[q]>>} /\ Count(rs, q).lost = rs.lost
          /\ Count(rs, q).owed = rs.owed
    BY DEF Count, RunState
  <2>2. run[r].pc = "walking" /\ run'[r] = Count(Leave(run[r], {q}), q)
    BY <1>7, <1>r DEF WalkVisit, At
  <2>3. /\ run'[r].pc = "walking"
        /\ run'[r].dir = run[r].dir /\ run'[r].roots = run[r].roots
        /\ run'[r].visited = run[r].visited \cup {<<q, version[q]>>} /\ run'[r].lost = run[r].lost
        /\ run'[r].owed = run[r].owed \ {q}
    BY <2>0, <2>1, <2>2
  <2>4. Seen(r, q)'
    BY <2>3 DEF Seen, Steady, disk
  <2>5. WalkOwes(r)'
    BY <1>s, <2>2, <2>3, <2>4 DEF WalkOwes, OnCourse, At
  <2> QED
    BY <2>2, <2>3, <2>5 DEF OnCourse, At
<1>8. CASE WalkNextRoot(r)
  <2>1. run[r].pc = "walking" /\ run[r].roots # <<>> /\ run[r].owed = {}
    BY <1>8 DEF WalkNextRoot, At
  <2>t. PICK tail \in Seq(Root) : tail = Tail(run[r].roots)
    <3>1. \A roots \in Seq(Root) : roots # <<>> => Tail(roots) \in Seq(Root)
      OBVIOUS
    <3> QED
      BY <1>r, <2>1, <3>1, Zenon DEF RunState
  <2> DEFINE rs == [run[r] EXCEPT !.roots = tail]
  <2>2. /\ rs \in RunState /\ rs.pc = "walking" /\ rs.dir = run[r].dir /\ rs.roots = Tail(run[r].roots)
        /\ rs.visited = run[r].visited /\ rs.lost = run[r].lost
    BY <1>r, <2>1, <2>t DEF RunState
  <2>3. run'[r] = EnterRoot(rs)
    BY <1>8, <1>r, <2>t DEF WalkNextRoot, NextRoot
  <2> HIDE DEF rs
  <2>4. /\ run'[r].pc = "walking" /\ run'[r].dir = run[r].dir /\ run'[r].roots = Tail(run[r].roots)
        /\ run'[r].visited = run[r].visited /\ run'[r].lost = run[r].lost
        /\ run'[r].roots = <<>> => run'[r].owed = {}
    BY <2>2, <2>3, EnterShape
  <2>5. ASSUME NEW p \in Rest(run[r].roots)
        PROVE  p \notin present \/ p \in run'[r].owed \cup Rest(run'[r].roots)
    <3>1. p \in Below(rs.roots)
      BY <2>1, <2>2 DEF Rest
    <3> QED
      BY <2>2, <2>3, <2>4, <3>1, EnterOwes
  <2>6. \A p : p \notin present => Seen(r, p)'
    BY DEF Seen, Skipped, Steady, disk
  <2>7. WalkOwes(r)'
    BY <1>s, <2>1, <2>4, <2>5, <2>6 DEF WalkOwes, OnCourse, At
  <2> QED
    BY <2>1, <2>4, <2>7 DEF OnCourse, At
<1>9. CASE WalkDone(r)
  <2>1. /\ run[r].pc = "walking" /\ run[r].roots = <<>> /\ run'[r].pc = "walked"
        /\ run'[r].dir = run[r].dir /\ run'[r].visited = run[r].visited /\ run'[r].lost = run[r].lost
    BY <1>9, <1>r DEF WalkDone, At, RunState
  <2>2. SeenAll(r)'
    BY <1>s, <2>1 DEF SeenAll, WalkOwes, Rest, OnCourse, At
  <2> QED
    BY <2>1, <2>2 DEF OnCourse, At
<1>10. CASE Return(r)
  <2>1. /\ run[r].pc = "marked" /\ run'[r].pc = "returned"
        /\ run'[r].dir = run[r].dir /\ run'[r].visited = run[r].visited /\ run'[r].lost = run[r].lost
    BY <1>10, <1>r DEF Return, At, RunState
  <2>2. SeenAll(r)'
    BY <1>s, <2>1 DEF SeenAll, OnCourse
  <2> QED
    BY <2>1, <2>2 DEF OnCourse, At
<1> QED
  BY <1>1, <1>2, <1>3, <1>4, <1>5, <1>6, <1>7, <1>8, <1>9, <1>10 DEF RunStep, MarkFails, MarkWrite,
     WalkError, At

\* Every step keeps every call on course.
LEMMA NextCourse ==
  ASSUME Steady, TypeOK, OneConfig, ~Fault, ~Crash, [Next]_vars, \A s \in Run : OnCourse(s)
  PROVE  \A s \in Run : OnCourse(s)'
<1>r. run \in [Run -> RunState] /\ config \in Config /\ auto.cfg \in Config
  BY Zenon DEF TypeOK
<1>1. ASSUME NEW r \in Run, RunStep(r), NEW s \in Run PROVE OnCourse(s)'
  <2>1. UNCHANGED config
    BY <1>1, Zenon DEF RunStep, OpenWriter, OpenFails, MarkTruncate, MarkWrite, MarkFails, WalkSkip, WalkError,
       WalkVisit, WalkNextRoot, WalkDone, Return, WriterDropped
  <2>2. s # r => run'[s] = run[s]
    BY <1>1, <1>r, Zenon DEF RunStep, OpenWriter, OpenFails, MarkTruncate, MarkWrite, MarkFails, WalkSkip, WalkError,
       WalkVisit, WalkNextRoot, WalkDone, Return, WriterDropped
  <2>3. CASE s = r
    BY <1>1, <2>1, <2>3, RunStepCourse
  <2>4. CASE s # r
    BY <2>2, <2>4, CourseFrame
  <2> QED
    BY <2>3, <2>4
<1>2. ASSUME NEW t \in tasks, TaskStep(t), NEW s \in Run PROVE OnCourse(s)'
  <2>t. t.run \in Run /\ run[t.run] \in RunState /\ run[s] \in RunState
    BY <1>2, <1>r DEF TypeOK, Task
  <2>1. CASE TaskCount(t)
    <3>1. /\ run'[s].pc = run[s].pc /\ run'[s].dir = run[s].dir /\ run'[s].roots = run[s].roots
          /\ run'[s].owed = run[s].owed /\ run'[s].visited = run[s].visited /\ run'[s].lost = run[s].lost
      BY <1>r, <2>1, <2>t DEF TaskCount, RunState
    <3> QED
      BY <3>1, CourseFrame
  <2>2. CASE UNCHANGED run
    BY <2>2, CourseFrame
  <2> QED
    BY <1>2, <2>1, <2>2, Zenon DEF TaskStep, TaskBuild, TaskWrite, TaskWriteFails, TaskReport
<1>3. ASSUME UNCHANGED run PROVE \A s \in Run : OnCourse(s)'
  BY <1>3, CourseFrame
<1>4. ASSUME NEW r \in Run, NEW c \in Config, NEW parse, Start(r, c.index_dir, c.scan_roots, parse)
      PROVE  \A s \in Run : OnCourse(s)'
  <2>1. c.index_dir = config.index_dir /\ c.scan_roots = config.scan_roots
    BY <1>r DEF OneConfig
  <2> QED
    BY <1>4, <2>1, StartCourse
<1>5. CASE DailyThread
  BY <1>r, <1>3, <1>4, <1>5, Zenon DEF DailyThread, AutoReadConfig, AutoConfigFails, AutoLoadState, AutoSleep, AutoSpawn
<1>6. CASE User
  BY <1>r, <1>3, <1>4, <1>6, Zenon DEF User, doScanAndIndex, start_auto_scan_now, write_config, FileWritten,
     FileRemoved, InvokeTimeout, OtherEnds
<1>7. CASE Midnight \/ UNCHANGED vars
  BY <1>3, <1>7, Zenon DEF Midnight, vars
<1> QED
  BY <1>1, <1>2, <1>5, <1>6, <1>7, Zenon DEF Next

\* Indexed files stay indexed.
LEMMA AllIndexedStays ==
  ASSUME Steady, TypeOK, TypeOK', Grows, AllIndexed
  PROVE  AllIndexed'
<1> SUFFICES ASSUME NEW p \in Below(config.scan_roots), ~Skipped(p)
             PROVE  Indexed(config.index_dir, p, version[p])'
  BY DEF AllIndexed, Steady, Skipped, disk
<1>1. Indexed(config.index_dir, p, version[p]) /\ config.index_dir \in Dir
  BY PipelineAssumption DEF AllIndexed, TypeOK
<1>2. PICK d \in Dir : d = config.index_dir
  BY <1>1
<1>3. PICK v : v = version[p]
  OBVIOUS
<1>4. Indexed(d, p, v)'
  BY <1>1, <1>2, <1>3, IndexedStays
<1> QED
  BY <1>2, <1>3, <1>4 DEF Indexed, Steady, disk

\* When the last task of a completed scan is over, its files are indexed.
LEMMA DroppedIndexed ==
  ASSUME TypeOK, NEW r \in Run, OnCourse(r), Kept(r), WriterDropped(r)
  PROVE  AllIndexed
<1> SUFFICES ASSUME NEW p \in Below(config.scan_roots), ~Skipped(p)
             PROVE  Indexed(config.index_dir, p, version[p])
  BY DEF AllIndexed
<1>1. At(r, "returned") /\ TasksOf(r) = {}
  BY DEF WriterDropped, LastReference
<1>2. PICK pv : pv = <<p, version[p]>>
  OBVIOUS
<1>3. pv \in run[r].visited /\ run[r].lost = {} /\ run[r].dir = config.index_dir
  BY <1>1, <1>2 DEF OnCourse, SeenAll, Seen, At
<1>4. ~Pending(r, pv[1], pv[2])
  BY <1>1 DEF Pending
<1>5. Indexed(run[r].dir, pv[1], pv[2])
  BY <1>3, <1>4 DEF Kept
<1> QED
  BY <1>2, <1>3, <1>5

\* A call that has recorded its scan moves on only to return and to give up the writer.
LEMMA RecordedStays ==
  ASSUME TypeOK, [Next]_vars, ~Crash, NEW r \in Run, Recorded(r), ~WriterDropped(r)
  PROVE  Recorded(r)'
<1>r. run \in [Run -> RunState] /\ run[r] \in RunState
  BY DEF TypeOK
<1>1. ASSUME NEW s \in Run, RunStep(s), s # r PROVE Recorded(r)'
  <2>1. run'[r] = run[r]
    BY <1>1, <1>r, Zenon DEF RunStep, OpenWriter, OpenFails, MarkTruncate, MarkWrite, MarkFails, WalkSkip, WalkError,
       WalkVisit, WalkNextRoot, WalkDone, Return, WriterDropped
  <2> QED
    BY <2>1 DEF Recorded
<1>2. CASE RunStep(r)
  <2>1. Return(r)
    BY <1>2 DEF RunStep, Recorded, At, OpenWriter, OpenFails, MarkTruncate, MarkWrite, MarkFails, WalkSkip, WalkError,
       WalkVisit, WalkNextRoot, WalkDone
  <2> QED
    BY <1>r, <2>1 DEF Return, Recorded, RunState
<1>3. ASSUME NEW t \in tasks, TaskStep(t) PROVE Recorded(r)'
  <2>t. t.run \in Run /\ run[t.run] \in RunState
    BY <1>3, <1>r DEF TypeOK, Task
  <2>1. CASE TaskCount(t)
    BY <1>r, <2>1, <2>t DEF TaskCount, RunState, Recorded
  <2>2. CASE TaskWriteFails(t)
    BY <2>2, TaskLoses DEF Recorded
  <2>3. CASE UNCHANGED run
    BY <2>3 DEF Recorded
  <2> QED
    BY <1>3, <2>1, <2>2, <2>3, Zenon DEF TaskStep, TaskBuild, TaskWrite, TaskReport
<1>4. ASSUME UNCHANGED run PROVE Recorded(r)'
  BY <1>4 DEF Recorded
<1>5. ASSUME NEW s \in Run, NEW d, NEW roots, NEW parse, Start(s, d, roots, parse) PROVE Recorded(r)'
  BY <1>r, <1>5 DEF Start, At, Recorded
<1>6. CASE DailyThread
  BY <1>4, <1>5, <1>6, Zenon DEF DailyThread, AutoReadConfig, AutoConfigFails, AutoLoadState, AutoSleep, AutoSpawn
<1>7. CASE User
  BY <1>4, <1>5, <1>7, Zenon DEF User, doScanAndIndex, start_auto_scan_now, write_config, FileWritten,
     FileRemoved, InvokeTimeout, OtherEnds
<1>8. CASE Midnight \/ UNCHANGED vars
  BY <1>4, <1>8, Zenon DEF Midnight, vars
<1> QED
  BY <1>1, <1>2, <1>3, <1>6, <1>7, <1>8, Zenon DEF Next

\* The state file becomes complete only when a call records its scan.
LEMMA CompletedBy ==
  ASSUME TypeOK, [Next]_vars, stateFile'.completed
  PROVE  stateFile.completed \/ \E r \in Run : Recorded(r)'
<1>1. ASSUME NEW r \in Run, MarkWrite(r) PROVE stateFile.completed \/ Recorded(r)'
  <2>1. run \in [Run -> RunState] /\ run[r] \in RunState
    BY DEF TypeOK
  <2>2. At(r, "finishing")
    BY <1>1 DEF MarkWrite, WriteState, NoState, At
  <2>3. run'[r].pc = "marked"
    BY <1>1, <2>1, <2>2 DEF MarkWrite, AfterMark, At, RunState
  <2> QED
    BY <2>3 DEF Recorded
<1>2. ASSUME NEW r \in Run, MarkTruncate(r) PROVE FALSE
  BY <1>2 DEF MarkTruncate, NoState
<1>3. ASSUME UNCHANGED stateFile PROVE stateFile.completed
  BY <1>3
<1>4. ASSUME NEW r \in Run, RunStep(r) PROVE stateFile.completed \/ \E s \in Run : Recorded(s)'
  BY <1>1, <1>2, <1>3, <1>4, Zenon DEF RunStep, OpenWriter, OpenFails, MarkFails, WalkSkip, WalkError,
     WalkVisit, WalkNextRoot, WalkDone, Return, WriterDropped
<1>5. ASSUME NEW t \in tasks, TaskStep(t) PROVE stateFile.completed
  BY <1>3, <1>5, Zenon DEF TaskStep, TaskBuild, TaskWrite, TaskWriteFails, TaskCount, TaskReport
<1>6. CASE DailyThread \/ Midnight \/ Crash \/ UNCHANGED vars
  BY <1>3, <1>6, Zenon DEF DailyThread, AutoReadConfig, AutoConfigFails, AutoLoadState, AutoSleep, AutoSpawn, Midnight, Crash, vars
<1>7. CASE User
  BY <1>3, <1>7, Zenon DEF User, doScanAndIndex, start_auto_scan_now, write_config, FileWritten, FileRemoved,
     InvokeTimeout, OtherEnds
<1> QED
  BY <1>4, <1>5, <1>6, <1>7, Zenon DEF Next

\* The invariant of a calm day is preserved.
LEMMA NextCalmDay ==
  ASSUME OneConfig, NoBareWord, Stock, TypeOK', \A r \in Run : Kept(r), CalmDay, [Next]_vars
  PROVE  CalmDay'
<1>t. TypeOK
  BY DEF Stock
<1> SUFFICES ASSUME Calm'
             PROVE  /\ \A r \in Run : OnCourse(r)'
                    /\ stateFile'.completed => AllIndexed' \/ \E r \in Run : Recorded(r)'
  BY DEF CalmDay
<1>1. Calm /\ UNCHANGED disk /\ ~Fault
  BY <1>t, CalmStep
<1>2. ~Crash
  BY <1>t DEF TypeOK, Crash, Calm
<1>3. Steady
  BY <1>1, <1>t, SameConfig DEF Steady
<1>4. \A r \in Run : OnCourse(r)
  BY <1>1 DEF CalmDay
<1>5. \A r \in Run : OnCourse(r)'
  BY <1>t, <1>1, <1>2, <1>3, <1>4, NextCourse
<1>6. ASSUME stateFile'.completed, stateFile.completed PROVE AllIndexed' \/ \E r \in Run : Recorded(r)'
  <2>g. Grows
    BY NextStock
  <2>1. CASE AllIndexed
    BY <1>t, <1>3, <2>g, <2>1, AllIndexedStays
  <2>2. ASSUME NEW r \in Run, Recorded(r) PROVE AllIndexed' \/ Recorded(r)'
    <3>1. CASE WriterDropped(r)
      <4>1. AllIndexed
        BY <1>t, <1>4, <3>1, DroppedIndexed
      <4> QED
        BY <1>t, <1>3, <2>g, <4>1, AllIndexedStays
    <3>2. CASE ~WriterDropped(r)
      BY <1>t, <1>2, <2>2, <3>2, RecordedStays
    <3> QED
      BY <3>1, <3>2
  <2> QED
    BY <1>1, <1>6, <2>1, <2>2 DEF CalmDay
<1> QED
  BY <1>t, <1>5, <1>6, CompletedBy

\* A scan that mark_completed has recorded, and that nothing works on any more, has left
\* no file under its roots out of the index, for any number of calls, roots and tasks of
\* one configuration, as long as no file changes, nothing fails and the process lives.
THEOREM CompletedIsIndexed == NoBareWord => (Spec => []CompletedMeansIndexed)
<1> SUFFICES ASSUME NoBareWord PROVE Spec => []CompletedMeansIndexed
  OBVIOUS
<1> DEFINE K == \A r \in Run : Kept(r)
           I == OneConfig => CalmDay
<1>1. Init => K /\ I
  <2> SUFFICES ASSUME Init PROVE K /\ I
    OBVIOUS
  <2>1. \A r \in Run : run[r].visited = {} /\ run[r].lost = {} /\ run[r].pc = "idle"
    BY DEF Init, IdleRun
  <2>2. ~stateFile.completed
    BY DEF Init, NoState
  <2> QED
    BY <2>1, <2>2 DEF Kept, CalmDay, OnCourse, At
<1>2. Stock /\ TypeOK' /\ K /\ [Next]_vars => K'
  BY NextKept
<1>3. Stock /\ TypeOK' /\ K /\ I /\ [Next]_vars => I'
  BY NextCalmDay
<1>4. TypeOK /\ I => CompletedMeansIndexed
  <2> SUFFICES ASSUME TypeOK, I, stateFile.completed, used.edits = 0, used.faults = 0, used.crashes = 0,
                      \A c \in Config : c.index_dir = config.index_dir /\ c.scan_roots = config.scan_roots,
                      \A r \in Run : At(r, "idle"),
                      NEW i \in DOMAIN config.scan_roots, NEW p \in Under[config.scan_roots[i]]
               PROVE  Skipped(p) \/ Indexed(config.index_dir, p, version[p])
    BY Zenon DEF CompletedMeansIndexed
  <2>1. OneConfig /\ Calm
    BY DEF OneConfig, Calm
  <2>2. AllIndexed
    BY <2>1 DEF CalmDay, At, Recorded
  <2>3. p \in Below(config.scan_roots)
    BY Zenon DEF Below
  <2> QED
    BY <2>2, <2>3 DEF AllIndexed
<1> HIDE DEF K, I
<1> QED
  BY <1>1, <1>2, <1>3, <1>4, StockAlways, TypeCorrect, PTL DEF Spec

=============================================================================
