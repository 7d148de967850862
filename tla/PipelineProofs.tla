--------------------------- MODULE PipelineProofs ---------------------------
(***************************************************************************)
(* What TLAPS proves of Pipeline for all runs, paths, directories, bounds  *)
(* and configurations.                                                     *)
(***************************************************************************)
EXTENDS Pipeline, TLAPS

-----------------------------------------------------------------------------
(* Types                                                                    *)

\* A path, version and content make a document of the index.
LEMMA DocType ==
  ASSUME NEW p \in Path, NEW v \in Version, NEW c \in Version \cup {NoContent}
  PROVE  [path |-> p, ver |-> v, content |-> c] \in Doc
BY DEF Doc

\* The upsert of a task yields an index again.
LEMMA UpsertType ==
  ASSUME NEW ix \in Index, NEW d \in Doc
  PROVE  Upsert(ix, d) \in Index /\ delete_term(ix, d.path) \in Index
BY TextIndexAssumption DEF Upsert, add_document, delete_term, Index

\* A slot that no call uses has a record of the right type.
LEMMA IdleRunType == IdleRun \in RunState
<1>1. (CHOOSE d \in Dir : TRUE) \in Dir
  BY PipelineAssumption
<1>2. <<>> \in Seq(Root)
  OBVIOUS
<1> QED
  BY <1>1, <1>2 DEF IdleRun, RunState, PC

\* The initial states are well typed.
LEMMA InitType == Init => TypeOK
<1> SUFFICES ASSUME Init PROVE TypeOK
  OBVIOUS
<1>1. [d \in Dir |-> EmptyIndex] \in [Dir -> Index]
  BY TextIndexAssumption DEF EmptyIndex, Index
<1>2. day \in Day /\ version \in [Path -> Version] /\ present \subseteq Path
  BY PipelineAssumption DEF Init, Day
<1>3. stateFile \in StateFile
  BY DEF Init, NoState, StateFile, NoDay
<1>4. run \in [Run -> RunState]
  BY IdleRunType DEF Init
<1>5. ui \in [busy : BOOLEAN, waiting : SUBSET Run, current : Nat, total : Nat, running : BOOLEAN]
  BY DEF Init, NewUI
<1>6. auto \in [pc : {"config", "state", "decide"}, cfg : Config, need : BOOLEAN]
  BY DEF Init, NewAuto
<1> QED
  BY ZenonT(40), <1>1, <1>2, <1>3, <1>4, <1>5, <1>6 DEF Init, TypeOK


\* The record a call becomes when it enters its next root.
LEMMA EnterRootType ==
  ASSUME NEW rs \in RunState, present \subseteq Path
  PROVE  EnterRoot(rs) \in RunState
<1>1. rs.roots # <<>> => Under[Head(rs.roots)] \subseteq Path
  BY SMTT(40), PipelineAssumption DEF RunState
<1> QED
  BY ZenonT(40), <1>1 DEF EnterRoot, RunState

\* The record a call becomes after mark_started or mark_completed.
LEMMA AfterMarkType ==
  ASSUME NEW rs \in RunState, present \subseteq Path
  PROVE  AfterMark(rs) \in RunState
<1> DEFINE walking == [rs EXCEPT !.pc = "walking"]
<1>1. walking \in RunState /\ [rs EXCEPT !.pc = "marked"] \in RunState
  BY ZenonT(40) DEF RunState, PC
<1>2. EnterRoot(walking) \in RunState
  BY <1>1, EnterRootType
<1> QED
  BY <1>1, <1>2 DEF AfterMark

\* The record a call becomes when it begins to mark its start or its end.
LEMMA BeginMarkType ==
  ASSUME NEW rs \in RunState, day \in Day
  PROVE  BeginMark(rs) \in RunState
<1>1. ASSUME NEW l \in PC PROVE [rs EXCEPT !.pc = l, !.today = day] \in RunState
  BY ZenonT(40) DEF RunState
<1>2. {"starting", "finishing"} \subseteq PC
  BY DEF PC
<1> QED
  BY ZenonT(40), <1>1, <1>2 DEF BeginMark

\* The record a call becomes when it goes on to the next root.
LEMMA NextRootType ==
  ASSUME NEW rs \in RunState, rs.roots # <<>>, present \subseteq Path
  PROVE  NextRoot(rs) \in RunState
<1>1. [rs EXCEPT !.roots = Tail(rs.roots)] \in RunState
  <2>1. Tail(rs.roots) \in Seq(Root)
    BY DEF RunState
  <2> QED
    BY ZenonT(40), <2>1 DEF RunState
<1> QED
  BY <1>1, EnterRootType DEF NextRoot

\* The record a call becomes when it counts a file.
LEMMA CountType ==
  ASSUME NEW rs \in RunState, NEW p \in Path, version \in [Path -> Version]
  PROVE  Count(rs, p) \in RunState
<1>1. rs.visited \cup {<<p, version[p]>>} \subseteq Path \X Version
  BY DEF RunState
<1>2. rs.scanned + 1 \in Nat
  BY DEF RunState
<1> QED
  BY ZenonT(40), <1>1, <1>2 DEF Count, RunState

\* The record a call becomes when its walk is done with some files.
LEMMA LeaveType ==
  ASSUME NEW rs \in RunState, NEW ps
  PROVE  /\ Leave(rs, ps) \in RunState /\ Leave(rs, ps).pc = rs.pc /\ Leave(rs, ps).dir = rs.dir
         /\ Leave(rs, ps).visited = rs.visited /\ Leave(rs, ps).lost = rs.lost
BY ZenonT(40) DEF Leave, RunState

\* The record a call becomes when the commit of one of its tasks fails.
LEMMA LoseType ==
  ASSUME NEW rs \in RunState, NEW d \in Doc
  PROVE  /\ Lose(rs, d) \in RunState /\ Lose(rs, d).lost = rs.lost \cup {<<d.path, d.ver>>}
         /\ Lose(rs, d).pc = rs.pc /\ Lose(rs, d).dir = rs.dir /\ Lose(rs, d).visited = rs.visited
<1>1. rs.lost \cup {<<d.path, d.ver>>} \subseteq Path \X Version
  BY SMTT(40) DEF RunState, Doc
<1> QED
  BY ZenonT(40), <1>1 DEF Lose, RunState

\* Updating one call keeps the type of run.
LEMMA RunUpdate ==
  ASSUME NEW r \in Run, run \in [Run -> RunState], NEW rs \in RunState,
         run' = [run EXCEPT ![r] = rs]
  PROVE  run' \in [Run -> RunState]
OBVIOUS

\* Leaving out files changes nothing else of the call and nothing of the others.
LEMMA RunLeaves ==
  ASSUME NEW r \in Run, run \in [Run -> RunState], NEW ps, run' = [run EXCEPT ![r] = Leave(@, ps)]
  PROVE  \A s \in Run : /\ run'[s].pc = run[s].pc /\ run'[s].dir = run[s].dir
                         /\ run'[s].visited = run[s].visited /\ run'[s].lost = run[s].lost
<1>1. PICK a \in RunState : a = run[r]
  OBVIOUS
<1>2. PICK b \in RunState : /\ b = Leave(a, ps) /\ b.pc = a.pc /\ b.dir = a.dir
                            /\ b.visited = a.visited /\ b.lost = a.lost
  BY ZenonT(40), LeaveType
<1>3. run' = [run EXCEPT ![r] = b]
  BY ZenonT(40), <1>1, <1>2
<1> QED
  BY ZenonT(40), <1>1, <1>2, <1>3

\* A failing commit marks the file of the task in its call, and changes nothing else of
\* the calls.
LEMMA TaskLoses ==
  ASSUME TypeOK, NEW t \in tasks, TaskWriteFails(t)
  PROVE  \A s \in Run : /\ run'[s].pc = run[s].pc /\ run'[s].dir = run[s].dir
                         /\ run'[s].visited = run[s].visited
                         /\ run'[s].roots = run[s].roots /\ run'[s].left = run[s].left
                         /\ run'[s].owed = run[s].owed
                         /\ run'[s].scanned = run[s].scanned /\ run'[s].counter = run[s].counter
                         /\ run'[s].today = run[s].today
                         /\ run'[s].lost = IF s = t.run THEN run[s].lost \cup {<<t.doc.path, t.doc.ver>>}
                                                       ELSE run[s].lost
<1>1. run \in [Run -> RunState] /\ t.run \in Run
  BY ZenonT(40) DEF TypeOK, Task
<1>2. PICK a \in RunState : a = run[t.run]
  BY <1>1
<1>3. PICK ps : ps = a.lost \cup {<<t.doc.path, t.doc.ver>>}
  OBVIOUS
<1>4. run' = [run EXCEPT ![t.run] = [a EXCEPT !.lost = ps]]
  BY ZenonT(40), <1>2, <1>3 DEF TaskWriteFails, Lose
<1> QED
  BY ZenonT(40), <1>1, <1>2, <1>3, <1>4 DEF RunState

\* Starting a call keeps the type of run.
LEMMA StartType ==
  ASSUME TypeOK, NEW r \in Run, NEW d \in Dir, NEW roots \in Seq(Root),
         NEW parse \in BOOLEAN, Start(r, d, roots, parse)
  PROVE  run' \in [Run -> RunState]
<1> DEFINE rs == [IdleRun EXCEPT !.pc = "spawned", !.dir = d, !.roots = roots,
                                 !.parse = parse]
<1>1. rs \in RunState
  BY ZenonT(40), IdleRunType DEF RunState, PC
<1> QED
  BY <1>1 DEF Start, TypeOK

\* Every step of a call keeps the types.
LEMMA RunStepType == ASSUME TypeOK, NEW r \in Run, RunStep(r) PROVE TypeOK'
<1> USE DEF TypeOK
<1>r. run[r] \in RunState
  OBVIOUS
<1>f. Fault => used' \in [edits : Nat, crashes : Nat, faults : Nat, clicks : Nat]
  BY DEF Fault
<1>u. onRejected(r) \in [busy : BOOLEAN, waiting : SUBSET Run, current : Nat, total : Nat, running : BOOLEAN]
  BY ZenonT(40) DEF onRejected
<1>1. CASE OpenWriter(r)
  BY ZenonT(40), <1>1, <1>r DEF OpenWriter, RunState, PC, disk
<1>2. CASE OpenFails(r)
  BY ZenonT(40), <1>2, <1>r, <1>f, <1>u DEF OpenFails, RunState, PC, disk
<1>3. CASE MarkTruncate(r)
  <2>1. BeginMark(run[r]) \in RunState
    BY <1>r, BeginMarkType
  <2>2. NoState("empty") \in StateFile
    BY ZenonT(40) DEF NoState, StateFile, NoDay
  <2> QED
    BY ZenonT(40), <1>3, <2>1, <2>2 DEF MarkTruncate, disk
<1>4. CASE MarkWrite(r)
  <2>1. stateFile' \in StateFile
    BY ZenonT(40), <1>4, <1>r DEF MarkWrite, WriteState, NoState, StateFile, At, RunState, NoDay
  <2>2. run' \in [Run -> RunState]
    BY ZenonT(40), <1>4, <1>r, AfterMarkType DEF MarkWrite
  <2> QED
    BY ZenonT(40), <1>4, <2>1, <2>2 DEF MarkWrite, disk
<1>5. CASE MarkFails(r)
  <2>1. run' \in [Run -> RunState]
    BY ZenonT(40), <1>5, <1>r, AfterMarkType DEF MarkFails
  <2> QED
    BY ZenonT(40), <1>5, <1>f, <2>1 DEF MarkFails, disk
<1>6. ASSUME NEW p \in Path, WalkSkip(r, p) PROVE TypeOK'
  <2>1. Leave(run[r], {p}) \in RunState
    BY ZenonT(40), <1>r, LeaveType
  <2> QED
    BY ZenonT(40), <1>6, <2>1 DEF WalkSkip, disk
<1>12. ASSUME NEW ps \in SUBSET Path, WalkError(r, ps) PROVE TypeOK'
  <2>1. Leave(run[r], ps) \in RunState
    BY ZenonT(40), <1>r, LeaveType
  <2> QED
    BY ZenonT(40), <1>12, <1>f, <2>1 DEF WalkError, disk
<1>7. ASSUME NEW p \in Path, WalkVisit(r, p) PROVE TypeOK'
  <2>1. Leave(run[r], {p}) \in RunState
    BY ZenonT(40), <1>r, LeaveType
  <2>2. Count(Leave(run[r], {p}), p) \in RunState
    BY ZenonT(40), <2>1, CountType
  <2>3. NewTask(r, p) \in Task
    <3>1. [path |-> p, ver |-> version[p], content |-> NoContent] \in Doc
      BY ZenonT(40), DocType
    <3>2. run[r].scanned + 1 \in Nat \ {0}
      BY SMTT(40), <1>r DEF RunState
    <3> QED
      BY ZenonT(40), <3>1, <3>2 DEF NewTask, Task
  <2> QED
    BY ZenonT(40), <1>7, <2>2, <2>3 DEF WalkVisit, disk
<1>8. CASE WalkNextRoot(r)
  <2>1. run[r].roots # <<>>
    BY ZenonT(40), <1>8 DEF WalkNextRoot
  <2>2. NextRoot(run[r]) \in RunState
    BY ZenonT(40), <2>1, <1>r, NextRootType
  <2> QED
    BY ZenonT(40), <1>8, <2>2 DEF WalkNextRoot, disk
<1>9. CASE WalkDone(r)
  BY ZenonT(40), <1>9, <1>r DEF WalkDone, onScanDone, RunState, PC, disk
<1>10. CASE Return(r)
  BY ZenonT(40), <1>10, <1>r DEF Return, onIndexDone, RunState, PC, disk
<1>11. CASE WriterDropped(r)
  <2>1. run[r].dir \in Dir /\ index[run[r].dir] \in Index
    BY ZenonT(40), <1>r DEF RunState
  <2>2. staged' \in [Dir -> Index]
    BY ZenonT(40), <1>11, <2>1 DEF WriterDropped
  <2> QED
    BY ZenonT(40), <1>11, <1>r, <2>2 DEF WriterDropped, RunState, PC, disk
<1> QED
  BY ZenonT(40), <1>1, <1>2, <1>3, <1>4, <1>5, <1>6, <1>7, <1>8, <1>9, <1>10, <1>11, <1>12 DEF RunStep

\* Every step of a task keeps the types.
LEMMA TaskStepType == ASSUME TypeOK, NEW t \in tasks, TaskStep(t) PROVE TypeOK'
<1> USE DEF TypeOK
<1>t. t \in Task /\ t.run \in Run /\ t.doc \in Doc /\ run[t.run] \in RunState
  BY ZenonT(40) DEF Task
<1>d. DirOf(t) \in Dir /\ staged[DirOf(t)] \in Index
  BY ZenonT(40), <1>t DEF DirOf, RunState
<1>p. \A ix \in Index : Prepare(t, ix) => staged' \in [Dir -> Index]
  BY ZenonT(40), <1>d DEF Prepare
<1>c. \A ix \in Index : Commit(t, ix) => staged' \in [Dir -> Index] /\ index' \in [Dir -> Index]
  BY ZenonT(40), <1>d, <1>p DEF Commit
<1>w. [t EXCEPT !.st = "written"] \in Task
  BY <1>t DEF Task
<1>1. CASE TaskBuild(t)
  <2>1. ContentNow(t.run, t.doc.path) \in Version \cup {NoContent}
    BY ZenonT(40), <1>t DEF ContentNow, Doc
  <2>2. [t EXCEPT !.st = "built", !.doc.content = ContentNow(t.run, t.doc.path)] \in Task
    BY ZenonT(40), <1>t, <2>1 DEF Task, Doc
  <2> QED
    BY ZenonT(40), <1>1, <2>2 DEF TaskBuild, Becomes, disk
<1>2. CASE TaskWrite(t)
  BY ZenonT(40), <1>2, <1>t, <1>d, <1>c, <1>w, UpsertType DEF TaskWrite, Becomes, disk
<1>3. CASE TaskWriteFails(t)
  <2>1. index' \in [Dir -> Index] /\ staged' \in [Dir -> Index]
    BY ZenonT(40), <1>3, <1>t, <1>d, <1>p, <1>c, UpsertType DEF TaskWriteFails
  <2>2. run' \in [Run -> RunState]
    BY ZenonT(40), <1>3, <1>t, LoseType DEF TaskWriteFails
  <2>3. used' \in [edits : Nat, crashes : Nat, faults : Nat, clicks : Nat]
    BY SMTT(40), <1>3 DEF TaskWriteFails, Fault
  <2> QED
    BY ZenonT(40), <1>3, <1>w, <2>1, <2>2, <2>3 DEF TaskWriteFails, Becomes, disk
<1>4. CASE TaskCount(t)
  <2>1. run[t.run].counter + 1 \in Nat
    BY SMTT(40), <1>t DEF RunState
  <2>2. [t EXCEPT !.st = "counted", !.cur = run[t.run].counter + 1] \in Task
    BY ZenonT(40), <1>t, <2>1 DEF Task
  <2>3. run' \in [Run -> RunState]
    BY ZenonT(40), <1>4, <1>t, <2>1 DEF TaskCount, RunState
  <2> QED
    BY ZenonT(40), <1>4, <2>2, <2>3 DEF TaskCount, Becomes, disk
<1>5. CASE TaskReport(t)
  BY ZenonT(40), <1>5, <1>t DEF TaskReport, onIndexProgress, Task, disk
<1> QED
  BY ZenonT(40), <1>1, <1>2, <1>3, <1>4, <1>5 DEF TaskStep

\* The daily thread, the user and the machine keep the types.
LEMMA OtherStepType == ASSUME TypeOK, DailyThread \/ User \/ Midnight \/ Crash PROVE TypeOK'
<1> USE DEF TypeOK
<1>c. \A c \in Config : /\ c.auto_scan_enabled \in BOOLEAN /\ c.index_dir \in Dir
                        /\ c.scan_roots \in Seq(Root)
  BY ZenonT(40), PipelineAssumption
<1>k. Click \/ Edit \/ Fault => used' \in [edits : Nat, crashes : Nat, faults : Nat, clicks : Nat]
  BY DEF Click, Edit, Fault
<1>1. CASE AutoReadConfig
  BY ZenonT(40), <1>1 DEF AutoReadConfig, disk
<1>12. CASE AutoConfigFails
  BY ZenonT(40), <1>12, <1>k DEF AutoConfigFails, disk
<1>2. CASE AutoLoadState
  <2>1. (auto.cfg.auto_scan_enabled /\ need_run(load_state(stateFile), day)) \in BOOLEAN
    BY ZenonT(40), <1>c DEF need_run, load_state
  <2> QED
    BY ZenonT(40), <1>2, <2>1 DEF AutoLoadState, disk
<1>3. CASE AutoSleep
  BY ZenonT(40), <1>3 DEF AutoSleep, disk
<1>4. ASSUME NEW r \in Run, AutoSpawn(r) PROVE TypeOK'
  <2>1. run' \in [Run -> RunState]
    BY ZenonT(40), <1>4, <1>c, StartType DEF AutoSpawn
  <2> QED
    BY ZenonT(40), <1>4, <2>1 DEF AutoSpawn, disk
<1>5. ASSUME NEW r \in Run, NEW c \in Config, NEW parse \in BOOLEAN,
             doScanAndIndex(r, c.index_dir, c.scan_roots, parse)
      PROVE  TypeOK'
  <2>1. run' \in [Run -> RunState]
    <3>1. Start(r, c.index_dir, c.scan_roots, parse)
      BY ZenonT(40), <1>5 DEF doScanAndIndex
    <3>2. c.index_dir \in Dir /\ c.scan_roots \in Seq(Root)
      BY ZenonT(40), <1>c
    <3> HIDE DEF TypeOK
    <3> QED
      BY <3>1, <3>2, StartType
  <2>2. ui' \in [busy : BOOLEAN, waiting : SUBSET Run, current : Nat, total : Nat, running : BOOLEAN]
    BY SMTT(40), <1>5 DEF doScanAndIndex
  <2> QED
    BY ZenonT(40), <1>5, <1>k, <2>1, <2>2 DEF doScanAndIndex, disk
<1>6. ASSUME NEW r \in Run, start_auto_scan_now(r) PROVE TypeOK'
  <2>1. run' \in [Run -> RunState]
    BY ZenonT(40), <1>6, <1>c, StartType DEF start_auto_scan_now
  <2> QED
    BY ZenonT(40), <1>6, <1>k, <2>1 DEF start_auto_scan_now, disk
<1>7. ASSUME NEW c \in Config, write_config(c) PROVE TypeOK'
  BY ZenonT(40), <1>7, <1>k DEF write_config, disk
<1>8. ASSUME NEW p \in Path, FileWritten(p) \/ FileRemoved(p) PROVE TypeOK'
  BY SMTT(40), <1>8, <1>k DEF FileWritten, FileRemoved
<1>9. ASSUME NEW r \in Run, InvokeTimeout(r) PROVE TypeOK'
  BY ZenonT(40), <1>9 DEF InvokeTimeout, onRejected, disk
<1>13. CASE OtherEnds
  BY ZenonT(40), <1>13 DEF OtherEnds, disk
<1>10. CASE Midnight
  <2>1. day' \in Day
    BY SMTT(40), <1>10, PipelineAssumption DEF Midnight, Day
  <2> QED
    BY ZenonT(40), <1>10, <2>1 DEF Midnight, disk
<1>11. CASE Crash
  BY SMTT(40), <1>11, IdleRunType DEF Crash, NewAuto, NewUI, disk
<1> QED
  <2> HIDE DEF TypeOK
  <2>1. CASE DailyThread
    BY <1>1, <1>2, <1>3, <1>4, <1>12, <2>1 DEF DailyThread
  <2>2. CASE User
    <3>1. CASE \E r \in Run, c \in Config, parse \in Parse :
                 doScanAndIndex(r, c.index_dir, c.scan_roots, parse)
      BY <1>5, <3>1, PipelineAssumption, Zenon
    <3> QED
      BY <1>6, <1>7, <1>8, <1>9, <1>13, <2>2, <3>1, Zenon DEF User
  <2> QED
    BY <1>10, <1>11, <2>1, <2>2

\* Every step keeps the types.
LEMMA NextType == TypeOK /\ [Next]_vars => TypeOK'
<1> SUFFICES ASSUME TypeOK, [Next]_vars PROVE TypeOK'
  OBVIOUS
<1>1. CASE UNCHANGED vars
  BY ZenonT(40), <1>1 DEF vars, disk, TypeOK
<1>2. CASE Next
  BY <1>2, RunStepType, TaskStepType, OtherStepType DEF Next
<1> QED
  BY <1>1, <1>2

\* Whatever the calls, pools, users and crashes do, the variables keep their types.
THEOREM TypeCorrect == Spec => []TypeOK
BY InitType, NextType, PTL DEF Spec

-----------------------------------------------------------------------------
(* One writer                                                               *)

\* WriterExclusive is inductive together with the types.
Writers == TypeOK /\ WriterExclusive

\* A step of a call keeps the writers apart.
LEMMA RunStepWriters == ASSUME Writers, NEW r \in Run, RunStep(r) PROVE WriterExclusive'
<1> USE DEF Writers, WriterExclusive, Active, At
<1>t. /\ lock \in [Dir -> Run \cup {NoRun}] /\ NoRun \notin Run
      /\ run \in [Run -> RunState] /\ run[r] \in RunState
      /\ \A s \in Run : run[s].dir \in Dir
      /\ \A t \in tasks : t.run \in Run
  BY ZenonT(40), PipelineAssumption DEF TypeOK, RunState, Task
<1>1. CASE OpenWriter(r)
  BY SMTT(40), <1>1, <1>t DEF OpenWriter, WriterFree, RunState
<1>2. CASE OpenFails(r)
  BY ZenonT(40), <1>2, <1>t DEF OpenFails, RunState
<1>3. CASE MarkTruncate(r)
  <2>1. BeginMark(run[r]).dir = run[r].dir /\ BeginMark(run[r]).pc \in {"starting", "finishing"}
    BY <1>t DEF BeginMark, RunState
  <2> QED
    BY ZenonT(40), <1>3, <1>t, <2>1 DEF MarkTruncate
<1>4. CASE MarkWrite(r) \/ MarkFails(r)
  <2>1. AfterMark(run[r]).dir = run[r].dir /\ AfterMark(run[r]).pc \in {"walking", "marked"}
    BY <1>t DEF AfterMark, EnterRoot, RunState
  <2> QED
    BY ZenonT(40), <1>4, <1>t, <2>1 DEF MarkWrite, MarkFails
<1>5. ASSUME NEW p \in Path, WalkSkip(r, p) PROVE WriterExclusive'
  BY ZenonT(40), <1>5, <1>t, RunLeaves DEF WalkSkip
<1>11. ASSUME NEW ps \in SUBSET Path, WalkError(r, ps) PROVE WriterExclusive'
  BY ZenonT(40), <1>11, <1>t, RunLeaves DEF WalkError
<1>6. ASSUME NEW p \in Path, WalkVisit(r, p) PROVE WriterExclusive'
  <2>0. PICK a \in RunState : a = run[r]
    BY <1>t
  <2>1. /\ Leave(run[r], {p}) \in RunState /\ Leave(run[r], {p}).dir = run[r].dir
        /\ Leave(run[r], {p}).pc = run[r].pc
    BY ZenonT(40), <2>0, LeaveType
  <2>2. \A rs \in RunState : Count(rs, p).dir = rs.dir /\ Count(rs, p).pc = rs.pc
    BY DEF Count, RunState
  <2>3. NewTask(r, p).run = r
    BY ZenonT(40) DEF NewTask
  <2>4. run'[r].dir = run[r].dir /\ run'[r].pc = run[r].pc /\ \A s \in Run \ {r} : run'[s] = run[s]
    BY ZenonT(40), <1>6, <1>t, <2>1, <2>2 DEF WalkVisit
  <2>5. lock' = lock /\ run[r].pc = "walking" /\ tasks' = tasks \cup {NewTask(r, p)}
    BY ZenonT(40), <1>6 DEF WalkVisit
  <2> QED
    BY ZenonT(40), <1>t, <2>3, <2>4, <2>5
<1>7. CASE WalkNextRoot(r)
  <2>1. NextRoot(run[r]).dir = run[r].dir /\ NextRoot(run[r]).pc = run[r].pc
    BY <1>t DEF NextRoot, EnterRoot, RunState
  <2> QED
    BY ZenonT(40), <1>7, <1>t, <2>1 DEF WalkNextRoot
<1>8. CASE WalkDone(r)
  BY ZenonT(40), <1>8, <1>t DEF WalkDone, RunState
<1>9. CASE Return(r)
  BY ZenonT(40), <1>9, <1>t DEF Return, RunState
<1>10. CASE WriterDropped(r)
  BY SMTT(40), <1>10, <1>t DEF WriterDropped, LastReference, TasksOf, RunState
<1> QED
  BY ZenonT(40), <1>1, <1>2, <1>3, <1>4, <1>5, <1>6, <1>7, <1>8, <1>9, <1>10, <1>11 DEF RunStep

\* A step of a task keeps the writers apart.
LEMMA TaskStepWriters == ASSUME Writers, NEW t \in tasks, TaskStep(t) PROVE WriterExclusive'
<1> USE DEF Writers, WriterExclusive, Active
<1>t. t \in Task /\ t.run \in Run /\ run \in [Run -> RunState] /\ run[t.run] \in RunState
  BY ZenonT(40) DEF TypeOK, Task
<1>1. CASE TaskBuild(t)
  BY ZenonT(40), <1>1, <1>t DEF TaskBuild, Becomes, Task
<1>2. CASE TaskWrite(t)
  BY ZenonT(40), <1>2, <1>t DEF TaskWrite, Becomes, Task
<1>3. CASE TaskWriteFails(t)
  <2>1. \A s \in Run : run'[s].dir = run[s].dir /\ run'[s].pc = run[s].pc
    BY ZenonT(40), <1>3, TaskLoses
  <2>2. \A u \in tasks' : u \in tasks \/ u.run = t.run
    BY ZenonT(40), <1>3, <1>t DEF TaskWriteFails, Becomes, Task
  <2>3. lock' = lock /\ \A u \in tasks : u.run \in Run
    BY ZenonT(40), <1>3 DEF TaskWriteFails, TypeOK, Task
  <2> QED
    BY SMTT(40), <1>t, <2>1, <2>2, <2>3
<1>4. CASE TaskCount(t)
  <2>1. \A s \in Run : run'[s].dir = run[s].dir /\ run'[s].pc = run[s].pc
    BY ZenonT(40), <1>4, <1>t DEF TaskCount, RunState
  <2>2. \A u \in tasks' : u \in tasks \/ u.run = t.run
    BY ZenonT(40), <1>4, <1>t DEF TaskCount, Becomes, Task
  <2>3. lock' = lock /\ \A u \in tasks : u.run \in Run
    BY ZenonT(40), <1>4 DEF TaskCount, TypeOK, Task
  <2> QED
    BY SMTT(40), <1>t, <2>1, <2>2, <2>3
<1>5. CASE TaskReport(t)
  BY ZenonT(40), <1>5, <1>t DEF TaskReport
<1> QED
  BY ZenonT(40), <1>1, <1>2, <1>3, <1>4, <1>5 DEF TaskStep

\* Only an idle call is started anew, so no lock and no task is orphaned.
LEMMA StartWriters ==
  ASSUME Writers, NEW r \in Run, NEW d, NEW roots, NEW parse,
         Start(r, d, roots, parse), UNCHANGED <<lock, tasks>>
  PROVE  WriterExclusive'
<1>1. run \in [Run -> RunState] /\ \A t \in tasks : t.run \in Run
  BY ZenonT(40) DEF Writers, TypeOK, Task
<1>2. run'[r].pc = "spawned" /\ \A s \in Run \ {r} : run'[s] = run[s]
  BY <1>1, IdleRunType DEF Start, RunState
<1> QED
  BY <1>1, <1>2 DEF Writers, WriterExclusive, Active, Start, At

\* Every step keeps the writers apart.
LEMMA NextWriters == Writers /\ [Next]_vars => Writers'
<1> SUFFICES ASSUME Writers, [Next]_vars PROVE WriterExclusive'
  BY NextType DEF Writers
<1>1. CASE UNCHANGED <<lock, run, tasks>>
  BY ZenonT(40), <1>1 DEF Writers, WriterExclusive, Active
<1>2. ASSUME NEW r \in Run, RunStep(r) PROVE WriterExclusive'
  BY <1>2, RunStepWriters
<1>3. ASSUME NEW t \in tasks, TaskStep(t) PROVE WriterExclusive'
  BY <1>3, TaskStepWriters
<1>4. CASE DailyThread
  BY ZenonT(40), <1>1, <1>4, StartWriters DEF DailyThread, AutoReadConfig, AutoConfigFails, AutoLoadState, AutoSleep, AutoSpawn
<1>5. CASE User
  BY ZenonT(40), <1>1, <1>5, StartWriters DEF User, doScanAndIndex, start_auto_scan_now, write_config,
     FileWritten, FileRemoved, InvokeTimeout, OtherEnds
<1>6. CASE Midnight
  BY ZenonT(40), <1>1, <1>6 DEF Midnight
<1>7. CASE Crash
  BY <1>7, IdleRunType DEF Crash, WriterExclusive, Active, IdleRun
<1>8. CASE UNCHANGED vars
  BY ZenonT(40), <1>1, <1>8 DEF vars
<1> QED
  BY ZenonT(40), <1>2, <1>3, <1>4, <1>5, <1>6, <1>7, <1>8 DEF Next

\* pipeline.rs:62, "use a single writer": holds for any number of calls, index
\* directories, users and crashes.
THEOREM OneWriter == Spec => []WriterExclusive
<1>1. Init => Writers
  BY SMTT(40), InitType, IdleRunType DEF Init, Writers, WriterExclusive, Active, IdleRun
<1>2. Writers => WriterExclusive
  BY DEF Writers
<1> QED
  BY <1>1, <1>2, NextWriters, PTL DEF Spec

-----------------------------------------------------------------------------
(* What an upsert does, and what becomes of a counted file                  *)

\* The text of a whole path is a token of no path.
LEMMA WholePathIsNoToken ==
  ASSUME NoBareWord, NEW p \in Path, NEW q \in Path
  PROVE  p \notin Tokens(q)
<1> SUFFICES ASSUME p \in Tokens(q) PROVE FALSE
  OBVIOUS
<1>1. PICK i \in Words(q) : p = <<Lower[q[i]]>>
  BY ZenonT(40) DEF Tokens
<1>2. Len(p) = 1
  BY ZenonT(40), <1>1
<1> QED
  BY <1>2 DEF NoBareWord

\* The deletion of an upsert removes nothing, so an upsert only adds its document.
LEMMA UpsertGrows ==
  ASSUME NoBareWord, NEW ix \in Index, NEW d \in Doc
  PROVE  /\ delete_term(ix, d.path) = ix
         /\ \A e \in Doc : Upsert(ix, d)[e] >= ix[e]
         /\ Upsert(ix, d)[d] > 0
<1>1. \A e \in Doc : d.path \notin Tokens(e.path)
  BY ZenonT(40), WholePathIsNoToken DEF Doc
<1>2. delete_term(ix, d.path) = ix
  BY ZenonT(40), <1>1 DEF delete_term, Index
<1>3. \A e \in Doc : ix[e] \in Nat
  BY SMTT(40), TextIndexAssumption DEF Index
<1> QED
  BY SMTT(40), <1>2, <1>3, TextIndexAssumption DEF Upsert, add_document, Index

\* An index directory only gains documents.
Grows == \A d \in Dir : \A doc \in Doc : index'[d][doc] >= index[d][doc]

\* A step that does not write leaves every document where it is.
LEMMA SameIndexGrows == ASSUME TypeOK, UNCHANGED index PROVE Grows
BY SMTT(40), TextIndexAssumption DEF TypeOK, Index, Grows

\* The next commit in a directory takes no document away.
Stocked == \A d \in Dir : \A e \in Doc : staged[d][e] >= index[d][e]

\* The types, and what the writers have in store.
Stock == TypeOK /\ (NoBareWord => Stocked)

\* No step of a task takes a document away, now or at the next commit.
LEMMA TaskWriteGrows ==
  ASSUME TypeOK, TypeOK', NoBareWord, Stocked, NEW t \in tasks, TaskWrite(t) \/ TaskWriteFails(t)
  PROVE  Grows /\ Stocked'
<1>i. /\ index \in [Dir -> Index] /\ staged \in [Dir -> Index]
      /\ \A d \in Dir : \A e \in Doc : index[d][e] \in Nat /\ staged[d][e] \in Nat
  BY SMTT(40), TextIndexAssumption DEF TypeOK, Index
<1>1. PICK dir \in Dir : dir = DirOf(t)
  BY ZenonT(40) DEF TypeOK, Task, RunState, DirOf
<1>2. PICK doc \in Doc : doc = t.doc
  BY ZenonT(40) DEF TypeOK, Task
<1>3. PICK now \in Index : now = staged[dir]
  BY <1>i
<1>4. PICK ix \in {now, Upsert(now, doc)} :
        /\ staged' = [staged EXCEPT ![dir] = ix]
        /\ index' = [index EXCEPT ![dir] = ix] \/ index' = index
  BY ZenonT(40), <1>1, <1>2, <1>3, UpsertGrows DEF TaskWrite, TaskWriteFails, Commit, Prepare
<1>5. \A e \in Doc : ix[e] >= now[e] /\ now[e] \in Nat /\ ix[e] \in Nat
  <2>1. ix \in Index
    BY ZenonT(40), <1>4, UpsertType
  <2>2. \A jx \in Index : \A e \in Doc : jx[e] \in Nat
    BY SMTT(40), TextIndexAssumption DEF Index
  <2>3. \A e \in Doc : Upsert(now, doc)[e] >= now[e]
    BY ZenonT(40), UpsertGrows
  <2> QED
    BY SMTT(40), <1>4, <2>1, <2>2, <2>3
<1>6. \A e \in Doc : ix[e] >= index[dir][e]
  BY SMTT(40), <1>i, <1>3, <1>5 DEF Stocked
<1>7. \A d \in Dir \ {dir} : index'[d] = index[d] /\ staged'[d] = staged[d]
  BY ZenonT(40), <1>i, <1>4
<1>8. staged'[dir] = ix /\ index'[dir] \in {ix, index[dir]}
  BY ZenonT(40), <1>i, <1>4
<1>9. Grows
  BY SMTT(40), <1>i, <1>6, <1>7, <1>8 DEF Grows
<1>10. Stocked'
  <2> SUFFICES ASSUME NEW d \in Dir, NEW e \in Doc PROVE staged'[d][e] >= index'[d][e]
    BY ZenonT(40) DEF Stocked
  <2> QED
    BY SMTT(40), <1>i, <1>5, <1>6, <1>7, <1>8 DEF Stocked
<1> QED
  BY <1>9, <1>10

\* A directory without a writer, or with a writer that has nothing in store, is stocked.
LEMMA EqualStock == ASSUME TypeOK', UNCHANGED index, \A d \in Dir : staged'[d] \in {staged[d], index[d]},
                           Stocked, TypeOK
                    PROVE  Stocked'
<1>1. \A d \in Dir : \A e \in Doc : index[d][e] \in Nat
  BY SMTT(40), TextIndexAssumption DEF TypeOK, Index
<1> SUFFICES ASSUME NEW d \in Dir, NEW e \in Doc PROVE staged'[d][e] >= index'[d][e]
  BY ZenonT(40) DEF Stocked
<1>2. staged[d][e] >= index[d][e] /\ index'[d][e] = index[d][e] /\ index[d][e] \in Nat
  BY ZenonT(40), <1>1 DEF Stocked
<1>3. staged'[d][e] = staged[d][e] \/ staged'[d][e] = index[d][e]
  BY ZenonT(40)
<1> QED
  BY SMTT(40), <1>2, <1>3

\* No step takes a document away, now or at the next commit.
LEMMA NextStock ==
  ASSUME Stock, TypeOK', NoBareWord, [Next]_vars
  PROVE  Grows /\ Stocked'
<1> USE DEF Stock
<1>0. staged \in [Dir -> Index]
  BY ZenonT(40) DEF TypeOK
<1>1. ASSUME UNCHANGED index, \A d \in Dir : staged'[d] \in {staged[d], index[d]} PROVE Grows /\ Stocked'
  BY ZenonT(40), <1>1, SameIndexGrows, EqualStock
<1>2. ASSUME UNCHANGED <<index, staged>> PROVE Grows /\ Stocked'
  BY ZenonT(40), <1>1, <1>2
<1>3. ASSUME NEW t \in tasks, TaskStep(t) PROVE Grows /\ Stocked'
  BY ZenonT(40), <1>2, <1>3, TaskWriteGrows DEF TaskStep, TaskBuild, TaskCount, TaskReport
<1>4. ASSUME NEW r \in Run, WriterDropped(r) PROVE Grows /\ Stocked'
  <2>1. UNCHANGED index /\ staged' = [staged EXCEPT ![run[r].dir] = index[run[r].dir]]
    BY ZenonT(40), <1>4 DEF WriterDropped
  <2> QED
    BY ZenonT(40), <1>0, <1>1, <2>1
<1>5. ASSUME NEW r \in Run, RunStep(r) PROVE Grows /\ Stocked'
  BY ZenonT(40), <1>2, <1>4, <1>5 DEF RunStep, OpenWriter, OpenFails, MarkTruncate, MarkWrite, MarkFails,
     WalkSkip, WalkError, WalkVisit, WalkNextRoot, WalkDone, Return
<1>6. CASE DailyThread \/ User \/ Midnight \/ UNCHANGED vars
  BY ZenonT(40), <1>2, <1>6 DEF DailyThread, AutoReadConfig, AutoConfigFails, AutoLoadState, AutoSleep, AutoSpawn,
     User, doScanAndIndex, start_auto_scan_now, write_config, FileWritten, FileRemoved, InvokeTimeout, OtherEnds,
     Midnight, vars
<1>7. CASE Crash
  BY ZenonT(40), <1>1, <1>7 DEF Crash
<1> QED
  BY ZenonT(40), <1>3, <1>5, <1>6, <1>7 DEF Next

\* The writers always have in store what is committed.
LEMMA StockAlways == Spec => []Stock
<1>1. Init => Stock
  <2> SUFFICES ASSUME Init PROVE Stocked
    BY InitType DEF Stock
  <2> QED
    BY SMTT(40) DEF Init, Stocked, EmptyIndex
<1>2. Stock /\ [Next]_vars => Stock'
  <2> SUFFICES ASSUME Stock, [Next]_vars PROVE Stock'
    OBVIOUS
  <2>1. TypeOK'
    BY NextType DEF Stock
  <2> QED
    BY ZenonT(40), <2>1, NextStock DEF Stock
<1> QED
  BY <1>1, <1>2, PTL DEF Spec

\* Whatever the tokenizer's separators and words are, no upsert, failed commit,
\* crash or other step makes a file that an index finds unfindable, unless some
\* path is a bare word.
THEOREM SearchableForever == Spec => SearchableStays
<1> DEFINE Found(ix, p) == \E doc \in Live(ix) : doc.path = p
           Kept1 == \A d \in Dir, p \in Path : Found(index[d], p) => Found(index'[d], p)
<1>1. Stock /\ TypeOK' /\ [Next]_vars => [NoBareWord => Grows]_vars
  BY ZenonT(40), NextStock
<1>2. TypeOK /\ TypeOK' /\ Grows => Kept1
  <2> SUFFICES ASSUME TypeOK, TypeOK', Grows, NEW d \in Dir, NEW p \in Path,
                      NEW doc \in Live(index[d]), doc.path = p
               PROVE  doc \in Live(index'[d])
    BY ZenonT(40)
  <2>1. doc \in Doc /\ index[d][doc] > 0
    BY ZenonT(40) DEF Live
  <2>2. index[d][doc] \in Nat /\ index'[d][doc] \in Nat
    BY SMTT(40), <2>1, TextIndexAssumption DEF TypeOK, Index
  <2>3. index'[d][doc] >= index[d][doc]
    BY ZenonT(40), <2>1 DEF Grows
  <2> QED
    BY SMTT(40), <2>1, <2>2, <2>3 DEF Live
<1>3. Stock /\ TypeOK' /\ [Next]_vars => [NoBareWord => Kept1]_vars
  BY ZenonT(40), <1>1, <1>2 DEF Stock
<1> QED
  BY <1>3, StockAlways, TypeCorrect, PTL DEF Spec, SearchableStays

\* The files a call has counted wait, are indexed, or had their commit fail.
Kept(r) ==
  \A pv \in run[r].visited :
    Pending(r, pv[1], pv[2]) \/ Indexed(run[r].dir, pv[1], pv[2]) \/ pv \in run[r].lost

\* An indexed file stays indexed.
LEMMA IndexedStays ==
  ASSUME TypeOK, TypeOK', Grows, NEW d \in Dir, NEW p, NEW v, Indexed(d, p, v)
  PROVE  Indexed(d, p, v)'
<1>1. PICK doc \in Doc : index[d][doc] > 0 /\ doc.path = p /\ doc.ver = v
  BY ZenonT(40) DEF Indexed, Live
<1>2. index[d][doc] \in Nat /\ index'[d][doc] \in Nat /\ index'[d][doc] >= index[d][doc]
  BY SMTT(40), TextIndexAssumption DEF TypeOK, Index, Grows
<1> QED
  BY SMTT(40), <1>1, <1>2 DEF Indexed, Live

\* A step after which a call has counted no more files than before, and after
\* which its waiting files still wait, are indexed or have failed, keeps them.
LEMMA KeptFrame ==
  ASSUME TypeOK, TypeOK', Grows, NEW s \in Run, Kept(s),
         run'[s].visited = run[s].visited, run'[s].dir = run[s].dir,
         run[s].lost \subseteq run'[s].lost,
         \A p \in Path, v \in Version : Pending(s, p, v) =>
           Pending(s, p, v)' \/ Indexed(run[s].dir, p, v)' \/ <<p, v>> \in run'[s].lost
  PROVE  Kept(s)'
<1> SUFFICES ASSUME NEW pv \in run[s].visited
             PROVE  \/ Pending(s, pv[1], pv[2])'
                    \/ Indexed(run[s].dir, pv[1], pv[2])'
                    \/ pv \in run'[s].lost
  BY ZenonT(40) DEF Kept, Indexed
<1>1. pv \in Path \X Version /\ run[s].dir \in Dir
  BY ZenonT(40) DEF TypeOK, RunState
<1>2. pv[1] \in Path /\ pv[2] \in Version /\ pv = <<pv[1], pv[2]>>
  BY SMTT(40), <1>1
<1>3. CASE Indexed(run[s].dir, pv[1], pv[2])
  BY ZenonT(40), <1>1, <1>3, IndexedStays
<1> QED
  BY ZenonT(40), <1>2, <1>3 DEF Kept

\* A step that only adds tasks keeps the waiting files waiting.
LEMMA MoreTasks ==
  ASSUME NEW s \in Run, tasks \subseteq tasks', NEW p, NEW v, Pending(s, p, v)
  PROVE  Pending(s, p, v)'
BY ZenonT(40) DEF Pending, TasksOf

\* A call that does not count a file in a step keeps the files it has counted.
LEMMA RunStepKept ==
  ASSUME TypeOK, TypeOK', NoBareWord, Grows, NEW r \in Run, RunStep(r),
         NEW s \in Run, Kept(s)
  PROVE  Kept(s)'
<1>r. run \in [Run -> RunState] /\ run[r] \in RunState /\ run[s] \in RunState
  BY ZenonT(40) DEF TypeOK
<1>1. ASSUME NEW p \in Path, WalkVisit(r, p), s = r PROVE Kept(s)'
  <2>v. PICK v \in Version : v = version[p]
    BY ZenonT(40) DEF TypeOK
  <2>1. /\ run'[r].visited = run[r].visited \cup {<<p, v>>}
        /\ run'[r].dir = run[r].dir /\ run'[r].lost = run[r].lost
    <3>1. /\ Leave(run[r], {p}) \in RunState /\ Leave(run[r], {p}).dir = run[r].dir
          /\ Leave(run[r], {p}).visited = run[r].visited /\ Leave(run[r], {p}).lost = run[r].lost
      BY ZenonT(40), <1>r, LeaveType
    <3>2. \A rs \in RunState : /\ Count(rs, p).dir = rs.dir /\ Count(rs, p).lost = rs.lost
                               /\ Count(rs, p).visited = rs.visited \cup {<<p, v>>}
      BY <2>v DEF Count, RunState
    <3>3. run'[r] = Count(Leave(run[r], {p}), p)
      BY ZenonT(40), <1>1, <1>r DEF WalkVisit
    <3> QED
      BY ZenonT(40), <3>1, <3>2, <3>3
  <2>2. PICK t \in tasks' : t = NewTask(r, p)
    BY ZenonT(40), <1>1 DEF WalkVisit
  <2>3. tasks \subseteq tasks'
    BY ZenonT(40), <1>1 DEF WalkVisit
  <2>4. Pending(r, p, v)'
    <3>1. t.run = r /\ t.doc.path = p /\ t.doc.ver = v /\ t.st = "queued"
      BY ZenonT(40), <2>v, <2>2 DEF NewTask
    <3> QED
      BY ZenonT(40), <3>1 DEF Pending, TasksOf
  <2>5. ASSUME NEW pv \in run[r].visited
        PROVE  \/ Pending(r, pv[1], pv[2])'
               \/ Indexed(run[r].dir, pv[1], pv[2])'
               \/ pv \in run'[r].lost
    <3>1. run[r].dir \in Dir
      BY ZenonT(40), <1>r DEF RunState
    <3> QED
      BY ZenonT(40), <1>1, <2>1, <2>3, <2>5, <3>1, MoreTasks, IndexedStays DEF Kept
  <2> QED
    <3>1. \A pv \in run'[r].visited : \/ Pending(r, pv[1], pv[2])'
                                       \/ Indexed(run[r].dir, pv[1], pv[2])'
                                       \/ pv \in run'[r].lost
      BY SMTT(40), <2>1, <2>4, <2>5
    <3> QED
      BY ZenonT(40), <1>1, <2>1, <3>1 DEF Kept, Indexed
<1>2. ASSUME tasks \subseteq tasks', run'[s].visited = run[s].visited,
             run'[s].dir = run[s].dir, run'[s].lost = run[s].lost
      PROVE  Kept(s)'
  BY ZenonT(40), <1>2, MoreTasks, KeptFrame
<1>3. ASSUME run'[s] = run[s], tasks \subseteq tasks' PROVE Kept(s)'
  BY ZenonT(40), <1>2, <1>3
<1>4. CASE OpenWriter(r)
  BY ZenonT(40), <1>r, <1>2, <1>3, <1>4 DEF OpenWriter, RunState
<1>5. CASE OpenFails(r)
  BY ZenonT(40), <1>r, <1>2, <1>3, <1>5 DEF OpenFails, RunState
<1>6. CASE MarkTruncate(r)
  BY <1>r, <1>2, <1>3, <1>6 DEF MarkTruncate, BeginMark, RunState
<1>7. CASE MarkWrite(r) \/ MarkFails(r)
  <2>1. /\ AfterMark(run[r]).visited = run[r].visited /\ AfterMark(run[r]).lost = run[r].lost
        /\ AfterMark(run[r]).dir = run[r].dir
    BY <1>r DEF AfterMark, EnterRoot, RunState
  <2> QED
    BY ZenonT(40), <1>r, <1>2, <1>3, <1>7, <2>1 DEF MarkWrite, MarkFails
<1>8. ASSUME NEW p \in Path, WalkSkip(r, p) PROVE Kept(s)'
  BY ZenonT(40), <1>r, <1>2, <1>8, RunLeaves DEF WalkSkip
<1>14. ASSUME NEW ps \in SUBSET Path, WalkError(r, ps) PROVE Kept(s)'
  BY ZenonT(40), <1>r, <1>2, <1>14, RunLeaves DEF WalkError
<1>9. ASSUME NEW p \in Path, WalkVisit(r, p), s # r PROVE Kept(s)'
  BY ZenonT(40), <1>r, <1>3, <1>9 DEF WalkVisit
<1>10. CASE WalkNextRoot(r)
  BY ZenonT(40), <1>r, <1>2, <1>3, <1>10 DEF WalkNextRoot, NextRoot, EnterRoot, RunState
<1>11. CASE WalkDone(r)
  BY ZenonT(40), <1>r, <1>2, <1>3, <1>11 DEF WalkDone, RunState
<1>12. CASE Return(r)
  BY ZenonT(40), <1>r, <1>2, <1>3, <1>12 DEF Return, RunState
<1>13. CASE WriterDropped(r)
  BY ZenonT(40), <1>r, <1>2, <1>3, <1>13 DEF WriterDropped, RunState
<1> QED
  BY ZenonT(40), <1>1, <1>4, <1>5, <1>6, <1>7, <1>8, <1>9, <1>10, <1>11, <1>12, <1>13, <1>14 DEF RunStep

\* A task that moves on still waits, has put its document into the index, or
\* has had its commit fail.
LEMMA TaskStepKept ==
  ASSUME TypeOK, TypeOK', NoBareWord, Grows, NEW t \in tasks, TaskStep(t), NEW s \in Run, Kept(s)
  PROVE  Kept(s)'
<1>t. t \in Task /\ t.run \in Run /\ t.doc \in Doc /\ run \in [Run -> RunState]
      /\ run[s] \in RunState /\ run[t.run] \in RunState
  BY ZenonT(40) DEF TypeOK, Task
<1>1. ASSUME NEW u \in tasks, u # t, TaskStep(t) PROVE u \in tasks'
  BY ZenonT(40), <1>1 DEF TaskStep, TaskBuild, TaskWrite, TaskWriteFails, TaskCount, TaskReport, Becomes
<1>2. ASSUME NEW p \in Path, NEW v \in Version, Pending(s, p, v)
      PROVE  \/ Pending(s, p, v)'
             \/ t.run = s /\ t.doc.path = p /\ t.doc.ver = v /\ t.st \in {"queued", "built"}
  <2>1. PICK u \in tasks : u.run = s /\ u.doc.path = p /\ u.doc.ver = v /\ u.st \in {"queued", "built"}
    BY ZenonT(40), <1>2 DEF Pending, TasksOf
  <2>2. CASE u # t
    <3>1. u \in tasks'
      BY ZenonT(40), <1>1, <2>2
    <3> QED
      BY ZenonT(40), <2>1, <3>1 DEF Pending, TasksOf
  <2> QED
    BY ZenonT(40), <2>1, <2>2
<1>3. CASE TaskBuild(t)
  <2>1. PICK u \in tasks' : /\ u.run = t.run /\ u.doc.path = t.doc.path /\ u.doc.ver = t.doc.ver
                            /\ u.st = "built"
    <3> DEFINE w == [t EXCEPT !.st = "built", !.doc.content = ContentNow(t.run, t.doc.path)]
    <3>1. w \in tasks'
      BY <1>3 DEF TaskBuild, Becomes
    <3>2. w.run = t.run /\ w.doc.path = t.doc.path /\ w.doc.ver = t.doc.ver /\ w.st = "built"
      BY <1>t DEF Task, Doc
    <3> QED
      BY ZenonT(40), <3>1, <3>2
  <2>2. \A p \in Path, v \in Version : Pending(s, p, v) => Pending(s, p, v)'
    BY SMTT(40), <1>2, <2>1 DEF Pending, TasksOf
  <2> QED
    BY <1>3, <2>2, KeptFrame DEF TaskBuild
<1>4. CASE TaskWrite(t)
  <2>1. PICK dir \in Dir : dir = DirOf(t) /\ dir = run[t.run].dir
    BY ZenonT(40), <1>t DEF RunState, DirOf
  <2>i. index \in [Dir -> Index] /\ staged[dir] \in Index
    BY ZenonT(40) DEF TypeOK
  <2>2. index'[dir][t.doc] > 0
    BY ZenonT(40), <1>4, <1>t, <2>1, <2>i, UpsertGrows DEF TaskWrite, Commit
  <2>3. UNCHANGED run
    BY ZenonT(40), <1>4 DEF TaskWrite
  <2>4. t.doc \in Live(index[dir])'
    BY ZenonT(40), <1>t, <2>2 DEF Live
  <2>5. \A p \in Path, v \in Version : Pending(s, p, v) =>
          Pending(s, p, v)' \/ Indexed(run[s].dir, p, v)'
    BY ZenonT(40), <1>2, <2>1, <2>3, <2>4 DEF Indexed
  <2> QED
    BY ZenonT(40), <2>3, <2>5, KeptFrame
<1>5. CASE TaskWriteFails(t)
  <2>1. /\ \A r \in Run : run'[r].visited = run[r].visited /\ run'[r].dir = run[r].dir
        /\ run'[t.run].lost = run[t.run].lost \cup {<<t.doc.path, t.doc.ver>>}
        /\ \A r \in Run \ {t.run} : run'[r].lost = run[r].lost
    BY ZenonT(40), <1>5, <1>t, TaskLoses
  <2>2. \A p \in Path, v \in Version : Pending(s, p, v) => Pending(s, p, v)' \/ <<p, v>> \in run'[s].lost
    BY SMTT(40), <1>2, <2>1
  <2>3. run[s].lost \subseteq run'[s].lost
    BY ZenonT(40), <2>1
  <2> QED
    BY ZenonT(40), <2>1, <2>2, <2>3, KeptFrame
<1>6. CASE TaskCount(t)
  <2>1. /\ run'[s].visited = run[s].visited /\ run'[s].dir = run[s].dir
        /\ run'[s].lost = run[s].lost
    BY ZenonT(40), <1>6, <1>t DEF TaskCount, RunState
  <2>2. t.st = "written"
    BY <1>6 DEF TaskCount
  <2> QED
    BY ZenonT(40), <1>2, <2>1, <2>2, KeptFrame
<1>7. CASE TaskReport(t)
  BY ZenonT(40), <1>2, <1>7, KeptFrame DEF TaskReport
<1> QED
  BY ZenonT(40), <1>3, <1>4, <1>5, <1>6, <1>7 DEF TaskStep

\* Starting a call begins a new history; the other calls keep theirs.
LEMMA StartKept ==
  ASSUME TypeOK, TypeOK', Grows, NEW r \in Run, NEW d, NEW roots, NEW parse,
         Start(r, d, roots, parse), UNCHANGED tasks, NEW s \in Run, Kept(s)
  PROVE  Kept(s)'
<1>1. run \in [Run -> RunState]
  BY ZenonT(40) DEF TypeOK
<1>2. CASE s = r
  BY <1>1, <1>2 DEF Start, IdleRun, Kept
<1>3. CASE s # r
  BY <1>1, <1>3, MoreTasks, KeptFrame DEF Start
<1> QED
  BY ZenonT(40), <1>2, <1>3

\* Every step keeps every counted file.
LEMMA NextKept ==
  ASSUME Stock, TypeOK', NoBareWord, [Next]_vars, NEW s \in Run, Kept(s)
  PROVE  Kept(s)'
<1>g. Grows /\ TypeOK
  BY ZenonT(40), NextStock DEF Stock
<1>1. ASSUME UNCHANGED <<run, tasks>> PROVE Kept(s)'
  BY ZenonT(40), <1>g, <1>1, MoreTasks, KeptFrame
<1>2. ASSUME NEW r \in Run, RunStep(r) PROVE Kept(s)'
  BY ZenonT(40), <1>g, <1>2, RunStepKept
<1>3. ASSUME NEW t \in tasks, TaskStep(t) PROVE Kept(s)'
  BY ZenonT(40), <1>g, <1>3, TaskStepKept
<1>4. CASE DailyThread
  BY ZenonT(40), <1>g, <1>1, <1>4, StartKept DEF DailyThread, AutoReadConfig, AutoConfigFails, AutoLoadState, AutoSleep, AutoSpawn
<1>5. CASE User
  BY ZenonT(40), <1>g, <1>1, <1>5, StartKept DEF User, doScanAndIndex, start_auto_scan_now, write_config,
     FileWritten, FileRemoved, InvokeTimeout, OtherEnds
<1>6. CASE Midnight \/ UNCHANGED vars
  BY ZenonT(40), <1>g, <1>1, <1>6 DEF Midnight, vars
<1>7. CASE Crash
  BY ZenonT(40), <1>7 DEF Crash, IdleRun, Kept
<1> QED
  BY ZenonT(40), <1>2, <1>3, <1>4, <1>5, <1>6, <1>7 DEF Next

\* However calls, pools, edits and crashes interleave, a file the walk of
\* pipeline.rs has counted is never silently dropped.
THEOREM CountedIsKept == Spec => []NoVisitLost
<1> DEFINE I == NoBareWord => \A s \in Run : Kept(s)
<1>1. Init => I
  BY SMTT(40) DEF Init, IdleRun, Kept
<1>2. Stock /\ TypeOK' /\ I /\ [Next]_vars => I'
  BY ZenonT(40), NextKept
<1>3. I => NoVisitLost
  BY ZenonT(40) DEF Kept, NoVisitLost
<1> HIDE DEF I
<1> QED
  BY <1>1, <1>2, <1>3, StockAlways, TypeCorrect, PTL DEF Spec

-----------------------------------------------------------------------------
(* Content is not older than metadata                                       *)

NotOlder(doc) == doc.content # NoContent => doc.content >= doc.ver

\* The metadata of a task was read from the disk, its content later.
TaskNotOlder(t) == t.doc.ver <= version[t.doc.path] /\ NotOlder(t.doc)

\* The same for the documents that the next commit publishes.
StoreNotOlder == \A d \in Dir : \A doc \in Live(staged[d]) : NotOlder(doc)

Ages == ContentNotOlder /\ StoreNotOlder /\ \A t \in tasks : TaskNotOlder(t)

\* Versions are numbers.
LEMMA VersionsAreNumbers ==
  ASSUME TypeOK
  PROVE  /\ \A p \in Path : version[p] \in Nat
         /\ \A t \in tasks : /\ t \in Task /\ t.run \in Run /\ t.doc \in Doc
                             /\ t.doc.path \in Path /\ t.doc.ver \in Nat
         /\ \A r \in Run : run[r].dir \in Dir
BY ZenonT(40), TextIndexAssumption DEF TypeOK, Task, Doc, RunState

\* An upsert makes no document live but its own, a deletion makes none live.
LEMMA LiveAfterUpsert ==
  ASSUME NEW ix \in Index, NEW d \in Doc
  PROVE  /\ Live(delete_term(ix, d.path)) \subseteq Live(ix)
         /\ Live(Upsert(ix, d)) \subseteq Live(ix) \cup {d}
<1>1. Live(delete_term(ix, d.path)) \subseteq Live(ix)
  BY SMTT(40) DEF Live, delete_term, Index
<1>2. delete_term(ix, d.path) \in Index
  BY ZenonT(40), UpsertType
<1>3. \A jx \in Index : Live(add_document(jx, d)) \subseteq Live(jx) \cup {d}
  BY ZenonT(40), TextIndexAssumption DEF Live, add_document, Index
<1> QED
  BY ZenonT(40), <1>1, <1>2, <1>3 DEF Upsert

\* The steps that change no document and take no version back.
LEMMA SameDocs ==
  ASSUME TypeOK, TypeOK', Ages, index' = index, \A d \in Dir : staged'[d] \in {staged[d], index[d]},
         \A t \in tasks' : \E u \in tasks : u.doc = t.doc,
         \A p \in Path : version'[p] >= version[p]
  PROVE  Ages'
<1>1. ContentNotOlder' /\ StoreNotOlder'
  BY ZenonT(40) DEF Ages, ContentNotOlder, StoreNotOlder, NotOlder
<1>2. ASSUME NEW t \in tasks' PROVE TaskNotOlder(t)'
  <2>1. PICK u \in tasks : u.doc = t.doc
    BY ZenonT(40)
  <2>2. TaskNotOlder(u) /\ u.doc.path \in Path /\ u.doc.ver \in Nat
    BY ZenonT(40), VersionsAreNumbers DEF Ages
  <2>3. version[u.doc.path] \in Nat /\ version'[u.doc.path] \in Nat
    BY ZenonT(40), <2>2, TextIndexAssumption DEF TypeOK
  <2> QED
    BY SMTT(40), <2>1, <2>2, <2>3 DEF TaskNotOlder, NotOlder
<1> QED
  BY ZenonT(40), <1>1, <1>2 DEF Ages

\* Versions stay where they are, or one of them grows.
LEMMA SameVersion == ASSUME TypeOK, version' = version
                     PROVE  \A p \in Path : version'[p] >= version[p]
BY SMTT(40), VersionsAreNumbers

\* A step of a call: only WalkVisit makes a task, with the metadata of the moment.
LEMMA RunStepAges == ASSUME TypeOK, TypeOK', Ages, NEW r \in Run, RunStep(r) PROVE Ages'
<1>1. CASE tasks' = tasks /\ index' = index /\ staged' = staged /\ version' = version
  BY ZenonT(40), <1>1, SameDocs, SameVersion
<1>2. ASSUME NEW p \in Path, WalkVisit(r, p) PROVE Ages'
  <2>1. /\ index' = index /\ staged' = staged /\ version' = version
        /\ tasks' = tasks \cup {NewTask(r, p)}
    BY ZenonT(40), <1>2 DEF WalkVisit, disk
  <2>2. ContentNotOlder' /\ StoreNotOlder'
    BY ZenonT(40), <2>1 DEF Ages, ContentNotOlder, StoreNotOlder
  <2>3. TaskNotOlder(NewTask(r, p))
    BY SMTT(40), VersionsAreNumbers DEF TaskNotOlder, NotOlder, NewTask
  <2>4. \A t \in tasks' : TaskNotOlder(t)
    BY ZenonT(40), <2>1, <2>3 DEF Ages
  <2>5. \A t \in tasks' : TaskNotOlder(t)'
    BY ZenonT(40), <2>1, <2>4 DEF TaskNotOlder
  <2> QED
    BY ZenonT(40), <2>2, <2>5 DEF Ages
<1>3. CASE (\E p \in Path : WalkSkip(r, p)) \/ \E ps \in SUBSET Path : WalkError(r, ps)
  BY ZenonT(40), <1>1, <1>3 DEF WalkSkip, WalkError, disk
<1>4. CASE OpenWriter(r) \/ OpenFails(r) \/ MarkTruncate(r) \/ MarkWrite(r) \/ MarkFails(r)
  BY ZenonT(40), <1>1, <1>4 DEF OpenWriter, OpenFails, MarkTruncate, MarkWrite, MarkFails, disk
<1>5. CASE WalkNextRoot(r) \/ WalkDone(r) \/ Return(r)
  BY ZenonT(40), <1>1, <1>5 DEF WalkNextRoot, WalkDone, Return, disk
<1>6. CASE WriterDropped(r)
  <2>1. /\ tasks' = tasks /\ index' = index /\ version' = version
        /\ staged' = [staged EXCEPT ![run[r].dir] = index[run[r].dir]]
    BY ZenonT(40), <1>6 DEF WriterDropped, disk
  <2>2. \A d \in Dir : staged'[d] \in {staged[d], index[d]}
    BY ZenonT(40), <2>1 DEF TypeOK
  <2> QED
    BY ZenonT(40), <2>1, <2>2, SameDocs, SameVersion
<1> QED
  BY ZenonT(40), <1>2, <1>3, <1>4, <1>5, <1>6 DEF RunStep

\* A step of a task: its content is read when its metadata has been read, and
\* its document goes to the index as it is.
LEMMA TaskStepAges == ASSUME TypeOK, TypeOK', Ages, NEW t \in tasks, TaskStep(t) PROVE Ages'
<1>t. /\ t \in Task /\ t.run \in Run /\ t.doc \in Doc /\ t.doc.path \in Path /\ t.doc.ver \in Nat
      /\ version[t.doc.path] \in Nat /\ run[t.run].dir \in Dir
      /\ TaskNotOlder(t)
  BY ZenonT(40), VersionsAreNumbers DEF Ages
<1>v. version' = version
  BY ZenonT(40) DEF TaskStep, TaskBuild, TaskWrite, TaskWriteFails, TaskCount, TaskReport, disk
<1>n. \A p \in Path : version'[p] >= version[p]
  BY ZenonT(40), <1>v, SameVersion
<1>1. CASE TaskBuild(t)
  <2> DEFINE u == [t EXCEPT !.st = "built", !.doc.content = ContentNow(t.run, t.doc.path)]
  <2>1. index' = index /\ staged' = staged /\ tasks' = (tasks \ {t}) \cup {u}
    BY <1>1 DEF TaskBuild, Becomes
  <2>2. u.doc = [t.doc EXCEPT !.content = ContentNow(t.run, t.doc.path)]
    BY <1>t DEF Task
  <2>3. /\ u.doc.path = t.doc.path /\ u.doc.ver = t.doc.ver
        /\ u.doc.content = ContentNow(t.run, t.doc.path)
    BY ZenonT(40), <1>t, <2>2 DEF Doc
  <2>4. TaskNotOlder(u)
    BY ZenonT(40), <1>t, <2>3 DEF TaskNotOlder, NotOlder, ContentNow
  <2> HIDE DEF u
  <2>5. \A w \in tasks' : TaskNotOlder(w)
    BY ZenonT(40), <2>1, <2>4 DEF Ages
  <2>6. \A w \in tasks' : TaskNotOlder(w)'
    BY ZenonT(40), <1>v, <2>5 DEF TaskNotOlder
  <2>7. ContentNotOlder' /\ StoreNotOlder'
    BY ZenonT(40), <2>1 DEF Ages, ContentNotOlder, StoreNotOlder
  <2> QED
    BY ZenonT(40), <2>6, <2>7 DEF Ages
<1>2. CASE TaskWrite(t) \/ TaskWriteFails(t)
  <2>d. PICK dir \in Dir : dir = DirOf(t)
    BY ZenonT(40), <1>t DEF DirOf
  <2>i. index \in [Dir -> Index] /\ staged \in [Dir -> Index]
    BY ZenonT(40) DEF TypeOK
  <2>n. PICK now \in Index : now = staged[dir]
    BY <2>i
  <2>1. PICK ix \in {now, delete_term(now, t.doc.path), Upsert(now, t.doc)} :
          /\ staged' = [staged EXCEPT ![dir] = ix]
          /\ index' = [index EXCEPT ![dir] = ix] \/ index' = index
    BY ZenonT(40), <1>2, <2>d, <2>n DEF TaskWrite, TaskWriteFails, Commit, Prepare
  <2>2. \A doc \in Live(ix) : NotOlder(doc)
    <3>1. Live(ix) \subseteq Live(now) \cup {t.doc}
      BY ZenonT(40), <1>t, LiveAfterUpsert
    <3> QED
      BY ZenonT(40), <1>t, <2>n, <3>1 DEF Ages, StoreNotOlder, TaskNotOlder
  <2>3. \A d \in Dir : index'[d] \in {ix, index[d]} /\ staged'[d] \in {ix, staged[d]}
    BY ZenonT(40), <2>1, <2>i
  <2>5. ContentNotOlder' /\ StoreNotOlder'
    <3>1. \A d \in Dir : \A doc \in Live(index[d]) : NotOlder(doc)
      BY ZenonT(40) DEF Ages, ContentNotOlder, NotOlder
    <3>2. \A d \in Dir : \A doc \in Live(index'[d]) : NotOlder(doc)
      BY ZenonT(40), <2>2, <2>3, <3>1
    <3>3. \A d \in Dir : \A doc \in Live(staged'[d]) : NotOlder(doc)
      BY ZenonT(40), <2>2, <2>3 DEF Ages, StoreNotOlder
    <3> QED
      BY ZenonT(40), <3>2, <3>3 DEF ContentNotOlder, StoreNotOlder, NotOlder
  <2>6. tasks' = (tasks \ {t}) \cup {[t EXCEPT !.st = "written"]}
    BY ZenonT(40), <1>2 DEF TaskWrite, TaskWriteFails, Becomes
  <2>7. [t EXCEPT !.st = "written"].doc = t.doc
    BY <1>t DEF Task
  <2>8. \A w \in tasks' : TaskNotOlder(w)
    BY ZenonT(40), <1>t, <2>6, <2>7 DEF Ages, TaskNotOlder
  <2>9. \A w \in tasks' : TaskNotOlder(w)'
    BY ZenonT(40), <1>v, <2>8 DEF TaskNotOlder
  <2> QED
    BY ZenonT(40), <2>5, <2>9 DEF Ages
<1>3. CASE TaskCount(t)
  <2>1. [t EXCEPT !.st = "counted", !.cur = run[t.run].counter + 1].doc = t.doc
    BY <1>t DEF Task
  <2>2. \A w \in tasks' : \E x \in tasks : x.doc = w.doc
    BY ZenonT(40), <1>3, <2>1 DEF TaskCount, Becomes
  <2>3. index' = index /\ staged' = staged
    BY <1>3 DEF TaskCount
  <2> QED
    BY ZenonT(40), <1>n, <2>2, <2>3, SameDocs
<1>4. CASE TaskReport(t)
  <2>1. index' = index /\ staged' = staged /\ \A w \in tasks' : \E x \in tasks : x.doc = w.doc
    BY ZenonT(40), <1>4 DEF TaskReport
  <2> QED
    BY ZenonT(40), <1>n, <2>1, SameDocs
<1> QED
  BY ZenonT(40), <1>1, <1>2, <1>3, <1>4 DEF TaskStep

\* Every step keeps documents and tasks in order.
LEMMA NextAges == TypeOK /\ TypeOK' /\ Ages /\ [Next]_vars => Ages'
<1> SUFFICES ASSUME TypeOK, TypeOK', Ages, [Next]_vars PROVE Ages'
  BY ZenonT(40)
<1>1. CASE tasks' = tasks /\ index' = index /\ staged' = staged /\ version' = version
  BY ZenonT(40), <1>1, SameDocs, SameVersion
<1>2. ASSUME NEW p \in Path, FileWritten(p) PROVE Ages'
  <2>1. tasks' = tasks /\ index' = index /\ staged' = staged /\ version' = [version EXCEPT ![p] = @ + 1]
    BY ZenonT(40), <1>2 DEF FileWritten
  <2>2. \A q \in Path : version'[q] >= version[q]
    BY SMTT(40), <2>1, VersionsAreNumbers DEF TypeOK
  <2> QED
    BY ZenonT(40), <2>1, <2>2, SameDocs
<1>3. CASE Crash
  <2>1. tasks' = {} /\ index' = index /\ staged' = index /\ version' = version
    BY <1>3 DEF Crash, disk
  <2> QED
    BY ZenonT(40), <2>1, SameDocs, SameVersion
<1>4. CASE DailyThread \/ Midnight \/ UNCHANGED vars
  BY Zenon, <1>1, <1>4 DEF DailyThread, AutoReadConfig, AutoConfigFails, AutoLoadState, AutoSleep, AutoSpawn,
     Midnight, vars, disk
<1>5. CASE User
  BY Zenon, <1>1, <1>2, <1>5 DEF User, doScanAndIndex, start_auto_scan_now, write_config, FileRemoved,
     InvokeTimeout, OtherEnds, disk
<1> QED
  BY ZenonT(40), <1>3, <1>4, <1>5, RunStepAges, TaskStepAges DEF Next

\* pipeline.rs reads size and time in the walk and the text in the pool: whatever
\* happens to a file in between, no document has text older than its metadata.
THEOREM ContentIsNotOlder == Spec => []ContentNotOlder
<1>1. Init => Ages
  BY SMTT(40) DEF Init, Ages, ContentNotOlder, StoreNotOlder, Live, EmptyIndex
<1>2. Ages => ContentNotOlder
  BY DEF Ages
<1> QED
  BY <1>1, <1>2, TypeCorrect, NextAges, PTL DEF Spec

-----------------------------------------------------------------------------
(* Every call and every task comes closer to its end                        *)

Stage == [spawned |-> 0, opened |-> 1, starting |-> 2, walking |-> 3, walked |-> 4,
          finishing |-> 5, marked |-> 6, returned |-> 7, idle |-> 8]

\* Call b is closer to its end than a: at a later step, with fewer roots to walk, or with
\* fewer paths of the current root to visit.
Later(a, b) ==
  \/ Stage[b.pc] > Stage[a.pc]
  \/ b.pc = a.pc /\ Len(b.roots) < Len(a.roots)
  \/ b.pc = a.pc /\ b.roots = a.roots /\ b.left \subseteq a.left /\ b.left # a.left

\* As close to its end as before.
AsFar(a, b) == b.pc = a.pc /\ b.roots = a.roots /\ b.left = a.left

\* Every step of a call of pipeline.rs brings it closer to its end, and no step of
\* another call, a task, a user or the daily thread sets it back.
CallsAdvance ==
  [][\A r \in Run : ~At(r, "idle") =>
       Later(run[r], run'[r]) \/ (AsFar(run[r], run'[r]) /\ ~RunStep(r))]_vars

\* A step of a call moves that call only, and forward.
LEMMA RunStepAdvances ==
  ASSUME TypeOK, NEW r \in Run, RunStep(r)
  PROVE  Later(run[r], run'[r]) /\ \A s \in Run \ {r} : run'[s] = run[s]
<1>t. run \in [Run -> RunState]
  BY ZenonT(40) DEF TypeOK
<1>r. PICK a \in RunState : a = run[r]
  BY ZenonT(40), <1>t
<1>1. ASSUME NEW b \in RunState, run' = [run EXCEPT ![r] = b], Later(a, b)
      PROVE  Later(run[r], run'[r]) /\ \A s \in Run \ {r} : run'[s] = run[s]
  BY ZenonT(40), <1>t, <1>r, <1>1
<1>2. ASSUME NEW pc \in PC, run' = [run EXCEPT ![r].pc = pc], Stage[pc] > Stage[a.pc]
      PROVE  Later(run[r], run'[r]) /\ \A s \in Run \ {r} : run'[s] = run[s]
  <2> DEFINE b == [a EXCEPT !.pc = pc]
  <2>1. b \in RunState /\ b.pc = pc
    BY ZenonT(40) DEF RunState
  <2>2. run' = [run EXCEPT ![r] = b]
    BY ZenonT(40), <1>r, <1>2
  <2>3. Later(a, b)
    BY ZenonT(40), <1>2, <2>1 DEF Later
  <2> QED
    BY ZenonT(40), <1>1, <2>1, <2>2, <2>3
<1>3. CASE OpenWriter(r)
  <2>1. a.pc = "spawned" /\ run' = [run EXCEPT ![r].pc = "opened"]
    BY ZenonT(40), <1>r, <1>3 DEF OpenWriter, At
  <2>2. Stage["opened"] > Stage["spawned"] /\ "opened" \in PC
    BY DEF Stage, PC
  <2> QED
    BY ZenonT(40), <1>2, <2>1, <2>2
<1>4. CASE OpenFails(r)
  <2>1. a.pc = "spawned" /\ run' = [run EXCEPT ![r].pc = "idle"]
    BY ZenonT(40), <1>r, <1>4 DEF OpenFails, At
  <2>2. Stage["idle"] > Stage["spawned"] /\ "idle" \in PC
    BY DEF Stage, PC
  <2> QED
    BY ZenonT(40), <1>2, <2>1, <2>2
<1>5. CASE MarkTruncate(r)
  <2>1. a.pc \in {"opened", "walked"} /\ run' = [run EXCEPT ![r] = BeginMark(a)]
    BY ZenonT(40), <1>r, <1>5 DEF MarkTruncate
  <2>2. BeginMark(a) \in RunState
    BY BeginMarkType DEF TypeOK
  <2>3. BeginMark(a).pc = IF a.pc = "opened" THEN "starting" ELSE "finishing"
    BY ZenonT(40) DEF BeginMark, RunState
  <2>4. Stage[BeginMark(a).pc] > Stage[a.pc]
    BY <2>1, <2>3 DEF Stage
  <2> QED
    BY ZenonT(40), <1>1, <2>1, <2>2, <2>4 DEF Later
<1>6. CASE MarkWrite(r) \/ MarkFails(r)
  <2>1. a.pc \in {"opened", "walked", "starting", "finishing"} /\ run' = [run EXCEPT ![r] = AfterMark(a)]
    BY ZenonT(40), <1>r, <1>6 DEF MarkWrite, MarkFails
  <2>2. AfterMark(a) \in RunState
    BY AfterMarkType DEF TypeOK
  <2>3. AfterMark(a).pc = IF a.pc \in {"opened", "starting"} THEN "walking" ELSE "marked"
    BY DEF AfterMark, EnterRoot, RunState
  <2>4. Stage[AfterMark(a).pc] > Stage[a.pc]
    BY <2>1, <2>3 DEF Stage
  <2> QED
    BY ZenonT(40), <1>1, <2>1, <2>2, <2>4 DEF Later
<1>12. ASSUME NEW ps \in SUBSET Path, WalkError(r, ps)
       PROVE  Later(run[r], run'[r]) /\ \A s \in Run \ {r} : run'[s] = run[s]
  <2> DEFINE b == Leave(a, ps)
  <2>1. b \in RunState /\ b.pc = a.pc /\ b.roots = a.roots /\ b.left = a.left \ ps
    BY ZenonT(40) DEF Leave, RunState
  <2>2. ps # {} /\ ps \subseteq a.left
    BY ZenonT(40), <1>r, <1>12 DEF WalkError
  <2> HIDE DEF b
  <2>3. run' = [run EXCEPT ![r] = b]
    BY ZenonT(40), <1>r, <1>12 DEF WalkError, b
  <2>4. b.left # a.left
    BY <2>1, <2>2
  <2> QED
    BY ZenonT(40), <1>1, <2>1, <2>3, <2>4 DEF Later
<1>7. ASSUME NEW p \in Path, WalkSkip(r, p) \/ WalkVisit(r, p)
      PROVE  Later(run[r], run'[r]) /\ \A s \in Run \ {r} : run'[s] = run[s]
  <2> DEFINE b == Leave(a, {p})
  <2>1. b \in RunState /\ b.pc = a.pc /\ b.roots = a.roots /\ b.left = a.left \ {p}
    BY ZenonT(40) DEF Leave, RunState
  <2>2. p \in a.left
    BY ZenonT(40), <1>r, <1>7 DEF WalkSkip, WalkError, WalkVisit
  <2> HIDE DEF b
  <2>3. CASE WalkSkip(r, p)
    <3>1. run' = [run EXCEPT ![r] = b]
      BY ZenonT(40), <1>r, <2>3 DEF WalkSkip, WalkError, b
    <3> QED
      BY ZenonT(40), <1>1, <2>1, <2>2, <3>1 DEF Later
  <2>4. CASE WalkVisit(r, p)
    <3> DEFINE c == Count(b, p)
    <3>1. c \in RunState
      BY ZenonT(40), <2>1, CountType DEF TypeOK
    <3>2. c.pc = b.pc /\ c.roots = b.roots /\ c.left = b.left
      BY ZenonT(40), <2>1 DEF Count, RunState
    <3>3. run' = [run EXCEPT ![r] = c]
      BY ZenonT(40), <1>r, <2>4 DEF WalkVisit, b
    <3> HIDE DEF c
    <3> QED
      BY ZenonT(40), <1>1, <2>1, <2>2, <3>1, <3>2, <3>3 DEF Later
  <2> QED
    BY <1>7, <2>3, <2>4
<1>8. CASE WalkNextRoot(r)
  <2>1. a.roots # <<>> /\ run' = [run EXCEPT ![r] = NextRoot(a)]
    BY ZenonT(40), <1>r, <1>8 DEF WalkNextRoot
  <2>2. NextRoot(a) \in RunState
    BY <2>1, NextRootType DEF TypeOK
  <2>3. NextRoot(a).pc = a.pc /\ NextRoot(a).roots = Tail(a.roots)
    BY DEF NextRoot, EnterRoot, RunState
  <2>4. PICK roots \in Seq(Root) : roots = a.roots
    BY DEF RunState
  <2>5. Len(Tail(roots)) < Len(roots)
    BY <2>1, <2>4
  <2> QED
    BY ZenonT(40), <1>1, <2>1, <2>2, <2>3, <2>4, <2>5 DEF Later
<1>9. CASE WalkDone(r)
  <2>1. a.pc = "walking" /\ run' = [run EXCEPT ![r].pc = "walked"]
    BY ZenonT(40), <1>r, <1>9 DEF WalkDone, At
  <2>2. Stage["walked"] > Stage["walking"] /\ "walked" \in PC
    BY DEF Stage, PC
  <2> QED
    BY ZenonT(40), <1>2, <2>1, <2>2
<1>10. CASE Return(r)
  <2>1. a.pc = "marked" /\ run' = [run EXCEPT ![r].pc = "returned"]
    BY ZenonT(40), <1>r, <1>10 DEF Return, At
  <2>2. Stage["returned"] > Stage["marked"] /\ "returned" \in PC
    BY DEF Stage, PC
  <2> QED
    BY ZenonT(40), <1>2, <2>1, <2>2
<1>11. CASE WriterDropped(r)
  <2>1. a.pc = "returned" /\ run' = [run EXCEPT ![r].pc = "idle"]
    BY ZenonT(40), <1>r, <1>11 DEF WriterDropped, At
  <2>2. Stage["idle"] > Stage["returned"] /\ "idle" \in PC
    BY DEF Stage, PC
  <2> QED
    BY ZenonT(40), <1>2, <2>1, <2>2
<1> QED
  BY ZenonT(40), <1>3, <1>4, <1>5, <1>6, <1>7, <1>8, <1>9, <1>10, <1>11, <1>12 DEF RunStep

\* A step of a task leaves every call where it is.
LEMMA TaskStepAsFar ==
  ASSUME TypeOK, NEW t \in tasks, TaskStep(t), NEW r \in Run
  PROVE  AsFar(run[r], run'[r]) /\ run'[r].dir = run[r].dir
<1>t. t.run \in Run /\ run \in [Run -> RunState] /\ run[r] \in RunState /\ run[t.run] \in RunState
  BY ZenonT(40) DEF TypeOK, Task
<1>1. CASE TaskBuild(t) \/ TaskWrite(t) \/ TaskReport(t)
  BY ZenonT(40), <1>1 DEF TaskBuild, TaskWrite, TaskReport, AsFar
<1>2. CASE TaskWriteFails(t)
  BY ZenonT(40), <1>2, TaskLoses DEF AsFar
<1>3. CASE TaskCount(t)
  BY ZenonT(40), <1>3, <1>t DEF TaskCount, RunState, AsFar
<1> QED
  BY <1>1, <1>2, <1>3 DEF TaskStep

\* Call r begins, awaited by the window or not.
Begins(r) ==
  /\ run[r].pc = "idle" /\ run'[r].pc = "spawned" /\ \A s \in Run \ {r} : run'[s] = run[s]
  /\ UNCHANGED lock
  /\ ui'.waiting = ui.waiting \cup {r} \/ (ui'.waiting = ui.waiting /\ ui'.busy = ui.busy)

\* No call moves; the window may stop waiting.
NoneMoves ==
  /\ UNCHANGED <<run, lock>> /\ ui'.waiting \subseteq ui.waiting
  /\ ui'.busy => ui.busy /\ ui'.waiting = ui.waiting

\* All calls are gone.
AllGone ==
  /\ \A r \in Run : run'[r].pc = "idle"
  /\ lock' = [d \in Dir |-> NoRun] /\ ui'.waiting = {} /\ ~ui'.busy

\* What the other steps do to the calls.
LEMMA OtherStepCalls ==
  ASSUME TypeOK, DailyThread \/ User \/ Midnight \/ Crash \/ UNCHANGED vars
  PROVE  NoneMoves \/ AllGone \/ \E r \in Run : Begins(r)
<1>t. /\ run \in [Run -> RunState] /\ IdleRun.pc = "idle"
      /\ ui \in [busy : BOOLEAN, waiting : SUBSET Run, current : Nat, total : Nat, running : BOOLEAN]
  BY ZenonT(40) DEF TypeOK, IdleRun
<1>1. ASSUME NEW r \in Run, NEW d, NEW roots, NEW parse, Start(r, d, roots, parse)
      PROVE  run[r].pc = "idle" /\ run'[r].pc = "spawned" /\ \A s \in Run \ {r} : run'[s] = run[s]
  BY <1>t, <1>1, IdleRunType DEF Start, At, RunState
<1>2. CASE DailyThread
  BY ZenonT(40), <1>1, <1>2 DEF DailyThread, AutoReadConfig, AutoConfigFails, AutoLoadState, AutoSleep, AutoSpawn, NoneMoves, Begins
<1>3. CASE User
  <2>1. ASSUME NEW r \in Run, NEW c \in Config, NEW parse \in Parse, doScanAndIndex(r, c.index_dir, c.scan_roots, parse)
        PROVE  Begins(r)
    <3>1. ui'.waiting = ui.waiting \cup {r} /\ UNCHANGED lock /\ Start(r, c.index_dir, c.scan_roots, parse)
      BY ZenonT(40), <2>1 DEF doScanAndIndex
    <3> QED
      BY ZenonT(40), <1>1, <3>1 DEF Begins
  <2>2. ASSUME NEW r \in Run, start_auto_scan_now(r) PROVE Begins(r)
    BY ZenonT(40), <1>1, <2>2 DEF start_auto_scan_now, Begins
  <2>3. ASSUME NEW r \in Run, InvokeTimeout(r) PROVE NoneMoves
    <3>1. UNCHANGED <<run, lock>> /\ r \in ui.waiting
      BY ZenonT(40), <2>3 DEF InvokeTimeout, Waiting
    <3>2. ui' = [ui EXCEPT !.running = FALSE, !.waiting = @ \ {r}, !.busy = FALSE]
      BY ZenonT(40), <2>3 DEF InvokeTimeout, onRejected
    <3>3. ui'.waiting = ui.waiting \ {r} /\ ~ui'.busy
      BY ZenonT(40), <1>t, <3>2
    <3> QED
      BY ZenonT(40), <3>1, <3>3 DEF NoneMoves
  <2>5. CASE OtherEnds
    <3>1. UNCHANGED <<run, lock>> /\ ui' = [ui EXCEPT !.busy = FALSE]
      BY ZenonT(40), <2>5 DEF OtherEnds
    <3>2. ui'.waiting = ui.waiting /\ ~ui'.busy
      BY ZenonT(40), <1>t, <3>1
    <3> QED
      BY ZenonT(40), <3>1, <3>2 DEF NoneMoves
  <2>4. CASE (\E c \in Config : write_config(c)) \/ \E p \in Path : FileWritten(p) \/ FileRemoved(p)
    BY ZenonT(40), <2>4 DEF write_config, FileWritten, FileRemoved, NoneMoves
  <2> QED
    BY ZenonT(40), <1>3, <2>1, <2>2, <2>3, <2>4, <2>5 DEF User
<1>4. CASE Midnight \/ UNCHANGED vars
  BY ZenonT(40), <1>4 DEF Midnight, vars, NoneMoves
<1>5. CASE Crash
  BY ZenonT(40), <1>5, <1>t DEF Crash, NewUI, AllGone
<1> QED
  BY <1>2, <1>3, <1>4, <1>5

\* The first half of why WriterReleased and PromiseSettles hold for any number of calls,
\* roots and files: a call has only finitely many steps to take.
THEOREM CallsAlwaysAdvance == Spec => CallsAdvance
<1> DEFINE A(r) == ~At(r, "idle") => Later(run[r], run'[r]) \/ (AsFar(run[r], run'[r]) /\ ~RunStep(r))
<1>1. ASSUME TypeOK, Next, NEW r \in Run, ~At(r, "idle"), ~RunStep(r) PROVE Later(run[r], run'[r]) \/ AsFar(run[r], run'[r])
  <2>1. ASSUME NEW s \in Run, RunStep(s) PROVE AsFar(run[r], run'[r])
    BY ZenonT(40), <1>1, <2>1, RunStepAdvances DEF AsFar
  <2>2. ASSUME NEW t \in tasks, TaskStep(t) PROVE AsFar(run[r], run'[r])
    BY ZenonT(40), <1>1, <2>2, TaskStepAsFar
  <2>3. ASSUME DailyThread \/ User \/ Midnight \/ Crash PROVE run'[r].pc = "idle" \/ AsFar(run[r], run'[r])
    BY ZenonT(40), <1>1, <2>3, OtherStepCalls DEF AsFar, At, NoneMoves, AllGone, Begins
  <2>4. ASSUME run'[r].pc = "idle" PROVE Later(run[r], run'[r])
    <3>1. PICK pc \in PC : pc = run[r].pc /\ pc # "idle"
      BY ZenonT(40), <1>1 DEF TypeOK, RunState, At
    <3>2. Stage["idle"] > Stage[pc]
      BY <3>1 DEF Stage, PC
    <3> QED
      BY ZenonT(40), <2>4, <3>1, <3>2 DEF Later
  <2> QED
    BY ZenonT(40), <1>1, <2>1, <2>2, <2>3, <2>4 DEF Next
<1>2. ASSUME TypeOK, Next, NEW r \in Run PROVE A(r)
  BY ZenonT(40), <1>1, <1>2, RunStepAdvances
<1>3. TypeOK /\ [Next]_vars => [\A r \in Run : A(r)]_vars
  BY ZenonT(40), <1>2
<1> QED
  BY <1>3, InitType, NextType, PTL DEF Spec, CallsAdvance

-----------------------------------------------------------------------------
(* Who holds a writer, and whom the window waits for                        *)

\* The lock of a directory is held by a call that has it open, and by one that is still
\* at work or has tasks that are: the converse of WriterExclusive.
WriterOwned == \A d \in Dir : lock[d] # NoRun => Active(lock[d]) /\ run[lock[d]].dir = d

\* The window waits only for calls that will resolve or reject their promise, and is
\* busy only while it waits for one.
WindowAwaitsCall ==
  /\ \A r \in ui.waiting : run[r].pc \notin {"idle", "returned"}
  /\ ui.busy => ui.waiting # {}

Owners == WriterOwned /\ WindowAwaitsCall

\* What a step of a call does to its lock and to its promise.
LEMMA RunStepHolds ==
  ASSUME TypeOK, NEW r \in Run, RunStep(r)
  PROVE  /\ \/ lock' = lock /\ Active(r)' /\ run'[r].dir = run[r].dir
            \/ lock' = lock /\ ~Active(r)
            \/ lock' = [lock EXCEPT ![run[r].dir] = r] /\ Active(r)' /\ run'[r].dir = run[r].dir
            \/ lock' = [lock EXCEPT ![run[r].dir] = NoRun]
         /\ \/ /\ ui'.waiting = ui.waiting /\ ui'.busy = ui.busy
               /\ run'[r].pc \notin {"idle", "returned"} \/ run[r].pc = "returned"
            \/ ui'.waiting = ui.waiting \ {r} /\ (ui'.busy => ui.busy /\ r \notin ui.waiting)
<1> USE DEF Active, At
<1>t. /\ run \in [Run -> RunState] /\ run[r] \in RunState /\ r # NoRun
      /\ ui \in [busy : BOOLEAN, waiting : SUBSET Run, current : Nat, total : Nat, running : BOOLEAN]
  BY ZenonT(40), PipelineAssumption DEF TypeOK
<1>1. ASSUME NEW pc, run' = [run EXCEPT ![r].pc = pc] PROVE run'[r].pc = pc /\ run'[r].dir = run[r].dir
  BY <1>t, <1>1 DEF RunState
<1>2. ASSUME NEW b, run' = [run EXCEPT ![r] = b] PROVE run'[r] = b
  BY ZenonT(40), <1>t, <1>2
<1>3. CASE OpenWriter(r)
  <2>1. run'[r].pc = "opened" /\ run'[r].dir = run[r].dir
    BY ZenonT(40), <1>1, <1>3 DEF OpenWriter
  <2> QED
    BY ZenonT(40), <1>3, <2>1 DEF OpenWriter
<1>4. CASE OpenFails(r)
  <2>1. lock' = lock /\ ~Active(r) /\ ui' = onRejected(r)
    BY ZenonT(40), <1>4 DEF OpenFails
  <2>2. ui'.waiting = ui.waiting \ {r} /\ (ui'.busy => ui.busy /\ r \notin ui.waiting)
    <3>1. CASE Waiting(r)
      <4>1. ui' = [ui EXCEPT !.running = FALSE, !.waiting = @ \ {r}, !.busy = FALSE]
        BY ZenonT(40), <2>1, <3>1 DEF onRejected
      <4> QED
        BY ZenonT(40), <1>t, <4>1
    <3>2. CASE ~Waiting(r)
      <4>1. ui' = ui /\ r \notin ui.waiting
        BY ZenonT(40), <2>1, <3>2 DEF onRejected, Waiting
      <4>2. ui.waiting = ui.waiting \ {r}
        BY <4>1
      <4> QED
        BY ZenonT(40), <4>1, <4>2
    <3> QED
      BY <3>1, <3>2
  <2> QED
    BY ZenonT(40), <2>1, <2>2
<1>5. CASE MarkTruncate(r)
  <2>1. BeginMark(run[r]).dir = run[r].dir /\ BeginMark(run[r]).pc \in {"starting", "finishing"}
    BY <1>t DEF BeginMark, RunState
  <2>2. run'[r] = BeginMark(run[r])
    BY ZenonT(40), <1>2, <1>5 DEF MarkTruncate
  <2> QED
    BY ZenonT(40), <1>5, <2>1, <2>2 DEF MarkTruncate
<1>6. CASE MarkWrite(r) \/ MarkFails(r)
  <2>1. AfterMark(run[r]).dir = run[r].dir /\ AfterMark(run[r]).pc \in {"walking", "marked"}
    BY <1>t DEF AfterMark, EnterRoot, RunState
  <2>2. run'[r] = AfterMark(run[r])
    BY ZenonT(40), <1>2, <1>6 DEF MarkWrite, MarkFails
  <2> QED
    BY ZenonT(40), <1>6, <2>1, <2>2 DEF MarkWrite, MarkFails
<1>12. ASSUME NEW ps \in SUBSET Path, WalkError(r, ps)
       PROVE  UNCHANGED <<lock, ui>> /\ run'[r].pc = "walking" /\ run'[r].dir = run[r].dir
  BY ZenonT(40), <1>t, <1>12, RunLeaves DEF WalkError
<1>7. ASSUME NEW p \in Path, WalkSkip(r, p) \/ WalkVisit(r, p)
      PROVE  UNCHANGED <<lock, ui>> /\ run'[r].pc = "walking" /\ run'[r].dir = run[r].dir
  <2>1. PICK b \in RunState : b = Leave(run[r], {p})
    BY ZenonT(40), <1>t DEF Leave, RunState
  <2>2. b.pc = run[r].pc /\ b.dir = run[r].dir
    BY ZenonT(40), <1>t, <2>1 DEF Leave, RunState
  <2>3. Count(b, p).pc = b.pc /\ Count(b, p).dir = b.dir
    BY ZenonT(40) DEF Count, RunState
  <2>4. run[r].pc = "walking" /\ UNCHANGED <<lock, ui>>
    BY ZenonT(40), <1>7 DEF WalkSkip, WalkVisit
  <2>5. run'[r] = b \/ run'[r] = Count(b, p)
    BY ZenonT(40), <1>2, <1>7, <2>1 DEF WalkSkip, WalkVisit
  <2> QED
    BY ZenonT(40), <2>2, <2>3, <2>4, <2>5
<1>8. CASE WalkNextRoot(r)
  <2>1. NextRoot(run[r]).dir = run[r].dir /\ NextRoot(run[r]).pc = run[r].pc
    BY <1>t DEF NextRoot, EnterRoot, RunState
  <2>2. run'[r] = NextRoot(run[r]) /\ run[r].pc = "walking" /\ UNCHANGED <<lock, ui>>
    BY ZenonT(40), <1>2, <1>8 DEF WalkNextRoot
  <2> QED
    BY ZenonT(40), <2>1, <2>2
<1>9. CASE WalkDone(r)
  <2>1. run'[r].pc = "walked" /\ run'[r].dir = run[r].dir /\ lock' = lock
    BY ZenonT(40), <1>1, <1>9 DEF WalkDone
  <2>2. ui'.waiting = ui.waiting /\ ui'.busy = ui.busy
    BY ZenonT(40), <1>t, <1>9 DEF WalkDone, onScanDone
  <2> QED
    BY ZenonT(40), <2>1, <2>2
<1>10. CASE Return(r)
  <2>1. run'[r].pc = "returned" /\ run'[r].dir = run[r].dir /\ lock' = lock
    BY ZenonT(40), <1>1, <1>10 DEF Return
  <2>2. ui'.waiting = ui.waiting \ {r} /\ (ui'.busy => ui.busy /\ r \notin ui.waiting)
    BY ZenonT(40), <1>t, <1>10 DEF Return, onIndexDone, Waiting
  <2> QED
    BY ZenonT(40), <2>1, <2>2
<1>11. CASE WriterDropped(r)
  BY ZenonT(40), <1>11 DEF WriterDropped
<1> QED
  BY ZenonT(40), <1>3, <1>4, <1>5, <1>6, <1>7, <1>8, <1>9, <1>10, <1>11, <1>12 DEF RunStep

\* Every step keeps every lock with its owner and the window with its call.
LEMMA NextOwners == TypeOK /\ Owners /\ [Next]_vars => Owners'
<1> SUFFICES ASSUME TypeOK, Owners, [Next]_vars PROVE Owners'
  OBVIOUS
<1>t. /\ lock \in [Dir -> Run \cup {NoRun}] /\ NoRun \notin Run /\ ui.waiting \subseteq Run
      /\ \A s \in Run : run[s].dir \in Dir
  BY ZenonT(40), PipelineAssumption DEF TypeOK, RunState
<1>1. ASSUME NEW r \in Run, RunStep(r) PROVE Owners'
  <2>1. \A s \in Run \ {r} : run'[s] = run[s]
    BY ZenonT(40), <1>1, RunStepAdvances
  <2>2. WriterOwned'
    <3> SUFFICES ASSUME NEW d \in Dir, lock'[d] # NoRun PROVE Active(lock[d])' /\ run'[lock'[d]].dir = d
      BY ZenonT(40) DEF WriterOwned
    <3>1. \/ lock' = lock /\ Active(r)' /\ run'[r].dir = run[r].dir
          \/ lock' = lock /\ ~Active(r)
          \/ lock' = [lock EXCEPT ![run[r].dir] = r] /\ Active(r)' /\ run'[r].dir = run[r].dir
          \/ lock' = [lock EXCEPT ![run[r].dir] = NoRun]
      BY ZenonT(40), <1>1, RunStepHolds
    <3>2. CASE lock'[d] = r /\ (lock[d] = r \/ d = run[r].dir)
      <4>1. lock[d] = r => Active(r) /\ run[r].dir = d
        BY ZenonT(40), <1>t DEF Owners, WriterOwned
      <4> QED
        BY ZenonT(40), <1>t, <3>1, <3>2, <4>1 DEF Active
    <3>3. CASE lock'[d] # r /\ lock'[d] = lock[d]
      <4>1. PICK s \in Run \ {r} : s = lock[d]
        BY ZenonT(40), <1>t, <3>3
      <4>2. Active(s) /\ run[s].dir = d /\ run'[s] = run[s]
        BY ZenonT(40), <1>t, <2>1, <4>1 DEF Owners, WriterOwned
      <4> QED
        BY ZenonT(40), <3>3, <4>1, <4>2 DEF Active
    <3> QED
      BY ZenonT(40), <1>t, <3>1, <3>2, <3>3
  <2>3. WindowAwaitsCall'
    <3>w. \A s \in ui.waiting : s \in Run /\ run[s].pc \notin {"idle", "returned"}
      BY ZenonT(40), <1>t DEF Owners, WindowAwaitsCall
    <3>1. \/ /\ ui'.waiting = ui.waiting /\ ui'.busy = ui.busy
             /\ run'[r].pc \notin {"idle", "returned"} \/ run[r].pc = "returned"
          \/ ui'.waiting = ui.waiting \ {r} /\ (ui'.busy => ui.busy /\ r \notin ui.waiting)
      BY ZenonT(40), <1>1, RunStepHolds
    <3>2. ASSUME NEW s \in ui'.waiting PROVE run'[s].pc \notin {"idle", "returned"}
      <4>1. CASE s = r
        BY ZenonT(40), <3>w, <3>1, <4>1
      <4>2. CASE s # r
        BY ZenonT(40), <2>1, <3>w, <3>1, <4>2
      <4> QED
        BY <4>1, <4>2
    <3>3. ui'.busy => ui'.waiting # {}
      BY <3>1 DEF Owners, WindowAwaitsCall
    <3> QED
      BY ZenonT(40), <3>2, <3>3 DEF WindowAwaitsCall
  <2> QED
    BY <2>2, <2>3 DEF Owners
<1>2. ASSUME NEW t \in tasks, TaskStep(t) PROVE Owners'
  <2>1. UNCHANGED lock /\ ui'.waiting = ui.waiting /\ ui'.busy = ui.busy
    <3>1. ui \in [busy : BOOLEAN, waiting : SUBSET Run, current : Nat, total : Nat, running : BOOLEAN]
      BY ZenonT(40) DEF TypeOK
    <3> QED
      BY ZenonT(40), <1>2, <3>1 DEF TaskStep, TaskBuild, TaskWrite, TaskWriteFails, TaskCount, TaskReport, onIndexProgress
  <2>2. \A s \in Run : run'[s].pc = run[s].pc /\ run'[s].dir = run[s].dir
    BY ZenonT(40), <1>2, TaskStepAsFar DEF AsFar
  <2> QED
    BY ZenonT(40), <1>t, <2>1, <2>2 DEF Owners, WriterOwned, WindowAwaitsCall, Active
<1>3. CASE DailyThread \/ User \/ Midnight \/ Crash \/ UNCHANGED vars
  <2>1. CASE NoneMoves
    <3>1. WriterOwned'
      BY ZenonT(40), <2>1 DEF NoneMoves, Owners, WriterOwned, Active
    <3>2. WindowAwaitsCall'
      BY ZenonT(40), <2>1 DEF NoneMoves, Owners, WindowAwaitsCall
    <3> QED
      BY <3>1, <3>2 DEF Owners
  <2>2. CASE AllGone
    BY ZenonT(40), <2>2 DEF AllGone, Owners, WriterOwned, WindowAwaitsCall
  <2>3. ASSUME NEW r \in Run, Begins(r) PROVE Owners'
    <3>1. WriterOwned'
      <4>1. \A d \in Dir : lock[d] # r
        BY ZenonT(40), <1>t, <2>3 DEF Begins, Owners, WriterOwned, Active
      <4> QED
        BY ZenonT(40), <1>t, <2>3, <4>1 DEF Begins, Owners, WriterOwned, Active
    <3>2. WindowAwaitsCall'
      BY ZenonT(40), <1>t, <2>3 DEF Begins, Owners, WindowAwaitsCall
    <3> QED
      BY <3>1, <3>2 DEF Owners
  <2> QED
    BY ZenonT(40), <1>3, <2>1, <2>2, <2>3, OtherStepCalls
<1> QED
  BY ZenonT(40), <1>1, <1>2, <1>3 DEF Next

\* The second half: however calls, tasks, timeouts and crashes interleave, no lock is
\* left behind by a call that has ended, and the window awaits no call that has.
THEOREM OwnersAlways == Spec => [](WriterOwned /\ WindowAwaitsCall)
<1>1. Init => Owners
  <2> SUFFICES ASSUME Init PROVE ui.waiting = {} /\ ~ui.busy /\ \A d \in Dir : lock[d] = NoRun
    BY ZenonT(40) DEF Owners, WriterOwned, WindowAwaitsCall
  <2> QED
    BY DEF Init, NewUI
<1>2. Owners => WriterOwned /\ WindowAwaitsCall
  BY DEF Owners
<1> QED
  BY <1>1, <1>2, InitType, NextType, NextOwners, PTL DEF Spec

-----------------------------------------------------------------------------
(* The tasks of a pool                                                      *)

Step == [queued |-> 0, built |-> 1, written |-> 2, counted |-> 3]

\* Task u is task t one step later: the same file of the same call.
OneStepOn(t, u) ==
  /\ u.run = t.run /\ u.n = t.n /\ u.doc.path = t.doc.path /\ u.doc.ver = t.doc.ver
  /\ Step[u.st] = Step[t.st] + 1

\* A pool gets new tasks only from the walk of its own call, and a task it has takes its
\* four steps in order, for the same file, skipping none and repeating none.
TasksAdvance ==
  [][\A u \in tasks' \ tasks :
       \/ u.st = "queued" /\ At(u.run, "walking")
       \/ \E t \in tasks \ tasks' : OneStepOn(t, u)]_vars

\* A step of a task replaces it by the same task one step later, or it is the last.
LEMMA TaskStepOn ==
  ASSUME TypeOK, NEW t \in tasks, TaskStep(t), NEW u \in tasks' \ tasks
  PROVE  t \notin tasks' /\ OneStepOn(t, u)
<1>t. t \in Task /\ t.doc \in Doc
  BY ZenonT(40) DEF TypeOK, Task
<1>1. ASSUME NEW v, Becomes(t, v), OneStepOn(t, v) PROVE t \notin tasks' /\ OneStepOn(t, u)
  <2>1. v = u /\ (t \in tasks' => t = v)
    BY ZenonT(40), <1>1 DEF Becomes
  <2> QED
    BY ZenonT(40), <1>1, <2>1
<1>2. Step["built"] = Step["queued"] + 1 /\ Step["written"] = Step["built"] + 1 /\ Step["counted"] = Step["written"] + 1
  BY DEF Step
<1>3. CASE TaskBuild(t)
  <2> DEFINE v == [t EXCEPT !.st = "built", !.doc.content = ContentNow(t.run, t.doc.path)]
  <2>1. v.run = t.run /\ v.n = t.n /\ v.doc.path = t.doc.path /\ v.doc.ver = t.doc.ver /\ v.st = "built"
    BY <1>t DEF Task, Doc
  <2>2. Becomes(t, v) /\ t.st = "queued"
    BY ZenonT(40), <1>3 DEF TaskBuild
  <2> HIDE DEF v
  <2> QED
    BY ZenonT(40), <1>1, <1>2, <2>1, <2>2 DEF OneStepOn
<1>4. CASE TaskWrite(t) \/ TaskWriteFails(t)
  <2> DEFINE v == [t EXCEPT !.st = "written"]
  <2>1. v.run = t.run /\ v.n = t.n /\ v.doc = t.doc /\ v.st = "written"
    BY ZenonT(40), <1>t DEF Task
  <2>2. Becomes(t, v) /\ t.st = "built"
    BY ZenonT(40), <1>4 DEF TaskWrite, TaskWriteFails
  <2> HIDE DEF v
  <2> QED
    BY ZenonT(40), <1>1, <1>2, <2>1, <2>2 DEF OneStepOn
<1>5. CASE TaskCount(t)
  <2> DEFINE v == [t EXCEPT !.st = "counted", !.cur = run[t.run].counter + 1]
  <2>1. v.run = t.run /\ v.n = t.n /\ v.doc = t.doc /\ v.st = "counted"
    BY ZenonT(40), <1>t DEF Task
  <2>2. Becomes(t, v) /\ t.st = "written"
    BY ZenonT(40), <1>5 DEF TaskCount
  <2> HIDE DEF v
  <2> QED
    BY ZenonT(40), <1>1, <1>2, <2>1, <2>2 DEF OneStepOn
<1>6. CASE TaskReport(t)
  BY ZenonT(40), <1>6 DEF TaskReport
<1> QED
  BY <1>3, <1>4, <1>5, <1>6 DEF TaskStep

\* A call adds tasks to its own pool only, and only while it walks.
LEMMA RunStepTasks ==
  ASSUME NEW r \in Run, RunStep(r), NEW u \in tasks' \ tasks
  PROVE  u.run = r /\ u.st = "queued" /\ At(r, "walking")
<1>1. ASSUME NEW p \in Path, WalkVisit(r, p) PROVE u.run = r /\ u.st = "queued" /\ At(r, "walking")
  <2>1. u = NewTask(r, p) /\ At(r, "walking")
    BY ZenonT(40), <1>1 DEF WalkVisit
  <2> QED
    BY ZenonT(40), <2>1 DEF NewTask
<1>2. CASE UNCHANGED tasks
  BY <1>2
<1>3. ASSUME (\E p \in Path : WalkSkip(r, p)) \/ \E ps \in SUBSET Path : WalkError(r, ps) PROVE UNCHANGED tasks
  BY ZenonT(40), <1>3 DEF WalkSkip, WalkError
<1>4. CASE \/ OpenWriter(r) \/ OpenFails(r) \/ MarkTruncate(r) \/ MarkWrite(r) \/ MarkFails(r)
           \/ WalkNextRoot(r) \/ WalkDone(r) \/ Return(r) \/ WriterDropped(r)
  BY ZenonT(40), <1>4 DEF OpenWriter, OpenFails, MarkTruncate, MarkWrite, MarkFails, WalkNextRoot, WalkDone, Return,
     WriterDropped
<1> QED
  BY ZenonT(40), <1>1, <1>2, <1>3, <1>4 DEF RunStep

\* The tasks that keep a writer open (the Arc of pipeline.rs:63) run out: none is created
\* but by the walk, and each has at most four steps left.
THEOREM TasksAlwaysAdvance == Spec => TasksAdvance
<1> DEFINE A(u) == \/ u.st = "queued" /\ At(u.run, "walking")
                   \/ \E t \in tasks \ tasks' : OneStepOn(t, u)
<1>1. ASSUME TypeOK, Next, NEW u \in tasks' \ tasks PROVE A(u)
  <2>1. ASSUME NEW r \in Run, RunStep(r) PROVE A(u)
    BY ZenonT(40), <2>1, RunStepTasks
  <2>2. ASSUME NEW t \in tasks, TaskStep(t) PROVE A(u)
    BY ZenonT(40), <1>1, <2>2, TaskStepOn
  <2>3. CASE DailyThread \/ User \/ Midnight \/ Crash
    <3>1. tasks' = tasks \/ tasks' = {}
      BY ZenonT(40), <2>3 DEF DailyThread, AutoReadConfig, AutoConfigFails, AutoLoadState, AutoSleep, AutoSpawn, User, doScanAndIndex,
         start_auto_scan_now, write_config, FileWritten, FileRemoved, InvokeTimeout, OtherEnds, Midnight, Crash
    <3> QED
      BY <3>1
  <2> QED
    BY ZenonT(40), <1>1, <2>1, <2>2, <2>3 DEF Next
<1>2. TypeOK /\ [Next]_vars => [\A u \in tasks' \ tasks : A(u)]_vars
  BY ZenonT(40), <1>1
<1> QED
  BY <1>2, InitType, NextType, PTL DEF Spec, TasksAdvance

=============================================================================
