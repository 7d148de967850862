--------------------------- MODULE ProgressProofs ---------------------------
(***************************************************************************)
(* What TLAPS proves of what a pipeline call says about itself, for all    *)
(* runs, paths, directories and bounds: the state file it keeps and the    *)
(* numbers it reports.                                                     *)
(***************************************************************************)
EXTENDS PipelineProofs, FiniteSetTheorems

-----------------------------------------------------------------------------
(* The state file                                                           *)

\* Between the truncation and the write of the state file.
Marking(r) == run[r].pc \in {"starting", "finishing"}

OneDir == \A d, e \in Dir : d = e

\* StateFileFaithful, and what the file is while a call marks it.
Marks ==
  (OneDir /\ used.faults = 0) =>
    /\ stateFile.kind # "garbage"
    /\ \A r \in Run : Marking(r) => stateFile.kind = "empty"
    /\ \A r \in Run : Walking(r) => stateFile.kind = "valid" /\ ~stateFile.completed

\* With one directory, the one call that has the writer is alone.
LEMMA OnlyActive ==
  ASSUME Writers, OneDir, NEW r \in Run, Active(r), NEW s \in Run, Marking(s) \/ Walking(s)
  PROVE  s = r
<1>1. Active(s)
  BY ZenonT(40) DEF Active, Marking, Walking
<1>2. run[r].dir \in Dir /\ run[s].dir \in Dir
  BY ZenonT(40) DEF Writers, TypeOK, RunState
<1> QED
  BY ZenonT(40), <1>1, <1>2 DEF Writers, WriterExclusive, OneDir

\* The steps that neither write the file nor bring a call to where it matters.
LEMMA SameMarks ==
  ASSUME Marks, stateFile' = stateFile, used'.faults = 0 => used.faults = 0,
         \A s \in Run : (Marking(s)' => Marking(s)) /\ (Walking(s)' => Walking(s))
  PROVE  Marks'
BY DEF Marks, OneDir

\* A step of a call: it meets the file as it left it.
LEMMA RunStepMarks == ASSUME Writers, Marks, NEW r \in Run, RunStep(r) PROVE Marks'
<1>t. run \in [Run -> RunState] /\ run[r] \in RunState /\ used.faults \in Nat
  BY ZenonT(40) DEF Writers, TypeOK
<1>u. Fault => used'.faults # 0
  BY SMTT(40), <1>t DEF Fault, Writers, TypeOK
<1>1. ASSUME stateFile' = stateFile, Fault \/ UNCHANGED used, NEW rs \in RunState,
             run' = [run EXCEPT ![r] = rs],
             rs.pc \in {"idle", "opened", "marked", "returned"}
                \/ (At(r, "walking") /\ rs.pc \in {"walking", "walked"})
      PROVE  Marks'
  <2>1. \A s \in Run : run'[s] = IF s = r THEN rs ELSE run[s]
    BY ZenonT(40), <1>1, <1>t
  <2>2. \A s \in Run : (Marking(s)' => Marking(s)) /\ (Walking(s)' => Walking(s))
    BY ZenonT(40), <1>1, <2>1 DEF Marking, Walking, At
  <2> QED
    BY ZenonT(40), <1>1, <1>u, <2>2, SameMarks
<1>2. CASE MarkFails(r)
  BY ZenonT(40), <1>2, <1>u DEF MarkFails, Marks
<1>3. CASE MarkTruncate(r)
  <2>1. Active(r) /\ stateFile' = NoState("empty") /\ used' = used
    BY ZenonT(40), <1>3 DEF MarkTruncate, Active
  <2>2. BeginMark(run[r]).pc \in {"starting", "finishing"}
    BY ZenonT(40), <1>t DEF BeginMark, RunState
  <2>3. \A s \in Run : run'[s] = IF s = r THEN BeginMark(run[r]) ELSE run[s]
    BY ZenonT(40), <1>3, <1>t DEF MarkTruncate
  <2>4. ASSUME OneDir, NEW s \in Run PROVE ~Walking(s)'
    <3>1. CASE s = r
      BY ZenonT(40), <2>2, <2>3, <3>1 DEF Walking
    <3>2. CASE s # r
      BY ZenonT(40), <2>1, <2>3, <2>4, <3>2, OnlyActive DEF Walking
    <3> QED
      BY ZenonT(40), <3>1, <3>2
  <2> QED
    BY ZenonT(40), <2>1, <2>4 DEF Marks, NoState, OneDir
<1>4. CASE MarkWrite(r)
  <2>1. /\ Active(r) /\ Marking(r) /\ used' = used
        /\ stateFile' = WriteState(stateFile, run[r].today, At(r, "finishing"))
    BY ZenonT(40), <1>4 DEF MarkWrite, Active, Marking
  <2>2. /\ AfterMark(run[r]).pc \in {"walking", "marked"}
        /\ At(r, "finishing") => AfterMark(run[r]).pc = "marked"
    BY ZenonT(40), <1>t DEF AfterMark, EnterRoot, RunState, At
  <2>3. \A s \in Run : run'[s] = IF s = r THEN AfterMark(run[r]) ELSE run[s]
    BY ZenonT(40), <1>4, <1>t DEF MarkWrite
  <2>4. ASSUME OneDir, NEW s \in Run
        PROVE  ~Marking(s)' /\ (Walking(s)' => ~At(r, "finishing"))
    <3>1. CASE s = r
      BY ZenonT(40), <2>2, <2>3, <3>1 DEF Walking, Marking
    <3>2. CASE s # r
      BY ZenonT(40), <2>1, <2>3, <2>4, <3>2, OnlyActive DEF Walking, Marking
    <3> QED
      BY ZenonT(40), <3>1, <3>2
  <2>5. ASSUME OneDir, used.faults = 0
        PROVE  stateFile'.kind = "valid" /\ stateFile'.completed = At(r, "finishing")
    <3>1. stateFile.kind = "empty"
      BY ZenonT(40), <2>1, <2>5 DEF Marks
    <3> QED
      BY ZenonT(40), <2>1, <3>1 DEF WriteState
  <2> QED
    BY ZenonT(40), <2>1, <2>4, <2>5 DEF Marks, OneDir
<1>5. ASSUME NEW p \in Path, WalkSkip(r, p) PROVE Marks'
  <2>1. Leave(run[r], {p}) \in RunState /\ Leave(run[r], {p}).pc = run[r].pc
    BY ZenonT(40), <1>t DEF Leave, RunState
  <2> QED
    BY ZenonT(40), <1>1, <1>5, <2>1 DEF WalkSkip, At
<1>10. ASSUME NEW ps \in SUBSET Path, WalkError(r, ps) PROVE Marks'
  <2>1. Leave(run[r], ps) \in RunState /\ Leave(run[r], ps).pc = run[r].pc
    BY ZenonT(40), <1>t DEF Leave, RunState
  <2> QED
    BY ZenonT(40), <1>1, <1>10, <2>1 DEF WalkError, At
<1>6. ASSUME NEW p \in Path, WalkVisit(r, p) PROVE Marks'
  <2>1. Leave(run[r], {p}) \in RunState /\ Leave(run[r], {p}).pc = run[r].pc
    BY ZenonT(40), <1>t DEF Leave, RunState
  <2>2. Count(Leave(run[r], {p}), p) \in RunState
    BY ZenonT(40), <2>1, CountType DEF Writers, TypeOK
  <2>3. Count(Leave(run[r], {p}), p).pc = run[r].pc
    BY ZenonT(40), <2>1 DEF Count, RunState
  <2> QED
    BY ZenonT(40), <1>1, <1>6, <2>2, <2>3 DEF WalkVisit, At
<1>7. CASE WalkNextRoot(r)
  <2>1. NextRoot(run[r]) \in RunState
    BY ZenonT(40), <1>7, <1>t, NextRootType DEF WalkNextRoot, Writers, TypeOK
  <2>2. NextRoot(run[r]).pc = run[r].pc
    BY ZenonT(40), <1>t DEF NextRoot, EnterRoot, RunState
  <2> QED
    BY ZenonT(40), <1>1, <1>7, <2>1, <2>2 DEF WalkNextRoot, At
<1>8. ASSUME NEW l \in PC PROVE [run[r] EXCEPT !.pc = l] \in RunState /\ [run[r] EXCEPT !.pc = l].pc = l
  BY ZenonT(40), <1>t DEF RunState
<1>9. CASE OpenWriter(r) \/ OpenFails(r) \/ WalkDone(r) \/ Return(r) \/ WriterDropped(r)
  <2>1. PICK l \in PC : /\ run' = [run EXCEPT ![r] = [run[r] EXCEPT !.pc = l]]
                        /\ l \in {"idle", "opened", "returned"} \/ (At(r, "walking") /\ l = "walked")
    BY ZenonT(40), <1>9 DEF OpenWriter, OpenFails, WalkDone, Return, WriterDropped, PC
  <2>2. stateFile' = stateFile /\ (Fault \/ UNCHANGED used)
    BY ZenonT(40), <1>9 DEF OpenWriter, OpenFails, WalkDone, Return, WriterDropped
  <2> QED
    BY ZenonT(40), <1>1, <1>8, <2>1, <2>2
<1> QED
  BY ZenonT(40), <1>2, <1>3, <1>4, <1>5, <1>6, <1>7, <1>9, <1>10 DEF RunStep

\* A task does not move its call and does not touch the file.
LEMMA TaskStepMarks == ASSUME Writers, Marks, NEW t \in tasks, TaskStep(t) PROVE Marks'
<1>t. t.run \in Run /\ run \in [Run -> RunState] /\ run[t.run] \in RunState /\ used.faults \in Nat
  BY ZenonT(40) DEF Writers, TypeOK, Task
<1>1. stateFile' = stateFile
  BY ZenonT(40) DEF TaskStep, TaskBuild, TaskWrite, TaskWriteFails, TaskCount, TaskReport
<1>2. used'.faults = 0 => used.faults = 0
  BY SMTT(40), <1>t DEF TaskStep, TaskBuild, TaskWrite, TaskWriteFails, TaskCount, TaskReport, Fault,
     Writers, TypeOK
<1>3. \A s \in Run : run'[s].pc = run[s].pc
  <2>1. CASE UNCHANGED run
    BY <2>1
  <2>2. CASE TaskWriteFails(t)
    BY ZenonT(40), <2>2, TaskLoses DEF Writers
  <2>3. CASE TaskCount(t)
    BY ZenonT(40), <1>t, <2>3 DEF TaskCount, RunState
  <2> QED
    BY ZenonT(40), <2>1, <2>2, <2>3 DEF TaskStep, TaskBuild, TaskWrite, TaskReport
<1> QED
  BY ZenonT(40), <1>1, <1>2, <1>3, SameMarks DEF Marking, Walking

\* A new call has not reached the file.
LEMMA StartMarks ==
  ASSUME Writers, Marks, NEW r \in Run, NEW d, NEW roots, NEW parse, Start(r, d, roots, parse),
         stateFile' = stateFile, used'.faults = 0 => used.faults = 0
  PROVE  Marks'
<1>1. run \in [Run -> RunState]
  BY ZenonT(40) DEF Writers, TypeOK
<1>2. run'[r].pc = "spawned" /\ \A s \in Run \ {r} : run'[s] = run[s]
  BY ZenonT(40), <1>1, IdleRunType DEF Start, RunState
<1>3. \A s \in Run : (Marking(s)' => Marking(s)) /\ (Walking(s)' => Walking(s))
  BY ZenonT(40), <1>2 DEF Marking, Walking
<1> QED
  BY ZenonT(40), <1>3, SameMarks

\* Every step keeps the file faithful.
LEMMA NextMarks == Writers /\ Marks /\ [Next]_vars => Marks'
<1> SUFFICES ASSUME Writers, Marks, [Next]_vars PROVE Marks'
  OBVIOUS
<1>u. (Click => used'.faults = used.faults) /\ (Edit => used'.faults = used.faults)
  BY ZenonT(40) DEF Click, Edit, Writers, TypeOK
<1>f. Fault => used'.faults # 0
  BY SMTT(40) DEF Fault, Writers, TypeOK
<1>1. ASSUME stateFile' = stateFile, used'.faults = used.faults, run' = run PROVE Marks'
  BY ZenonT(40), <1>1, SameMarks DEF Marking, Walking
<1>2. CASE DailyThread
  <2>1. stateFile' = stateFile /\ (used' = used \/ Fault)
    BY ZenonT(40), <1>2 DEF DailyThread, AutoReadConfig, AutoConfigFails, AutoLoadState, AutoSleep, AutoSpawn
  <2>2. run' = run \/ \E r \in Run : Start(r, auto.cfg.index_dir, auto.cfg.scan_roots, FALSE)
    BY ZenonT(40), <1>2 DEF DailyThread, AutoReadConfig, AutoConfigFails, AutoLoadState, AutoSleep, AutoSpawn
  <2>3. run' = run => Marks'
    BY ZenonT(40), <1>f, <2>1, SameMarks DEF Marking, Walking
  <2> QED
    BY ZenonT(40), <1>f, <2>1, <2>2, <2>3, StartMarks
<1>3. CASE User
  <2>1. ASSUME NEW r \in Run, NEW c \in Config, NEW parse \in Parse,
               doScanAndIndex(r, c.index_dir, c.scan_roots, parse)
        PROVE  Marks'
    <3>1. /\ Start(r, c.index_dir, c.scan_roots, parse)
          /\ stateFile' = stateFile /\ used'.faults = used.faults
      BY ZenonT(40), <1>u, <2>1 DEF doScanAndIndex
    <3> QED
      BY ZenonT(40), <3>1, StartMarks
  <2>2. ASSUME NEW r \in Run, start_auto_scan_now(r) PROVE Marks'
    <3>1. /\ Start(r, config.index_dir, config.scan_roots, FALSE)
          /\ stateFile' = stateFile /\ used'.faults = used.faults
      BY ZenonT(40), <1>u, <2>2 DEF start_auto_scan_now
    <3> QED
      BY ZenonT(40), <3>1, StartMarks
  <2>3. ASSUME NEW c \in Config, write_config(c) PROVE Marks'
    BY ZenonT(40), <1>1, <1>u, <2>3 DEF write_config
  <2>4. ASSUME NEW p \in Path, FileWritten(p) \/ FileRemoved(p) PROVE Marks'
    BY ZenonT(40), <1>1, <1>u, <2>4 DEF FileWritten, FileRemoved
  <2>5. CASE OtherEnds \/ \E r \in Run : InvokeTimeout(r)
    BY ZenonT(40), <1>1, <2>5 DEF InvokeTimeout, OtherEnds
  <2> QED
    BY Zenon, <1>3, <2>1, <2>2, <2>3, <2>4, <2>5 DEF User
<1>4. CASE Midnight \/ UNCHANGED vars
  BY ZenonT(40), <1>1, <1>4 DEF Midnight, vars
<1>5. CASE Crash
  <2>1. stateFile' = stateFile /\ used'.faults = used.faults
    BY ZenonT(40), <1>5 DEF Crash, Writers, TypeOK
  <2>2. \A s \in Run : run'[s].pc = "idle"
    BY ZenonT(40), <1>5 DEF Crash, IdleRun
  <2> QED
    BY ZenonT(40), <2>1, <2>2, SameMarks DEF Marking, Walking
<1> QED
  BY ZenonT(40), <1>2, <1>3, <1>4, <1>5, RunStepMarks, TaskStepMarks DEF Next

\* However many calls there are and wherever the process dies: with one index
\* directory and no failed write, scan_state.json is never garbled and never
\* claims completion during a walk.
THEOREM StateFileIsFaithful == Spec => []StateFileFaithful
<1>1. Init => Writers
  BY SMTT(40), InitType, IdleRunType DEF Init, Writers, WriterExclusive, Active, IdleRun
<1>2. Init => Marks
  BY SMTT(40) DEF Init, Marks, Marking, Walking, IdleRun, NoState
<1>3. Marks => StateFileFaithful
  BY ZenonT(40) DEF Marks, StateFileFaithful, OneDir
<1> QED
  BY <1>1, <1>2, <1>3, NextWriters, NextMarks, PTL DEF Spec

-----------------------------------------------------------------------------
(* The numbers a call reports                                               *)

\* The tasks of a call that the counter does not include yet.
Open(r) == {t \in TasksOf(r) : t.st # "counted"}

Accounted(r) == run[r].counter + Cardinality(Open(r)) = run[r].scanned

\* ProgressAccounted, with what it rests on: the tasks of a call have different
\* numbers up to its count, and a call that has no writer has no numbers.
Counts ==
  /\ IsFiniteSet(tasks)
  /\ \A t \in tasks : t.n <= run[t.run].scanned
  /\ \A t, u \in tasks : t.run = u.run /\ t.n = u.n => t = u
  /\ \A r \in Run : At(r, "spawned") => run[r].counter = 0 /\ run[r].scanned = 0
  /\ \A r \in Run : Active(r) => Accounted(r)

\* The uncounted tasks of a call are a finite set.
LEMMA OpenFinite ==
  ASSUME Counts, NEW r \in Run
  PROVE  IsFiniteSet(Open(r)) /\ Cardinality(Open(r)) \in Nat
<1>1. Open(r) \subseteq tasks /\ IsFiniteSet(tasks)
  BY ZenonT(40) DEF Open, TasksOf, Counts
<1>2. IsFiniteSet(Open(r))
  BY ZenonT(40), <1>1, FS_Subset
<1> QED
  BY ZenonT(40), <1>2, FS_CardinalityType

\* The numbers of calls and tasks.
LEMMA CountTypes ==
  ASSUME TypeOK
  PROVE  /\ \A r \in Run : run[r].scanned \in Nat /\ run[r].counter \in Nat
         /\ \A t \in tasks : t \in Task /\ t.run \in Run /\ t.n \in Nat
BY ZenonT(40) DEF TypeOK, RunState, Task

\* A call without a writer has no tasks.
LEMMA NoTasksYet ==
  ASSUME Writers, NEW r \in Run, ~Active(r)
  PROVE  (\A t \in tasks : t.run # r) /\ Open(r) = {}
BY ZenonT(40) DEF Writers, WriterExclusive, Open, TasksOf

\* The steps that change neither tasks nor numbers and open no writer.
LEMMA SameCounts ==
  ASSUME Writers, Counts, tasks' = tasks,
         \A s \in Run : /\ run'[s].scanned = run[s].scanned /\ run'[s].counter = run[s].counter
                        /\ (Active(s)' => Active(s)) /\ (At(s, "spawned")' => At(s, "spawned"))
  PROVE  Counts'
<1>1. \A s \in Run : Open(s)' = Open(s)
  BY ZenonT(40) DEF Open, TasksOf
<1>2. \A s \in Run : Active(s)' => Accounted(s)'
  BY ZenonT(40), <1>1 DEF Counts, Accounted
<1>3. \A t \in tasks : t.run \in Run
  BY ZenonT(40), CountTypes DEF Writers
<1>4. \A t \in tasks' : t.n <= run'[t.run].scanned
  BY ZenonT(40), <1>3 DEF Counts
<1> QED
  BY ZenonT(40), <1>2, <1>4 DEF Counts

\* A step of a call.
LEMMA RunStepCounts == ASSUME Writers, Counts, NEW r \in Run, RunStep(r) PROVE Counts'
<1>t. run \in [Run -> RunState] /\ run[r] \in RunState
  BY ZenonT(40) DEF Writers, TypeOK
<1>1. ASSUME tasks' = tasks, NEW rs \in RunState, run' = [run EXCEPT ![r] = rs],
             rs.scanned = run[r].scanned, rs.counter = run[r].counter, rs.pc # "spawned",
             rs.pc = "idle" \/ Active(r)
      PROVE  Counts'
  <2>1. \A s \in Run : run'[s] = IF s = r THEN rs ELSE run[s]
    BY ZenonT(40), <1>1, <1>t
  <2>2. \A s \in Run : /\ run'[s].scanned = run[s].scanned /\ run'[s].counter = run[s].counter
                       /\ (Active(s)' => Active(s)) /\ (At(s, "spawned")' => At(s, "spawned"))
    BY ZenonT(40), <1>1, <2>1 DEF Active, At
  <2> QED
    BY ZenonT(40), <1>1, <2>2, SameCounts
<1>2. CASE OpenWriter(r)
  <2>1. /\ tasks' = tasks /\ At(r, "spawned")
        /\ \A s \in Run \ {r} : run'[s] = run[s]
        /\ run'[r].pc = "opened"
        /\ run'[r].scanned = run[r].scanned /\ run'[r].counter = run[r].counter
    BY ZenonT(40), <1>2, <1>t DEF OpenWriter, RunState
  <2>2. run[r].scanned = 0 /\ run[r].counter = 0 /\ Open(r) = {}
    BY ZenonT(40), <2>1, NoTasksYet DEF Counts, Active, At
  <2>3. \A s \in Run : Open(s)' = Open(s)
    BY ZenonT(40), <2>1 DEF Open, TasksOf
  <2>4. Accounted(r)'
    BY SMTT(40), <2>1, <2>2, <2>3, FS_EmptySet DEF Accounted
  <2>5. \A s \in Run \ {r} : Active(s)' => Accounted(s)'
    BY ZenonT(40), <2>1, <2>3 DEF Counts, Accounted, Active
  <2>6. \A t \in tasks' : t.n <= run'[t.run].scanned
    BY ZenonT(40), <2>1, CountTypes DEF Counts, Writers
  <2>7. \A s \in Run : At(s, "spawned")' => run'[s].counter = 0 /\ run'[s].scanned = 0
    BY ZenonT(40), <2>1 DEF Counts, At
  <2> QED
    BY ZenonT(40), <2>1, <2>4, <2>5, <2>6, <2>7 DEF Counts
<1>3. ASSUME NEW p \in Path, WalkVisit(r, p) PROVE Counts'
  <2> DEFINE new == NewTask(r, p)
             rs == Count(Leave(run[r], {p}), p)
  <2>1. Leave(run[r], {p}) \in RunState /\ Leave(run[r], {p}).pc = run[r].pc
        /\ Leave(run[r], {p}).scanned = run[r].scanned /\ Leave(run[r], {p}).counter = run[r].counter
    BY ZenonT(40), <1>t DEF Leave, RunState
  <2>2. rs.pc = run[r].pc /\ rs.counter = run[r].counter /\ rs.scanned = run[r].scanned + 1
    BY ZenonT(40), <2>1 DEF Count, RunState
  <2>3. new.run = r /\ new.n = run[r].scanned + 1 /\ new.st = "queued"
    BY ZenonT(40) DEF NewTask
  <2>4. At(r, "walking") /\ tasks' = tasks \cup {new} /\ run' = [run EXCEPT ![r] = rs]
    BY ZenonT(40), <1>3 DEF WalkVisit
  <2> HIDE DEF new, rs
  <2>5. \A s \in Run : run'[s] = IF s = r THEN rs ELSE run[s]
    BY ZenonT(40), <1>t, <2>4
  <2>6. run[r].scanned \in Nat /\ run[r].counter \in Nat
        /\ \A t \in tasks : t.run \in Run /\ t.n \in Nat /\ run[t.run].scanned \in Nat
    BY ZenonT(40), CountTypes DEF Writers
  <2>7. \A t \in tasks : t.run = r => t.n # new.n
    BY SMTT(40), <2>3, <2>6 DEF Counts
  <2>8. new \notin tasks
    BY ZenonT(40), <2>3, <2>7
  <2>9. Open(r)' = Open(r) \cup {new} /\ \A s \in Run \ {r} : Open(s)' = Open(s)
    BY ZenonT(40), <2>3, <2>4 DEF Open, TasksOf
  <2>10. new \notin Open(r)
    BY ZenonT(40), <2>8 DEF Open, TasksOf
  <2>11. Cardinality(Open(r)') = Cardinality(Open(r)) + 1
    BY ZenonT(40), <2>9, <2>10, OpenFinite, FS_AddElement
  <2>12. Accounted(r)
    BY ZenonT(40), <2>4 DEF Counts, Active, At
  <2>13. Accounted(r)'
    BY SMTT(40), <2>2, <2>5, <2>6, <2>11, <2>12, OpenFinite DEF Accounted
  <2>14. \A s \in Run : Active(s)' => Accounted(s)'
    BY ZenonT(40), <2>5, <2>9, <2>13 DEF Counts, Accounted, Active
  <2>15. IsFiniteSet(tasks')
    BY ZenonT(40), <2>4, FS_AddElement DEF Counts
  <2>16. \A t \in tasks' : t.n <= run'[t.run].scanned
    BY SMTT(40), <2>2, <2>3, <2>4, <2>5, <2>6 DEF Counts
  <2>17. \A t, u \in tasks' : t.run = u.run /\ t.n = u.n => t = u
    BY ZenonT(40), <2>3, <2>4, <2>7 DEF Counts
  <2>18. \A s \in Run : At(s, "spawned")' => run'[s].counter = 0 /\ run'[s].scanned = 0
    BY ZenonT(40), <2>2, <2>4, <2>5 DEF Counts, At
  <2> QED
    BY ZenonT(40), <2>14, <2>15, <2>16, <2>17, <2>18 DEF Counts
<1>4. CASE MarkTruncate(r)
  <2>1. BeginMark(run[r]) \in RunState
    BY ZenonT(40), <1>t, BeginMarkType DEF Writers, TypeOK
  <2>2. /\ BeginMark(run[r]).pc \in {"starting", "finishing"}
        /\ BeginMark(run[r]).scanned = run[r].scanned /\ BeginMark(run[r]).counter = run[r].counter
    BY ZenonT(40), <1>t DEF BeginMark, RunState
  <2>3. Active(r) /\ tasks' = tasks /\ run' = [run EXCEPT ![r] = BeginMark(run[r])]
    BY ZenonT(40), <1>4 DEF MarkTruncate, Active
  <2> QED
    BY ZenonT(40), <1>1, <2>1, <2>2, <2>3
<1>5. CASE MarkWrite(r) \/ MarkFails(r)
  <2>1. AfterMark(run[r]) \in RunState
    BY ZenonT(40), <1>t, AfterMarkType DEF Writers, TypeOK
  <2>2. /\ AfterMark(run[r]).pc \in {"walking", "marked"}
        /\ AfterMark(run[r]).scanned = run[r].scanned /\ AfterMark(run[r]).counter = run[r].counter
    BY ZenonT(40), <1>t DEF AfterMark, EnterRoot, RunState
  <2>3. Active(r) /\ tasks' = tasks /\ run' = [run EXCEPT ![r] = AfterMark(run[r])]
    BY ZenonT(40), <1>5 DEF MarkWrite, MarkFails, Active
  <2> QED
    BY ZenonT(40), <1>1, <2>1, <2>2, <2>3
<1>6. ASSUME NEW p \in Path, WalkSkip(r, p) PROVE Counts'
  <2>1. Leave(run[r], {p}) \in RunState /\ Leave(run[r], {p}).pc = run[r].pc
        /\ Leave(run[r], {p}).scanned = run[r].scanned /\ Leave(run[r], {p}).counter = run[r].counter
    BY ZenonT(40), <1>t DEF Leave, RunState
  <2>2. run[r].pc = "walking" /\ tasks' = tasks /\ run' = [run EXCEPT ![r] = Leave(run[r], {p})]
    BY ZenonT(40), <1>6 DEF WalkSkip, At
  <2> QED
    BY ZenonT(40), <1>1, <2>1, <2>2 DEF Active
<1>10. ASSUME NEW ps \in SUBSET Path, WalkError(r, ps) PROVE Counts'
  <2>1. Leave(run[r], ps) \in RunState /\ Leave(run[r], ps).pc = run[r].pc
        /\ Leave(run[r], ps).scanned = run[r].scanned /\ Leave(run[r], ps).counter = run[r].counter
    BY ZenonT(40), <1>t DEF Leave, RunState
  <2>2. run[r].pc = "walking" /\ tasks' = tasks /\ run' = [run EXCEPT ![r] = Leave(run[r], ps)]
    BY ZenonT(40), <1>10 DEF WalkError, At
  <2> QED
    BY ZenonT(40), <1>1, <2>1, <2>2 DEF Active
<1>7. CASE WalkNextRoot(r)
  <2>1. NextRoot(run[r]) \in RunState
    BY ZenonT(40), <1>7, <1>t, NextRootType DEF WalkNextRoot, Writers, TypeOK
  <2>2. /\ NextRoot(run[r]).pc = run[r].pc
        /\ NextRoot(run[r]).scanned = run[r].scanned /\ NextRoot(run[r]).counter = run[r].counter
    BY ZenonT(40), <1>t DEF NextRoot, EnterRoot, RunState
  <2>3. run[r].pc = "walking" /\ tasks' = tasks /\ run' = [run EXCEPT ![r] = NextRoot(run[r])]
    BY ZenonT(40), <1>7 DEF WalkNextRoot, At
  <2> QED
    BY ZenonT(40), <1>1, <2>1, <2>2, <2>3 DEF Active
<1>8. ASSUME NEW l \in PC
      PROVE  LET rs == [run[r] EXCEPT !.pc = l]
             IN  rs \in RunState /\ rs.pc = l /\ rs.scanned = run[r].scanned /\ rs.counter = run[r].counter
  BY ZenonT(40), <1>t DEF RunState
<1>9. CASE OpenFails(r) \/ WalkDone(r) \/ Return(r) \/ WriterDropped(r)
  <2>1. PICK l \in PC : /\ run' = [run EXCEPT ![r] = [run[r] EXCEPT !.pc = l]]
                        /\ l = "idle" \/ (Active(r) /\ l # "spawned")
    BY ZenonT(40), <1>9 DEF OpenFails, WalkDone, Return, WriterDropped, PC, Active, At
  <2>2. tasks' = tasks
    BY ZenonT(40), <1>9 DEF OpenFails, WalkDone, Return, WriterDropped
  <2> QED
    BY ZenonT(40), <1>1, <1>8, <2>1, <2>2
<1> QED
  BY ZenonT(40), <1>2, <1>3, <1>4, <1>5, <1>6, <1>7, <1>9, <1>10 DEF RunStep

\* A task goes on in place: it keeps its call and its number, and the counter
\* takes it in when it leaves the uncounted tasks.
LEMMA TaskMoves ==
  ASSUME Writers, Counts, NEW t \in tasks, NEW u, tasks' = (tasks \ {t}) \cup {u},
         u.run = t.run, u.n = t.n, t.st # "counted",
         \A s \in Run : run'[s].pc = run[s].pc /\ run'[s].scanned = run[s].scanned,
         \A s \in Run \ {t.run} : run'[s].counter = run[s].counter,
         run'[t.run].counter = IF u.st = "counted" THEN run[t.run].counter + 1 ELSE run[t.run].counter
  PROVE  Counts'
<1> DEFINE r == t.run
           rest == Open(r) \ {t}
<1>1. /\ r \in Run /\ run[r].scanned \in Nat /\ run[r].counter \in Nat
      /\ \A w \in tasks : w.run \in Run
  BY ZenonT(40), CountTypes DEF Writers
<1>2. t \in Open(r)
  BY ZenonT(40) DEF Open, TasksOf
<1>3. \A w \in tasks \ {t} : ~(w.run = t.run /\ w.n = t.n)
  BY ZenonT(40) DEF Counts
<1>4. u \notin rest
  BY ZenonT(40), <1>3 DEF Open, TasksOf
<1>5. Open(r)' = IF u.st = "counted" THEN rest ELSE rest \cup {u}
  BY ZenonT(40) DEF Open, TasksOf
<1>6. \A s \in Run \ {r} : Open(s)' = Open(s)
  BY ZenonT(40) DEF Open, TasksOf
<1>7. IsFiniteSet(rest) /\ Cardinality(rest) = Cardinality(Open(r)) - 1
  BY ZenonT(40), <1>1, <1>2, OpenFinite, FS_RemoveElement
<1>8. Cardinality(rest \cup {u}) = Cardinality(rest) + 1
  BY ZenonT(40), <1>4, <1>7, FS_AddElement
<1>9. Cardinality(Open(r)) \in Nat
  BY ZenonT(40), <1>1, OpenFinite
<1>10. Active(r) => Accounted(r)
  BY ZenonT(40), <1>1 DEF Counts
<1>11. Cardinality(Open(r)') = IF u.st = "counted" THEN Cardinality(Open(r)) - 1
                               ELSE Cardinality(Open(r))
  BY SMTT(40), <1>5, <1>7, <1>8, <1>9
<1>12. Active(r)' => Accounted(r)'
  BY SMTT(40), <1>1, <1>9, <1>10, <1>11 DEF Accounted, Active
<1>13. \A s \in Run \ {r} : Active(s)' => Accounted(s)'
  BY ZenonT(40), <1>6 DEF Counts, Accounted, Active
<1>14. IsFiniteSet(tasks')
  <2>1. IsFiniteSet(tasks \ {t})
    BY ZenonT(40), FS_RemoveElement DEF Counts
  <2> QED
    BY ZenonT(40), <2>1, FS_AddElement
<1>15. \A w \in tasks' : w.n <= run'[w.run].scanned
  BY SMTT(40), <1>1 DEF Counts
<1>16. \A w, x \in tasks' : w.run = x.run /\ w.n = x.n => w = x
  BY SMTT(40), <1>3 DEF Counts
<1>17. \A s \in Run : At(s, "spawned")' => run'[s].counter = 0 /\ run'[s].scanned = 0
  <2>1. Active(r)
    BY ZenonT(40) DEF Writers, WriterExclusive
  <2> QED
    BY ZenonT(40), <2>1 DEF Counts, At, Active
<1> QED
  BY ZenonT(40), <1>12, <1>13, <1>14, <1>15, <1>16, <1>17 DEF Counts

\* A step of a task.
LEMMA TaskStepCounts == ASSUME Writers, Counts, NEW t \in tasks, TaskStep(t) PROVE Counts'
<1>t. /\ t \in Task /\ t.run \in Run /\ run \in [Run -> RunState] /\ run[t.run] \in RunState
  BY ZenonT(40) DEF Writers, TypeOK, Task
<1>1. CASE TaskBuild(t)
  <2> DEFINE u == [t EXCEPT !.st = "built", !.doc.content = ContentNow(t.run, t.doc.path)]
  <2>1. u.run = t.run /\ u.n = t.n /\ u.st = "built"
    BY ZenonT(40), <1>t DEF Task
  <2>2. tasks' = (tasks \ {t}) \cup {u} /\ run' = run /\ t.st = "queued"
    BY ZenonT(40), <1>1 DEF TaskBuild, Becomes
  <2> HIDE DEF u
  <2> QED
    BY ZenonT(40), <2>1, <2>2, TaskMoves
<1>2. CASE TaskWrite(t) \/ TaskWriteFails(t)
  <2> DEFINE u == [t EXCEPT !.st = "written"]
  <2>1. u.run = t.run /\ u.n = t.n /\ u.st = "written"
    BY ZenonT(40), <1>t DEF Task
  <2>2. tasks' = (tasks \ {t}) \cup {u} /\ t.st = "built"
    BY ZenonT(40), <1>2 DEF TaskWrite, TaskWriteFails, Becomes
  <2>3. \A s \in Run : /\ run'[s].pc = run[s].pc /\ run'[s].scanned = run[s].scanned
                       /\ run'[s].counter = run[s].counter
    <3>1. CASE TaskWrite(t)
      BY ZenonT(40), <3>1 DEF TaskWrite
    <3>2. CASE TaskWriteFails(t)
      BY ZenonT(40), <3>2, TaskLoses DEF Writers
    <3> QED
      BY ZenonT(40), <1>2, <3>1, <3>2
  <2> HIDE DEF u
  <2> QED
    BY ZenonT(40), <1>t, <2>1, <2>2, <2>3, TaskMoves
<1>3. CASE TaskCount(t)
  <2> DEFINE u == [t EXCEPT !.st = "counted", !.cur = run[t.run].counter + 1]
  <2>1. u.run = t.run /\ u.n = t.n /\ u.st = "counted"
    BY ZenonT(40), <1>t DEF Task
  <2>2. tasks' = (tasks \ {t}) \cup {u} /\ t.st = "written"
    BY ZenonT(40), <1>3 DEF TaskCount, Becomes
  <2>3. /\ \A s \in Run : run'[s].pc = run[s].pc /\ run'[s].scanned = run[s].scanned
        /\ \A s \in Run \ {t.run} : run'[s].counter = run[s].counter
        /\ run'[t.run].counter = run[t.run].counter + 1
    BY ZenonT(40), <1>3, <1>t DEF TaskCount, RunState
  <2> HIDE DEF u
  <2> QED
    BY ZenonT(40), <2>1, <2>2, <2>3, TaskMoves
<1>4. CASE TaskReport(t)
  <2>1. tasks' = tasks \ {t} /\ run' = run /\ t.st = "counted"
    BY ZenonT(40), <1>4 DEF TaskReport
  <2>2. \A s \in Run : Open(s)' = Open(s)
    BY ZenonT(40), <2>1 DEF Open, TasksOf
  <2>3. IsFiniteSet(tasks')
    BY ZenonT(40), <2>1, FS_RemoveElement DEF Counts
  <2>4. \A s \in Run : Active(s)' => Accounted(s)'
    BY ZenonT(40), <2>1, <2>2 DEF Counts, Active, Accounted
  <2>5. (\A w \in tasks' : w.n <= run'[w.run].scanned) /\ tasks' \subseteq tasks
    BY ZenonT(40), <2>1 DEF Counts
  <2>6. \A s \in Run : At(s, "spawned")' => run'[s].counter = 0 /\ run'[s].scanned = 0
    BY ZenonT(40), <2>1 DEF Counts, At
  <2> QED
    BY Zenon, <2>3, <2>4, <2>5, <2>6 DEF Counts
<1> QED
  BY ZenonT(40), <1>1, <1>2, <1>3, <1>4 DEF TaskStep

\* A new call has counted nothing.
LEMMA StartCounts ==
  ASSUME Writers, Counts, NEW r \in Run, NEW d, NEW roots, NEW parse, Start(r, d, roots, parse),
         tasks' = tasks
  PROVE  Counts'
<1>1. run \in [Run -> RunState] /\ At(r, "idle")
  BY ZenonT(40) DEF Writers, TypeOK, Start
<1>2. /\ run'[r].pc = "spawned" /\ run'[r].scanned = 0 /\ run'[r].counter = 0
      /\ \A s \in Run \ {r} : run'[s] = run[s]
  BY ZenonT(40), <1>1, IdleRunType DEF Start, RunState, IdleRun
<1>3. \A t \in tasks : t.run # r /\ t.run \in Run
  BY ZenonT(40), <1>1, NoTasksYet, CountTypes DEF Active, At, Writers
<1>4. \A s \in Run : Open(s)' = Open(s)
  BY ZenonT(40) DEF Open, TasksOf
<1>5. \A s \in Run : Active(s)' => Accounted(s)'
  BY ZenonT(40), <1>2, <1>4 DEF Counts, Active, Accounted
<1>6. \A t \in tasks' : t.n <= run'[t.run].scanned
  BY ZenonT(40), <1>2, <1>3 DEF Counts
<1>7. \A s \in Run : At(s, "spawned")' => run'[s].counter = 0 /\ run'[s].scanned = 0
  BY ZenonT(40), <1>2 DEF Counts, At
<1> QED
  BY ZenonT(40), <1>5, <1>6, <1>7 DEF Counts

\* Every step keeps the accounts.
LEMMA NextCounts == Writers /\ Counts /\ [Next]_vars => Counts'
<1> SUFFICES ASSUME Writers, Counts, [Next]_vars PROVE Counts'
  OBVIOUS
<1>1. ASSUME tasks' = tasks, run' = run PROVE Counts'
  BY ZenonT(40), <1>1, SameCounts DEF Active, At
<1>2. CASE DailyThread
  BY Zenon, <1>1, <1>2, StartCounts DEF DailyThread, AutoReadConfig, AutoConfigFails, AutoLoadState, AutoSleep, AutoSpawn
<1>3. CASE User
  BY Zenon, <1>1, <1>3, StartCounts DEF User, doScanAndIndex, start_auto_scan_now, write_config,
     FileWritten, FileRemoved, InvokeTimeout, OtherEnds
<1>4. CASE Midnight \/ UNCHANGED vars
  BY ZenonT(40), <1>1, <1>4 DEF Midnight, vars
<1>5. CASE Crash
  <2>1. tasks' = {} /\ \A s \in Run : run'[s].pc = "idle"
    BY ZenonT(40), <1>5 DEF Crash, IdleRun
  <2> QED
    BY ZenonT(40), <2>1, FS_EmptySet DEF Counts, Active, At
<1> QED
  BY <1>2, <1>3, <1>4, <1>5, RunStepCounts, TaskStepCounts DEF Next

\* However many files, threads and calls there are, every counted file is in the
\* counter behind index_progress or in the pool, exactly once.
THEOREM ProgressIsAccounted == Spec => []ProgressAccounted
<1>1. Init => Writers
  BY InitType, IdleRunType DEF Init, Writers, WriterExclusive, Active, IdleRun
<1>2. Init => Counts
  BY SMTT(40), FS_EmptySet DEF Init, Counts, Active, At, IdleRun
<1>3. Counts => ProgressAccounted
  BY ZenonT(40) DEF Counts, ProgressAccounted, Accounted, Open
<1> QED
  BY <1>1, <1>2, <1>3, NextWriters, NextCounts, PTL DEF Spec

=============================================================================
