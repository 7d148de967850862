------------------------------- MODULE Config -------------------------------
(***************************************************************************)
(* The configuration file (config.rs) and the settings form of App.tsx.    *)
(*                                                                         *)
(* Every call of read_config, write_config or reset_config runs on a       *)
(* thread of its own: the daily thread reads, the page loads when it is    *)
(* mounted, saves and resets.  Nothing orders their file operations, nor   *)
(* the arrival of their answers at the page.                               *)
(*                                                                         *)
(* A configuration is three fields.  "roots" stands for the lists, which   *)
(* the form shows as one line of text, "dir" for the fields the form       *)
(* carries as they are, index_dir above all, which is also moved out of    *)
(* src-tauri, and "mode" for search_mode, which is not on the form.        *)
(***************************************************************************)
EXTENDS Naturals, FiniteSets

CONSTANTS
  Call,         \* calls that may run together
  Length,       \* length of the text of a value, a function on Val
  Left,         \* configurations an earlier version or an editor may have left
  MaxCalls,     \* bound on the calls
  MaxEdits,     \* bound on the edits of the form
  MaxFaults,    \* bound on failures and time-outs
  MaxCrashes    \* bound on the ends of the process

\* A list: the default of the backend, that of the page, a choice of the user, no
\* entries, entries of which one has a comma or blanks at its ends, and what such
\* a list falls into.  (Lists of nothing but blank entries are left out.)
List == {"backend", "page", "user", "empty", "comma", "pieces"}

\* A directory: also one below src-tauri.
Dir == {"backend", "page", "user", "empty", "src-tauri"}

Mode == {"inverted", "hybrid", "empty"}

Val == List \cup Dir \cup Mode

Cfg == [mode : Mode, roots : List, dir : Dir]

\* The fields of the page; "blank" is a line without an entry.
Line == {"backend", "page", "user", "blank", "pieces"}

Form == [roots : Line, dir : Dir]

ASSUME ConfigAssumption ==
  /\ Length \in [Val -> Nat] /\ Left \subseteq Cfg
  /\ MaxCalls \in Nat /\ MaxEdits \in Nat /\ MaxFaults \in Nat /\ MaxCrashes \in Nat

VARIABLES
  file,     \* config.json: absent, text that parses, or text that does not
  call,     \* per call: the operation, where it is, and its configuration
  form,     \* the fields of the page
  busy,     \* busy
  mounted,  \* whether the page has asked for the configuration
  loaded,   \* history: the form got what the file held, nobody about to write
  gone,     \* calls that have opened a file that was removed since
  touched,  \* history: fields edited since
  serial,   \* history: calls never overlapped, none failed or was cut short
  mixed,    \* history: a save and a reset overlapped
  want,     \* history: the configuration last saved, or the default
  used      \* counters against the bounds

vars == <<file, call, gone, form, busy, mounted, loaded, touched, serial, mixed, want, used>>

Default == [mode |-> "inverted", roots |-> "backend", dir |-> "backend"]

\* What the fields of the page hold before a configuration arrives.
PageDefault == [roots |-> "page", dir |-> "page"]

Absent == [kind |-> "absent", cfg |-> Default, len |-> 0]

Empty == [kind |-> "garbage", cfg |-> Default, len |-> 0]

TextLen(c) == Length[c.mode] + Length[c.roots] + Length[c.dir] + 1

Text(c) == [kind |-> "valid", cfg |-> c, len |-> TextLen(c)]

\* Who waits for the answer: the daily thread, the page, or nobody any more.
Idle == [op |-> "idle", pc |-> "none", by |-> "nobody", cfg |-> Default]

CallState ==
  [op : {"idle", "read", "save", "reset"}, pc : {"none", "remove", "check", "read", "truncate", "write", "answer"},
   by : {"daily", "page", "nobody"}, cfg : Cfg]

Running == {k \in Call : call[k].op # "idle"}

Bound(b) == [calls |-> MaxCalls, edits |-> MaxEdits, faults |-> MaxFaults, crashes |-> MaxCrashes][b]

Use(b) == used[b] < Bound(b) /\ used' = [used EXCEPT ![b] = @ + 1]

-----------------------------------------------------------------------------
(* config.rs                                                                *)

\* write_config never stores a directory below src-tauri.
Redirect(c) == [c EXCEPT !.dir = IF @ = "src-tauri" THEN "backend" ELSE @]

\* Mutation: read_config does not move index_dir.
Repair_NoRedirect(c) ==
  [mode |-> IF c.mode = "empty" THEN "inverted" ELSE c.mode,
   roots |-> IF c.roots = "empty" THEN "backend" ELSE c.roots,
   dir |-> IF c.dir = "empty" THEN "backend" ELSE c.dir]

\* Mutation: an empty list is filled from the wrong field.
Repair_WrongField(c) ==
  [mode |-> IF c.mode = "empty" THEN "inverted" ELSE c.mode,
   roots |-> IF c.roots = "empty" THEN c.dir ELSE c.roots,
   dir |-> IF c.dir \in {"empty", "src-tauri"} THEN "backend" ELSE c.dir]

\* What read_config makes of what it parsed.
Repair(c) ==
  [mode |-> IF c.mode = "empty" THEN "inverted" ELSE c.mode,
   roots |-> IF c.roots = "empty" THEN "backend" ELSE c.roots,
   dir |-> IF c.dir \in {"empty", "src-tauri"} THEN "backend" ELSE c.dir]

\* Text written over what the file holds: a longer text keeps its end, which
\* does not parse.
Overwrite(f, c) ==
  IF f.len > TextLen(c) THEN [kind |-> "garbage", cfg |-> c, len |-> f.len] ELSE Text(c)

Goto(k, l, c) == call' = [call EXCEPT ![k].pc = l, ![k].cfg = c]

\* Mutation: the reset keeps the file.
Remove_Keep(k) ==
  /\ call[k].pc = "remove"
  /\ Goto(k, "check", call[k].cfg)
  /\ UNCHANGED <<file, gone, form, busy, mounted, loaded, touched, serial, mixed, want, used>>

\* reset_config: the file is removed, then read_config runs.  A call that has opened
\* the file goes on writing to what no name leads to any more.
Remove(k) ==
  /\ call[k].pc = "remove"
  /\ file' = Absent
  /\ gone' = {j \in Call : call[j].pc = "write"} \cup gone
  /\ Goto(k, "check", call[k].cfg)
  /\ UNCHANGED <<form, busy, mounted, loaded, touched, serial, mixed, want, used>>

\* The file cannot be removed (open elsewhere): the failure is ignored.
RemoveFails(k) ==
  /\ call[k].pc = "remove" /\ file # Absent /\ Use("faults")
  /\ serial' = FALSE
  /\ Goto(k, "check", call[k].cfg)
  /\ UNCHANGED <<file, gone, form, busy, mounted, loaded, touched, mixed, want>>

\* p.exists(): the default is written if it does not, else it is read.
Check(k) ==
  /\ call[k].pc = "check"
  /\ Goto(k, IF file.kind = "absent" THEN "truncate" ELSE "read", Default)
  /\ UNCHANGED <<file, gone, form, busy, mounted, loaded, touched, serial, mixed, want, used>>

\* Mutation: the old text is not cut off.
Truncated_Keep(f) == IF f.kind = "absent" THEN Empty ELSE f

\* The file after it has been opened by fs::write.
Truncated(f) == Empty

Truncate(k) ==
  /\ call[k].pc = "truncate"
  /\ file' = Truncated(file) /\ gone' = gone \ {k}
  /\ Goto(k, "write", call[k].cfg)
  /\ UNCHANGED <<form, busy, mounted, loaded, touched, serial, mixed, want, used>>

-----------------------------------------------------------------------------
(* The answers, as the page applies them.                                   *)

\* l.join(', '): the entries run together, and commas and blanks within them can no
\* longer be told from those between them.
join(l) == CASE l = "empty" -> "blank" [] l = "comma" -> "pieces" [] OTHER -> l

\* setIndexDir(cfg.index_dir || 'indexes/main'), setRoots, setExclude, setPathMaxLen,
\* setAutoScanEnabled; search_mode is dropped.
Applied(c) == [roots |-> join(c.roots), dir |-> IF c.dir = "empty" THEN "page" ELSE c.dir]

\* Call k is through with the file; its answer is on its way if the page waits.
Done(k, c) ==
  call' = [call EXCEPT ![k] = IF @.by = "page" THEN [@ EXCEPT !.pc = "answer", !.cfg = c] ELSE Idle]

\* Nobody but k is about to write, and the file holds what k brings.
UpToDate(k) ==
  /\ \A j \in Call \ {k} : call[j].pc \in {"none", "check", "read", "answer"}
  /\ file.kind = "valid" /\ Repair(file.cfg) = call[k].cfg

\* The finally block of a save or a reset; the load does not set the flag.
Clears(k) == busy' = (busy /\ ~(call[k].by = "page" /\ call[k].op # "read"))

\* The answer reaches the page, if it still waits.
Answers(k) ==
  /\ call[k].pc = "answer"
  /\ call' = [call EXCEPT ![k] = Idle]
  /\ LET takes == call[k].by = "page" /\ call[k].op \in {"read", "reset"}
     IN  /\ form' = IF takes THEN Applied(call[k].cfg) ELSE form
         /\ loaded' = IF takes THEN UpToDate(k) ELSE loaded
         /\ touched' = IF takes THEN {} ELSE touched
  /\ Clears(k)
  /\ UNCHANGED <<file, gone, mounted, serial, mixed, want, used>>

\* Call k ends with an error: the page keeps its fields.
Fails(k) ==
  /\ call' = [call EXCEPT ![k] = Idle]
  /\ Clears(k)
  /\ UNCHANGED <<gone, form, mounted, loaded, touched, mixed, want>>

ReadFile(k) ==
  /\ call[k].pc = "read" /\ file.kind = "valid"
  /\ Done(k, Repair(file.cfg))
  /\ UNCHANGED <<file, gone, form, busy, mounted, loaded, touched, serial, mixed, want, used>>

\* The file is gone, or its text does not parse.
ReadFails(k) ==
  /\ call[k].pc = "read" /\ file.kind # "valid"
  /\ Fails(k)
  /\ UNCHANGED <<file, serial, used>>

Write(k) ==
  /\ call[k].pc = "write"
  /\ file' = IF k \in gone THEN file ELSE Overwrite(file, call[k].cfg)
  /\ Done(k, call[k].cfg)
  /\ UNCHANGED <<gone, form, busy, mounted, loaded, touched, serial, mixed, want, used>>

\* The file cannot be opened, and stays as it is; or the disk is full, and some of
\* the text has been written or none.
WriteFails(k) ==
  /\ call[k].pc \in {"truncate", "write"} /\ Use("faults")
  /\ serial' = FALSE
  /\ \/ file' = file
     \/ call[k].pc = "write" /\ k \notin gone /\ file' = [file EXCEPT !.kind = "garbage"]
  /\ Fails(k)

-----------------------------------------------------------------------------
(* The callers.                                                             *)

Begin(k, op, l, by, c) ==
  /\ k \notin Running /\ Use("calls")
  /\ call' = [call EXCEPT ![k] = [op |-> op, pc |-> l, by |-> by, cfg |-> c]]
  /\ serial' = (serial /\ Running = {})
  /\ mixed' = (mixed \/ \E j \in Running : {op, call[j].op} = {"save", "reset"})

\* The daily thread, or start_auto_scan_now.
DailyRead(k) ==
  /\ Begin(k, "read", "check", "daily", Default)
  /\ UNCHANGED <<file, gone, form, busy, mounted, loaded, touched, want>>

\* The effect that loads the configuration; busy is not set.
Load(k) ==
  /\ ~mounted /\ mounted' = TRUE
  /\ Begin(k, "read", "check", "page", Default)
  /\ UNCHANGED <<file, gone, form, busy, loaded, touched, want>>

parseCSV(t) == IF t = "blank" THEN "empty" ELSE t

\* Mutation: the index directory of the page's defaults is saved.
FormCfg_PageDir == [mode |-> "inverted", roots |-> parseCSV(form.roots), dir |-> PageDefault.dir]

\* What the form is saved as.
FormCfg == [mode |-> "inverted", roots |-> parseCSV(form.roots), dir |-> form.dir]

doSaveConfig(k) ==
  /\ ~busy /\ busy' = TRUE
  /\ Begin(k, "save", "truncate", "page", Redirect(FormCfg))
  /\ want' = Redirect(FormCfg)
  /\ UNCHANGED <<file, gone, form, mounted, loaded, touched>>

doResetConfig(k) ==
  /\ ~busy /\ busy' = TRUE
  /\ Begin(k, "reset", "remove", "page", Default)
  /\ loaded' = FALSE
  /\ want' = Default
  /\ UNCHANGED <<file, gone, form, mounted, touched>>

EditForm(f, v) ==
  /\ Use("edits")
  /\ form' = [form EXCEPT ![f] = v] /\ form' \in Form
  /\ touched' = touched \cup {f}
  /\ UNCHANGED <<file, call, gone, busy, mounted, loaded, serial, mixed, want>>

\* Another page's operation ends and clears the flag all pages share.
OtherEnds ==
  /\ busy /\ busy' = FALSE
  /\ UNCHANGED <<file, call, gone, form, mounted, loaded, touched, serial, mixed, want, used>>

\* safeInvoke gives up on a call of the page; the call itself runs on.
Timeout(k) ==
  /\ call[k].by = "page" /\ Use("faults")
  /\ call' = [call EXCEPT ![k].by = "nobody"]
  /\ busy' = (busy /\ call[k].op = "read")
  /\ serial' = FALSE
  /\ UNCHANGED <<file, gone, form, mounted, loaded, touched, mixed, want>>

\* The process ends, between two calls or within one, and is started again.
Crash ==
  /\ Use("crashes")
  /\ call' = [k \in Call |-> Idle] /\ gone' = {}
  /\ form' = PageDefault /\ busy' = FALSE /\ mounted' = FALSE /\ loaded' = FALSE /\ touched' = {}
  /\ serial' = (serial /\ Running = {})
  /\ UNCHANGED <<file, mixed, want>>

\* At first there is no file, or one an earlier version or an editor left.
Init ==
  /\ file \in {Absent} \cup {Text(c) : c \in Left}
  /\ call = [k \in Call |-> Idle] /\ gone = {}
  /\ form = PageDefault /\ busy = FALSE /\ mounted = FALSE /\ loaded = FALSE /\ touched = {}
  /\ serial = TRUE /\ mixed = FALSE /\ want = file.cfg
  /\ used = [calls |-> 0, edits |-> 0, faults |-> 0, crashes |-> 0]

Step(k) ==
  \/ Remove(k) \/ RemoveFails(k) \/ Check(k) \/ Truncate(k)
  \/ ReadFile(k) \/ ReadFails(k) \/ Write(k) \/ WriteFails(k) \/ Answers(k)

Next ==
  \/ \E k \in Call : Step(k) \/ Timeout(k)
  \/ \E k \in Call : DailyRead(k) \/ Load(k) \/ doSaveConfig(k) \/ doResetConfig(k)
  \/ \E f \in {"roots", "dir"}, v \in Line \cup Dir : EditForm(f, v)
  \/ OtherEnds \/ Crash

Spec == Init /\ [][Next]_vars

-----------------------------------------------------------------------------

\* Every variable has its type.
TypeOK ==
  /\ file \in [kind : {"absent", "valid", "garbage"}, cfg : Cfg, len : Nat]
  /\ call \in [Call -> CallState] /\ gone \subseteq Call
  /\ form \in Form /\ {busy, mounted, loaded, serial, mixed} \subseteq BOOLEAN
  /\ touched \subseteq {"roots", "dir"} /\ want \in Cfg
  /\ used \in [{"calls", "edits", "faults", "crashes"} -> Nat]

\* The form has no empty field and no directory below src-tauri but those the user
\* typed since the last answer, whatever the file held, whichever calls ran together
\* and in whatever order their answers arrived.
FormRepaired ==
  /\ "roots" \notin touched => form.roots # "blank"
  /\ "dir" \notin touched => form.dir \notin {"empty", "src-tauri"}

\* While calls do not overlap, fail or get cut short, a save is durable: between
\* calls the file holds what was saved last, also after the process has ended,
\* and with a text shorter than the one before; there is none only before the first
\* call.  (A read that found no file writes the default over a save that overlaps it.)
SerialSaveDurable ==
  serial /\ Running = {} =>
    \/ file = Absent /\ want = Default /\ used.calls = 0
    \/ file.kind = "valid" /\ file.cfg = want

\* A save from a form that got what the file held writes back, in every field the
\* user did not edit, what a read of the file yields, whatever calls of the daily
\* thread ran and whichever answers arrived in between.  It does not for search_mode,
\* which a save sets to "inverted", nor for a list with an entry that holds a comma
\* or has blanks at its ends, which it splits.  (A save before the configuration has
\* reached the form writes the page's defaults, and a load answered after such a save
\* shows what the file no longer holds.)
LoadedSaveKeeps ==
  [][\A k \in Call : call[k].op = "idle" /\ call'[k].op = "save" /\ loaded /\ file.kind = "valid" =>
       LET held == Repair(file.cfg)
       IN  /\ "dir" \notin touched => call'[k].cfg.dir = held.dir
           /\ "roots" \notin touched /\ held.roots # "comma" => call'[k].cfg.roots = held.roots]_vars

\* "重置配置：删除现有配置文件并返回新的默认配置" (config.rs:78): a reset that succeeds brings
\* the default to the form, whatever loads, daily reads and ends of the process happen
\* around it, if no save overlaps it and no call fails.  (A removal that fails is
\* ignored, and the reset returns the old configuration.)
ResetBringsDefault ==
  [][\A k \in Call :
       call[k].op = "reset" /\ call[k].pc = "answer" /\ call'[k].op = "idle" /\ used.crashes = used'.crashes
         /\ ~mixed /\ used.faults = 0 => form' = Applied(Default)]_vars

=============================================================================
