----------------------------- MODULE Duplicates -----------------------------
(***************************************************************************)
(* The duplicates page: detection (dedup.rs) over a scan of the roots      *)
(* (scan_paths_progress), and deletion of a listed file                    *)
(* (delete_file_and_index), as App.tsx drives them.                        *)
(*                                                                         *)
(* Every call of the page is a job; "busy" is the flag all calls share:    *)
(* each sets it when it begins and clears it when it ends.  It disables    *)
(* the detect button, but not the delete buttons of the list.  A search    *)
(* of the search page uses it too.                                         *)
(***************************************************************************)
EXTENDS Naturals, Sequences, FiniteSets, Functions

CONSTANTS
  Path,                  \* paths of the files
  Job,                   \* slots for calls in progress
  Hash, NoHash,          \* contents of files; the result for a missing file
  Name,                  \* function: the file name of each path
  Walks,                 \* function: what walks of the roots may list, given the files on
                         \* disk; a path below two roots twice
  Contents,              \* what the files may hold at the beginning
  MaxClicks, MaxMishaps  \* bounds on clicks, and on failures and edits by others

ASSUME DuplicatesAssumption ==
  /\ NoHash \notin Hash
  /\ Name \in [Path -> STRING] /\ IsFiniteSet(Job)
  /\ DOMAIN Walks = SUBSET Path /\ \A files \in SUBSET Path : Walks[files] \subseteq Seq(files)
  /\ Contents \subseteq [Path -> Hash]
  /\ {MaxClicks, MaxMishaps} \subseteq Nat

VARIABLES
  present, content,   \* the files on disk and what is in them
  scanned,            \* App.tsx: the paths of the last scan
  groups,             \* App.tsx: the groups of the last detection
  listeners,          \* the scan_progress listeners registered with the webview
  busy,               \* App.tsx: the shared flag
  job,                \* the calls in progress
  deleted,            \* history: the files the page reported as deleted
  manner,             \* history: how the user has acted
  used                \* how often the environment has acted (bounds)

disk == <<present, content>>
page == <<scanned, groups>>
vars == <<disk, page, listeners, busy, job, deleted, manner, used>>

\* A detection subscribes to the progress and scans, then hashes its paths one after
\* the other; a deletion removes the file, then its index record.  The page awaits
\* the answer until the call times out.
JobState ==
  [pc : {"idle", "listen", "scan", "hash", "remove", "unindex"}, paths : Seq(Path),
   hashed : Seq(Hash \cup {NoHash}), path : Path \cup {<<>>}, awaited : BOOLEAN]

IdleJob == [pc |-> "idle", paths |-> <<>>, hashed |-> <<>>, path |-> <<>>, awaited |-> FALSE]

NewJob(pc) == [IdleJob EXCEPT !.pc = pc, !.awaited = TRUE]

\* serial: no call was begun while another was in progress; wary: files were only
\* deleted from groups of equal content that listed at least two different files;
\* warned: a deletion failed or was given up, and no detection has been answered
\* since; heeds: nothing was deleted after such a warning.
Manner == [serial : BOOLEAN, wary : BOOLEAN, warned : BOOLEAN, heeds : BOOLEAN]

\* The files of a group by their place in the list of paths.
IsGroup(g) ==
  /\ g \in [kind : {"hash", "name"}, key : Hash \cup STRING, files : [DOMAIN g.files -> Path]]
  /\ DOMAIN g.files \subseteq Nat

Count(b) ==
  /\ IF b = "clicks" THEN used.clicks < MaxClicks ELSE used.faults + used.edits < MaxMishaps
  /\ used' = [used EXCEPT ![b] = @ + 1]

-----------------------------------------------------------------------------
(* dedup.rs                                                                 *)

\* The entries of paths whose key is k.
Bucket(paths, keys, k) == Restrict(paths, {i \in DOMAIN paths : keys[i] = k})

Several(files) == \E i, j \in DOMAIN files : i # j

\* Mutation: the files that could not be read are a group as well.
Buckets_WithMissing(kind, paths, keys) ==
  {g \in {[kind |-> kind, key |-> k, files |-> Bucket(paths, keys, k)] : k \in Range(keys)} :
     Several(g.files)}

Buckets(kind, paths, keys) ==
  {g \in {[kind |-> kind, key |-> k, files |-> Bucket(paths, keys, k)] : k \in Range(keys) \ {NoHash}} :
     Several(g.files)}

\* Mutation: files are compared by name where contents are meant.
detect_ByName(paths, hashed) ==
  Buckets("hash", paths, [i \in DOMAIN paths |-> Name[paths[i]]])

detect(paths, hashed) ==
  Buckets("hash", paths, hashed) \cup Buckets("name", paths, [i \in DOMAIN paths |-> Name[paths[i]]])

\* Mutation: a hash computed earlier is used, whether the file exists or not.
hash_file_Cached(p) == content[p]

hash_file(p) == IF p \in present THEN content[p] ELSE NoHash

\* The lists that a scan of the roots may answer with now.
scan_paths_progress == Walks[present]

-----------------------------------------------------------------------------
(* runDetect                                                                *)

\* The slot a new call takes.
Free(j) == job[j].pc = "idle" /\ j = CHOOSE k \in Job : job[k].pc = "idle"

\* The bookkeeping of a click that begins a call.
Begins(wary, heeds) ==
  /\ Count("clicks")
  /\ manner' = [manner EXCEPT !.serial = @ /\ \A k \in Job : job[k].pc = "idle",
                              !.wary = @ /\ wary, !.heeds = @ /\ heeds]

\* The page shows an error after a deletion.
Warns == manner' = [manner EXCEPT !.warned = TRUE]

\* The finally block, unless the page has given up waiting.
Ends(j) == job' = [job EXCEPT ![j] = IdleJob] /\ busy' = (busy /\ ~job[j].awaited)

runDetect(j) ==
  /\ ~busy /\ Free(j) /\ Begins(TRUE, TRUE)
  /\ busy' = TRUE
  /\ job' = [job EXCEPT ![j] = IF scanned = <<>> THEN NewJob("listen")
                               ELSE [NewJob("hash") EXCEPT !.paths = scanned]]
  /\ UNCHANGED <<disk, page, listeners, deleted>>

Listens(j) ==
  /\ job[j].pc = "listen"
  /\ listeners' = listeners + 1
  /\ job' = [job EXCEPT ![j].pc = "scan"]
  /\ UNCHANGED <<disk, page, busy, deleted, manner, used>>

\* Mutation: the listener is not removed.
ScanReturns_NoUnlisten(j, found) ==
  /\ job[j].pc = "scan"
  /\ scanned' = found
  /\ job' = [job EXCEPT ![j].pc = "hash", ![j].paths = found]
  /\ UNCHANGED <<disk, groups, listeners, busy, deleted, manner, used>>

ScanReturns(j, found) ==
  /\ job[j].pc = "scan"
  /\ listeners' = listeners - 1
  /\ scanned' = found
  /\ job' = [job EXCEPT ![j].pc = "hash", ![j].paths = found]
  /\ UNCHANGED <<disk, groups, busy, deleted, manner, used>>

HashNext(j) ==
  /\ job[j].pc = "hash" /\ Len(job[j].hashed) < Len(job[j].paths)
  /\ job' = [job EXCEPT ![j].hashed = Append(@, hash_file(job[j].paths[Len(@) + 1]))]
  /\ UNCHANGED <<disk, page, listeners, busy, deleted, manner, used>>

DetectReturns(j) ==
  /\ job[j].pc = "hash" /\ Len(job[j].hashed) = Len(job[j].paths)
  /\ groups' = detect(job[j].paths, job[j].hashed)
  /\ manner' = [manner EXCEPT !.warned = FALSE]
  /\ Ends(j)
  /\ UNCHANGED <<disk, scanned, listeners, deleted, used>>

\* Mutation: the flag stays set when a detection fails.
DetectFails_NoFinally(j) ==
  /\ job[j].pc \in {"listen", "scan", "hash"} /\ Count("faults")
  /\ job' = [job EXCEPT ![j] = IdleJob]
  /\ UNCHANGED <<disk, page, listeners, busy, deleted, manner>>

\* The subscription fails, the scan or the detection times out, or a file cannot be
\* read and the whole detection fails.  The listener of a scan stays.
DetectFails(j) ==
  /\ job[j].pc \in {"listen", "scan", "hash"} /\ Count("faults")
  /\ Ends(j)
  /\ UNCHANGED <<disk, page, listeners, deleted, manner>>

-----------------------------------------------------------------------------
(* handleDelete and delete_file_and_index                                   *)

\* The two check boxes only choose what is listed; the user may set them anyhow
\* before a click, so their setting is an input of the click.
filteredGroups(show) == {g \in groups : g.kind \in show}

\* The delete button of p in the list.
Offered(show, g, p) == g \in filteredGroups(show) /\ p \in Range(g.files)

handleDelete(j, show, g, p) ==
  /\ Offered(show, g, p) /\ Free(j)
  /\ Begins(g.kind = "hash" /\ Range(g.files) # {p}, ~manner.warned)
  /\ busy' = TRUE
  /\ job' = [job EXCEPT ![j] = [NewJob("remove") EXCEPT !.path = p]]
  /\ UNCHANGED <<disk, page, listeners, deleted>>

RemoveFile(j) ==
  /\ job[j].pc = "remove" /\ job[j].path \in present
  /\ present' = present \ {job[j].path}
  /\ job' = [job EXCEPT ![j].pc = "unindex"]
  /\ UNCHANGED <<content, page, listeners, busy, deleted, manner, used>>

\* fs::remove_file fails; nothing has changed.
RemoveFails(j) ==
  /\ job[j].pc = "remove"
  /\ \/ job[j].path \notin present /\ UNCHANGED used
     \/ Count("faults")
  /\ Ends(j) /\ Warns
  /\ UNCHANGED <<disk, page, listeners, deleted>>

\* The update of the list after a deletion.
Without(gs, p) ==
  {g \in {[h EXCEPT !.files = Restrict(h.files, {i \in DOMAIN h.files : h.files[i] # p})] : h \in gs} :
     Several(g.files)}

\* Whether the directory on the page holds an index is an input of the two steps
\* below: it may be typed anew, and a scan may create one, at any time.

\* There is no index: the deletion succeeds.
Unindex(j) ==
  /\ job[j].pc = "unindex"
  /\ groups' = IF job[j].awaited THEN Without(groups, job[j].path) ELSE groups
  /\ deleted' = IF job[j].awaited THEN deleted \cup {job[j].path} ELSE deleted
  /\ Ends(j)
  /\ UNCHANGED <<disk, scanned, listeners, used, manner>>

\* There is one: tantivy refuses a writer of 10 MB (it wants 15 MB for each thread),
\* so delete_term is never reached.  The file is gone and the page shows an error.
UnindexFails(j) ==
  /\ job[j].pc = "unindex"
  /\ Ends(j) /\ Warns
  /\ UNCHANGED <<disk, page, listeners, deleted, used>>

\* safeInvoke gives up on a deletion; the backend goes on with it.
DeleteTimeout(j) ==
  /\ job[j].pc \in {"remove", "unindex"} /\ job[j].awaited /\ Count("faults")
  /\ job' = [job EXCEPT ![j].awaited = FALSE]
  /\ busy' = FALSE /\ Warns
  /\ UNCHANGED <<disk, page, listeners, deleted>>

-----------------------------------------------------------------------------

\* Another program changes a file.
Edit(p, h) ==
  /\ p \in present /\ h # content[p] /\ Count("edits")
  /\ content' = [content EXCEPT ![p] = h]
  /\ UNCHANGED <<present, page, listeners, busy, job, deleted, manner>>

\* A search begun on the search page is answered and clears the flag all pages share.
OtherEnds ==
  /\ busy /\ busy' = FALSE /\ Count("clicks")
  /\ UNCHANGED <<disk, page, listeners, job, deleted, manner>>

Init ==
  /\ present = Path
  /\ content \in Contents
  /\ scanned = <<>> /\ groups = {} /\ listeners = 0 /\ busy = FALSE
  /\ job = [j \in Job |-> IdleJob]
  /\ deleted = {} /\ manner = [serial |-> TRUE, wary |-> TRUE, warned |-> FALSE, heeds |-> TRUE]
  /\ used = [clicks |-> 0, faults |-> 0, edits |-> 0]

JobStep(j) ==
  \/ Listens(j) \/ (\E found \in scan_paths_progress : ScanReturns(j, found))
  \/ HashNext(j) \/ DetectReturns(j) \/ DetectFails(j)
  \/ RemoveFile(j) \/ RemoveFails(j) \/ Unindex(j) \/ UnindexFails(j) \/ DeleteTimeout(j)

Next ==
  \/ \E j \in Job :
       \/ JobStep(j) \/ runDetect(j)
       \/ \E show \in SUBSET {"hash", "name"} : \E g \in groups, p \in Path : handleDelete(j, show, g, p)
  \/ \E p \in Path, h \in Hash : Edit(p, h)
  \/ OtherEnds

Spec == Init /\ [][Next]_vars

\* The backend answers every call, or safeInvoke times out.
FairSpec == Spec /\ \A j \in Job : WF_vars(JobStep(j))

-----------------------------------------------------------------------------

\* Every variable has its type.
TypeOK ==
  /\ present \subseteq Path /\ content \in [Path -> Hash]
  /\ scanned \in Seq(Path) /\ \A g \in groups : IsGroup(g)
  /\ listeners \in Nat /\ busy \in BOOLEAN
  /\ job \in [Job -> JobState] /\ deleted \subseteq Path /\ manner \in Manner
  /\ used \in [{"clicks", "faults", "edits"} -> Nat]

\* A hash group on display never lists files whose contents were different all
\* along: without edits by others, two entries of one group that are still on
\* disk have one content, however late the detection's answer was applied.
GroupsAreEqual ==
  used.edits = 0 =>
    \A g \in groups : g.kind = "hash" =>
      \A p, q \in Range(g.files) : {p, q} \subseteq present => content[p] = content[q]

\* A user who waits for each call, deletes only from groups of equal content that
\* list two different files, and detects anew after a deletion that did not succeed,
\* never loses the last copy of a content, detections from an old scan, failing calls
\* and roots below one another included: a file listed twice is a group of two
\* (dedup.rs:39) that such a user leaves alone.  (Without edits by others.)  Every
\* deletion from a directory with an index is such a one (main.rs:401): the group
\* still lists the file that is gone, and who deletes its other file loses both.
CarefulKeepsLastCopy ==
  [][(manner.serial /\ manner.wary /\ manner.heeds /\ used.edits = 0) =>
       \A p \in present \ present' : \E q \in present' : content[q] = content[p]]_vars

\* "从 UI 中移除该文件" (App.tsx:783): a file reported as deleted is never listed in a
\* hash group again, though later detections reuse a scan that lists it, as long as no
\* call is begun while another is in progress.  (The groups by name do list it again.)
DeletedStaysGone ==
  manner.serial => \A g \in groups : g.kind = "hash" => deleted \cap Range(g.files) = {}

\* A scan that is answered leaves no scan_progress listener behind: besides those of
\* the scans in progress there is at most one for each call that failed (App.tsx:756
\* is not reached then), however many detections are made.
NoStrayListener ==
  LET scans == Cardinality({j \in Job : job[j].pc = "scan"})
  IN  scans <= listeners /\ listeners <= scans + used.faults

\* The page is usable again after every call.
BusyEnds == busy ~> ~busy

(* A statement of the repository that the code does not keep.               *)

\* "清理安全性：零误删" (doc/产品UI-UE设计.md:102): deleting files of the groups of equal
\* content never removes the last file with a content.
LastCopyKept ==
  [][manner.wary => \A p \in present \ present' : \E q \in present' : content[q] = content[p]]_vars

=============================================================================
