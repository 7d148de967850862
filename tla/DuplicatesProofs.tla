--------------------------- MODULE DuplicatesProofs ---------------------------
(***************************************************************************)
(* What holds of the duplicates page for any files, contents, roots, jobs  *)
(* and numbers of clicks and failures: the groups on display are of equal  *)
(* content, a file reported as deleted is not offered again, no answered   *)
(* scan leaves its listener, a careful user keeps a copy of every content, *)
(* and the page is locked only while a call that advances is awaited.      *)
(***************************************************************************)
EXTENDS Duplicates, FiniteSetTheorems, TLAPS

\* What a job holds at each of its steps.
Shape(j) ==
  /\ job[j].pc \in {"listen", "scan"} => job[j].hashed = <<>>
  /\ job[j].pc = "hash" => Len(job[j].hashed) <= Len(job[j].paths)
  /\ job[j].pc \in {"remove", "unindex"} => job[j].path \in Path
  /\ job[j].pc = "unindex" => job[j].path \notin present

\* Types, and no file that is on disk has been reported as deleted.
DInv ==
  /\ TypeOK /\ NoStrayListener
  /\ \A j \in Job : Shape(j)
  /\ deleted \cap present = {}

\* The files a detection has read so far, each with its content.
Read(j) ==
  IF job[j].pc # "hash" THEN {}
  ELSE {<<job[j].paths[i], job[j].hashed[i]>> : i \in {n \in DOMAIN job[j].hashed : job[j].hashed[n] # NoHash}}

\* The files on display in the groups of equal content, and those on disk.
Entries(g) == {<<g.files[i], g.key>> : i \in DOMAIN g.files}
Listed == UNION {Entries(g) : g \in {h \in groups : h.kind = "hash"}}
OnDisk == {<<p, content[p]>> : p \in present}

\* Without edits, what was read and what is listed is in the files.
Equal ==
  used.edits = 0 =>
    /\ \A j \in Job : \A e \in Read(j) : content[e[1]] = e[2]
    /\ \A e \in Listed : content[e[1]] = e[2]

\* One call at a time: what a detection has read stays on disk until it is shown.
Alone ==
  manner.serial =>
    /\ \A j, k \in Job : job[j].pc # "idle" /\ job[k].pc # "idle" => j = k
    /\ \A j \in Job : \A e \in Read(j) : e[1] \in present
    /\ \A e \in Listed : e[1] \notin deleted

\* When moreover the user heeds the errors of deletions, what is listed is on disk but
\* for the file that is just being deleted, unless there was such an error, and the
\* file a careful user deletes has a copy.
Copied ==
  manner.serial /\ manner.heeds =>
    /\ \A j \in Job : job[j].pc # "idle" => job[j].awaited \/ manner.warned
    /\ ~manner.warned =>
         \A e \in Listed : e[1] \in present \/ \E j \in Job : job[j].pc = "unindex" /\ job[j].path = e[1]
    /\ manner.wary /\ used.edits = 0 =>
         \A j \in Job : job[j].pc = "remove" =>
           \E q \in present : q # job[j].path /\ content[q] = content[job[j].path]

-----------------------------------------------------------------------------
(* What each step does to the jobs                                          *)

\* Only the job j changes, to a job of the right type.
Moves(j) ==
  /\ \A k \in Job : k # j => job'[k] = job[k]
  /\ job' \in [Job -> JobState]

Keeps(j) ==
  job'[j].paths = job[j].paths /\ job'[j].hashed = job[j].hashed /\ job'[j].path = job[j].path

\* Replacing one job touches no other.
LEMMA Update ==
  ASSUME job \in [Job -> JobState], NEW j \in Job, NEW J \in JobState, job' = [job EXCEPT ![j] = J]
  PROVE  Moves(j) /\ job'[j] = J
  BY ZenonT(40) DEF Moves

\* An idle job and a new one are jobs, and have hashed nothing.
LEMMA IdleType ==
  /\ IdleJob \in JobState /\ IdleJob.pc = "idle" /\ IdleJob.hashed = <<>>
  /\ \A pc \in {"listen", "scan", "hash", "remove"} :
       /\ NewJob(pc) \in JobState /\ NewJob(pc).pc = pc /\ NewJob(pc).hashed = <<>> /\ NewJob(pc).awaited
<1>1. <<>> \in Seq(Path) /\ <<>> \in Seq(Hash \cup {NoHash}) /\ <<>> \in Path \cup {<<>>}
  OBVIOUS
<1>2. FALSE \in BOOLEAN /\ TRUE \in BOOLEAN
  OBVIOUS
<1>3. IdleJob \in JobState /\ IdleJob.pc = "idle" /\ IdleJob.hashed = <<>>
  BY ZenonT(40), <1>1, <1>2 DEF IdleJob, JobState
<1>4. ASSUME NEW pc \in {"listen", "scan", "hash", "remove"}
      PROVE  NewJob(pc) \in JobState /\ NewJob(pc).pc = pc /\ NewJob(pc).hashed = <<>> /\ NewJob(pc).awaited
  <2> DEFINE J == [IdleJob EXCEPT !.pc = pc]
  <2>1. J \in JobState /\ J.pc = pc /\ J.hashed = <<>>
    BY ZenonT(40), <1>3 DEF JobState
  <2>2. NewJob(pc) = [J EXCEPT !.awaited = TRUE]
    BY DEF NewJob
  <2> HIDE DEF J
  <2> QED
    BY ZenonT(40), <1>2, <2>1, <2>2 DEF JobState
<1> QED
  BY ZenonT(40), <1>3, <1>4

\* The types of the fields of a job.
LEMMA JobFields ==
  ASSUME job \in [Job -> JobState], NEW j \in Job
  PROVE  /\ job[j] \in JobState /\ job[j].paths \in Seq(Path) /\ job[j].hashed \in Seq(Hash \cup {NoHash})
         /\ job[j].path \in Path \cup {<<>>} /\ job[j].awaited \in BOOLEAN
         /\ job[j].pc \in {"idle", "listen", "scan", "hash", "remove", "unindex"}
<1>1. job[j] \in JobState
  OBVIOUS
<1> QED
  BY ZenonT(40), <1>1 DEF JobState

\* The finally block makes the job idle.
LEMMA EndsJob ==
  ASSUME TypeOK, NEW j \in Job, Ends(j)
  PROVE  Moves(j) /\ job'[j] = IdleJob /\ job'[j].pc = "idle" /\ busy' \in BOOLEAN
<1>1. job \in [Job -> JobState]
  BY ZenonT(40) DEF TypeOK
<1>2. job' = [job EXCEPT ![j] = IdleJob] /\ busy' = (busy /\ ~job[j].awaited)
  BY ZenonT(40) DEF Ends
<1>3. busy' \in BOOLEAN
  BY ZenonT(40), <1>2
<1> QED
  BY ZenonT(40), <1>1, <1>2, <1>3, IdleType, Update

\* A detection begins with a scan, or with hashing the list it holds.
LEMMA runDetectJob ==
  ASSUME TypeOK, NEW j \in Job, runDetect(j)
  PROVE  /\ Moves(j) /\ job'[j].hashed = <<>> /\ job'[j].awaited /\ job[j].pc = "idle"
         /\ job'[j].pc \in {"listen", "hash"} /\ (job'[j].pc = "hash" => job'[j].paths \in Seq(Path))
<1>1. job \in [Job -> JobState] /\ scanned \in Seq(Path)
  BY ZenonT(40) DEF TypeOK
<1>2. job[j].pc = "idle"
  BY ZenonT(40) DEF runDetect, Free
<1>3. CASE scanned = <<>>
  <2>1. job' = [job EXCEPT ![j] = NewJob("listen")]
    BY ZenonT(40), <1>3 DEF runDetect
  <2>2. Moves(j) /\ job'[j] = NewJob("listen")
    BY ZenonT(40), <1>1, <2>1, IdleType, Update
  <2> QED
    BY ZenonT(40), <1>2, <2>2, IdleType
<1>4. CASE scanned # <<>>
  <2> DEFINE J == [NewJob("hash") EXCEPT !.paths = scanned]
  <2>1. J \in JobState /\ J.pc = "hash" /\ J.hashed = <<>> /\ J.awaited /\ J.paths = scanned
    <3>1. NewJob("hash") \in JobState /\ NewJob("hash").pc = "hash" /\ NewJob("hash").hashed = <<>>
          /\ NewJob("hash").awaited
      BY ZenonT(40), IdleType
    <3> QED
      BY ZenonT(40), <1>1, <3>1 DEF JobState
  <2>2. job' = [job EXCEPT ![j] = J]
    BY ZenonT(40), <1>4 DEF runDetect
  <2> HIDE DEF J
  <2>3. Moves(j) /\ job'[j] = J
    BY ZenonT(40), <1>1, <2>1, <2>2, Update
  <2> QED
    BY ZenonT(40), <1>1, <1>2, <2>1, <2>3
<1> QED
  BY ZenonT(40), <1>3, <1>4

\* A job whose step counter moves on.
LEMMA PcJob ==
  ASSUME TypeOK, NEW j \in Job, NEW to \in {"scan", "unindex"}, job' = [job EXCEPT ![j].pc = to]
  PROVE  Moves(j) /\ Keeps(j) /\ job'[j].pc = to /\ job'[j].awaited = job[j].awaited
<1>1. job \in [Job -> JobState]
  BY ZenonT(40) DEF TypeOK
<1> DEFINE J == [job[j] EXCEPT !.pc = to]
<1>2. job[j] \in JobState
  BY ZenonT(40), <1>1
<1>3. /\ J \in JobState /\ J.pc = to /\ J.paths = job[j].paths /\ J.hashed = job[j].hashed
      /\ J.path = job[j].path /\ J.awaited = job[j].awaited
  BY ZenonT(40), <1>2 DEF JobState
<1>4. job' = [job EXCEPT ![j] = J]
  BY ZenonT(40), <1>1
<1> HIDE DEF J
<1> QED
  BY ZenonT(40), <1>1, <1>3, <1>4, Update DEF Keeps

\* The answer of the scan is what the job hashes.
LEMMA ScanJob ==
  ASSUME TypeOK, NEW j \in Job, NEW found \in Seq(Path), ScanReturns(j, found)
  PROVE  Moves(j) /\ job'[j].pc = "hash" /\ job'[j].paths = found /\ job'[j].hashed = job[j].hashed
         /\ job'[j].awaited = job[j].awaited
<1>1. job \in [Job -> JobState]
  BY ZenonT(40) DEF TypeOK
<1> DEFINE J == [[job[j] EXCEPT !.pc = "hash"] EXCEPT !.paths = found]
<1>2. job[j] \in JobState
  BY ZenonT(40), <1>1
<1>3. /\ J \in JobState /\ J.pc = "hash" /\ J.paths = found /\ J.hashed = job[j].hashed
      /\ J.awaited = job[j].awaited
  BY ZenonT(40), <1>2 DEF JobState
<1>4. job' = [job EXCEPT ![j] = J]
  BY ZenonT(40), <1>1 DEF ScanReturns
<1> HIDE DEF J
<1> QED
  BY ZenonT(40), <1>1, <1>3, <1>4, Update

\* Hashing adds one result and changes nothing else of the job.
LEMMA HashJob ==
  ASSUME TypeOK, NEW j \in Job, HashNext(j)
  PROVE  /\ Moves(j) /\ job'[j].pc = "hash" /\ job'[j].paths = job[j].paths
         /\ job'[j].awaited = job[j].awaited
         /\ Len(job[j].hashed) < Len(job[j].paths)
         /\ job'[j].hashed = Append(job[j].hashed, hash_file(job[j].paths[Len(job[j].hashed) + 1]))
         /\ job[j].paths[Len(job[j].hashed) + 1] \in Path
<1>1. job \in [Job -> JobState] /\ content \in [Path -> Hash]
  BY ZenonT(40) DEF TypeOK
<1>2. job[j] \in JobState /\ job[j].pc = "hash" /\ Len(job[j].hashed) < Len(job[j].paths)
  BY ZenonT(40), <1>1, JobFields DEF HashNext
<1>3. PICK paths \in Seq(Path) : paths = job[j].paths
  BY ZenonT(40), <1>1, JobFields
<1>4. PICK hashed \in Seq(Hash \cup {NoHash}) : hashed = job[j].hashed
  BY ZenonT(40), <1>1, JobFields
<1>5. Len(hashed) < Len(paths)
  BY ZenonT(40), <1>2, <1>3, <1>4
<1>6. PICK p \in Path : p = paths[Len(hashed) + 1]
  BY <1>5
<1>7. PICK h \in Hash \cup {NoHash} : h = hash_file(p)
  BY ZenonT(40), <1>1 DEF hash_file
<1>8. PICK more \in Seq(Hash \cup {NoHash}) : more = Append(hashed, h)
  <2>1. ASSUME NEW S, NEW s \in Seq(S), NEW x \in S PROVE Append(s, x) \in Seq(S)
    OBVIOUS
  <2> QED
    BY ZenonT(40), <2>1
<1> DEFINE J == [job[j] EXCEPT !.hashed = more]
<1>9. /\ J \in JobState /\ J.pc = "hash" /\ J.paths = paths /\ J.hashed = more /\ J.awaited = job[j].awaited
  BY ZenonT(40), <1>2, <1>3 DEF JobState
<1>10. job' = [job EXCEPT ![j] = J]
  BY ZenonT(40), <1>1, <1>3, <1>4, <1>6, <1>7, <1>8 DEF HashNext
<1> HIDE DEF J
<1> QED
  BY ZenonT(40), <1>1, <1>2, <1>3, <1>4, <1>6, <1>7, <1>8, <1>9, <1>10, Update

\* A click on a delete button begins the removal of that file.
LEMMA DeleteJob ==
  ASSUME TypeOK, NEW j \in Job, NEW show, NEW g \in groups, NEW p \in Path, handleDelete(j, show, g, p)
  PROVE  /\ Moves(j) /\ job[j].pc = "idle" /\ job'[j].pc = "remove" /\ job'[j].path = p
         /\ job'[j].awaited
<1>1. job \in [Job -> JobState]
  BY ZenonT(40) DEF TypeOK
<1> DEFINE J == [NewJob("remove") EXCEPT !.path = p]
<1>2. J \in JobState /\ J.pc = "remove" /\ J.path = p /\ J.awaited
  <2>1. NewJob("remove") \in JobState /\ NewJob("remove").pc = "remove" /\ NewJob("remove").awaited
    BY ZenonT(40), IdleType
  <2> QED
    BY ZenonT(40), <2>1 DEF JobState
<1>3. job' = [job EXCEPT ![j] = J] /\ job[j].pc = "idle"
  BY ZenonT(40) DEF handleDelete, Free
<1> HIDE DEF J
<1> QED
  BY ZenonT(40), <1>1, <1>2, <1>3, Update

\* A deletion the page gives up on goes on where it is.
LEMMA TimeoutJob ==
  ASSUME TypeOK, NEW j \in Job, DeleteTimeout(j)
  PROVE  Moves(j) /\ Keeps(j) /\ job'[j].pc = job[j].pc /\ ~job'[j].awaited
<1>1. job \in [Job -> JobState]
  BY ZenonT(40) DEF TypeOK
<1> DEFINE J == [job[j] EXCEPT !.awaited = FALSE]
<1>2. job[j] \in JobState /\ FALSE \in BOOLEAN
  BY ZenonT(40), <1>1
<1>3. /\ J \in JobState /\ J.pc = job[j].pc /\ J.paths = job[j].paths /\ J.hashed = job[j].hashed
      /\ J.path = job[j].path /\ ~J.awaited
  BY ZenonT(40), <1>2 DEF JobState
<1>4. job' = [job EXCEPT ![j] = J]
  BY ZenonT(40), <1>1 DEF DeleteTimeout
<1> HIDE DEF J
<1> QED
  BY ZenonT(40), <1>1, <1>3, <1>4, Update DEF Keeps

-----------------------------------------------------------------------------
(* Types                                                                    *)

\* A group of a detection: entries of the list that have its key.
FromBucket(g, kind, paths, keys) ==
  /\ g.kind = kind /\ g.key \in Range(keys) \ {NoHash}
  /\ DOMAIN g.files \subseteq DOMAIN paths
  /\ \A i \in DOMAIN g.files : g.files[i] = paths[i] /\ keys[i] = g.key
  /\ \A K : g.key \in K => g \in [kind : {kind}, key : K, files : [DOMAIN g.files -> Path]]

\* A group lists entries of the paths that have its key, and its key is no missing hash.
LEMMA BucketsAre ==
  ASSUME NEW kind, NEW paths \in Seq(Path), NEW keys, DOMAIN keys = DOMAIN paths,
         NEW g \in Buckets(kind, paths, keys)
  PROVE  FromBucket(g, kind, paths, keys)
<1>1. PICK k \in Range(keys) \ {NoHash} : g = [kind |-> kind, key |-> k, files |-> Bucket(paths, keys, k)]
  BY ZenonT(40) DEF Buckets
<1> DEFINE at == {i \in DOMAIN paths : keys[i] = k}
<1>2. Bucket(paths, keys, k) = [i \in at |-> paths[i]]
  BY ZenonT(40) DEF Bucket, Restrict
<1>3. g.kind = kind /\ g.key = k /\ g.files = Bucket(paths, keys, k)
  BY ZenonT(40), <1>1
<1>4. \A i \in DOMAIN paths : paths[i] \in Path
  OBVIOUS
<1>5. at \subseteq DOMAIN paths /\ \A i \in at : keys[i] = k
  OBVIOUS
<1> HIDE DEF at
<1>7. DOMAIN g.files = at /\ \A i \in at : g.files[i] = paths[i]
  BY ZenonT(40), <1>2, <1>3
<1>8. g.files \in [at -> Path]
  BY ZenonT(40), <1>2, <1>3, <1>4, <1>5
<1>9. \A K : k \in K => g \in [kind : {kind}, key : K, files : [at -> Path]]
  BY ZenonT(40), <1>1, <1>3, <1>8
<1>10. /\ g.kind = kind /\ g.key \in Range(keys) \ {NoHash} /\ DOMAIN g.files \subseteq DOMAIN paths
       /\ \A K : g.key \in K => g \in [kind : {kind}, key : K, files : [DOMAIN g.files -> Path]]
  BY ZenonT(40), <1>3, <1>5, <1>7, <1>9
<1>11. \A i \in DOMAIN g.files : g.files[i] = paths[i] /\ keys[i] = g.key
  BY ZenonT(40), <1>3, <1>5, <1>7
<1> QED
  BY ZenonT(40), <1>10, <1>11 DEF FromBucket

\* A hash group lists paths whose hash is its key.
OfDetection(g, paths, hashed) ==
  g.kind = "hash" => /\ DOMAIN g.files \subseteq DOMAIN hashed /\ g.key # NoHash
                     /\ \A i \in DOMAIN g.files : g.files[i] = paths[i] /\ hashed[i] = g.key

\* What detect returns are groups; those of equal content list what was hashed to their key.
LEMMA DetectIs ==
  ASSUME NEW paths \in Seq(Path), NEW hashed \in Seq(Hash \cup {NoHash}), Len(hashed) = Len(paths),
         NEW g \in detect(paths, hashed)
  PROVE  IsGroup(g) /\ OfDetection(g, paths, hashed)
<1>1. DOMAIN hashed = DOMAIN paths /\ DOMAIN paths \subseteq Nat /\ \A i \in DOMAIN hashed : hashed[i] \in Hash \cup {NoHash}
  OBVIOUS
<1> DEFINE names == [i \in DOMAIN paths |-> Name[paths[i]]]
<1>2. DOMAIN names = DOMAIN paths /\ \A i \in DOMAIN names : names[i] \in STRING
  <2>1. \A i \in DOMAIN paths : paths[i] \in Path
    OBVIOUS
  <2> QED
    BY ZenonT(40), <2>1, DuplicatesAssumption
<1>3. g \in Buckets("hash", paths, hashed) \/ g \in Buckets("name", paths, names)
  BY ZenonT(40) DEF detect
<1> HIDE DEF names
<1>4. ASSUME NEW kind \in {"hash", "name"}, NEW keys, DOMAIN keys = DOMAIN paths,
             \A k \in Range(keys) \ {NoHash} : k \in Hash \cup STRING, g \in Buckets(kind, paths, keys)
      PROVE  /\ IsGroup(g) /\ g.kind = kind /\ g.key # NoHash /\ DOMAIN g.files \subseteq DOMAIN keys
             /\ \A i \in DOMAIN g.files : g.files[i] = paths[i] /\ keys[i] = g.key
  <2>0. FromBucket(g, kind, paths, keys)
    BY ZenonT(40), <1>4, BucketsAre
  <2>1. g.key \in Hash \cup STRING /\ DOMAIN g.files \subseteq Nat
    BY ZenonT(40), <1>1, <1>4, <2>0 DEF FromBucket
  <2>2. g \in [kind : {kind}, key : Hash \cup STRING, files : [DOMAIN g.files -> Path]]
    BY ZenonT(40), <2>0, <2>1 DEF FromBucket
  <2>3. g \in [kind : {"hash", "name"}, key : Hash \cup STRING, files : [DOMAIN g.files -> Path]]
    <3>1. PICK F, K : F = [DOMAIN g.files -> Path] /\ K = Hash \cup STRING
      OBVIOUS
    <3>2. g \in [kind : {kind}, key : K, files : F]
      BY ZenonT(40), <2>2, <3>1
    <3>3. g \in [kind : {"hash", "name"}, key : K, files : F]
      BY ZenonT(40), <3>2
    <3> QED
      BY ZenonT(40), <3>1, <3>3
  <2>4. IsGroup(g)
    BY ZenonT(40), <2>1, <2>3 DEF IsGroup
  <2> QED
    BY ZenonT(40), <1>4, <2>0, <2>4 DEF FromBucket
<1>5. CASE g \in Buckets("hash", paths, hashed)
  <2>1. \A k \in Range(hashed) \ {NoHash} : k \in Hash \cup STRING
    BY ZenonT(40), <1>1 DEF Range
  <2> QED
    BY ZenonT(40), <1>1, <1>4, <1>5, <2>1 DEF OfDetection
<1>6. CASE g \in Buckets("name", paths, names)
  <2>1. \A k \in Range(names) \ {NoHash} : k \in Hash \cup STRING
    BY ZenonT(40), <1>2 DEF Range
  <2>2. IsGroup(g) /\ g.kind = "name"
    BY ZenonT(40), <1>2, <1>4, <1>6, <2>1
  <2> QED
    BY ZenonT(40), <2>2 DEF OfDetection
<1> QED
  BY ZenonT(40), <1>3, <1>5, <1>6

\* What is left of a group without a file.
LeftOf(g, h, p) ==
  /\ g.kind = h.kind /\ g.key = h.key /\ DOMAIN g.files \subseteq DOMAIN h.files
  /\ \A i \in DOMAIN g.files : g.files[i] = h.files[i] /\ g.files[i] # p

\* The update after a deletion leaves groups, each part of one before, without the file.
LEMMA WithoutIs ==
  ASSUME NEW gs, \A h \in gs : IsGroup(h), NEW p, NEW g \in Without(gs, p)
  PROVE  IsGroup(g) /\ \E h \in gs : LeftOf(g, h, p)
<1>1. PICK h \in gs : g = [h EXCEPT !.files = Restrict(h.files, {i \in DOMAIN h.files : h.files[i] # p})]
  BY ZenonT(40) DEF Without
<1> DEFINE left == {i \in DOMAIN h.files : h.files[i] # p}
<1>2. /\ h \in [kind : {"hash", "name"}, key : Hash \cup STRING, files : [DOMAIN h.files -> Path]]
      /\ DOMAIN h.files \subseteq Nat
  BY ZenonT(40) DEF IsGroup
<1>3. h.files \in [DOMAIN h.files -> Path]
  BY ZenonT(40), <1>2
<1>4. left \subseteq DOMAIN h.files /\ \A i \in left : h.files[i] # p
  OBVIOUS
<1>5. PICK f : f = [i \in left |-> h.files[i]]
  OBVIOUS
<1>6. Restrict(h.files, left) = f
  BY ZenonT(40), <1>5 DEF Restrict
<1>7. DOMAIN f = left /\ f \in [left -> Path] /\ \A i \in left : f[i] = h.files[i]
  <2> HIDE DEF left
  <2>1. \A i \in left : h.files[i] \in Path
    BY ZenonT(40), <1>3, <1>4
  <2> QED
    BY ZenonT(40), <1>5, <2>1
<1>8. g = [h EXCEPT !.files = f]
  BY ZenonT(40), <1>1, <1>6
<1> HIDE DEF left
<1>9. /\ g.kind = h.kind /\ g.key = h.key /\ g.files = f
      /\ g \in [kind : {"hash", "name"}, key : Hash \cup STRING, files : [left -> Path]]
  BY ZenonT(40), <1>2, <1>7, <1>8
<1>10. DOMAIN g.files = left /\ left \subseteq Nat
  BY ZenonT(40), <1>2, <1>4, <1>7, <1>9
<1> QED
  BY ZenonT(40), <1>4, <1>7, <1>9, <1>10 DEF IsGroup, LeftOf

\* The counters of clicks, failures and edits.
LEMMA CountUsed ==
  ASSUME TypeOK, NEW b \in {"clicks", "faults", "edits"}, Count(b)
  PROVE  /\ used' \in [{"clicks", "faults", "edits"} -> Nat]
         /\ used'[b] = used[b] + 1 /\ \A c \in {"clicks", "faults", "edits"} \ {b} : used'[c] = used[c]
         /\ used.faults <= used'.faults /\ used'.faults \in Nat /\ used.faults \in Nat
         /\ used'.edits = 0 => used.edits = 0 /\ b # "edits"
         /\ used'.faults = 0 => used.faults = 0 /\ b # "faults"
<1>1. used \in [{"clicks", "faults", "edits"} -> Nat] /\ used' = [used EXCEPT ![b] = used[b] + 1]
  BY ZenonT(40) DEF TypeOK, Count
<1>2. used[b] + 1 \in Nat /\ used[b] + 1 # 0 /\ used[b] <= used[b] + 1
  BY <1>1
<1>3. /\ used' \in [{"clicks", "faults", "edits"} -> Nat]
      /\ used'[b] = used[b] + 1 /\ \A c \in {"clicks", "faults", "edits"} \ {b} : used'[c] = used[c]
  BY ZenonT(40), <1>1, <1>2
<1>4. used["faults"] \in Nat /\ used["faults"] <= used["faults"]
  BY <1>1
<1>5. used["faults"] <= used'["faults"] /\ used'["faults"] \in Nat
  BY ZenonT(40), <1>2, <1>3, <1>4
<1>6. /\ used'["edits"] = 0 => used["edits"] = 0 /\ b # "edits"
      /\ used'["faults"] = 0 => used["faults"] = 0 /\ b # "faults"
  BY ZenonT(40), <1>2, <1>3
<1> QED
  BY ZenonT(40), <1>3, <1>4, <1>5, <1>6

Scans == {j \in Job : job[j].pc = "scan"}

\* The scans in progress can be counted.
LEMMA ScansFinite == IsFiniteSet(Scans) /\ Cardinality(Scans) \in Nat
<1>1. Scans \in SUBSET Job /\ IsFiniteSet(Job)
  BY ZenonT(40), DuplicatesAssumption DEF Scans
<1> QED
  BY ZenonT(40), <1>1, FS_Subset, FS_CardinalityType

\* A step that begins or ends no scan, and one that ends a scan and counts a failure,
\* leave the listeners accounted for.
LEMMA ListenersKept ==
  ASSUME DInv, NEW j \in Job, Moves(j), listeners' = listeners,
         used'.faults \in Nat, used.faults <= used'.faults,
         job'[j].pc = "scan" => job[j].pc = "scan",
         job[j].pc = "scan" /\ job'[j].pc # "scan" => used'.faults = used.faults + 1
  PROVE  NoStrayListener'
<1>1. Cardinality(Scans) <= listeners /\ listeners <= Cardinality(Scans) + used.faults /\ listeners \in Nat
  BY ZenonT(40) DEF DInv, TypeOK, NoStrayListener, Scans
<1>2. used.faults \in Nat
  BY DEF DInv, TypeOK
<1>3. CASE job[j].pc = "scan" /\ job'[j].pc # "scan"
  <2>1. Scans' = Scans \ {j} /\ j \in Scans
    BY ZenonT(40), <1>3 DEF Scans, Moves
  <2>2. Cardinality(Scans') = Cardinality(Scans) - 1
    BY ZenonT(40), <2>1, ScansFinite, FS_RemoveElement
  <2>3. Cardinality(Scans') <= listeners /\ listeners <= Cardinality(Scans') + used'.faults
    BY <1>1, <1>2, <1>3, <2>2, ScansFinite
  <2> QED
    BY ZenonT(40), <2>3 DEF NoStrayListener, Scans
<1>4. CASE ~(job[j].pc = "scan" /\ job'[j].pc # "scan")
  <2>1. Scans' = Scans
    BY ZenonT(40), <1>4 DEF Scans, Moves
  <2>2. Cardinality(Scans') <= listeners /\ listeners <= Cardinality(Scans') + used'.faults
    BY <1>1, <1>2, <2>1, ScansFinite
  <2> QED
    BY ZenonT(40), <2>2 DEF NoStrayListener, Scans
<1> QED
  BY ZenonT(40), <1>3, <1>4

\* A listener more for a scan more.
LEMMA ListenersStart ==
  ASSUME DInv, NEW j \in Job, Listens(j), Moves(j), job'[j].pc = "scan"
  PROVE  NoStrayListener' /\ listeners' \in Nat
<1>1. Cardinality(Scans) <= listeners /\ listeners <= Cardinality(Scans) + used.faults /\ listeners \in Nat
  BY ZenonT(40) DEF DInv, TypeOK, NoStrayListener, Scans
<1>2. used.faults \in Nat
  BY DEF DInv, TypeOK
<1>3. Scans' = Scans \cup {j} /\ j \notin Scans /\ listeners' = listeners + 1 /\ used' = used
  BY ZenonT(40) DEF Scans, Moves, Listens
<1>4. Cardinality(Scans') = Cardinality(Scans) + 1
  BY ZenonT(40), <1>3, ScansFinite, FS_AddElement
<1>5. Cardinality(Scans') <= listeners' /\ listeners' <= Cardinality(Scans') + used'.faults /\ listeners' \in Nat
  BY <1>1, <1>2, <1>3, <1>4, ScansFinite
<1> QED
  BY ZenonT(40), <1>5 DEF NoStrayListener, Scans

\* A listener less for a scan that is answered.
LEMMA ListenersStop ==
  ASSUME DInv, NEW j \in Job, NEW found, ScanReturns(j, found), Moves(j), job'[j].pc = "hash"
  PROVE  NoStrayListener' /\ listeners' \in Nat
<1>1. Cardinality(Scans) <= listeners /\ listeners <= Cardinality(Scans) + used.faults /\ listeners \in Nat
  BY ZenonT(40) DEF DInv, TypeOK, NoStrayListener, Scans
<1>2. used.faults \in Nat
  BY DEF DInv, TypeOK
<1>3. Scans' = Scans \ {j} /\ j \in Scans /\ listeners' = listeners - 1 /\ used' = used
  BY ZenonT(40) DEF Scans, Moves, ScanReturns
<1>4. Cardinality(Scans') = Cardinality(Scans) - 1
  BY ZenonT(40), <1>3, ScansFinite, FS_RemoveElement
<1>5. Cardinality(Scans') \in Nat
  BY ZenonT(40), <1>3, ScansFinite, FS_RemoveElement, FS_CardinalityType
<1>6. Cardinality(Scans') <= listeners' /\ listeners' <= Cardinality(Scans') + used'.faults /\ listeners' \in Nat
  BY <1>1, <1>2, <1>3, <1>4, <1>5, ScansFinite
<1> QED
  BY ZenonT(40), <1>6 DEF NoStrayListener, Scans

\* The jobs that do not move keep their shape as long as no file appears on disk.
LEMMA ShapeKept ==
  ASSUME DInv, NEW j \in Job, Moves(j), present' \subseteq present, Shape(j)'
  PROVE  \A k \in Job : Shape(k)'
<1> SUFFICES ASSUME NEW k \in Job, k # j PROVE Shape(k)'
  BY ZenonT(40)
<1>1. Shape(k) /\ job'[k] = job[k]
  BY ZenonT(40) DEF DInv, Moves
<1> QED
  BY ZenonT(40), <1>1 DEF Shape

\* A job that has ended holds nothing.
LEMMA IdleShape ==
  ASSUME NEW j \in Job, job'[j].pc = "idle"
  PROVE  Shape(j)'
  BY ZenonT(40) DEF Shape

\* A click is counted, and the history knows whether it was made alone and with care.
LEMMA BeginsTypes ==
  ASSUME TypeOK, NEW wary \in BOOLEAN, NEW heeds \in BOOLEAN, Begins(wary, heeds)
  PROVE  /\ manner' \in Manner /\ used' \in [{"clicks", "faults", "edits"} -> Nat]
         /\ used'.faults = used.faults /\ used'.edits = used.edits /\ used.faults \in Nat
         /\ manner'.serial => manner.serial /\ \A k \in Job : job[k].pc = "idle"
         /\ manner'.wary => manner.wary /\ wary
         /\ manner'.heeds => manner.heeds /\ heeds
         /\ manner'.warned = manner.warned
<1> DEFINE alone == \A k \in Job : job[k].pc = "idle"
<1>1. /\ Count("clicks")
      /\ manner' = [manner EXCEPT !.serial = @ /\ alone, !.wary = @ /\ wary, !.heeds = @ /\ heeds]
  BY ZenonT(40) DEF Begins
<1>2. alone \in BOOLEAN /\ manner \in [serial : BOOLEAN, wary : BOOLEAN, warned : BOOLEAN, heeds : BOOLEAN]
  BY ZenonT(40) DEF TypeOK, Manner
<1> HIDE DEF alone
<1>3. /\ manner' \in Manner
      /\ manner'.serial = (manner.serial /\ alone)
      /\ manner'.wary = (manner.wary /\ wary)
      /\ manner'.heeds = (manner.heeds /\ heeds)
      /\ manner'.warned = manner.warned
  BY ZenonT(40), <1>1, <1>2 DEF Manner
<1>4. used' \in [{"clicks", "faults", "edits"} -> Nat] /\ used'["faults"] = used["faults"]
      /\ used'["edits"] = used["edits"] /\ used["faults"] \in Nat
  BY ZenonT(40), <1>1, CountUsed
<1> QED
  BY ZenonT(40), <1>3, <1>4 DEF alone

\* A warning, and its end, change nothing else of the history.
LEMMA MarkTypes ==
  ASSUME TypeOK, NEW w \in BOOLEAN, manner' = [manner EXCEPT !.warned = w]
  PROVE  /\ manner' \in Manner /\ manner'.warned = w
         /\ manner'.serial = manner.serial /\ manner'.wary = manner.wary /\ manner'.heeds = manner.heeds
<1>1. manner \in [serial : BOOLEAN, wary : BOOLEAN, warned : BOOLEAN, heeds : BOOLEAN]
  BY ZenonT(40) DEF TypeOK, Manner
<1> QED
  BY ZenonT(40), <1>1 DEF Manner

\* A failure is counted as such.
LEMMA FaultTypes ==
  ASSUME TypeOK, Count("faults")
  PROVE  /\ used' \in [{"clicks", "faults", "edits"} -> Nat] /\ used'.faults \in Nat
         /\ used.faults <= used'.faults /\ used'.faults = used.faults + 1
         /\ used'.faults # 0 /\ used'.edits = used.edits
<1>1. /\ used' \in [{"clicks", "faults", "edits"} -> Nat] /\ used'["faults"] = used["faults"] + 1
      /\ used'["edits"] = used["edits"] /\ used["faults"] \in Nat /\ used'["faults"] \in Nat
  BY ZenonT(40), CountUsed
<1> QED
  BY <1>1

\* For the provers that know no arithmetic.
LEMMA NatReflexive == \A n \in Nat : n <= n
  OBVIOUS

\* The steps of a detection.
LEMMA DetectStep ==
  ASSUME DInv, NEW j \in Job,
         \/ runDetect(j) \/ Listens(j) \/ (\E found \in scan_paths_progress : ScanReturns(j, found))
         \/ HashNext(j) \/ DetectReturns(j) \/ DetectFails(j)
  PROVE  DInv'
<1>0. TypeOK /\ used.faults \in Nat /\ deleted \cap present = {}
  BY ZenonT(40) DEF DInv, TypeOK
<1>1. CASE runDetect(j)
  <2>1. Moves(j) /\ job'[j].hashed = <<>> /\ job'[j].pc \in {"listen", "hash"} /\ job[j].pc = "idle"
        /\ (job'[j].pc = "hash" => job'[j].paths \in Seq(Path))
    BY ZenonT(40), <1>0, <1>1, runDetectJob
  <2>2. /\ UNCHANGED <<present, content, scanned, groups, listeners, deleted>> /\ busy' = TRUE
        /\ Begins(TRUE, TRUE)
    BY ZenonT(40), <1>1 DEF runDetect, disk, page
  <2>3. /\ manner' \in Manner /\ used' \in [{"clicks", "faults", "edits"} -> Nat]
        /\ used'.faults = used.faults
    BY ZenonT(40), <1>0, <2>2, BeginsTypes
  <2>4. job'[j].pc = "hash" => Len(job'[j].hashed) <= Len(job'[j].paths)
    BY <2>1
  <2>5. Shape(j)'
    BY ZenonT(40), <2>1, <2>4 DEF Shape
  <2>6. \A k \in Job : Shape(k)'
    BY ZenonT(40), <2>1, <2>2, <2>5, ShapeKept
  <2>7. NoStrayListener'
    BY ZenonT(40), <1>0, <2>1, <2>2, <2>3, NatReflexive, ListenersKept
  <2>8. TypeOK'
    BY ZenonT(40), <1>0, <2>1, <2>2, <2>3 DEF TypeOK, Moves
  <2> QED
    BY ZenonT(40), <1>0, <2>2, <2>6, <2>7, <2>8 DEF DInv
<1>2. CASE Listens(j)
  <2>1. job' = [job EXCEPT ![j].pc = "scan"] /\ job[j].pc = "listen"
        /\ UNCHANGED <<present, content, scanned, groups, busy, deleted, manner, used>>
    BY ZenonT(40), <1>2 DEF Listens, disk, page
  <2>2. Moves(j) /\ Keeps(j) /\ job'[j].pc = "scan"
    BY ZenonT(40), <1>0, <2>1, PcJob
  <2>3. NoStrayListener' /\ listeners' \in Nat
    BY ZenonT(40), <1>2, <2>2, ListenersStart
  <2>4. Shape(j)'
    BY ZenonT(40), <2>1, <2>2 DEF Shape, Keeps, DInv
  <2>5. \A k \in Job : Shape(k)'
    BY ZenonT(40), <2>1, <2>2, <2>4, ShapeKept
  <2>6. TypeOK'
    BY ZenonT(40), <1>0, <2>1, <2>2, <2>3 DEF TypeOK, Moves
  <2> QED
    BY ZenonT(40), <1>0, <2>1, <2>3, <2>5, <2>6 DEF DInv
<1>3. CASE \E found \in scan_paths_progress : ScanReturns(j, found)
  <2>1. PICK found \in scan_paths_progress : ScanReturns(j, found)
    BY <1>3
  <2>2. found \in Seq(Path)
    <3>1. present \in SUBSET Path /\ found \in Seq(present)
      BY ZenonT(40), <1>0, DuplicatesAssumption DEF TypeOK, scan_paths_progress
    <3> QED
      BY <3>1
  <2>3. job[j].pc = "scan" /\ scanned' = found
        /\ UNCHANGED <<present, content, groups, busy, deleted, manner, used>>
    BY ZenonT(40), <2>1 DEF ScanReturns, disk
  <2>4. Moves(j) /\ job'[j].pc = "hash" /\ job'[j].paths = found /\ job'[j].hashed = job[j].hashed
    BY ZenonT(40), <1>0, <2>1, <2>2, ScanJob
  <2>5. NoStrayListener' /\ listeners' \in Nat
    BY ZenonT(40), <2>1, <2>4, ListenersStop
  <2>6. job[j].hashed = <<>>
    BY ZenonT(40), <2>3 DEF DInv, Shape
  <2>7. Len(job'[j].hashed) <= Len(job'[j].paths)
    BY <2>2, <2>4, <2>6
  <2>8. Shape(j)'
    BY ZenonT(40), <2>4, <2>7 DEF Shape
  <2>9. \A k \in Job : Shape(k)'
    BY ZenonT(40), <2>3, <2>4, <2>8, ShapeKept
  <2>10. TypeOK'
    BY ZenonT(40), <1>0, <2>2, <2>3, <2>4, <2>5 DEF TypeOK, Moves
  <2> QED
    BY ZenonT(40), <1>0, <2>3, <2>5, <2>9, <2>10 DEF DInv
<1>4. CASE HashNext(j)
  <2>1. UNCHANGED <<present, content, scanned, groups, listeners, busy, deleted, manner, used>> /\ job[j].pc = "hash"
    BY ZenonT(40), <1>4 DEF HashNext, disk, page
  <2>2. /\ Moves(j) /\ job'[j].pc = "hash" /\ job'[j].paths = job[j].paths
        /\ Len(job[j].hashed) < Len(job[j].paths)
        /\ job'[j].hashed = Append(job[j].hashed, hash_file(job[j].paths[Len(job[j].hashed) + 1]))
    BY ZenonT(40), <1>0, <1>4, HashJob
  <2>3. job[j].hashed \in Seq(Hash \cup {NoHash}) /\ job[j].paths \in Seq(Path)
    BY ZenonT(40), <1>0, JobFields DEF TypeOK
  <2>4. Len(job'[j].hashed) <= Len(job'[j].paths)
    BY <2>2, <2>3
  <2>5. Shape(j)'
    BY ZenonT(40), <2>2, <2>4 DEF Shape
  <2>6. \A k \in Job : Shape(k)'
    BY ZenonT(40), <2>1, <2>2, <2>5, ShapeKept
  <2>7. NoStrayListener'
    BY ZenonT(40), <1>0, <2>1, <2>2, NatReflexive, ListenersKept
  <2>8. TypeOK'
    BY ZenonT(40), <1>0, <2>1, <2>2 DEF TypeOK, Moves
  <2> QED
    BY ZenonT(40), <1>0, <2>1, <2>6, <2>7, <2>8 DEF DInv
<1>5. CASE DetectReturns(j)
  <2>1. /\ UNCHANGED <<present, content, scanned, listeners, deleted, used>> /\ job[j].pc = "hash"
        /\ manner' = [manner EXCEPT !.warned = FALSE]
        /\ Len(job[j].hashed) = Len(job[j].paths) /\ groups' = detect(job[j].paths, job[j].hashed) /\ Ends(j)
    BY ZenonT(40), <1>5 DEF DetectReturns, disk
  <2>2. Moves(j) /\ job'[j].pc = "idle" /\ busy' \in BOOLEAN
    BY ZenonT(40), <1>0, <2>1, EndsJob
  <2>3. job[j].hashed \in Seq(Hash \cup {NoHash}) /\ job[j].paths \in Seq(Path)
    BY ZenonT(40), <1>0, JobFields DEF TypeOK
  <2>4. \A g \in groups' : IsGroup(g)
    BY ZenonT(40), <2>1, <2>3, DetectIs
  <2>5. \A k \in Job : Shape(k)'
    BY ZenonT(40), <2>1, <2>2, IdleShape, ShapeKept
  <2>6. NoStrayListener'
    BY ZenonT(40), <1>0, <2>1, <2>2, NatReflexive, ListenersKept
  <2>a. manner' \in Manner
    BY ZenonT(40), <1>0, <2>1, MarkTypes
  <2>7. TypeOK'
    BY ZenonT(40), <1>0, <2>1, <2>2, <2>4, <2>a DEF TypeOK, Moves
  <2> QED
    BY ZenonT(40), <1>0, <2>1, <2>5, <2>6, <2>7 DEF DInv
<1>6. CASE DetectFails(j)
  <2>1. UNCHANGED <<present, content, scanned, groups, listeners, deleted, manner>> /\ Count("faults") /\ Ends(j)
    BY ZenonT(40), <1>6 DEF DetectFails, disk, page
  <2>2. Moves(j) /\ job'[j].pc = "idle" /\ busy' \in BOOLEAN
    BY ZenonT(40), <1>0, <2>1, EndsJob
  <2>3. /\ used' \in [{"clicks", "faults", "edits"} -> Nat] /\ used'.faults \in Nat
        /\ used.faults <= used'.faults /\ used'.faults = used.faults + 1
    BY ZenonT(40), <1>0, <2>1, FaultTypes
  <2>4. \A k \in Job : Shape(k)'
    BY ZenonT(40), <2>1, <2>2, IdleShape, ShapeKept
  <2>5. NoStrayListener'
    BY ZenonT(40), <1>0, <2>1, <2>2, <2>3, ListenersKept
  <2>6. TypeOK'
    BY ZenonT(40), <1>0, <2>1, <2>2, <2>3 DEF TypeOK, Moves
  <2> QED
    BY ZenonT(40), <1>0, <2>1, <2>4, <2>5, <2>6 DEF DInv
<1> QED
  BY ZenonT(40), <1>1, <1>2, <1>3, <1>4, <1>5, <1>6

\* The steps of a deletion.
LEMMA DeleteStep ==
  ASSUME DInv, NEW j \in Job,
         \/ (\E show \in SUBSET {"hash", "name"} : \E g \in groups, p \in Path : handleDelete(j, show, g, p))
         \/ RemoveFile(j) \/ RemoveFails(j) \/ Unindex(j) \/ UnindexFails(j) \/ DeleteTimeout(j)
  PROVE  DInv'
<1>0. TypeOK /\ used.faults \in Nat /\ deleted \cap present = {}
  BY ZenonT(40) DEF DInv, TypeOK
<1>1. CASE \E show \in SUBSET {"hash", "name"} : \E g \in groups, p \in Path : handleDelete(j, show, g, p)
  <2>1. PICK show \in SUBSET {"hash", "name"}, g \in groups, p \in Path : handleDelete(j, show, g, p)
    BY <1>1
  <2>2. Moves(j) /\ job'[j].pc = "remove" /\ job[j].pc = "idle" /\ job'[j].path = p
    BY ZenonT(40), <1>0, <2>1, DeleteJob
  <2>3. PICK wary \in BOOLEAN, heeds \in BOOLEAN :
          /\ UNCHANGED <<present, content, scanned, groups, listeners, deleted>>
          /\ busy' = TRUE /\ Begins(wary, heeds)
    <3>1. (g.kind = "hash" /\ Range(g.files) # {p}) \in BOOLEAN /\ (~manner.warned) \in BOOLEAN
      BY ZenonT(40)
    <3> QED
      BY ZenonT(40), <2>1, <3>1 DEF handleDelete, disk, page
  <2>4. /\ manner' \in Manner /\ used' \in [{"clicks", "faults", "edits"} -> Nat]
        /\ used'.faults = used.faults
    BY ZenonT(40), <1>0, <2>3, BeginsTypes
  <2>5. Shape(j)'
    BY ZenonT(40), <2>2 DEF Shape
  <2>6. \A k \in Job : Shape(k)'
    BY ZenonT(40), <2>2, <2>3, <2>5, ShapeKept
  <2>7. NoStrayListener'
    BY ZenonT(40), <1>0, <2>2, <2>3, <2>4, NatReflexive, ListenersKept
  <2>8. TypeOK'
    BY ZenonT(40), <1>0, <2>2, <2>3, <2>4 DEF TypeOK, Moves
  <2> QED
    BY ZenonT(40), <1>0, <2>3, <2>6, <2>7, <2>8 DEF DInv
<1>2. CASE RemoveFile(j)
  <2>1. /\ job' = [job EXCEPT ![j].pc = "unindex"] /\ job[j].pc = "remove"
        /\ present' = present \ {job[j].path}
        /\ UNCHANGED <<content, scanned, groups, listeners, busy, deleted, manner, used>>
    BY ZenonT(40), <1>2 DEF RemoveFile, page
  <2>2. Moves(j) /\ Keeps(j) /\ job'[j].pc = "unindex"
    BY ZenonT(40), <1>0, <2>1, PcJob
  <2>3. Shape(j)'
    <3>1. job'[j].path = job[j].path /\ job[j].path \in Path
      BY ZenonT(40), <2>1, <2>2 DEF Shape, Keeps, DInv
    <3>2. job'[j].path \notin present'
      <4>1. PICK p : p = job[j].path
        OBVIOUS
      <4>2. present' = present \ {p} /\ job'[j].path = p
        BY ZenonT(40), <2>1, <3>1, <4>1
      <4> QED
        BY ZenonT(40), <4>2
    <3> QED
      BY ZenonT(40), <2>2, <3>1, <3>2 DEF Shape
  <2>4. present' \subseteq present
    BY ZenonT(40), <2>1
  <2>5. \A k \in Job : Shape(k)'
    BY ZenonT(40), <2>2, <2>3, <2>4, ShapeKept
  <2>6. NoStrayListener'
    BY ZenonT(40), <1>0, <2>1, <2>2, NatReflexive, ListenersKept
  <2>7. TypeOK'
    BY ZenonT(40), <1>0, <2>1, <2>2, <2>4 DEF TypeOK, Moves
  <2> QED
    BY ZenonT(40), <1>0, <2>1, <2>5, <2>6, <2>7 DEF DInv
<1>3. CASE RemoveFails(j) \/ UnindexFails(j)
  <2>1. /\ UNCHANGED <<present, content, scanned, groups, listeners, deleted>> /\ Ends(j)
        /\ manner' = [manner EXCEPT !.warned = TRUE]
        /\ job[j].pc # "scan" /\ (used' = used \/ Count("faults"))
    BY ZenonT(40), <1>3 DEF RemoveFails, UnindexFails, Warns, disk, page
  <2>a. manner' \in Manner
    BY ZenonT(40), <1>0, <2>1, MarkTypes
  <2>2. Moves(j) /\ job'[j].pc = "idle" /\ busy' \in BOOLEAN
    BY ZenonT(40), <1>0, <2>1, EndsJob
  <2>3. /\ used' \in [{"clicks", "faults", "edits"} -> Nat] /\ used'.faults \in Nat
        /\ used.faults <= used'.faults
    BY ZenonT(40), <1>0, <2>1, NatReflexive, FaultTypes DEF TypeOK
  <2>4. \A k \in Job : Shape(k)'
    BY ZenonT(40), <2>1, <2>2, IdleShape, ShapeKept
  <2>5. NoStrayListener'
    BY ZenonT(40), <1>0, <2>1, <2>2, <2>3, ListenersKept
  <2>6. TypeOK'
    BY ZenonT(40), <1>0, <2>1, <2>2, <2>3, <2>a DEF TypeOK, Moves
  <2> QED
    BY ZenonT(40), <1>0, <2>1, <2>4, <2>5, <2>6 DEF DInv
<1>4. CASE Unindex(j)
  <2>1. /\ job[j].pc = "unindex"
        /\ groups' = IF job[j].awaited THEN Without(groups, job[j].path) ELSE groups
        /\ deleted' = IF job[j].awaited THEN deleted \cup {job[j].path} ELSE deleted
        /\ Ends(j) /\ UNCHANGED <<present, content, scanned, listeners, used, manner>>
    BY ZenonT(40), <1>4 DEF Unindex, disk
  <2>2. Moves(j) /\ job'[j].pc = "idle" /\ busy' \in BOOLEAN
    BY ZenonT(40), <1>0, <2>1, EndsJob
  <2>3. job[j].path \in Path /\ job[j].path \notin present
    BY ZenonT(40), <2>1 DEF DInv, Shape
  <2>4. deleted' \subseteq Path /\ deleted' \cap present = {}
    BY ZenonT(40), <1>0, <2>1, <2>3 DEF TypeOK
  <2>5. \A g \in groups' : IsGroup(g)
    BY ZenonT(40), <1>0, <2>1, WithoutIs DEF TypeOK
  <2>7. \A k \in Job : Shape(k)'
    BY ZenonT(40), <2>1, <2>2, IdleShape, ShapeKept
  <2>8. NoStrayListener'
    BY ZenonT(40), <1>0, <2>1, <2>2, NatReflexive, ListenersKept
  <2>9. TypeOK'
    BY ZenonT(40), <1>0, <2>1, <2>2, <2>4, <2>5 DEF TypeOK, Moves
  <2> QED
    BY ZenonT(40), <2>1, <2>4, <2>7, <2>8, <2>9 DEF DInv
<1>5. CASE DeleteTimeout(j)
  <2>1. /\ UNCHANGED <<present, content, scanned, groups, listeners, deleted>> /\ Count("faults")
        /\ busy' = FALSE /\ manner' = [manner EXCEPT !.warned = TRUE]
    BY ZenonT(40), <1>5 DEF DeleteTimeout, Warns, disk, page
  <2>a. manner' \in Manner
    BY ZenonT(40), <1>0, <2>1, MarkTypes
  <2>2. Moves(j) /\ Keeps(j) /\ job'[j].pc = job[j].pc
    BY ZenonT(40), <1>0, <1>5, TimeoutJob
  <2>3. /\ used' \in [{"clicks", "faults", "edits"} -> Nat] /\ used'.faults \in Nat
        /\ used.faults <= used'.faults
    BY ZenonT(40), <1>0, <2>1, FaultTypes
  <2>4. Shape(j)'
    BY ZenonT(40), <2>1, <2>2 DEF Shape, Keeps, DInv
  <2>5. \A k \in Job : Shape(k)'
    BY ZenonT(40), <2>1, <2>2, <2>4, ShapeKept
  <2>6. NoStrayListener'
    BY ZenonT(40), <1>0, <2>1, <2>2, <2>3, ListenersKept
  <2>7. TypeOK'
    BY ZenonT(40), <1>0, <2>1, <2>2, <2>3, <2>a DEF TypeOK, Moves
  <2> QED
    BY ZenonT(40), <1>0, <2>1, <2>5, <2>6, <2>7 DEF DInv
<1> QED
  BY ZenonT(40), <1>1, <1>2, <1>3, <1>4, <1>5

\* Every step of the system.
LEMMA StepDInv == DInv /\ [Next]_vars => DInv'
<1> SUFFICES ASSUME DInv, [Next]_vars PROVE DInv'
  OBVIOUS
<1>0. TypeOK /\ used.faults \in Nat
  BY ZenonT(40) DEF DInv, TypeOK
<1>1. CASE \E j \in Job : \/ JobStep(j) \/ runDetect(j)
                          \/ \E show \in SUBSET {"hash", "name"} : \E g \in groups, p \in Path : handleDelete(j, show, g, p)
  BY ZenonT(40), <1>1, DetectStep, DeleteStep DEF JobStep
<1>2. ASSUME UNCHANGED <<present, scanned, groups, listeners, job, deleted, manner>>,
             content' \in [Path -> Hash], busy' \in BOOLEAN,
             used' \in [{"clicks", "faults", "edits"} -> Nat], used'.faults = used.faults
      PROVE  DInv'
  <2>1. TypeOK'
    BY ZenonT(40), <1>0, <1>2 DEF TypeOK
  <2>2. NoStrayListener'
    BY ZenonT(40), <1>2 DEF DInv, NoStrayListener
  <2>3. \A j \in Job : Shape(j)'
    BY ZenonT(40), <1>2 DEF DInv, Shape
  <2> QED
    BY ZenonT(40), <1>2, <2>1, <2>2, <2>3 DEF DInv
<1>3. CASE \E p \in Path, h \in Hash : Edit(p, h)
  <2>1. PICK p \in Path, h \in Hash : Edit(p, h)
    BY <1>3
  <2>2. /\ content' = [content EXCEPT ![p] = h] /\ Count("edits")
        /\ UNCHANGED <<present, scanned, groups, listeners, busy, job, deleted, manner>>
    BY ZenonT(40), <2>1 DEF Edit, page
  <2>3. content' \in [Path -> Hash] /\ busy' \in BOOLEAN
    BY ZenonT(40), <1>0, <2>2 DEF TypeOK
  <2>4. used' \in [{"clicks", "faults", "edits"} -> Nat] /\ used'["faults"] = used["faults"]
    BY ZenonT(40), <1>0, <2>2, CountUsed
  <2> QED
    BY ZenonT(40), <1>2, <2>2, <2>3, <2>4
<1>4. CASE OtherEnds
  <2>1. /\ busy' = FALSE /\ Count("clicks")
        /\ UNCHANGED <<present, content, scanned, groups, listeners, job, deleted, manner>>
    BY ZenonT(40), <1>4 DEF OtherEnds, disk, page
  <2>2. content' \in [Path -> Hash] /\ busy' \in BOOLEAN
    BY ZenonT(40), <1>0, <2>1 DEF TypeOK
  <2>3. used' \in [{"clicks", "faults", "edits"} -> Nat] /\ used'["faults"] = used["faults"]
    BY ZenonT(40), <1>0, <2>1, CountUsed
  <2> QED
    BY ZenonT(40), <1>2, <2>1, <2>2, <2>3
<1>5. CASE UNCHANGED vars
  <2>1. UNCHANGED <<present, content, scanned, groups, listeners, busy, job, deleted, manner, used>>
    BY ZenonT(40), <1>5 DEF vars, disk, page
  <2>2. content' \in [Path -> Hash] /\ busy' \in BOOLEAN /\ used' \in [{"clicks", "faults", "edits"} -> Nat]
    BY ZenonT(40), <1>0, <2>1 DEF TypeOK
  <2> QED
    BY ZenonT(40), <1>2, <2>1, <2>2
<1> QED
  BY ZenonT(40), <1>1, <1>3, <1>4, <1>5 DEF Next

\* At the start no job runs, nothing is deleted and no listener is registered.
LEMMA InitDInv == Init => DInv
<1> SUFFICES ASSUME Init PROVE DInv
  OBVIOUS
<1>1. \A j \in Job : job[j] = IdleJob /\ job[j].pc = "idle"
  BY ZenonT(40), IdleType DEF Init
<1>2. \A j \in Job : Shape(j)
  BY ZenonT(40), <1>1 DEF Shape
<1>3. job \in [Job -> JobState]
  BY ZenonT(40), IdleType DEF Init
<1>4. used = [clicks |-> 0, faults |-> 0, edits |-> 0] /\ listeners = 0 /\ deleted = {} /\ groups = {}
      /\ busy = FALSE /\ present = Path /\ scanned = <<>>
  BY ZenonT(40) DEF Init
<1>5. used \in [{"clicks", "faults", "edits"} -> Nat] /\ used.faults = 0
  BY <1>4
<1>6. NoStrayListener
  <2>1. {j \in Job : job[j].pc = "scan"} = {}
    BY ZenonT(40), <1>1
  <2>2. Cardinality({j \in Job : job[j].pc = "scan"}) = 0
    BY ZenonT(40), <2>1, FS_EmptySet
  <2> QED
    BY <1>4, <1>5, <2>2 DEF NoStrayListener
<1>8. content \in [Path -> Hash] /\ manner \in Manner
  BY ZenonT(40), DuplicatesAssumption DEF Init, Manner
<1>9. scanned \in Seq(Path) /\ listeners \in Nat
  BY <1>4
<1>10. TypeOK
  BY ZenonT(40), <1>3, <1>4, <1>5, <1>8, <1>9 DEF TypeOK
<1> QED
  BY ZenonT(40), <1>2, <1>4, <1>6, <1>10 DEF DInv

\* Every variable of the duplicates page keeps its type, for any number of calls in
\* progress and of clicks, edits and failures.
THEOREM DuplicatesTypeCorrect == Spec => []TypeOK
<1>1. DInv => TypeOK
  BY DEF DInv
<1> QED
  BY <1>1, InitDInv, StepDInv, PTL DEF Spec

\* No scan that was answered leaves its listener behind, for any number of calls in
\* progress: beyond the scans there are at most as many as calls that failed.
THEOREM ListenersAccounted == Spec => []NoStrayListener
<1>1. DInv => NoStrayListener
  BY DEF DInv
<1> QED
  BY <1>1, InitDInv, StepDInv, PTL DEF Spec

-----------------------------------------------------------------------------
(* What was read and what is listed                                         *)

\* A job that stays as it is, or stops hashing, has read no more than before.
LEMMA ReadKept ==
  ASSUME NEW j, job'[j].pc = "hash" => job[j].pc = "hash" /\ job'[j] = job[j]
  PROVE  Read(j)' \subseteq Read(j)
  BY ZenonT(40) DEF Read

\* A detection that begins to hash has read nothing.
LEMMA ReadNothing ==
  ASSUME NEW j, job'[j].hashed = <<>>
  PROVE  Read(j)' = {}
<1>1. DOMAIN <<>> = {}
  OBVIOUS
<1>2. {n \in DOMAIN job'[j].hashed : job'[j].hashed[n] # NoHash} = {}
  BY ZenonT(40), <1>1
<1> QED
  BY ZenonT(40), <1>2 DEF Read

\* A file is read from the disk.
LEMMA ReadNext ==
  ASSUME DInv, NEW j \in Job, HashNext(j)
  PROVE  Read(j)' \subseteq Read(j) \cup OnDisk
<1>1. TypeOK
  BY DEF DInv
<1>2. /\ job'[j].pc = "hash" /\ job'[j].paths = job[j].paths
      /\ Len(job[j].hashed) < Len(job[j].paths)
      /\ job'[j].hashed = Append(job[j].hashed, hash_file(job[j].paths[Len(job[j].hashed) + 1]))
      /\ job[j].pc = "hash"
  BY ZenonT(40), <1>1, HashJob DEF HashNext
<1>3. PICK paths \in Seq(Path) : paths = job[j].paths
  BY ZenonT(40), <1>1, JobFields DEF TypeOK
<1>4. PICK hashed \in Seq(Hash \cup {NoHash}) : hashed = job[j].hashed
  BY ZenonT(40), <1>1, JobFields DEF TypeOK
<1>5. PICK more : more = job'[j].hashed
  OBVIOUS
<1>6. PICK n \in Nat : n = Len(hashed) + 1
  OBVIOUS
<1>7. more = Append(hashed, hash_file(paths[n]))
  BY ZenonT(40), <1>2, <1>3, <1>4, <1>5, <1>6
<1>8. /\ DOMAIN more = DOMAIN hashed \cup {n} /\ more[n] = hash_file(paths[n])
      /\ \A i \in DOMAIN hashed : more[i] = hashed[i]
  BY <1>6, <1>7
<1> SUFFICES ASSUME NEW e \in Read(j)' PROVE e \in Read(j) \cup OnDisk
  OBVIOUS
<1>9. PICK i \in DOMAIN more : more[i] # NoHash /\ e = <<paths[i], more[i]>>
  BY ZenonT(40), <1>2, <1>3, <1>5 DEF Read
<1>10. CASE i \in DOMAIN hashed
  <2>1. hashed[i] # NoHash /\ e = <<paths[i], hashed[i]>>
    BY ZenonT(40), <1>8, <1>9, <1>10
  <2>2. e \in Read(j)
    BY ZenonT(40), <1>2, <1>3, <1>4, <1>10, <2>1 DEF Read
  <2> QED
    BY ZenonT(40), <2>2
<1>11. CASE i = n
  <2>1. hash_file(paths[n]) # NoHash /\ e = <<paths[n], hash_file(paths[n])>>
    BY ZenonT(40), <1>8, <1>9, <1>11
  <2>2. paths[n] \in present /\ e = <<paths[n], content[paths[n]]>>
    BY ZenonT(40), <2>1 DEF hash_file
  <2>3. e \in OnDisk
    BY ZenonT(40), <2>2 DEF OnDisk
  <2> QED
    BY ZenonT(40), <2>3
<1> QED
  BY ZenonT(40), <1>8, <1>9, <1>10, <1>11

\* The groups list what the detection has read.
LEMMA ListedByDetection ==
  ASSUME DInv, NEW j \in Job, DetectReturns(j)
  PROVE  Listed' \subseteq Read(j)
<1>1. TypeOK
  BY DEF DInv
<1>2. /\ job[j].pc = "hash" /\ Len(job[j].hashed) = Len(job[j].paths)
      /\ groups' = detect(job[j].paths, job[j].hashed)
  BY ZenonT(40) DEF DetectReturns
<1>3. PICK paths \in Seq(Path) : paths = job[j].paths
  BY ZenonT(40), <1>1, JobFields DEF TypeOK
<1>4. PICK hashed \in Seq(Hash \cup {NoHash}) : hashed = job[j].hashed
  BY ZenonT(40), <1>1, JobFields DEF TypeOK
<1> SUFFICES ASSUME NEW e \in Listed' PROVE e \in Read(j)
  OBVIOUS
<1>5. PICK g \in groups' : g.kind = "hash" /\ e \in Entries(g)
  BY ZenonT(40) DEF Listed
<1>6. PICK i \in DOMAIN g.files : e = <<g.files[i], g.key>>
  BY ZenonT(40), <1>5 DEF Entries
<1>7. g \in detect(paths, hashed) /\ Len(hashed) = Len(paths)
  BY ZenonT(40), <1>2, <1>3, <1>4
<1>8. i \in DOMAIN hashed /\ g.key # NoHash /\ g.files[i] = paths[i] /\ hashed[i] = g.key
  <2>1. OfDetection(g, paths, hashed)
    BY ZenonT(40), <1>7, DetectIs
  <2> QED
    BY ZenonT(40), <1>5, <2>1 DEF OfDetection
<1>9. e = <<paths[i], hashed[i]>> /\ hashed[i] # NoHash
  BY ZenonT(40), <1>6, <1>8
<1> QED
  BY ZenonT(40), <1>2, <1>3, <1>4, <1>8, <1>9 DEF Read

\* A deletion that is awaited takes its file off the list.
LEMMA ListedAfterDeletion ==
  ASSUME DInv, NEW j \in Job, Unindex(j), NEW e \in Listed'
  PROVE  e \in Listed /\ (job[j].awaited => e[1] # job[j].path)
<1>1. \A h \in groups : IsGroup(h)
  BY ZenonT(40) DEF DInv, TypeOK
<1>2. groups' = IF job[j].awaited THEN Without(groups, job[j].path) ELSE groups
  BY ZenonT(40) DEF Unindex
<1>3. PICK g \in groups' : g.kind = "hash" /\ e \in Entries(g)
  BY ZenonT(40) DEF Listed
<1>4. CASE ~job[j].awaited
  BY ZenonT(40), <1>2, <1>3, <1>4 DEF Listed
<1>5. CASE job[j].awaited
  <2>1. g \in Without(groups, job[j].path)
    BY ZenonT(40), <1>2, <1>5
  <2>2. PICK h \in groups : LeftOf(g, h, job[j].path)
    BY ZenonT(40), <1>1, <2>1, WithoutIs
  <2>3. PICK i \in DOMAIN g.files : e = <<g.files[i], g.key>>
    BY ZenonT(40), <1>3 DEF Entries
  <2>4. i \in DOMAIN h.files /\ e = <<h.files[i], h.key>> /\ h.kind = "hash"
    BY ZenonT(40), <1>3, <2>2, <2>3 DEF LeftOf
  <2>5. e \in Entries(h)
    BY ZenonT(40), <2>4 DEF Entries
  <2>6. e \in Listed
    BY ZenonT(40), <2>4, <2>5 DEF Listed
  <2>7. g.files[i] # job[j].path
    BY ZenonT(40), <2>2 DEF LeftOf
  <2>8. e[1] = g.files[i]
    BY ZenonT(40), <2>3
  <2> QED
    BY ZenonT(40), <2>6, <2>7, <2>8
<1> QED
  BY ZenonT(40), <1>4, <1>5

\* The files on display depend on the groups only.
LEMMA ListedKept ==
  ASSUME groups' = groups
  PROVE  Listed' = Listed
  BY ZenonT(40) DEF Listed

-----------------------------------------------------------------------------
(* What a step can do, as far as the groups are concerned                   *)

\* Nothing is forgotten, files are only removed and reported by the deletions, ...
Counted ==
  /\ content' = content \/ used'.edits # 0
  /\ (used'.edits = 0 => used.edits = 0)
  /\ (manner'.serial => manner.serial) /\ (manner'.wary => manner.wary) /\ (manner'.heeds => manner.heeds)
  /\ (manner.warned => manner'.warned) \/ \E j \in Job : DetectReturns(j)
  /\ present' = present \/ \E j \in Job : RemoveFile(j)
  /\ deleted' = deleted \/ \E j \in Job : Unindex(j)

\* ... what is read comes from the disk and what is listed has been read, ...
Traced ==
  /\ \A k \in Job : Read(k)' \subseteq Read(k) \cup OnDisk
  /\ Listed' \subseteq Listed \cup UNION {Read(k) : k \in Job}

\* ... and a job begins or goes on.
Begun(j) ==
  /\ job[j].pc = "idle" /\ job'[j].awaited /\ (manner'.serial => \A k \in Job : job[k].pc = "idle")
  /\ job'[j].pc = "remove" =>
       \E show \in SUBSET {"hash", "name"} : \E g \in groups, p \in Path : handleDelete(j, show, g, p)

GoneOn(j) ==
  /\ job[j].pc # "idle" /\ (job'[j].pc # "idle" /\ ~manner'.warned => job'[j].awaited = job[j].awaited)
  /\ job'[j].pc = "remove" => job[j].pc = "remove" /\ job'[j].path = job[j].path
  /\ job[j].pc = "unindex" /\ ~manner'.warned => Unindex(j)

Worked == job' = job \/ \E j \in Job : Moves(j) /\ (Begun(j) \/ GoneOn(j))

Effect == Counted /\ Traced /\ Worked

\* When only the job j moves, and reads nothing, the groups staying as they are.
LEMMA TracedKept ==
  ASSUME NEW j \in Job, Moves(j), Read(j)' \subseteq Read(j) \cup OnDisk, groups' = groups
  PROVE  Traced
<1>1. \A k \in Job : k # j => Read(k)' = Read(k)
  BY ZenonT(40) DEF Read, Moves
<1>2. Listed' = Listed
  BY ZenonT(40), ListedKept
<1> QED
  BY ZenonT(40), <1>1, <1>2 DEF Traced

\* The same with groups that only list less or what was read.
LEMMA TracedLess ==
  ASSUME NEW j \in Job, Moves(j), job'[j].pc = "idle", Listed' \subseteq Listed \cup Read(j)
  PROVE  Traced
<1>1. \A k \in Job : k # j => Read(k)' = Read(k)
  BY ZenonT(40) DEF Read, Moves
<1>2. Read(j)' = {}
  BY ZenonT(40) DEF Read
<1> QED
  BY ZenonT(40), <1>1, <1>2 DEF Traced

\* What the steps of a detection do.
LEMMA DetectEffect ==
  ASSUME DInv, NEW j \in Job,
         \/ runDetect(j) \/ Listens(j) \/ (\E found \in scan_paths_progress : ScanReturns(j, found))
         \/ HashNext(j) \/ DetectReturns(j) \/ DetectFails(j)
  PROVE  Effect
<1>0. TypeOK /\ TRUE \in BOOLEAN
  BY DEF DInv
<1>1. CASE runDetect(j)
  <2>1. /\ Moves(j) /\ job'[j].hashed = <<>> /\ job'[j].awaited /\ job[j].pc = "idle"
        /\ job'[j].pc \in {"listen", "hash"}
    BY ZenonT(40), <1>0, <1>1, runDetectJob
  <2>2. UNCHANGED <<present, content, groups, deleted>> /\ Begins(TRUE, TRUE)
    BY ZenonT(40), <1>1 DEF runDetect, disk, page
  <2>3. /\ used'.faults = used.faults /\ used'.edits = used.edits
        /\ (manner'.serial => manner.serial /\ \A k \in Job : job[k].pc = "idle")
        /\ (manner'.wary => manner.wary) /\ (manner'.heeds => manner.heeds) /\ manner'.warned = manner.warned
    BY ZenonT(40), <1>0, <2>2, BeginsTypes
  <2>4. Traced
    BY ZenonT(40), <2>1, <2>2, ReadNothing, TracedKept
  <2>5. Begun(j)
    BY ZenonT(40), <2>1, <2>3 DEF Begun
  <2>6. Counted
    BY ZenonT(40), <2>2, <2>3 DEF Counted
  <2> QED
    BY ZenonT(40), <2>1, <2>4, <2>5, <2>6 DEF Effect, Worked
<1>2. CASE Listens(j)
  <2>1. job' = [job EXCEPT ![j].pc = "scan"] /\ job[j].pc = "listen"
        /\ UNCHANGED <<present, content, groups, deleted, manner, used>>
    BY ZenonT(40), <1>2 DEF Listens, disk, page
  <2>2. Moves(j) /\ job'[j].pc = "scan" /\ job'[j].awaited = job[j].awaited
    BY ZenonT(40), <1>0, <2>1, PcJob
  <2>3. Read(j)' = {}
    BY ZenonT(40), <2>2 DEF Read
  <2>4. Traced
    BY ZenonT(40), <2>1, <2>2, <2>3, TracedKept
  <2>5. GoneOn(j)
    BY ZenonT(40), <2>1, <2>2 DEF GoneOn
  <2>6. Counted
    BY ZenonT(40), <2>1 DEF Counted
  <2> QED
    BY ZenonT(40), <2>2, <2>4, <2>5, <2>6 DEF Effect, Worked
<1>3. CASE \E found \in scan_paths_progress : ScanReturns(j, found)
  <2>1. PICK found \in scan_paths_progress : ScanReturns(j, found)
    BY <1>3
  <2>2. found \in Seq(Path)
    <3>1. present \in SUBSET Path /\ found \in Seq(present)
      BY ZenonT(40), <1>0, DuplicatesAssumption DEF TypeOK, scan_paths_progress
    <3> QED
      BY <3>1
  <2>3. job[j].pc = "scan" /\ UNCHANGED <<present, content, groups, deleted, manner, used>>
    BY ZenonT(40), <2>1 DEF ScanReturns, disk
  <2>4. Moves(j) /\ job'[j].pc = "hash" /\ job'[j].hashed = job[j].hashed /\ job'[j].awaited = job[j].awaited
    BY ZenonT(40), <1>0, <2>1, <2>2, ScanJob
  <2>5. job'[j].hashed = <<>>
    BY ZenonT(40), <2>3, <2>4 DEF DInv, Shape
  <2>6. Traced
    BY ZenonT(40), <2>3, <2>4, <2>5, ReadNothing, TracedKept
  <2>7. GoneOn(j)
    BY ZenonT(40), <2>3, <2>4 DEF GoneOn
  <2>8. Counted
    BY ZenonT(40), <2>3 DEF Counted
  <2> QED
    BY ZenonT(40), <2>4, <2>6, <2>7, <2>8 DEF Effect, Worked
<1>4. CASE HashNext(j)
  <2>1. UNCHANGED <<present, content, groups, deleted, manner, used>> /\ job[j].pc = "hash"
    BY ZenonT(40), <1>4 DEF HashNext, disk, page
  <2>2. Moves(j) /\ job'[j].pc = "hash" /\ job'[j].awaited = job[j].awaited
    BY ZenonT(40), <1>0, <1>4, HashJob
  <2>3. Traced
    BY ZenonT(40), <1>4, <2>1, <2>2, ReadNext, TracedKept
  <2>4. GoneOn(j)
    BY ZenonT(40), <2>1, <2>2 DEF GoneOn
  <2>5. Counted
    BY ZenonT(40), <2>1 DEF Counted
  <2> QED
    BY ZenonT(40), <2>2, <2>3, <2>4, <2>5 DEF Effect, Worked
<1>5. CASE DetectReturns(j)
  <2>1. /\ UNCHANGED <<present, content, deleted, used>> /\ job[j].pc = "hash" /\ Ends(j)
        /\ manner' = [manner EXCEPT !.warned = FALSE]
    BY ZenonT(40), <1>5 DEF DetectReturns, disk
  <2>a. manner'.serial = manner.serial /\ manner'.wary = manner.wary /\ manner'.heeds = manner.heeds
    BY ZenonT(40), <1>0, <2>1, MarkTypes
  <2>2. Moves(j) /\ job'[j].pc = "idle"
    BY ZenonT(40), <1>0, <2>1, EndsJob
  <2>3. Listed' \subseteq Listed \cup Read(j)
    BY ZenonT(40), <1>5, ListedByDetection
  <2>4. Traced
    BY ZenonT(40), <2>2, <2>3, TracedLess
  <2>5. GoneOn(j)
    BY ZenonT(40), <2>1, <2>2 DEF GoneOn
  <2>6. Counted
    BY ZenonT(40), <1>5, <2>1, <2>a DEF Counted
  <2> QED
    BY ZenonT(40), <2>2, <2>4, <2>5, <2>6 DEF Effect, Worked
<1>6. CASE DetectFails(j)
  <2>1. /\ UNCHANGED <<present, content, groups, deleted, manner>> /\ Count("faults") /\ Ends(j)
        /\ job[j].pc \in {"listen", "scan", "hash"}
    BY ZenonT(40), <1>6 DEF DetectFails, disk, page
  <2>2. Moves(j) /\ job'[j].pc = "idle"
    BY ZenonT(40), <1>0, <2>1, EndsJob
  <2>3. used'.faults # 0 /\ used'.edits = used.edits
    BY ZenonT(40), <1>0, <2>1, FaultTypes
  <2>4. Listed' \subseteq Listed \cup Read(j)
    BY ZenonT(40), <2>1, ListedKept
  <2>5. Traced
    BY ZenonT(40), <2>2, <2>4, TracedLess
  <2>6. GoneOn(j)
    BY ZenonT(40), <2>1, <2>2 DEF GoneOn
  <2>7. Counted
    BY ZenonT(40), <2>1, <2>3 DEF Counted
  <2> QED
    BY ZenonT(40), <2>2, <2>5, <2>6, <2>7 DEF Effect, Worked
<1> QED
  BY ZenonT(40), <1>1, <1>2, <1>3, <1>4, <1>5, <1>6

\* What the steps of a deletion do.
LEMMA DeleteEffect ==
  ASSUME DInv, NEW j \in Job,
         \/ (\E show \in SUBSET {"hash", "name"} : \E g \in groups, p \in Path : handleDelete(j, show, g, p))
         \/ RemoveFile(j) \/ RemoveFails(j) \/ Unindex(j) \/ UnindexFails(j) \/ DeleteTimeout(j)
  PROVE  Effect
<1>0. TypeOK
  BY DEF DInv
<1>1. CASE \E show \in SUBSET {"hash", "name"} : \E g \in groups, p \in Path : handleDelete(j, show, g, p)
  <2>1. PICK show \in SUBSET {"hash", "name"}, g \in groups, p \in Path : handleDelete(j, show, g, p)
    BY <1>1
  <2>2. Moves(j) /\ job'[j].pc = "remove" /\ job[j].pc = "idle" /\ job'[j].awaited
    BY ZenonT(40), <1>0, <2>1, DeleteJob
  <2>3. PICK wary \in BOOLEAN, heeds \in BOOLEAN : UNCHANGED <<present, content, groups, deleted>> /\ Begins(wary, heeds)
    <3>1. (g.kind = "hash" /\ Range(g.files) # {p}) \in BOOLEAN /\ (~manner.warned) \in BOOLEAN
      BY ZenonT(40)
    <3> QED
      BY ZenonT(40), <2>1, <3>1 DEF handleDelete, disk, page
  <2>4. /\ used'.faults = used.faults /\ used'.edits = used.edits
        /\ (manner'.serial => manner.serial /\ \A k \in Job : job[k].pc = "idle")
        /\ (manner'.wary => manner.wary) /\ (manner'.heeds => manner.heeds) /\ manner'.warned = manner.warned
    BY ZenonT(40), <1>0, <2>3, BeginsTypes
  <2>5. Read(j)' = {}
    BY ZenonT(40), <2>2 DEF Read
  <2>6. Traced
    BY ZenonT(40), <2>2, <2>3, <2>5, TracedKept
  <2>7. Begun(j)
    BY ZenonT(40), <1>1, <2>2, <2>4 DEF Begun
  <2>8. Counted
    BY ZenonT(40), <2>3, <2>4 DEF Counted
  <2> QED
    BY ZenonT(40), <2>2, <2>6, <2>7, <2>8 DEF Effect, Worked
<1>2. CASE RemoveFile(j)
  <2>1. /\ job' = [job EXCEPT ![j].pc = "unindex"] /\ job[j].pc = "remove"
        /\ UNCHANGED <<content, groups, deleted, manner, used>>
    BY ZenonT(40), <1>2 DEF RemoveFile, page
  <2>2. Moves(j) /\ job'[j].pc = "unindex" /\ job'[j].awaited = job[j].awaited
    BY ZenonT(40), <1>0, <2>1, PcJob
  <2>3. Read(j)' = {}
    BY ZenonT(40), <2>2 DEF Read
  <2>4. Traced
    BY ZenonT(40), <2>1, <2>2, <2>3, TracedKept
  <2>5. GoneOn(j)
    BY ZenonT(40), <2>1, <2>2 DEF GoneOn
  <2>6. Counted
    BY ZenonT(40), <1>2, <2>1 DEF Counted
  <2> QED
    BY ZenonT(40), <2>2, <2>4, <2>5, <2>6 DEF Effect, Worked
<1>3. CASE RemoveFails(j) \/ UnindexFails(j)
  <2>1. /\ UNCHANGED <<present, content, groups, deleted>> /\ Ends(j)
        /\ job[j].pc \in {"remove", "unindex"} /\ (used' = used \/ Count("faults"))
        /\ manner' = [manner EXCEPT !.warned = TRUE]
    BY ZenonT(40), <1>3 DEF RemoveFails, UnindexFails, Warns, disk, page
  <2>2. Moves(j) /\ job'[j].pc = "idle"
    BY ZenonT(40), <1>0, <2>1, EndsJob
  <2>3. /\ used'.edits = used.edits /\ manner'.warned
        /\ manner'.serial = manner.serial /\ manner'.wary = manner.wary /\ manner'.heeds = manner.heeds
    BY ZenonT(40), <1>0, <2>1, FaultTypes, MarkTypes
  <2>4. Listed' \subseteq Listed \cup Read(j)
    BY ZenonT(40), <2>1, ListedKept
  <2>5. Traced
    BY ZenonT(40), <2>2, <2>4, TracedLess
  <2>6. GoneOn(j)
    BY ZenonT(40), <2>1, <2>2, <2>3 DEF GoneOn
  <2>7. Counted
    BY ZenonT(40), <2>1, <2>3 DEF Counted
  <2> QED
    BY ZenonT(40), <2>2, <2>5, <2>6, <2>7 DEF Effect, Worked
<1>4. CASE Unindex(j)
  <2>1. job[j].pc = "unindex" /\ Ends(j) /\ UNCHANGED <<present, content, used, manner>>
    BY ZenonT(40), <1>4 DEF Unindex, disk
  <2>2. Moves(j) /\ job'[j].pc = "idle"
    BY ZenonT(40), <1>0, <2>1, EndsJob
  <2>3. Listed' \subseteq Listed \cup Read(j)
    BY ZenonT(40), <1>4, ListedAfterDeletion
  <2>4. Traced
    BY ZenonT(40), <2>2, <2>3, TracedLess
  <2>5. GoneOn(j)
    BY ZenonT(40), <1>4, <2>1, <2>2 DEF GoneOn
  <2>6. Counted
    BY ZenonT(40), <1>4, <2>1 DEF Counted
  <2> QED
    BY ZenonT(40), <2>2, <2>4, <2>5, <2>6 DEF Effect, Worked
<1>5. CASE DeleteTimeout(j)
  <2>1. /\ UNCHANGED <<present, content, groups, deleted>> /\ Count("faults")
        /\ job[j].pc \in {"remove", "unindex"} /\ manner' = [manner EXCEPT !.warned = TRUE]
    BY ZenonT(40), <1>5 DEF DeleteTimeout, Warns, disk, page
  <2>2. Moves(j) /\ Keeps(j) /\ job'[j].pc = job[j].pc
    BY ZenonT(40), <1>0, <1>5, TimeoutJob
  <2>3. /\ used'.edits = used.edits /\ manner'.warned
        /\ manner'.serial = manner.serial /\ manner'.wary = manner.wary /\ manner'.heeds = manner.heeds
    BY ZenonT(40), <1>0, <2>1, FaultTypes, MarkTypes
  <2>4. Read(j)' = {}
    BY ZenonT(40), <2>1, <2>2 DEF Read
  <2>5. Traced
    BY ZenonT(40), <2>1, <2>2, <2>4, TracedKept
  <2>6. GoneOn(j)
    BY ZenonT(40), <2>1, <2>2, <2>3 DEF GoneOn, Keeps
  <2>7. Counted
    BY ZenonT(40), <2>1, <2>3 DEF Counted
  <2> QED
    BY ZenonT(40), <2>2, <2>5, <2>6, <2>7 DEF Effect, Worked
<1> QED
  BY ZenonT(40), <1>1, <1>2, <1>3, <1>4, <1>5

\* What any step does.
LEMMA StepEffect == DInv /\ [Next]_vars => Effect
<1> SUFFICES ASSUME DInv, [Next]_vars PROVE Effect
  OBVIOUS
<1>0. TypeOK
  BY DEF DInv
<1>1. CASE \E j \in Job : \/ JobStep(j) \/ runDetect(j)
                          \/ \E show \in SUBSET {"hash", "name"} : \E g \in groups, p \in Path : handleDelete(j, show, g, p)
  BY ZenonT(40), <1>1, DetectEffect, DeleteEffect DEF JobStep
<1>2. ASSUME UNCHANGED <<present, groups, job, deleted, manner>>, content' = content \/ used'.edits # 0,
             used'.edits = 0 => used.edits = 0
      PROVE  Effect
  <2>1. Counted
    BY ZenonT(40), <1>2 DEF Counted
  <2>2. (\A k \in Job : Read(k)' = Read(k)) /\ Listed' = Listed
    BY ZenonT(40), <1>2, ListedKept DEF Read
  <2>3. Traced
    BY ZenonT(40), <2>2 DEF Traced
  <2> QED
    BY ZenonT(40), <1>2, <2>1, <2>3 DEF Effect, Worked
<1>3. CASE \E p \in Path, h \in Hash : Edit(p, h)
  <2>1. Count("edits") /\ UNCHANGED <<present, groups, job, deleted, manner>>
    BY ZenonT(40), <1>3 DEF Edit, page
  <2>2. used'.edits = 0 => FALSE
    BY ZenonT(40), <1>0, <2>1, CountUsed
  <2> QED
    BY ZenonT(40), <1>2, <2>1, <2>2
<1>4. CASE OtherEnds
  <2>1. Count("clicks") /\ UNCHANGED <<present, content, groups, job, deleted, manner>>
    BY ZenonT(40), <1>4 DEF OtherEnds, disk, page
  <2>2. used'.edits = 0 => used.edits = 0
    BY ZenonT(40), <1>0, <2>1, CountUsed
  <2> QED
    BY ZenonT(40), <1>2, <2>1, <2>2
<1>5. CASE UNCHANGED vars
  <2>1. UNCHANGED <<present, content, groups, job, deleted, manner, used>>
    BY ZenonT(40), <1>5 DEF vars, disk, page
  <2> QED
    BY ZenonT(40), <1>2, <2>1
<1> QED
  BY ZenonT(40), <1>1, <1>3, <1>4, <1>5 DEF Next

-----------------------------------------------------------------------------
(* The groups of equal content                                              *)

\* What is read is in the file when it is read, and without edits it stays so.
LEMMA EqualStep ==
  ASSUME Equal, Effect
  PROVE  Equal'
<1> SUFFICES ASSUME used'.edits = 0
             PROVE  /\ \A k \in Job : \A e \in Read(k)' : content'[e[1]] = e[2]
                    /\ \A e \in Listed' : content'[e[1]] = e[2]
  BY ZenonT(40) DEF Equal
<1>1. used.edits = 0 /\ content' = content
  BY ZenonT(40) DEF Effect, Counted
<1>2. \A e \in OnDisk : content[e[1]] = e[2]
  <2>1. \A p \in present : content[<<p, content[p]>>[1]] = <<p, content[p]>>[2]
    BY ZenonT(40)
  <2> QED
    BY ZenonT(40), <2>1 DEF OnDisk
<1>3. /\ \A j \in Job : \A e \in Read(j) : content[e[1]] = e[2]
      /\ \A e \in Listed : content[e[1]] = e[2]
  BY ZenonT(40), <1>1 DEF Equal
<1> QED
  BY ZenonT(40), <1>1, <1>2, <1>3 DEF Effect, Traced

\* The files of a group of equal content are listed with its key.
LEMMA Shown ==
  ASSUME NEW g \in groups, g.kind = "hash", NEW p \in Range(g.files)
  PROVE  <<p, g.key>> \in Listed
<1>1. PICK i \in DOMAIN g.files : p = g.files[i]
  BY ZenonT(40) DEF Range
<1>2. <<p, g.key>> \in Entries(g)
  BY ZenonT(40), <1>1 DEF Entries
<1> QED
  BY ZenonT(40), <1>2 DEF Listed

\* At the start nothing has been read or listed.
LEMMA InitListed ==
  ASSUME Init
  PROVE  (\A j \in Job : job[j].pc = "idle" /\ Read(j) = {}) /\ Listed = {}
<1>1. \A j \in Job : job[j].pc = "idle"
  BY ZenonT(40), IdleType DEF Init
<1>2. Listed = {}
  BY ZenonT(40) DEF Init, Listed
<1> QED
  BY ZenonT(40), <1>1, <1>2 DEF Read

\* GroupsAreEqual for all files, contents and roots: however the scans, the reading of
\* the files (hash_file) and the answers of the detections interleave with deletions,
\* the files of a group of equal content that are still on disk are equal, unless
\* another program has changed a file since.
THEOREM GroupsAlwaysEqual == Spec => []GroupsAreEqual
<1>1. Init => Equal
  BY ZenonT(40), InitListed DEF Equal
<1>2. DInv /\ Equal /\ [Next]_vars => Equal'
  BY ZenonT(40), StepEffect, EqualStep
<1>3. Equal => GroupsAreEqual
  <2> SUFFICES ASSUME Equal, used.edits = 0, NEW g \in groups, g.kind = "hash",
                      NEW p \in Range(g.files), NEW q \in Range(g.files)
               PROVE  content[p] = content[q]
    BY ZenonT(40) DEF GroupsAreEqual
  <2>1. <<p, g.key>> \in Listed /\ <<q, g.key>> \in Listed
    BY ZenonT(40), Shown
  <2>2. content[<<p, g.key>>[1]] = <<p, g.key>>[2] /\ content[<<q, g.key>>[1]] = <<q, g.key>>[2]
    BY ZenonT(40), <2>1 DEF Equal
  <2> QED
    BY ZenonT(40), <2>2
<1> QED
  BY <1>1, <1>2, <1>3, InitDInv, StepDInv, PTL DEF Spec

-----------------------------------------------------------------------------
(* One call at a time                                                       *)

\* The jobs that are not idle after a step were not idle before, or are the one that
\* begins, all being idle.
LEMMA WorkingJobs ==
  ASSUME Worked, manner'.serial
  PROVE  \/ \A k \in Job : job'[k].pc # "idle" => job[k].pc # "idle"
         \/ \E j \in Job : /\ Moves(j) /\ Begun(j) /\ \A k \in Job : job[k].pc = "idle"
                           /\ \A k \in Job : job'[k].pc # "idle" => k = j
<1>1. CASE job' = job
  BY ZenonT(40), <1>1
<1>2. ASSUME NEW j \in Job, Moves(j), Begun(j)
      PROVE  /\ \A k \in Job : job[k].pc = "idle"
             /\ \A k \in Job : job'[k].pc # "idle" => k = j
  BY ZenonT(40), <1>2 DEF Begun, Moves
<1>3. ASSUME NEW j \in Job, Moves(j), GoneOn(j)
      PROVE  \A k \in Job : job'[k].pc # "idle" => job[k].pc # "idle"
  BY ZenonT(40), <1>3 DEF GoneOn, Moves
<1> QED
  BY ZenonT(40), <1>1, <1>2, <1>3 DEF Worked

\* The removal of a file, as a step of its job.
LEMMA Removal ==
  ASSUME DInv, NEW j \in Job, RemoveFile(j)
  PROVE  /\ Moves(j) /\ job[j].pc = "remove" /\ job'[j].pc = "unindex" /\ job'[j].path = job[j].path
         /\ present' = present \ {job[j].path} /\ content' = content
<1>0. TypeOK
  BY DEF DInv
<1>1. /\ job' = [job EXCEPT ![j].pc = "unindex"] /\ job[j].pc = "remove"
      /\ present' = present \ {job[j].path} /\ content' = content
  BY ZenonT(40) DEF RemoveFile
<1> QED
  BY ZenonT(40), <1>0, <1>1, PcJob DEF Keeps

\* A step keeps to one call at a time, or the history says so.
LEMMA AloneStep ==
  ASSUME DInv, Alone, Effect
  PROVE  Alone'
<1> SUFFICES ASSUME manner'.serial
             PROVE  /\ \A i, k \in Job : job'[i].pc # "idle" /\ job'[k].pc # "idle" => i = k
                    /\ \A k \in Job : \A e \in Read(k)' : e[1] \in present'
                    /\ \A e \in Listed' : e[1] \notin deleted'
  BY ZenonT(40) DEF Alone
<1>1. manner.serial
  BY ZenonT(40) DEF Effect, Counted
<1>2. /\ \A i, k \in Job : job[i].pc # "idle" /\ job[k].pc # "idle" => i = k
      /\ \A k \in Job : \A e \in Read(k) : e[1] \in present
      /\ \A e \in Listed : e[1] \notin deleted
  BY ZenonT(40), <1>1 DEF Alone
<1>3. \A i, k \in Job : job'[i].pc # "idle" /\ job'[k].pc # "idle" => i = k
  BY ZenonT(40), <1>2, WorkingJobs DEF Effect
<1>4. \A e \in OnDisk : e[1] \in present
  <2>1. \A p \in present : <<p, content[p]>>[1] = p
    BY ZenonT(40)
  <2> QED
    BY ZenonT(40), <2>1 DEF OnDisk
<1>5. \A k \in Job : \A e \in Read(k)' : e[1] \in present
  BY ZenonT(40), <1>2, <1>4 DEF Effect, Traced
<1>6. ASSUME NEW k \in Job, NEW e \in Read(k)'
      PROVE  e[1] \in present'
  <2>1. CASE present' = present
    BY ZenonT(40), <1>5, <1>6, <2>1
  <2>2. ASSUME NEW j \in Job, RemoveFile(j) PROVE FALSE
    <3>1. Moves(j) /\ job[j].pc = "remove" /\ job'[j].pc = "unindex"
      BY ZenonT(40), <2>2, Removal
    <3>2. job'[k].pc = "hash"
      BY ZenonT(40), <1>6 DEF Read
    <3>3. k # j /\ job[k].pc = "hash"
      BY ZenonT(40), <3>1, <3>2 DEF Moves
    <3> QED
      BY ZenonT(40), <1>2, <3>1, <3>3
  <2> QED
    BY ZenonT(40), <2>1, <2>2 DEF Effect, Counted
<1>7. ASSUME NEW e \in Listed'
      PROVE  e[1] \notin deleted'
  <2>1. e \in Listed \/ \E k \in Job : e \in Read(k)
    BY ZenonT(40), <1>7 DEF Effect, Traced
  <2>2. e[1] \notin deleted
    BY ZenonT(40), <1>2, <2>1 DEF DInv
  <2>3. CASE deleted' = deleted
    BY ZenonT(40), <2>2, <2>3
  <2>4. ASSUME NEW j \in Job, Unindex(j) PROVE e[1] \notin deleted'
    <3>1. deleted' = IF job[j].awaited THEN deleted \cup {job[j].path} ELSE deleted
      BY ZenonT(40), <2>4 DEF Unindex
    <3>2. job[j].awaited => e[1] # job[j].path
      BY ZenonT(40), <1>7, <2>4, ListedAfterDeletion
    <3> QED
      BY ZenonT(40), <2>2, <3>1, <3>2
  <2> QED
    BY ZenonT(40), <2>3, <2>4 DEF Effect, Counted
<1> QED
  BY ZenonT(40), <1>3, <1>6, <1>7

\* The start, where no job runs and nothing is listed.
LEMMA InitAlone == Init => Alone /\ Copied
<1> SUFFICES ASSUME Init PROVE Alone /\ Copied
  OBVIOUS
<1>1. (\A j \in Job : job[j].pc = "idle" /\ Read(j) = {}) /\ Listed = {}
  BY ZenonT(40), InitListed
<1>2. Alone
  BY ZenonT(40), <1>1 DEF Alone
<1>3. Copied
  <2>1. "idle" # "remove"
    OBVIOUS
  <2> QED
    BY ZenonT(40), <1>1, <2>1 DEF Copied
<1> QED
  BY ZenonT(40), <1>2, <1>3

\* DeletedStaysGone for all files, contents and roots: a file that handleDelete has taken
\* off the list is not listed in a group of equal content again as long as one call is
\* made at a time, though the detections go on to use a scan that lists it.
THEOREM DeletedAlwaysGone == Spec => []DeletedStaysGone
<1>1. DInv /\ Alone /\ [Next]_vars => Alone'
  BY ZenonT(40), StepEffect, AloneStep
<1>2. Alone => DeletedStaysGone
  <2> SUFFICES ASSUME Alone, manner.serial, NEW g \in groups, g.kind = "hash", NEW p \in Range(g.files)
               PROVE  p \notin deleted
    BY ZenonT(40) DEF DeletedStaysGone
  <2>1. <<p, g.key>> \in Listed
    BY ZenonT(40), Shown
  <2>2. <<p, g.key>>[1] \notin deleted
    BY ZenonT(40), <2>1 DEF Alone
  <2> QED
    BY ZenonT(40), <2>2
<1> QED
  BY <1>1, <1>2, InitAlone, InitDInv, StepDInv, PTL DEF Spec

-----------------------------------------------------------------------------
(* The last copy                                                            *)

\* The job j is about to remove p, of which there is a copy.
CopyLeft(j, p) ==
  /\ job'[j].path = p /\ present' = present
  /\ \E q \in present : q # p /\ content[q] = content[p]

\* A careful click leaves a copy of the file it deletes.
LEMMA CarefulClick ==
  ASSUME DInv, Equal, Copied, NEW j \in Job, NEW show \in SUBSET {"hash", "name"},
         NEW g \in groups, NEW p \in Path, handleDelete(j, show, g, p),
         manner.serial, used.edits = 0, manner'.wary, manner'.heeds,
         \A k \in Job : job[k].pc = "idle"
  PROVE  CopyLeft(j, p)
<1>0. TypeOK
  BY DEF DInv
<1>1. /\ Offered(show, g, p) /\ Begins(g.kind = "hash" /\ Range(g.files) # {p}, ~manner.warned)
      /\ present' = present
  BY ZenonT(40) DEF handleDelete, disk
<1>2. job'[j].path = p
  BY ZenonT(40), <1>0, DeleteJob
<1>3. g.kind = "hash" /\ Range(g.files) # {p} /\ p \in Range(g.files) /\ manner.heeds /\ ~manner.warned
  <2>1. (g.kind = "hash" /\ Range(g.files) # {p}) \in BOOLEAN /\ (~manner.warned) \in BOOLEAN
    BY ZenonT(40)
  <2>2. (g.kind = "hash" /\ Range(g.files) # {p}) /\ manner.heeds /\ ~manner.warned
    BY ZenonT(40), <1>0, <1>1, <2>1, BeginsTypes
  <2> QED
    BY ZenonT(40), <1>1, <2>2 DEF Offered
<1>4. PICK q \in Range(g.files) : q # p
  BY ZenonT(40), <1>3
<1>5. <<p, g.key>> \in Listed /\ <<q, g.key>> \in Listed
  BY ZenonT(40), <1>3, <1>4, Shown
<1>6. content[<<p, g.key>>[1]] = <<p, g.key>>[2] /\ content[<<q, g.key>>[1]] = <<q, g.key>>[2]
  BY ZenonT(40), <1>5 DEF Equal
<1>7. <<q, g.key>>[1] \in present
  <2>1. "idle" # "unindex"
    OBVIOUS
  <2> QED
    BY ZenonT(40), <1>3, <1>5, <2>1 DEF Copied
<1>8. content[q] = content[p] /\ q \in present
  BY ZenonT(40), <1>6, <1>7
<1> QED
  BY ZenonT(40), <1>1, <1>2, <1>4, <1>8 DEF CopyLeft

\* When each call is awaited nothing is in progress after the answer of a detection, and
\* what it lists was on disk when it was read and is still.
LEMMA DetectedAnew ==
  ASSUME DInv, Alone, manner.serial, NEW j \in Job, DetectReturns(j)
  PROVE  /\ \A k \in Job : job'[k].pc = "idle"
         /\ \A e \in Listed' : e[1] \in present'
<1>0. TypeOK
  BY DEF DInv
<1>1. present' = present /\ job[j].pc = "hash" /\ Ends(j)
  BY ZenonT(40) DEF DetectReturns, disk
<1>2. Moves(j) /\ job'[j].pc = "idle"
  BY ZenonT(40), <1>0, <1>1, EndsJob
<1>3. "hash" # "idle"
  OBVIOUS
<1>4. ASSUME NEW k \in Job PROVE job'[k].pc = "idle"
  <2>1. CASE k = j
    BY ZenonT(40), <1>2, <2>1
  <2>2. CASE k # j
    <3>1. job'[k] = job[k]
      BY ZenonT(40), <1>2, <2>2 DEF Moves
    <3>2. job[k].pc = "idle"
      BY ZenonT(40), <1>1, <1>3, <2>2 DEF Alone
    <3> QED
      BY ZenonT(40), <3>1, <3>2
  <2> QED
    BY ZenonT(40), <2>1, <2>2
<1>5. ASSUME NEW e \in Listed' PROVE e[1] \in present'
  <2>1. e \in Read(j)
    BY ZenonT(40), <1>5, ListedByDetection
  <2> QED
    BY ZenonT(40), <1>1, <2>1 DEF Alone
<1> QED
  BY ZenonT(40), <1>4, <1>5

\* While no deletion reports an error the listed files stay on disk, and while the user
\* heeds such errors there is a copy of what is being removed.
LEMMA CopiedStep ==
  ASSUME DInv, Equal, Alone, Copied, Effect
  PROVE  Copied'
<1> SUFFICES ASSUME manner'.serial, manner'.heeds
             PROVE  /\ \A k \in Job : job'[k].pc # "idle" => job'[k].awaited \/ manner'.warned
                    /\ ~manner'.warned =>
                         \A e \in Listed' : \/ e[1] \in present'
                                            \/ \E k \in Job : job'[k].pc = "unindex" /\ job'[k].path = e[1]
                    /\ manner'.wary /\ used'.edits = 0 =>
                         \A k \in Job : job'[k].pc = "remove" =>
                           \E q \in present' : q # job'[k].path /\ content'[q] = content'[job'[k].path]
  BY ZenonT(40) DEF Copied
<1>1. manner.serial /\ manner.heeds
  BY ZenonT(40) DEF Effect, Counted
<1>2. /\ \A k \in Job : job[k].pc # "idle" => job[k].awaited \/ manner.warned
      /\ ~manner.warned =>
           \A e \in Listed : e[1] \in present \/ \E k \in Job : job[k].pc = "unindex" /\ job[k].path = e[1]
  BY ZenonT(40), <1>1 DEF Copied
<1>3. /\ \A i, k \in Job : job[i].pc # "idle" /\ job[k].pc # "idle" => i = k
      /\ \A k \in Job : \A e \in Read(k) : e[1] \in present
  BY ZenonT(40), <1>1 DEF Alone
<1>4. ASSUME NEW k \in Job, job'[k].pc # "idle", ~manner'.warned
      PROVE  job'[k].awaited
  <2>1. ~manner.warned
    <3>1. ASSUME NEW j \in Job, DetectReturns(j) PROVE FALSE
      BY ZenonT(40), <1>1, <1>4, <3>1, DetectedAnew
    <3> QED
      BY ZenonT(40), <1>4, <3>1 DEF Effect, Counted
  <2>2. CASE job' = job
    BY ZenonT(40), <1>2, <1>4, <2>1, <2>2
  <2>3. ASSUME NEW j \in Job, Moves(j), Begun(j) PROVE job'[k].awaited
    BY ZenonT(40), <1>2, <1>4, <2>1, <2>3 DEF Begun, Moves
  <2>4. ASSUME NEW j \in Job, Moves(j), GoneOn(j) PROVE job'[k].awaited
    BY ZenonT(40), <1>2, <1>4, <2>1, <2>4 DEF GoneOn, Moves
  <2> QED
    BY ZenonT(40), <2>2, <2>3, <2>4 DEF Effect, Worked
<1>5. ASSUME ~manner'.warned, NEW e \in Listed'
      PROVE  e[1] \in present' \/ \E k \in Job : job'[k].pc = "unindex" /\ job'[k].path = e[1]
  <2>0. ASSUME NEW j \in Job, DetectReturns(j) PROVE e[1] \in present'
    BY ZenonT(40), <1>1, <1>5, <2>0, DetectedAnew
  <2> SUFFICES ASSUME ~manner.warned
               PROVE  e[1] \in present' \/ \E k \in Job : job'[k].pc = "unindex" /\ job'[k].path = e[1]
    BY ZenonT(40), <1>5, <2>0 DEF Effect, Counted
  <2>1. e \in Listed \/ \E k \in Job : e \in Read(k)
    BY ZenonT(40), <1>5 DEF Effect, Traced
  <2>2. e[1] \in present \/ \E k \in Job : job[k].pc = "unindex" /\ job[k].path = e[1]
    BY ZenonT(40), <1>2, <1>3, <2>1
  <2>3. CASE e[1] \in present
    <3>1. CASE present' = present
      BY ZenonT(40), <2>3, <3>1
    <3>2. ASSUME NEW j \in Job, RemoveFile(j)
          PROVE  e[1] \in present' \/ \E k \in Job : job'[k].pc = "unindex" /\ job'[k].path = e[1]
      BY ZenonT(40), <2>3, <3>2, Removal
    <3> QED
      BY ZenonT(40), <3>1, <3>2 DEF Effect, Counted
  <2>4. ASSUME NEW i \in Job, job[i].pc = "unindex", job[i].path = e[1]
        PROVE  job'[i].pc = "unindex" /\ job'[i].path = e[1]
    <3>1. CASE job' = job
      BY ZenonT(40), <2>4, <3>1
    <3>2. "unindex" # "idle"
      OBVIOUS
    <3>3. ASSUME NEW j \in Job, Moves(j), Begun(j) PROVE job'[i] = job[i]
      BY ZenonT(40), <2>4, <3>2, <3>3 DEF Begun, Moves
    <3>4. ASSUME NEW j \in Job, Moves(j), GoneOn(j) PROVE job'[i] = job[i]
      <4>1. CASE i # j
        BY ZenonT(40), <3>4, <4>1 DEF Moves
      <4>2. CASE i = j
        <5>1. Unindex(i)
          BY ZenonT(40), <1>5, <2>4, <3>4, <4>2 DEF GoneOn
        <5>2. job[i].awaited
          BY ZenonT(40), <1>2, <2>4, <3>2
        <5>3. e[1] # job[i].path
          BY ZenonT(40), <1>5, <5>1, <5>2, ListedAfterDeletion
        <5> QED
          BY ZenonT(40), <2>4, <5>3
      <4> QED
        BY ZenonT(40), <4>1, <4>2
    <3> QED
      BY ZenonT(40), <2>4, <3>1, <3>3, <3>4 DEF Effect, Worked
  <2> QED
    BY ZenonT(40), <2>2, <2>3, <2>4
<1>6. ASSUME manner'.wary, used'.edits = 0, NEW k \in Job, job'[k].pc = "remove"
      PROVE  \E q \in present' : q # job'[k].path /\ content'[q] = content'[job'[k].path]
  <2>1. manner.wary /\ used.edits = 0 /\ content' = content
    BY ZenonT(40), <1>6 DEF Effect, Counted
  <2>2. "remove" # "idle" /\ "remove" # "unindex"
    OBVIOUS
  <2>3. ASSUME job[k].pc = "remove", job'[k].path = job[k].path
        PROVE  \E q \in present' : q # job'[k].path /\ content'[q] = content'[job'[k].path]
    <3>1. PICK q \in present : q # job[k].path /\ content[q] = content[job[k].path]
      BY ZenonT(40), <1>1, <2>1, <2>3 DEF Copied
    <3>2. ASSUME NEW i \in Job, RemoveFile(i) PROVE FALSE
      <4>1. job[i].pc = "remove" /\ job'[i].pc = "unindex"
        BY ZenonT(40), <3>2, Removal
      <4>2. i = k
        BY ZenonT(40), <1>3, <2>2, <2>3, <4>1
      <4> QED
        BY ZenonT(40), <1>6, <2>2, <4>1, <4>2
    <3>3. present' = present
      BY ZenonT(40), <3>2 DEF Effect, Counted
    <3> QED
      BY ZenonT(40), <2>1, <2>3, <3>1, <3>3
  <2>4. CASE job' = job
    BY ZenonT(40), <1>6, <2>3, <2>4
  <2>5. ASSUME NEW j \in Job, Moves(j), Begun(j)
        PROVE  \E q \in present' : q # job'[k].path /\ content'[q] = content'[job'[k].path]
    <3>1. (\A i \in Job : job[i].pc = "idle") /\ k = j
      BY ZenonT(40), <1>6, <2>2, <2>5 DEF Begun, Moves
    <3>2. PICK show \in SUBSET {"hash", "name"}, g \in groups, p \in Path : handleDelete(j, show, g, p)
      BY ZenonT(40), <1>6, <2>5, <3>1 DEF Begun
    <3>3. CopyLeft(j, p)
      BY ZenonT(40), <1>1, <1>6, <2>1, <3>1, <3>2, CarefulClick
    <3> QED
      BY ZenonT(40), <2>1, <3>1, <3>3 DEF CopyLeft
  <2>6. ASSUME NEW j \in Job, Moves(j), GoneOn(j)
        PROVE  job[k].pc = "remove" /\ job'[k].path = job[k].path
    BY ZenonT(40), <1>6, <2>6 DEF GoneOn, Moves
  <2> QED
    BY ZenonT(40), <2>3, <2>4, <2>5, <2>6 DEF Effect, Worked
<1> QED
  BY ZenonT(40), <1>4, <1>5, <1>6

\* CarefulKeepsLastCopy for all files, contents and roots, with calls that fail or time
\* out: when each call is awaited and no other program writes, a user who deletes only
\* from groups of equal content with two different files, and after an error of a
\* deletion detects anew before the next, never removes the last file with a content.
THEOREM CarefulAlwaysKeepsCopy == Spec => CarefulKeepsLastCopy
<1>1. Init => DInv /\ Equal /\ Alone /\ Copied
  BY ZenonT(40), InitDInv, InitListed, InitAlone DEF Equal
<1>2. DInv /\ Equal /\ Alone /\ Copied /\ [Next]_vars => (DInv /\ Equal /\ Alone /\ Copied)'
  <2>1. DInv /\ [Next]_vars => DInv' /\ Effect
    BY ZenonT(40), StepDInv, StepEffect
  <2> QED
    BY ZenonT(40), <2>1, EqualStep, AloneStep, CopiedStep
<1>3. DInv /\ Copied /\ [Next]_vars =>
        [(manner.serial /\ manner.wary /\ manner.heeds /\ used.edits = 0) =>
           \A p \in present \ present' : \E q \in present' : content[q] = content[p]]_vars
  <2> SUFFICES ASSUME DInv, Copied, [Next]_vars, manner.serial, manner.wary,
                      manner.heeds, used.edits = 0, NEW p \in present \ present'
               PROVE  \E q \in present' : content[q] = content[p]
    OBVIOUS
  <2>1. PICK j \in Job : RemoveFile(j)
    BY ZenonT(40), StepEffect DEF Effect, Counted
  <2>2. job[j].pc = "remove" /\ present' = present \ {job[j].path}
    BY ZenonT(40), <2>1, Removal
  <2>3. PICK q \in present : q # job[j].path /\ content[q] = content[job[j].path]
    BY ZenonT(40), <2>2 DEF Copied
  <2>4. p = job[j].path /\ q \in present'
    BY ZenonT(40), <2>2, <2>3
  <2> QED
    BY ZenonT(40), <2>3, <2>4
<1> QED
  BY <1>1, <1>2, <1>3, PTL DEF Spec, CarefulKeepsLastCopy

-----------------------------------------------------------------------------
(* Every call comes closer to its end, and the page waits for one.          *)

Stage == [listen |-> 0, scan |-> 1, hash |-> 2, remove |-> 0, unindex |-> 1, idle |-> 3]

\* Job b is closer to its end than a: at a later step, with more of its files hashed, or
\* no longer awaited.  There are four steps and the hashes are no more than the files.
Later(a, b) ==
  \/ Stage[b.pc] > Stage[a.pc]
  \/ b.pc = a.pc /\ b.paths = a.paths /\ Len(b.hashed) > Len(a.hashed) /\ Len(b.hashed) <= Len(b.paths)
  \/ b.pc = a.pc /\ b.paths = a.paths /\ b.hashed = a.hashed /\ a.awaited /\ ~b.awaited

\* Every step of a call brings it closer to its end, a detection however long the list
\* it got, and nothing else moves a call in progress.
JobsAdvance ==
  [][\A j \in Job : job[j].pc # "idle" =>
       IF JobStep(j) THEN Later(job[j], job'[j]) ELSE job'[j] = job[j]]_vars

\* The page is busy only as long as it awaits a call of its own.
BusyAwaitsCall == busy => \E j \in Job : job[j].pc # "idle" /\ job[j].awaited

\* The flag stays set by a step of job j only if that job is still awaited or was not.
StillBusy(j) ==
  busy' => busy /\ (job[j].awaited => job'[j].pc # "idle" /\ job'[j].awaited)

\* What a step of a job does to the job and to the flag.
LEMMA JobStepAdvances ==
  ASSUME DInv, NEW j \in Job, JobStep(j)
  PROVE  job[j].pc # "idle" /\ Moves(j) /\ Later(job[j], job'[j]) /\ StillBusy(j)
<1>0. TypeOK
  BY DEF DInv
<1>1. PICK a \in JobState : a = job[j]
  BY ZenonT(40), <1>0, JobFields DEF TypeOK
<1>2. ASSUME a.pc \in {"listen", "scan", "hash", "remove", "unindex"}, Ends(j)
      PROVE  job[j].pc # "idle" /\ Moves(j) /\ Later(job[j], job'[j]) /\ StillBusy(j)
  <2>1. Moves(j) /\ job'[j].pc = "idle"
    BY ZenonT(40), <1>0, <1>2, EndsJob
  <2>2. Stage["idle"] > Stage[a.pc] /\ a.pc # "idle"
    BY <1>2 DEF Stage
  <2>3. Later(job[j], job'[j])
    BY ZenonT(40), <1>1, <2>1, <2>2 DEF Later
  <2>4. StillBusy(j)
    BY ZenonT(40), <1>2 DEF Ends, StillBusy
  <2> QED
    BY ZenonT(40), <1>1, <2>1, <2>2, <2>3, <2>4
<1>3. ASSUME NEW from, NEW to, job[j].pc = from, job'[j].pc = to, Stage[to] > Stage[from], from # "idle", to # "idle",
             Moves(j), job'[j].awaited = job[j].awaited, busy' = busy
      PROVE  job[j].pc # "idle" /\ Moves(j) /\ Later(job[j], job'[j]) /\ StillBusy(j)
  BY ZenonT(40), <1>3 DEF Later, StillBusy
<1>4. CASE Listens(j)
  <2>1. job[j].pc = "listen" /\ job' = [job EXCEPT ![j].pc = "scan"] /\ busy' = busy
    BY ZenonT(40), <1>4 DEF Listens
  <2>2. Moves(j) /\ job'[j].pc = "scan" /\ job'[j].awaited = job[j].awaited
    BY ZenonT(40), <1>0, <2>1, PcJob
  <2>3. Stage["scan"] > Stage["listen"] /\ "listen" # "idle" /\ "scan" # "idle"
    BY DEF Stage
  <2> QED
    BY ZenonT(40), <1>3, <2>1, <2>2, <2>3
<1>5. ASSUME NEW found \in scan_paths_progress, ScanReturns(j, found)
      PROVE  job[j].pc # "idle" /\ Moves(j) /\ Later(job[j], job'[j]) /\ StillBusy(j)
  <2>1. found \in Seq(Path)
    <3>1. present \in SUBSET Path /\ found \in Seq(present)
      BY ZenonT(40), <1>0, <1>5, DuplicatesAssumption DEF TypeOK, scan_paths_progress
    <3> QED
      BY <3>1
  <2>2. job[j].pc = "scan" /\ busy' = busy
    BY ZenonT(40), <1>5 DEF ScanReturns
  <2>3. Moves(j) /\ job'[j].pc = "hash" /\ job'[j].awaited = job[j].awaited
    BY ZenonT(40), <1>0, <1>5, <2>1, ScanJob
  <2>4. Stage["hash"] > Stage["scan"] /\ "scan" # "idle" /\ "hash" # "idle"
    BY DEF Stage
  <2> QED
    BY ZenonT(40), <1>3, <2>2, <2>3, <2>4
<1>6. CASE HashNext(j)
  <2>1. job[j].pc = "hash" /\ busy' = busy
    BY ZenonT(40), <1>6 DEF HashNext
  <2>2. PICK h : /\ Moves(j) /\ job'[j].pc = "hash" /\ job'[j].paths = a.paths /\ job'[j].awaited = a.awaited
                 /\ Len(a.hashed) < Len(a.paths) /\ job'[j].hashed = Append(a.hashed, h)
    BY ZenonT(40), <1>0, <1>1, <1>6, HashJob
  <2>3. PICK hashed \in Seq(Hash \cup {NoHash}) : hashed = a.hashed
    BY ZenonT(40) DEF JobState
  <2>4. PICK paths \in Seq(Path) : paths = a.paths
    BY ZenonT(40) DEF JobState
  <2>5. Len(hashed) < Len(paths)
    BY ZenonT(40), <2>2, <2>3, <2>4
  <2>6. Len(Append(hashed, h)) > Len(hashed) /\ Len(Append(hashed, h)) <= Len(paths)
    BY <2>5
  <2>7. Later(job[j], job'[j])
    BY ZenonT(40), <1>1, <2>1, <2>2, <2>3, <2>4, <2>6 DEF Later
  <2>8. StillBusy(j)
    BY ZenonT(40), <1>1, <2>1, <2>2 DEF StillBusy
  <2> QED
    BY ZenonT(40), <2>1, <2>2, <2>7, <2>8
<1>7. CASE DetectReturns(j) \/ DetectFails(j) \/ RemoveFails(j) \/ Unindex(j) \/ UnindexFails(j)
  <2>1. Ends(j) /\ a.pc \in {"listen", "scan", "hash", "remove", "unindex"}
    BY ZenonT(40), <1>1, <1>7 DEF DetectReturns, DetectFails, RemoveFails, Unindex, UnindexFails
  <2> QED
    BY ZenonT(40), <1>2, <2>1
<1>8. CASE RemoveFile(j)
  <2>1. job[j].pc = "remove" /\ job' = [job EXCEPT ![j].pc = "unindex"] /\ busy' = busy
    BY ZenonT(40), <1>8 DEF RemoveFile
  <2>2. Moves(j) /\ job'[j].pc = "unindex" /\ job'[j].awaited = job[j].awaited
    BY ZenonT(40), <1>0, <2>1, PcJob
  <2>3. Stage["unindex"] > Stage["remove"] /\ "remove" # "idle" /\ "unindex" # "idle"
    BY DEF Stage
  <2> QED
    BY ZenonT(40), <1>3, <2>1, <2>2, <2>3
<1>9. CASE DeleteTimeout(j)
  <2>1. job[j].pc \in {"remove", "unindex"} /\ job[j].awaited /\ busy' = FALSE
    BY ZenonT(40), <1>9 DEF DeleteTimeout
  <2>2. Moves(j) /\ Keeps(j) /\ job'[j].pc = job[j].pc /\ ~job'[j].awaited
    BY ZenonT(40), <1>0, <1>9, TimeoutJob
  <2> QED
    BY ZenonT(40), <2>1, <2>2 DEF Later, StillBusy, Keeps
<1> QED
  BY ZenonT(40), <1>4, <1>5, <1>6, <1>7, <1>8, <1>9 DEF JobStep

\* What a click that begins a call does.
LEMMA ClickBegins ==
  ASSUME TypeOK, NEW j \in Job,
         runDetect(j) \/ \E show \in SUBSET {"hash", "name"} : \E g \in groups, p \in Path : handleDelete(j, show, g, p)
  PROVE  job[j].pc = "idle" /\ Moves(j) /\ job'[j].pc # "idle" /\ job'[j].awaited
<1>1. CASE runDetect(j)
  <2>1. Moves(j) /\ job'[j].awaited /\ job[j].pc = "idle" /\ job'[j].pc \in {"listen", "hash"}
    BY ZenonT(40), <1>1, runDetectJob
  <2> QED
    BY ZenonT(40), <2>1
<1>2. CASE \E show \in SUBSET {"hash", "name"} : \E g \in groups, p \in Path : handleDelete(j, show, g, p)
  <2>1. PICK show \in SUBSET {"hash", "name"}, g \in groups, p \in Path : handleDelete(j, show, g, p)
    BY <1>2
  <2>2. Moves(j) /\ job[j].pc = "idle" /\ job'[j].pc = "remove" /\ job'[j].awaited
    BY ZenonT(40), <2>1, DeleteJob
  <2> QED
    BY ZenonT(40), <2>2
<1> QED
  BY <1>1, <1>2

\* The first half of why BusyEnds holds for any number of files, calls and failures: a
\* call has only finitely many steps to take.
THEOREM JobsAlwaysAdvance == Spec => JobsAdvance
<1> DEFINE A(j) == job[j].pc # "idle" => IF JobStep(j) THEN Later(job[j], job'[j]) ELSE job'[j] = job[j]
<1>1. ASSUME DInv, Next, NEW j \in Job, job[j].pc # "idle", ~ JobStep(j) PROVE job'[j] = job[j]
  <2>0. TypeOK
    BY <1>1 DEF DInv
  <2>1. ASSUME NEW k \in Job, JobStep(k) PROVE job'[j] = job[j]
    BY ZenonT(40), <1>1, <2>1, JobStepAdvances DEF Moves
  <2>2. ASSUME NEW k \in Job,
               runDetect(k) \/ \E show \in SUBSET {"hash", "name"} : \E g \in groups, p \in Path : handleDelete(k, show, g, p)
        PROVE  job'[j] = job[j]
    BY ZenonT(40), <1>1, <2>0, <2>2, ClickBegins DEF Moves
  <2>3. CASE OtherEnds \/ \E p \in Path, h \in Hash : Edit(p, h)
    BY ZenonT(40), <2>3 DEF OtherEnds, Edit
  <2> QED
    BY ZenonT(40), <1>1, <2>1, <2>2, <2>3 DEF Next
<1>2. ASSUME DInv, Next, NEW j \in Job PROVE A(j)
  BY ZenonT(40), <1>1, <1>2, JobStepAdvances
<1>3. DInv /\ [Next]_vars => [\A j \in Job : A(j)]_vars
  BY ZenonT(40), <1>2
<1> QED
  BY <1>3, InitDInv, StepDInv, PTL DEF Spec, JobsAdvance

\* The second half: whatever calls overlap, fail or are given up, the flag that locks
\* the page is set only while a call that will clear it is in progress.
THEOREM BusyAlwaysAwaitsCall == Spec => []BusyAwaitsCall
<1>1. Init => BusyAwaitsCall
  BY ZenonT(40) DEF Init, BusyAwaitsCall
<1>2. DInv /\ BusyAwaitsCall /\ [Next]_vars => BusyAwaitsCall'
  <2> SUFFICES ASSUME DInv, BusyAwaitsCall, [Next]_vars, busy' PROVE \E j \in Job : job'[j].pc # "idle" /\ job'[j].awaited
    BY ZenonT(40) DEF BusyAwaitsCall
  <2>0. TypeOK
    BY DEF DInv
  <2>1. ASSUME NEW k \in Job, JobStep(k) PROVE \E j \in Job : job'[j].pc # "idle" /\ job'[j].awaited
    <3>1. Moves(k) /\ StillBusy(k)
      BY ZenonT(40), <2>1, JobStepAdvances
    <3>2. PICK j \in Job : job[j].pc # "idle" /\ job[j].awaited
      BY ZenonT(40), <3>1 DEF StillBusy, BusyAwaitsCall
    <3>3. job'[j].pc # "idle" /\ job'[j].awaited
      BY ZenonT(40), <3>1, <3>2 DEF StillBusy, Moves
    <3> QED
      BY ZenonT(40), <3>3
  <2>2. ASSUME NEW k \in Job,
               runDetect(k) \/ \E show \in SUBSET {"hash", "name"} : \E g \in groups, p \in Path : handleDelete(k, show, g, p)
        PROVE  \E j \in Job : job'[j].pc # "idle" /\ job'[j].awaited
    BY ZenonT(40), <2>0, <2>2, ClickBegins
  <2>3. CASE OtherEnds
    BY ZenonT(40), <2>3 DEF OtherEnds
  <2>4. CASE UNCHANGED <<busy, job>>
    BY ZenonT(40), <2>4 DEF BusyAwaitsCall
  <2>5. CASE UNCHANGED vars \/ \E p \in Path, h \in Hash : Edit(p, h)
    BY ZenonT(40), <2>4, <2>5 DEF Edit, vars
  <2> QED
    BY ZenonT(40), <2>1, <2>2, <2>3, <2>5 DEF Next
<1> QED
  BY <1>1, <1>2, InitDInv, StepDInv, PTL DEF Spec

=============================================================================
