-------------------------- MODULE PipelinePromise --------------------------
(***************************************************************************)
(* The pipeline as an implementation of IndexPromise: the owner of a       *)
(* directory is the call with its writer lock, due are the files in the    *)
(* pool whose commit is still to come, found are the paths of the          *)
(* committed documents, held those of the documents in the writer that     *)
(* were not committed because a commit failed.                             *)
(***************************************************************************)
EXTENDS Pipeline

Due(r) == {t.doc.path : t \in {u \in tasks : u.run = r /\ u.st \in {"queued", "built"}}}

FoundIn(d) == {doc.path : doc \in Live(index[d])}

HeldIn(d) == {doc.path : doc \in Live(staged[d])} \ FoundIn(d)

Promise == INSTANCE IndexPromise WITH
  Caller <- Run, Nobody <- NoRun, owner <- lock,
  due <- [r \in Run |-> Due(r)], found <- [d \in Dir |-> FoundIn(d)],
  held <- [d \in Dir |-> HeldIn(d)]

\* Every behaviour of the pipeline, with its pool that outlives the call, failing
\* commits, the daily thread and crashes, is one that IndexPromise allows: documents
\* are only written by the call that owns the directory, for files that it counted,
\* the writer is given back only when every counted file is settled, and a file once
\* found stays found.  (Unless some path is a bare word.)
PipelineKeepsPromise == Promise!Spec

=============================================================================
