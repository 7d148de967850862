---------------------------- MODULE IndexPromise ----------------------------
(***************************************************************************)
(* What the indexing of a directory promises to those who search in it,    *)
(* without pools, tasks, walks and state files: a caller that owns a       *)
(* directory undertakes to index files, settles each of them, by making it *)
(* findable or by giving it up, and gives the directory back only when     *)
(* nothing is due any more.  A file given up may still be published with a *)
(* later one.  What can be found stays so.                                 *)
(***************************************************************************)
CONSTANTS Caller, Nobody, Dir, Path

VARIABLES
  owner,   \* the caller that may write to a directory, or Nobody
  due,     \* the files each caller has undertaken to index and not settled
  found,   \* the files that a search in a directory can find
  held     \* the other files that the next publication in it makes findable

vars == <<owner, due, found, held>>

Init ==
  /\ owner = [d \in Dir |-> Nobody]
  /\ due = [c \in Caller |-> {}]
  /\ found = [d \in Dir |-> {}]
  /\ held = [d \in Dir |-> {}]

Acquire(c, d) ==
  /\ owner[d] = Nobody /\ due[c] = {}
  /\ owner' = [owner EXCEPT ![d] = c]
  /\ UNCHANGED <<due, found, held>>

Undertake(c, d, p) ==
  /\ owner[d] = c
  /\ due' = [due EXCEPT ![c] = @ \cup {p}]
  /\ UNCHANGED <<owner, found, held>>

\* A file that was undertaken twice may still be due after it is settled once.
Settled(c, p) ==
  /\ p \in due[c]
  /\ due' \in {due, [due EXCEPT ![c] = @ \ {p}]}

Publishes(d, ps) ==
  /\ found' = [found EXCEPT ![d] = @ \cup held[d] \cup ps]
  /\ held' = [held EXCEPT ![d] = {}]

Publish(c, d, p) ==
  /\ owner[d] = c /\ Settled(c, p)
  /\ Publishes(d, {p})
  /\ UNCHANGED owner

\* Nothing is published, and the file may be held back; or only the files that were
\* held back are published.
GiveUp(c, d, p) ==
  /\ owner[d] = c /\ Settled(c, p)
  /\ \/ /\ held' \in {held, [held EXCEPT ![d] = @ \cup ({p} \ found[d])]}
        /\ UNCHANGED found
     \/ Publishes(d, {})
  /\ UNCHANGED owner

Release(c, d) ==
  /\ owner[d] = c /\ due[c] = {}
  /\ owner' = [owner EXCEPT ![d] = Nobody]
  /\ held' = [held EXCEPT ![d] = {}]
  /\ UNCHANGED <<due, found>>

\* The process ends: what is due or held back is forgotten, what is found is not.
Restart ==
  /\ owner' = [d \in Dir |-> Nobody]
  /\ due' = [c \in Caller |-> {}]
  /\ held' = [d \in Dir |-> {}]
  /\ UNCHANGED found

Next ==
  \/ \E c \in Caller, d \in Dir :
       \/ Acquire(c, d) \/ Release(c, d)
       \/ \E p \in Path : Undertake(c, d, p) \/ Publish(c, d, p) \/ GiveUp(c, d, p)
  \/ Restart

Spec == Init /\ [][Next]_vars

=============================================================================
