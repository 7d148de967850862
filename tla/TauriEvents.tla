----------------------------- MODULE TauriEvents -----------------------------
(***************************************************************************)
(* The subscription hook useTauriEvents and what App.tsx does with it.     *)
(*                                                                         *)
(* App passes a new array of subscribe functions and a new onError at      *)
(* every render, so every render cancels the effect of the previous one    *)
(* and starts another.  An effect subscribes to the events one after the   *)
(* other, each with retries; what listen() registers, and what unlisten()  *)
(* removes, takes effect in the webview some time later (external).        *)
(***************************************************************************)
EXTENDS Naturals, FiniteSets

CONSTANTS
  MaxRenders,   \* bound on the renders of App
  Events,       \* number of subscribe functions
  Retries       \* options.retries

ASSUME TauriEventsAssumption ==
  /\ MaxRenders \in Nat \ {0} /\ Events \in Nat \ {0, 1}
  /\ Retries \in Nat

VARIABLES
  gen,        \* the number of renders, the last one's effect
  mounted,    \* whether the effect of gen has not been cleaned up
  eff,        \* per effect: its async loop
  listeners,  \* <<effect, event>> registered in the webview
  leaving,    \* those whose unlisten() was called
  backend,    \* what the pipeline has emitted: nothing, progress, index_done
  idxRunning  \* the flag of App

vars == <<gen, mounted, eff, listeners, leaving, backend, idxRunning>>

Gen == 1 .. MaxRenders
Event == 1 .. Events

\* The first two of App's subscribe functions.
Progress == 1
Done == 2

Idle == [pc |-> "none", i |-> 1, attempt |-> 0, cancelled |-> FALSE,
         unlisteners |-> {}, givenUp |-> {}]

Fresh == [pc |-> "listen", i |-> 1, attempt |-> 0, cancelled |-> FALSE,
          unlisteners |-> {}, givenUp |-> {}]

Effect ==
  [pc : {"none", "listen", "listened", "backoff", "end"}, i : 1 .. Events + 1, attempt : 0 .. Retries,
   cancelled : BOOLEAN, unlisteners : SUBSET Event, givenUp : SUBSET Event]

\* Every variable has its type; in particular no subscribe function is tried
\* more than Retries + 1 times and unlisten() is called of listeners only.
TypeOK ==
  /\ gen \in Gen /\ mounted \in BOOLEAN
  /\ eff \in [Gen -> Effect]
  /\ listeners \subseteq Gen \X Event /\ leaving \subseteq listeners
  /\ backend \in {"idle", "progress", "done"} /\ idxRunning \in BOOLEAN

-----------------------------------------------------------------------------
(* The effect.  givenUp is a history of the events whose attempts failed.   *)

\* Mutation: the loop skips a subscribe function.
NextFn_SkipsOne(e) == [e EXCEPT !.i = e.i + 2, !.attempt = 0, !.pc = IF e.i + 1 < Events THEN "listen" ELSE "end"]

\* The loop goes on to the next subscribe function.
NextFn(e) == [e EXCEPT !.i = e.i + 1, !.attempt = 0, !.pc = IF e.i < Events THEN "listen" ELSE "end"]

\* listen() registers the listener; its promise is not yet resolved.
Listen(g) ==
  /\ eff[g].pc = "listen"
  /\ listeners' = listeners \cup {<<g, eff[g].i>>}
  /\ eff' = [eff EXCEPT ![g].pc = "listened"]
  /\ UNCHANGED <<gen, mounted, leaving, backend, idxRunning>>

\* Mutation: the handle replaces those collected before.
Collect_Last(e) == [e EXCEPT !.unlisteners = IF e.cancelled THEN @ ELSE {e.i}]

\* if (!cancelled) unlisteners.push(un)
Collect(e) == [e EXCEPT !.unlisteners = IF e.cancelled THEN @ ELSE @ \cup {e.i}]

\* The loop resumes after the await.
Resume(g) ==
  /\ eff[g].pc = "listened"
  /\ eff' = [eff EXCEPT ![g] = NextFn(Collect(eff[g]))]
  /\ UNCHANGED <<gen, mounted, listeners, leaving, backend, idxRunning>>

\* The event is not subscribed to.
GiveUp(e) == NextFn([e EXCEPT !.givenUp = e.givenUp \cup {e.i}])

\* Mutation: a retry does not count.
Retry_NoCount(e) == [e EXCEPT !.pc = "backoff"]

\* Mutation: one attempt too many.
Retry_OneMore(e) ==
  IF e.attempt <= Retries THEN [e EXCEPT !.attempt = e.attempt + 1, !.pc = "backoff"] ELSE GiveUp(e)

\* The catch: back-off and another attempt, or the event is given up.
Retry(e) ==
  IF e.attempt < Retries THEN [e EXCEPT !.attempt = e.attempt + 1, !.pc = "backoff"] ELSE GiveUp(e)

ListenFails(g) ==
  /\ eff[g].pc = "listen"
  /\ eff' = [eff EXCEPT ![g] = Retry(eff[g])]
  /\ UNCHANGED <<gen, mounted, listeners, leaving, backend, idxRunning>>

BackoffOver(g) ==
  /\ eff[g].pc = "backoff"
  /\ eff' = [eff EXCEPT ![g].pc = "listen"]
  /\ UNCHANGED <<gen, mounted, listeners, leaving, backend, idxRunning>>

\* The listeners whose handles the cleanup of effect g calls.
Dropped(g) == {<<g, n>> : n \in eff[g].unlisteners}

Cancelled(e) == [e EXCEPT !.cancelled = TRUE, !.unlisteners = {}]

\* A render: the cleanup of the previous effect, then the next effect.
Render ==
  /\ mounted /\ gen < MaxRenders
  /\ leaving' = leaving \cup Dropped(gen)
  /\ gen' = gen + 1
  /\ eff' = [eff EXCEPT ![gen] = Cancelled(eff[gen]), ![gen + 1] = Fresh]
  /\ UNCHANGED <<mounted, listeners, backend, idxRunning>>

Unmount ==
  /\ mounted
  /\ mounted' = FALSE
  /\ leaving' = leaving \cup Dropped(gen)
  /\ eff' = [eff EXCEPT ![gen] = Cancelled(eff[gen])]
  /\ UNCHANGED <<gen, listeners, backend, idxRunning>>

\* unlisten() takes effect.
Unlistened(l) ==
  /\ l \in leaving
  /\ leaving' = leaving \ {l} /\ listeners' = listeners \ {l}
  /\ UNCHANGED <<gen, mounted, eff, backend, idxRunning>>

-----------------------------------------------------------------------------
(* The events of the pipeline: one who listens, hears.                      *)

Heard(n) == \E l \in listeners : l[2] = n

onIndexProgress ==
  /\ backend \in {"idle", "progress"}
  /\ backend' = "progress"
  /\ idxRunning' = (idxRunning \/ Heard(Progress))
  /\ UNCHANGED <<gen, mounted, eff, listeners, leaving>>

onIndexDone ==
  /\ backend = "progress"
  /\ backend' = "done"
  /\ idxRunning' = (idxRunning /\ ~Heard(Done))
  /\ UNCHANGED <<gen, mounted, eff, listeners, leaving>>

Init ==
  /\ gen = 1 /\ mounted = TRUE
  /\ eff = [g \in Gen |-> IF g = 1 THEN Fresh ELSE Idle]
  /\ listeners = {} /\ leaving = {}
  /\ backend = "idle" /\ idxRunning = FALSE

Loop(g) == Listen(g) \/ Resume(g) \/ ListenFails(g) \/ BackoffOver(g)

Next ==
  \/ \E g \in Gen : Loop(g)
  \/ Render \/ Unmount
  \/ \E l \in leaving : Unlistened(l)
  \/ onIndexProgress \/ onIndexDone

Spec == Init /\ [][Next]_vars

\* The promises of listen() settle, the timers fire, unlisten() takes effect.
Fairness ==
  /\ \A g \in Gen : WF_vars(Loop(g))
  /\ \A l \in Gen \X Event : WF_vars(Unlistened(l))

FairSpec == Spec /\ Fairness

-----------------------------------------------------------------------------

\* The listeners of effect g that stay.
Held(g) == {n \in Event : <<g, n>> \in listeners \ leaving}

\* The effect of the last render holds the handle of each listener it has,
\* except the one whose promise is about to resolve: the cleanups of earlier
\* effects, and their loops that are still running, take none of them away,
\* and its own cleanup will find them all.
HandlesComplete ==
  mounted =>
    eff[gen].unlisteners = Held(gen) \ (IF eff[gen].pc = "listened" THEN {eff[gen].i} ELSE {})

\* The effect of the last render comes to an end, and from then on every event
\* has its listener, except those given up after Retries + 1 attempts: neither
\* retries nor the cleanups of earlier effects leave an event unheard.
SubscribedAtLast ==
  \A g \in Gen :
    <>[](gen = g /\ mounted) => <>[](eff[g].pc = "end" /\ Held(g) = Event \ eff[g].givenUp)

\* Once the subscriptions of the last render are set up, index_done is heard and
\* the page stops saying that the index is being built, whatever listeners come
\* and go with the earlier effects.  (During a new set-up the event is lost.)
DoneIsHeard ==
  [][backend # "done" /\ backend' = "done" /\ mounted /\ eff[gen].pc = "end" /\ Done \notin eff[gen].givenUp
       => ~idxRunning']_vars

(* A statement of the repository that the code does not keep.               *)

\* "The subscriptions are cancelled on unmount or change": an effect that was
\* cleaned up and has come to its end has no listener (useTauriEvents.ts:3).
NoListenerLeft ==
  \A g \in Gen : eff[g].cancelled /\ eff[g].pc = "end" => Held(g) = {}

=============================================================================
