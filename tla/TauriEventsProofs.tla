-------------------------- MODULE TauriEventsProofs --------------------------
(***************************************************************************)
(* What TLAPS proves of TauriEvents for every number of renders, events    *)
(* and retries.                                                            *)
(***************************************************************************)
EXTENDS TauriEvents, TLAPS

\* Retry leaves a loop that still awaits its event, or one that has moved on
\* to the next event; the handles and the flag of the cleanup are untouched.
LEMMA RetryShape ==
  ASSUME NEW e \in Effect, e.i \in Event
  PROVE  /\ Retry(e) \in Effect
         /\ Retry(e).unlisteners = e.unlisteners /\ Retry(e).cancelled = e.cancelled
         /\ \/ Retry(e).pc = "backoff" /\ Retry(e).i = e.i
            \/ /\ Retry(e).i = e.i + 1
               /\ Retry(e).pc = IF e.i < Events THEN "listen" ELSE "end"
<1>1. CASE e.attempt < Retries
  <2>1. Retry(e) = [e EXCEPT !.attempt = e.attempt + 1, !.pc = "backoff"]
    BY <1>1 DEF Retry
  <2>2. e.attempt + 1 \in 0 .. Retries
    BY <1>1, TauriEventsAssumption DEF Effect
  <2> QED
    BY ZenonT(40), <2>1, <2>2 DEF Effect
<1>2. CASE ~(e.attempt < Retries)
  <2> DEFINE f == [e EXCEPT !.givenUp = e.givenUp \cup {e.i}]
  <2>1. Retry(e) = NextFn(f)
    BY <1>2 DEF Retry, GiveUp
  <2>2. f \in Effect /\ f.i = e.i /\ f.unlisteners = e.unlisteners /\ f.cancelled = e.cancelled
    BY DEF Effect
  <2> HIDE DEF f
  <2>3. f.i + 1 \in 1 .. Events + 1 /\ 0 \in 0 .. Retries
    BY <2>2, TauriEventsAssumption DEF Event
  <2> QED
    BY ZenonT(40), <2>1, <2>2, <2>3 DEF NextFn, Effect
<1> QED
  BY <1>1, <1>2

\* After a resumed await the loop is at the next event, with the handle
\* collected unless the effect was cancelled meanwhile.
LEMMA ResumeShape ==
  ASSUME NEW e \in Effect, e.i \in Event
  PROVE  /\ NextFn(Collect(e)) \in Effect
         /\ NextFn(Collect(e)).unlisteners = IF e.cancelled THEN e.unlisteners
                                             ELSE e.unlisteners \cup {e.i}
         /\ NextFn(Collect(e)).cancelled = e.cancelled
         /\ NextFn(Collect(e)).i = e.i + 1
         /\ NextFn(Collect(e)).pc = IF e.i < Events THEN "listen" ELSE "end"
<1> DEFINE f == Collect(e)
<1>1. f \in Effect /\ f.i = e.i /\ f.cancelled = e.cancelled
  BY DEF Collect, Effect
<1>2. f.unlisteners = IF e.cancelled THEN e.unlisteners ELSE e.unlisteners \cup {e.i}
  BY DEF Collect, Effect
<1>3. f.i + 1 \in 1 .. Events + 1 /\ 0 \in 0 .. Retries
  BY <1>1, TauriEventsAssumption DEF Event
<1> HIDE DEF f
<1>4. NextFn(f) \in Effect
  BY ZenonT(40), <1>1, <1>3 DEF NextFn, Effect
<1>5. /\ NextFn(f).unlisteners = f.unlisteners /\ NextFn(f).cancelled = f.cancelled
      /\ NextFn(f).i = f.i + 1
      /\ NextFn(f).pc = IF f.i < Events THEN "listen" ELSE "end"
  BY <1>1 DEF NextFn, Effect
<1> QED
  BY <1>1, <1>2, <1>4, <1>5 DEF f

\* A loop that awaits something is at one of the events.
LoopInRange == \A g \in Gen : eff[g].pc \in {"listen", "listened", "backoff"} => eff[g].i \in Event

\* An effect that has not started has no listener; the effect of the last
\* render, until it is cleaned up, is not cancelled, none of its listeners is
\* leaving, and it has listened only to the events its loop has passed, or to
\* the one it awaits.
Order ==
  /\ \A g \in Gen : g > gen => eff[g].pc = "none"
  /\ \A l \in listeners : l[1] <= gen
  /\ mounted => /\ ~eff[gen].cancelled
                /\ \A l \in leaving : l[1] # gen
                /\ \A l \in listeners : l[1] = gen =>
                     l[2] < eff[gen].i \/ (l[2] = eff[gen].i /\ eff[gen].pc = "listened")
                /\ eff[gen].pc = "listened" => <<gen, eff[gen].i>> \in listeners

IInv == TypeOK /\ LoopInRange /\ Order /\ HandlesComplete

\* The invariant holds initially.
LEMMA InitInv == Init => IInv
<1> SUFFICES ASSUME Init PROVE IInv
  OBVIOUS
<1>1. 1 \in 1 .. Events + 1 /\ 0 \in 0 .. Retries /\ 1 \in Gen /\ 1 \in Event
  BY TauriEventsAssumption DEF Gen, Event
<1>2. Fresh \in Effect /\ Idle \in Effect
  BY <1>1 DEF Fresh, Idle, Effect
<1>3. eff[1] = Fresh /\ \A g \in Gen : g # 1 => eff[g] = Idle
  BY <1>1 DEF Init
<1>4. TypeOK
  BY ZenonT(40), <1>1, <1>2 DEF Init, TypeOK
<1>5. LoopInRange
  BY <1>1, <1>3 DEF LoopInRange, Fresh, Idle
<1>6. Order
  BY <1>1, <1>3 DEF Init, Order, Fresh, Idle, Gen
<1>7. HandlesComplete
  BY <1>1, <1>3 DEF Init, HandlesComplete, Held, Fresh
<1> QED
  BY <1>4, <1>5, <1>6, <1>7 DEF IInv

\* A step of a loop that registers nothing: it resumes with the handle
\* collected, or it goes on after a failure or a back-off.
LEMMA MoveOn ==
  ASSUME IInv, NEW g \in Gen, NEW e \in Effect,
         eff[g].pc \in {"listen", "listened", "backoff"},
         eff' = [eff EXCEPT ![g] = e],
         UNCHANGED <<gen, mounted, listeners, leaving, backend, idxRunning>>,
         e.pc \in {"listen", "backoff"} => e.i \in Event,
         e.pc \in {"listen", "backoff", "end"},
         e.cancelled = eff[g].cancelled,
         IF eff[g].pc = "listened"
         THEN /\ e.i = eff[g].i + 1
              /\ e.unlisteners = IF e.cancelled THEN eff[g].unlisteners
                                 ELSE eff[g].unlisteners \cup {eff[g].i}
         ELSE e.i >= eff[g].i /\ e.unlisteners = eff[g].unlisteners
  PROVE  IInv'
<1>t. TypeOK /\ LoopInRange /\ Order /\ HandlesComplete
  BY DEF IInv
<1>1. eff' \in [Gen -> Effect] /\ eff'[g] = e /\ \A h \in Gen : h # g => eff'[h] = eff[h]
  BY <1>t DEF TypeOK
<1>2. g <= gen /\ eff[g].i \in Event /\ gen \in Gen /\ gen' = gen /\ mounted' = mounted
  BY <1>t DEF Order, LoopInRange, TypeOK, Gen
<1>3. eff[g].i \in Nat /\ e.i \in Nat /\ \A l \in listeners : l[2] \in Nat
  <2>1. eff[g].i \in Nat /\ e.i \in Nat
    BY <1>t, TauriEventsAssumption DEF TypeOK, Effect
  <2>2. \A l \in listeners : l[2] \in Event
    BY <1>t DEF TypeOK
  <2> QED
    BY <2>1, <2>2, TauriEventsAssumption DEF Event
<1>4. TypeOK'
  BY <1>t, <1>1 DEF TypeOK
<1>5. LoopInRange'
  BY <1>t, <1>1 DEF LoopInRange
<1>6. Order'
  <2>1. \A h \in Gen : h > gen' => eff'[h].pc = "none"
    BY <1>t, <1>1, <1>2 DEF Order, Gen
  <2>2. CASE mounted /\ gen = g
    BY <1>t, <1>1, <1>2, <1>3, <2>1, <2>2 DEF Order
  <2>3. CASE ~mounted \/ gen # g
    BY <1>t, <1>1, <1>2, <2>1, <2>3 DEF Order
  <2> QED
    BY <2>2, <2>3
<1>7. HandlesComplete'
  <2>1. Held(gen)' = Held(gen)
    BY <1>2 DEF Held
  <2>2. CASE mounted /\ gen = g /\ eff[g].pc = "listened"
    <3>1. eff[g].i \in Held(g) /\ ~eff[g].cancelled
      BY <1>t, <1>2, <2>2 DEF Order, Held
    <3> QED
      BY <1>t, <1>1, <1>2, <2>1, <2>2, <3>1 DEF HandlesComplete
  <2>3. CASE mounted /\ gen = g /\ eff[g].pc # "listened"
    BY <1>t, <1>1, <1>2, <2>1, <2>3 DEF HandlesComplete
  <2>4. CASE ~mounted \/ gen # g
    BY <1>t, <1>1, <1>2, <2>1, <2>4 DEF HandlesComplete
  <2> QED
    BY <2>2, <2>3, <2>4
<1> QED
  BY <1>4, <1>5, <1>6, <1>7 DEF IInv

\* Every step preserves the invariant.  A loop step of an effect other than
\* the last one touches neither its record nor its listeners.
LEMMA StepInv == IInv /\ [Next]_vars => IInv'
<1> SUFFICES ASSUME IInv, [Next]_vars PROVE IInv'
  OBVIOUS
<1>t. TypeOK /\ LoopInRange /\ Order /\ HandlesComplete
  BY DEF IInv
<1>1. ASSUME NEW g \in Gen, Listen(g) PROVE IInv'
  <2>1. eff[g].i \in Event /\ gen' = gen /\ mounted' = mounted /\ leaving' = leaving
    BY <1>1, <1>t DEF Listen, LoopInRange
  <2>2. eff' \in [Gen -> Effect] /\ \A h \in Gen : h # g => eff'[h] = eff[h]
    BY <1>1, <1>t DEF Listen, TypeOK, Effect
  <2>3. /\ eff'[g].pc = "listened" /\ eff'[g].i = eff[g].i
        /\ eff'[g].cancelled = eff[g].cancelled /\ eff'[g].unlisteners = eff[g].unlisteners
    BY <1>1, <1>t DEF Listen, TypeOK, Effect
  <2>4. listeners' = listeners \cup {<<g, eff[g].i>>}
    BY <1>1 DEF Listen
  <2>5. TypeOK'
    BY <1>1, <1>t, <2>1, <2>2, <2>4 DEF Listen, TypeOK
  <2>6. LoopInRange'
    BY <1>t, <2>1, <2>2, <2>3 DEF LoopInRange
  <2>7. Order'
    <3>1. g <= gen /\ gen \in Gen
      BY <1>1, <1>t DEF Listen, Order, TypeOK, Gen
    <3>2. \A h \in Gen : h > gen' => eff'[h].pc = "none"
      BY <1>t, <2>1, <2>2, <3>1 DEF Order, Gen
    <3>3. \A l \in leaving : l[1] # gen \/ ~mounted
      BY <1>t DEF Order
    <3>4. CASE mounted /\ gen = g
      BY <1>1, <1>t, <2>1, <2>3, <2>4, <3>1, <3>2, <3>3, <3>4 DEF Order, Listen
    <3>5. CASE ~mounted \/ gen # g
      BY <1>t, <2>1, <2>2, <2>4, <3>1, <3>2, <3>3, <3>5 DEF Order
    <3> QED
      BY <3>4, <3>5
  <2>8. HandlesComplete'
    <3>1. CASE mounted /\ gen = g
      <4>1. <<g, eff[g].i>> \notin listeners /\ <<g, eff[g].i>> \notin leaving
        <5>1. eff[g].i \in Nat
          BY <2>1, TauriEventsAssumption DEF Event
        <5> QED
          BY <1>1, <1>t, <3>1, <5>1 DEF Order, Listen, TypeOK
      <4>2. Held(gen)' = Held(gen) \cup {eff[g].i}
        BY <2>1, <2>4, <3>1, <4>1 DEF Held
      <4>3. eff[g].unlisteners = Held(gen) /\ eff[g].i \notin Held(gen)
        BY <1>1, <1>t, <3>1, <4>1 DEF HandlesComplete, Listen, Held
      <4> QED
        BY <2>1, <2>3, <3>1, <4>2, <4>3 DEF HandlesComplete
    <3>2. CASE ~mounted \/ gen # g
      <4>1. gen \in Gen /\ (gen # g => Held(gen)' = Held(gen))
        BY <1>t, <2>1, <2>4 DEF Held, TypeOK
      <4> QED
        BY <1>t, <2>1, <2>2, <3>2, <4>1 DEF HandlesComplete
    <3> QED
      BY <3>1, <3>2
  <2> QED
    BY <2>5, <2>6, <2>7, <2>8 DEF IInv
<1>2. ASSUME NEW g \in Gen, Resume(g) PROVE IInv'
  <2>1. eff[g] \in Effect /\ eff[g].i \in Event /\ eff[g].pc = "listened"
    BY <1>2, <1>t DEF Resume, LoopInRange, TypeOK
  <2>2. eff' = [eff EXCEPT ![g] = NextFn(Collect(eff[g]))]
        /\ UNCHANGED <<gen, mounted, listeners, leaving, backend, idxRunning>>
    BY <1>2 DEF Resume
  <2>3. eff[g].i < Events => eff[g].i + 1 \in Event
    BY <2>1, TauriEventsAssumption DEF Event
  <2> DEFINE e == NextFn(Collect(eff[g]))
  <2>4. /\ e \in Effect /\ e.cancelled = eff[g].cancelled /\ e.i = eff[g].i + 1
        /\ e.unlisteners = IF eff[g].cancelled THEN eff[g].unlisteners
                           ELSE eff[g].unlisteners \cup {eff[g].i}
        /\ e.pc = IF eff[g].i < Events THEN "listen" ELSE "end"
    BY <2>1, ResumeShape
  <2> HIDE DEF e
  <2>5. eff' = [eff EXCEPT ![g] = e]
    BY <2>2 DEF e
  <2> QED
    BY ZenonT(40), <2>1, <2>2, <2>3, <2>4, <2>5, MoveOn
<1>3. ASSUME NEW g \in Gen, ListenFails(g) PROVE IInv'
  <2>1. eff[g] \in Effect /\ eff[g].i \in Event /\ eff[g].pc = "listen"
    BY <1>3, <1>t DEF ListenFails, LoopInRange, TypeOK
  <2>2. eff' = [eff EXCEPT ![g] = Retry(eff[g])]
        /\ UNCHANGED <<gen, mounted, listeners, leaving, backend, idxRunning>>
    BY <1>3 DEF ListenFails
  <2>3. (eff[g].i < Events => eff[g].i + 1 \in Event) /\ eff[g].i + 1 >= eff[g].i /\ eff[g].i >= eff[g].i
    BY <2>1, TauriEventsAssumption DEF Event
  <2> DEFINE e == Retry(eff[g])
  <2>4. /\ e \in Effect
        /\ e.unlisteners = eff[g].unlisteners /\ e.cancelled = eff[g].cancelled
        /\ \/ e.pc = "backoff" /\ e.i = eff[g].i
           \/ e.i = eff[g].i + 1 /\ e.pc = IF eff[g].i < Events THEN "listen" ELSE "end"
    BY <2>1, RetryShape
  <2> HIDE DEF e
  <2>5. eff' = [eff EXCEPT ![g] = e]
    BY <2>2 DEF e
  <2> QED
    BY ZenonT(40), <2>1, <2>2, <2>3, <2>4, <2>5, MoveOn
<1>4. ASSUME NEW g \in Gen, BackoffOver(g) PROVE IInv'
  <2>1. eff[g] \in Effect /\ eff[g].i \in Event /\ eff[g].pc = "backoff"
    BY <1>4, <1>t DEF BackoffOver, LoopInRange, TypeOK
  <2> DEFINE e == [eff[g] EXCEPT !.pc = "listen"]
  <2>2. /\ e \in Effect /\ e.pc = "listen" /\ e.i = eff[g].i
        /\ e.unlisteners = eff[g].unlisteners /\ e.cancelled = eff[g].cancelled
    BY <2>1 DEF Effect
  <2>3. eff' = [eff EXCEPT ![g] = e]
    BY <1>4 DEF BackoffOver
  <2>4. eff[g].i >= eff[g].i
    BY <2>1, TauriEventsAssumption DEF Event
  <2>5. UNCHANGED <<gen, mounted, listeners, leaving, backend, idxRunning>>
    BY <1>4 DEF BackoffOver
  <2> HIDE DEF e
  <2> QED
    BY ZenonT(40), <2>1, <2>2, <2>3, <2>4, <2>5, MoveOn
<1>5. CASE Render
  <2>1. /\ mounted /\ mounted' /\ gen' = gen + 1 /\ gen + 1 \in Gen /\ gen \in Gen
        /\ gen \in Nat /\ gen + 1 # gen /\ listeners' = listeners
    BY <1>5, <1>t, TauriEventsAssumption DEF Render, TypeOK, Gen
  <2>2. Fresh \in Effect /\ 1 \in Event
    BY TauriEventsAssumption DEF Fresh, Effect, Event
  <2> DEFINE e == Cancelled(eff[gen])
  <2>3. e \in Effect /\ e.cancelled = TRUE /\ e.pc = eff[gen].pc /\ e.i = eff[gen].i
    BY ZenonT(40), <1>t, <2>1 DEF Cancelled, Effect, TypeOK
  <2>4. eff' = [eff EXCEPT ![gen] = e, ![gen + 1] = Fresh]
    BY <1>5 DEF Render
  <2> HIDE DEF e
  <2>5. /\ eff' \in [Gen -> Effect] /\ eff'[gen + 1] = Fresh /\ eff'[gen] = e
        /\ \A h \in Gen : h # gen /\ h # gen + 1 => eff'[h] = eff[h]
    BY <1>t, <2>1, <2>2, <2>3, <2>4 DEF TypeOK
  <2>6. Dropped(gen) \subseteq listeners
    BY <1>t, <2>1 DEF Dropped, HandlesComplete, Held
  <2>7. \A l \in listeners : l[1] # gen + 1 /\ l[1] \in Nat /\ l[1] <= gen
    BY <1>t, <2>1, TauriEventsAssumption DEF Order, TypeOK, Gen
  <2>8. leaving' = leaving \cup Dropped(gen)
    BY <1>5 DEF Render
  <2>9. TypeOK'
    BY <1>5, <1>t, <2>1, <2>5, <2>6, <2>8 DEF Render, TypeOK
  <2>10. LoopInRange'
    BY <1>t, <2>1, <2>2, <2>3, <2>5 DEF LoopInRange, Fresh
  <2>11. \A l \in leaving' : l[1] # gen + 1
    BY <1>t, <2>6, <2>7, <2>8 DEF TypeOK
  <2>12. Order'
    <3>1. \A h \in Gen : h > gen' => eff'[h].pc = "none"
      BY <1>t, <2>1, <2>5 DEF Order, Gen
    <3>2. \A l \in listeners' : l[1] <= gen'
      BY <2>1, <2>7
    <3> QED
      BY <2>1, <2>5, <2>7, <2>11, <3>1, <3>2 DEF Order, Fresh
  <2>13. HandlesComplete'
    <3>1. Held(gen)' = {}
      BY <2>1, <2>7 DEF Held
    <3> QED
      BY <2>1, <2>5, <3>1 DEF HandlesComplete, Fresh
  <2> QED
    BY <2>9, <2>10, <2>12, <2>13 DEF IInv
<1>6. CASE Unmount
  <2>1. /\ mounted /\ ~mounted' /\ gen' = gen /\ gen \in Gen /\ listeners' = listeners
    BY <1>6, <1>t DEF Unmount, TypeOK
  <2> DEFINE e == Cancelled(eff[gen])
  <2>3. e \in Effect /\ e.cancelled = TRUE /\ e.pc = eff[gen].pc /\ e.i = eff[gen].i
    BY ZenonT(40), <1>t, <2>1 DEF Cancelled, Effect, TypeOK
  <2>4. eff' = [eff EXCEPT ![gen] = e]
    BY <1>6 DEF Unmount
  <2> HIDE DEF e
  <2>5. eff' \in [Gen -> Effect] /\ eff'[gen] = e /\ \A h \in Gen : h # gen => eff'[h] = eff[h]
    BY <1>t, <2>1, <2>3, <2>4 DEF TypeOK
  <2>6. Dropped(gen) \subseteq listeners
    BY <1>t, <2>1 DEF Dropped, HandlesComplete, Held
  <2>7. TypeOK'
    BY ZenonT(40), <1>6, <1>t, <2>1, <2>5, <2>6 DEF Unmount, TypeOK
  <2>8. LoopInRange'
    BY <1>t, <2>1, <2>3, <2>5 DEF LoopInRange
  <2>9. Order'
    BY <1>t, <2>1, <2>3, <2>5 DEF Order
  <2>10. HandlesComplete'
    BY <2>1 DEF HandlesComplete
  <2> QED
    BY <2>7, <2>8, <2>9, <2>10 DEF IInv
<1>7. ASSUME NEW l \in leaving, Unlistened(l) PROVE IInv'
  <2>1. /\ leaving' = leaving \ {l} /\ listeners' = listeners \ {l}
        /\ UNCHANGED <<gen, mounted, eff, backend, idxRunning>>
    BY <1>7 DEF Unlistened
  <2>2. TypeOK'
    BY <1>t, <2>1 DEF TypeOK
  <2>3. LoopInRange'
    BY <1>t, <2>1 DEF LoopInRange
  <2>4. mounted => l[1] # gen
    BY <1>t DEF Order
  <2>5. Order'
    BY <1>t, <2>1, <2>4 DEF Order
  <2>6. HandlesComplete'
    <3>1. mounted => Held(gen)' = Held(gen)
      BY <2>1, <2>4 DEF Held
    <3> QED
      BY <1>t, <2>1, <3>1 DEF HandlesComplete
  <2> QED
    BY <2>2, <2>3, <2>5, <2>6 DEF IInv
<1>8. CASE onIndexProgress \/ onIndexDone
  <2>1. /\ UNCHANGED <<gen, mounted, eff, listeners, leaving>>
        /\ backend' \in {"idle", "progress", "done"} /\ idxRunning' \in BOOLEAN
    BY ZenonT(40), <1>8, <1>t DEF onIndexProgress, onIndexDone, TypeOK
  <2> QED
    BY <1>t, <2>1 DEF IInv, TypeOK, LoopInRange, Order, HandlesComplete, Held
<1>9. CASE UNCHANGED vars
  BY <1>t, <1>9 DEF vars, IInv, TypeOK, LoopInRange, Order, HandlesComplete, Held
<1> QED
  BY <1>1, <1>2, <1>3, <1>4, <1>5, <1>6, <1>7, <1>8, <1>9 DEF Next, Loop

\* However many renders cut each other's subscriptions short, the effect of
\* the last one can take back exactly the listeners it has.
THEOREM HandlesAlwaysComplete == Spec => []HandlesComplete
<1>1. IInv => HandlesComplete
  BY DEF IInv
<1> QED
  BY <1>1, InitInv, StepInv, PTL DEF Spec

\* Every variable keeps its type: no subscribe function is tried more than
\* Retries + 1 times and unlisten() is only called of registered listeners.
THEOREM TauriEventsTypeCorrect == Spec => []TypeOK
<1>1. IInv => TypeOK
  BY DEF IInv
<1> QED
  BY <1>1, InitInv, StepInv, PTL DEF Spec

-----------------------------------------------------------------------------
(* What a loop has passed, it has subscribed to or given up                 *)

\* Of the events before the one it is at, a loop holds the handle or has given
\* them up, and not both, unless its handles were taken by the cleanup.
Passed(e) ==
  /\ \A n \in e.unlisteners \cup e.givenUp : n < e.i
  /\ e.unlisteners \cap e.givenUp = {}
  /\ ~e.cancelled => \A n \in Event : n < e.i => n \in e.unlisteners \cup e.givenUp
  /\ e.pc = "end" => e.i = Events + 1

AllPassed == \A g \in Gen : Passed(eff[g])

\* A loop that waits stays at its event.
LEMMA WaitPassed ==
  ASSUME NEW e \in Effect, Passed(e), NEW f, f.pc # "end", f.i = e.i, f.cancelled = e.cancelled,
         f.unlisteners = e.unlisteners, f.givenUp = e.givenUp
  PROVE  Passed(f)
BY DEF Passed

\* A loop that goes on has settled its event, one way or the other.
LEMMA NextPassed ==
  ASSUME NEW e \in Effect, Passed(e), e.i \in Event, NEW f, f.i = e.i + 1, f.cancelled = e.cancelled,
         f.pc = IF e.i < Events THEN "listen" ELSE "end",
         \/ f.unlisteners = e.unlisteners \cup {e.i} /\ f.givenUp = e.givenUp
         \/ f.unlisteners = e.unlisteners /\ f.givenUp = e.givenUp \cup {e.i}
         \/ e.cancelled /\ f.unlisteners = e.unlisteners /\ f.givenUp = e.givenUp
  PROVE  Passed(f)
<1>1. e.i \in Nat /\ Events \in Nat /\ e.i <= Events
  BY TauriEventsAssumption DEF Event
<1>2. \A n \in Event : n \in Nat
  BY TauriEventsAssumption DEF Event
<1>3. e.unlisteners \subseteq Event /\ e.givenUp \subseteq Event
  BY DEF Effect
<1>4. e.i \notin e.unlisteners \cup e.givenUp
  BY <1>1 DEF Passed
<1>5. \A n \in f.unlisteners \cup f.givenUp : n < f.i
  BY <1>1, <1>2, <1>3 DEF Passed
<1>6. f.unlisteners \cap f.givenUp = {}
  BY <1>4 DEF Passed
<1>7. ~f.cancelled => \A n \in Event : n < f.i => n \in f.unlisteners \cup f.givenUp
  BY <1>1, <1>2 DEF Passed
<1>8. f.pc = "end" => f.i = Events + 1
  BY <1>1
<1> QED
  BY <1>5, <1>6, <1>7, <1>8 DEF Passed

\* The catch of a failed attempt.
LEMMA RetryPassed == ASSUME NEW e \in Effect, Passed(e), e.i \in Event PROVE Passed(Retry(e))
<1>1. CASE e.attempt < Retries
  <2> DEFINE f == [e EXCEPT !.attempt = e.attempt + 1, !.pc = "backoff"]
  <2>1. Retry(e) = f
    BY <1>1 DEF Retry
  <2>2. f.pc # "end" /\ f.i = e.i /\ f.cancelled = e.cancelled /\ f.unlisteners = e.unlisteners
        /\ f.givenUp = e.givenUp
    BY DEF Effect
  <2> HIDE DEF f
  <2> QED
    BY <2>1, <2>2, WaitPassed
<1>2. CASE ~(e.attempt < Retries)
  <2> DEFINE h == [e EXCEPT !.givenUp = e.givenUp \cup {e.i}]
  <2>1. Retry(e) = NextFn(h)
    BY <1>2 DEF Retry, GiveUp
  <2>2. h \in Effect /\ h.i = e.i /\ h.cancelled = e.cancelled /\ h.unlisteners = e.unlisteners
        /\ h.givenUp = e.givenUp \cup {e.i}
    BY DEF Effect
  <2> HIDE DEF h
  <2> DEFINE f == NextFn(h)
  <2>3. f.i = h.i + 1 /\ f.cancelled = h.cancelled /\ f.unlisteners = h.unlisteners
        /\ f.givenUp = h.givenUp /\ f.pc = IF h.i < Events THEN "listen" ELSE "end"
    BY <2>2 DEF NextFn, Effect
  <2> HIDE DEF f
  <2>4. Passed(f)
    BY <2>2, <2>3, NextPassed
  <2> QED
    BY <2>1, <2>4 DEF f
<1> QED
  BY <1>1, <1>2

\* The loop that resumes with its handle.
LEMMA ResumePassed == ASSUME NEW e \in Effect, Passed(e), e.i \in Event PROVE Passed(NextFn(Collect(e)))
<1> DEFINE h == Collect(e)
<1>1. h \in Effect /\ h.i = e.i /\ h.cancelled = e.cancelled /\ h.givenUp = e.givenUp
      /\ h.unlisteners = IF e.cancelled THEN e.unlisteners ELSE e.unlisteners \cup {e.i}
  BY DEF Collect, Effect
<1> HIDE DEF h
<1> DEFINE f == NextFn(h)
<1>2. f.i = h.i + 1 /\ f.cancelled = h.cancelled /\ f.unlisteners = h.unlisteners
      /\ f.givenUp = h.givenUp /\ f.pc = IF h.i < Events THEN "listen" ELSE "end"
  BY <1>1 DEF NextFn, Effect
<1> HIDE DEF f
<1>3. Passed(f)
  BY <1>1, <1>2, NextPassed
<1> QED
  BY <1>3 DEF f, h

\* The cleanup takes the handles.
LEMMA CancelPassed == ASSUME NEW e \in Effect, Passed(e) PROVE Passed(Cancelled(e))
BY DEF Cancelled, Passed, Effect

\* A new effect has passed nothing.
LEMMA FreshPassed == Passed(Fresh) /\ Passed(Idle)
<1>1. \A n \in Event : ~(n < 1)
  BY TauriEventsAssumption DEF Event
<1> QED
  BY <1>1 DEF Passed, Fresh, Idle

\* Every step keeps what a loop has passed.
LEMMA StepPassed == IInv /\ AllPassed /\ [Next]_vars => AllPassed'
<1> SUFFICES ASSUME IInv, AllPassed, [Next]_vars PROVE AllPassed'
  OBVIOUS
<1>t. eff \in [Gen -> Effect] /\ LoopInRange /\ gen \in Gen /\ gen \in Nat
  BY TauriEventsAssumption DEF IInv, TypeOK, Gen
<1>1. ASSUME NEW g \in Gen, NEW e, eff' = [eff EXCEPT ![g] = e], Passed(e) PROVE AllPassed'
  BY <1>t, <1>1 DEF AllPassed
<1>2. ASSUME NEW g \in Gen, Listen(g) \/ BackoffOver(g) PROVE AllPassed'
  <2>1. PICK pc \in {"listen", "listened"} : eff' = [eff EXCEPT ![g] = [eff[g] EXCEPT !.pc = pc]]
    BY <1>2 DEF Listen, BackoffOver
  <2> DEFINE e == [eff[g] EXCEPT !.pc = pc]
  <2>2. e.pc # "end" /\ e.i = eff[g].i /\ e.cancelled = eff[g].cancelled
        /\ e.unlisteners = eff[g].unlisteners /\ e.givenUp = eff[g].givenUp
    BY <1>t DEF Effect
  <2> HIDE DEF e
  <2>3. Passed(e)
    BY <1>t, <2>2, WaitPassed DEF AllPassed
  <2> QED
    BY <1>1, <2>1, <2>3 DEF e
<1>3. ASSUME NEW g \in Gen, ListenFails(g) PROVE AllPassed'
  <2>1. Passed(Retry(eff[g]))
    BY <1>3, <1>t, RetryPassed DEF ListenFails, LoopInRange, AllPassed
  <2> QED
    BY <1>1, <1>3, <2>1 DEF ListenFails
<1>4. ASSUME NEW g \in Gen, Resume(g) PROVE AllPassed'
  <2>1. Passed(NextFn(Collect(eff[g])))
    BY <1>4, <1>t, ResumePassed DEF Resume, LoopInRange, AllPassed
  <2> QED
    BY <1>1, <1>4, <2>1 DEF Resume
<1>5. CASE Render
  <2>1. Passed(Cancelled(eff[gen]))
    BY <1>t, CancelPassed DEF AllPassed
  <2>2. eff' = [eff EXCEPT ![gen] = Cancelled(eff[gen]), ![gen + 1] = Fresh]
    BY <1>5 DEF Render
  <2> QED
    BY <1>t, <2>1, <2>2, FreshPassed DEF AllPassed
<1>6. CASE Unmount
  BY <1>t, <1>1, <1>6, CancelPassed DEF Unmount, AllPassed
<1>7. CASE UNCHANGED eff
  BY <1>7 DEF AllPassed
<1> QED
  BY <1>2, <1>3, <1>4, <1>5, <1>6, <1>7 DEF Next, Loop, Unlistened, onIndexProgress, onIndexDone, vars

\* The effect of the last render, once its loop is over, has the listener of
\* every event it has not given up, and no other.
Subscribed == mounted /\ eff[gen].pc = "end" => Held(gen) = Event \ eff[gen].givenUp

\* What the loop has passed at its end is every event.
LEMMA PassedSubscribed == IInv /\ AllPassed => Subscribed
<1> SUFFICES ASSUME IInv, AllPassed, mounted, eff[gen].pc = "end" PROVE Held(gen) = Event \ eff[gen].givenUp
  BY DEF Subscribed
<1>1. gen \in Gen /\ eff[gen] \in Effect /\ Passed(eff[gen]) /\ ~eff[gen].cancelled
  BY DEF IInv, TypeOK, AllPassed, Order
<1>2. eff[gen].unlisteners = Held(gen)
  BY DEF IInv, HandlesComplete
<1>3. \A n \in Event : n < eff[gen].i
  BY <1>1, TauriEventsAssumption DEF Passed, Event
<1> QED
  BY <1>1, <1>2, <1>3 DEF Passed, Effect

\* At the start no loop has passed an event.
LEMMA InitPassed == Init => AllPassed
BY FreshPassed DEF Init, AllPassed

\* The safety half of SubscribedAtLast: a set-up that has come to its end has
\* subscribed to everything it could, whatever the cleanups and the loops of
\* earlier effects have done in between.
THEOREM SubscribedWhenEnded == Spec => []Subscribed
BY InitInv, StepInv, InitPassed, StepPassed, PassedSubscribed, PTL DEF Spec

\* Once the last set-up is over and index_done was not given up, the event is
\* heard: the flag of App.tsx is cleared by the same step.
THEOREM DoneAlwaysHeard == Spec => DoneIsHeard
<1> DEFINE A == backend # "done" /\ backend' = "done" /\ mounted /\ eff[gen].pc = "end"
                  /\ Done \notin eff[gen].givenUp => ~idxRunning'
<1>1. Subscribed /\ [Next]_vars => [A]_vars
  <2> SUFFICES ASSUME Subscribed, Next, backend # "done", backend' = "done", mounted, eff[gen].pc = "end",
                      Done \notin eff[gen].givenUp
               PROVE  ~idxRunning'
    OBVIOUS
  <2>1. onIndexDone
    BY DEF Next, Loop, Listen, Resume, ListenFails, BackoffOver, Render, Unmount, Unlistened, onIndexProgress
  <2>2. Done \in Held(gen)
    BY TauriEventsAssumption DEF Subscribed, Event, Done
  <2>3. Heard(Done)
    BY <2>2 DEF Held, Heard
  <2> QED
    BY <2>1, <2>3 DEF onIndexDone
<1> QED
  BY <1>1, SubscribedWhenEnded, PTL DEF Spec, DoneIsHeard

-----------------------------------------------------------------------------
(* Every loop comes closer to its end.                                      *)

Phase == [none |-> 0, backoff |-> 1, listen |-> 2, listened |-> 3, end |-> 4]

\* Loop f is closer to its end than e: at a later event, a later attempt, or further
\* within the attempt.  Each of the three is bounded (TypeOK).
Later(e, f) ==
  \/ f.i > e.i
  \/ f.i = e.i /\ f.attempt > e.attempt
  \/ f.i = e.i /\ f.attempt = e.attempt /\ Phase[f.pc] > Phase[e.pc]

Unmoved(e, f) == f.i = e.i /\ f.attempt = e.attempt /\ f.pc = e.pc

\* Every step of a loop brings it closer to its end, and nothing else moves a loop
\* that has begun: neither retries, renders nor the cleanup of its effect set it back.
LoopsAdvance ==
  [][\A g \in Gen : IF Loop(g) THEN Later(eff[g], eff'[g])
                    ELSE eff[g].pc # "none" => Unmoved(eff[g], eff'[g])]_vars

\* A step of a loop.
LEMMA LoopAdvances ==
  ASSUME IInv, NEW g \in Gen, Loop(g)
  PROVE  Later(eff[g], eff'[g]) /\ \A h \in Gen \ {g} : eff'[h] = eff[h]
<1>1. eff \in [Gen -> Effect] /\ LoopInRange
  BY DEF IInv, TypeOK
<1>2. PICK e \in Effect : e = eff[g]
  BY <1>1
<1>3. e.i \in Nat /\ e.attempt \in Nat
  BY TauriEventsAssumption DEF Effect
<1>4. ASSUME NEW f, eff' = [eff EXCEPT ![g] = f], Later(e, f) PROVE Later(eff[g], eff'[g]) /\ \A h \in Gen \ {g} : eff'[h] = eff[h]
  BY ZenonT(40), <1>1, <1>2, <1>4
<1>5. ASSUME NEW pc \in {"listen", "listened"}, Phase[pc] > Phase[e.pc], eff' = [eff EXCEPT ![g] = [e EXCEPT !.pc = pc]]
      PROVE  Later(eff[g], eff'[g]) /\ \A h \in Gen \ {g} : eff'[h] = eff[h]
  <2>1. PICK f : f = [e EXCEPT !.pc = pc]
    OBVIOUS
  <2>2. f.i = e.i /\ f.attempt = e.attempt /\ f.pc = pc
    BY <2>1 DEF Effect
  <2> QED
    BY ZenonT(40), <1>4, <1>5, <2>1, <2>2 DEF Later
<1>6. CASE Listen(g)
  <2>1. eff' = [eff EXCEPT ![g] = [e EXCEPT !.pc = "listened"]] /\ e.pc = "listen"
    BY ZenonT(40), <1>2, <1>6 DEF Listen
  <2> QED
    BY <1>5, <2>1 DEF Phase
<1>7. CASE BackoffOver(g)
  <2>1. eff' = [eff EXCEPT ![g] = [e EXCEPT !.pc = "listen"]] /\ e.pc = "backoff"
    BY ZenonT(40), <1>2, <1>7 DEF BackoffOver
  <2> QED
    BY <1>5, <2>1 DEF Phase
<1>8. CASE Resume(g)
  <2>1. NextFn(Collect(e)).i = e.i + 1
    BY <1>1, <1>2, <1>8, ResumeShape DEF Resume, LoopInRange
  <2>2. Later(e, NextFn(Collect(e)))
    BY <1>3, <2>1 DEF Later
  <2> QED
    BY ZenonT(40), <1>2, <1>4, <1>8, <2>2 DEF Resume
<1>9. CASE ListenFails(g)
  <2>1. e.i \in Event
    BY <1>1, <1>2, <1>9 DEF ListenFails, LoopInRange
  <2>2. CASE e.attempt < Retries
    <3>1. Retry(e).i = e.i /\ Retry(e).attempt = e.attempt + 1
      BY <2>2 DEF Retry, Effect
    <3>2. Later(e, Retry(e))
      BY <1>3, <3>1 DEF Later
    <3> QED
      BY ZenonT(40), <1>2, <1>4, <1>9, <3>2 DEF ListenFails
  <2>3. CASE ~ (e.attempt < Retries)
    <3>1. Retry(e).i = e.i + 1
      BY <2>3 DEF Retry, GiveUp, NextFn, Effect
    <3>2. Later(e, Retry(e))
      BY <1>3, <3>1 DEF Later
    <3> QED
      BY ZenonT(40), <1>2, <1>4, <1>9, <3>2 DEF ListenFails
  <2> QED
    BY <2>2, <2>3
<1> QED
  BY <1>6, <1>7, <1>8, <1>9 DEF Loop

\* The first half of why SubscribedAtLast holds for any number of renders, events and
\* retries: a loop has only finitely many steps to take.
THEOREM LoopsAlwaysAdvance == Spec => LoopsAdvance
<1> DEFINE A(g) == IF Loop(g) THEN Later(eff[g], eff'[g]) ELSE eff[g].pc # "none" => Unmoved(eff[g], eff'[g])
<1>1. ASSUME IInv, Next, NEW g \in Gen PROVE A(g)
  <2>1. CASE Loop(g)
    BY <1>1, <2>1, LoopAdvances
  <2>2. ASSUME ~ Loop(g), eff[g].pc # "none" PROVE Unmoved(eff[g], eff'[g])
    <3>1. ASSUME NEW h \in Gen, Loop(h) PROVE eff'[g] = eff[g]
      BY <1>1, <2>2, <3>1, LoopAdvances
    <3>2. eff \in [Gen -> Effect] /\ gen \in Gen /\ gen \in Nat /\ g \in Nat /\ ~ (g > gen)
      BY <1>1, <2>2, TauriEventsAssumption DEF IInv, TypeOK, Order, Gen
    <3>3. CASE Render \/ Unmount
      <4>1. eff'[g] = eff[g] \/ eff'[g] = Cancelled(eff[g])
        <5>1. g # gen + 1
          BY <3>2
        <5> QED
          BY ZenonT(40), <3>2, <3>3, <5>1 DEF Render, Unmount
      <4> QED
        BY <3>2, <4>1 DEF Cancelled, Effect, Unmoved
    <3> QED
      BY <1>1, <3>1, <3>3 DEF Next, Unlistened, onIndexProgress, onIndexDone, Unmoved
  <2> QED
    BY <2>1, <2>2
<1>2. IInv /\ [Next]_vars => [\A g \in Gen : A(g)]_vars
  BY <1>1
<1> QED
  BY <1>2, InitInv, StepInv, PTL DEF Spec, LoopsAdvance

=============================================================================
