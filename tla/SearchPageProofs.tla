-------------------------- MODULE SearchPageProofs --------------------------
(***************************************************************************)
(* What holds of the search page for any inputs, directories, number of    *)
(* searches pending together, retries and bounds.                          *)
(***************************************************************************)
EXTENDS SearchPage, TLAPS

ReqState == [waiting : BOOLEAN, input : Input, dir : IndexDir, attempt : 0 .. Retries]

\* Slot r is free or waiting, field by field, after a step.
Slot(r, w, i, d, a) == req'[r] = [waiting |-> w, input |-> i, dir |-> d, attempt |-> a]

Types == TypeOK /\ BusyOnlyWhileWorking

\* Replacing one request touches no other.
LEMMA SlotUpdate ==
  ASSUME req \in [Req -> ReqState], NEW r \in Req, NEW v \in ReqState, req' = [req EXCEPT ![r] = v]
  PROVE  req' \in [Req -> ReqState] /\ req'[r] = v /\ \A q \in Req \ {r} : req'[q] = req[q]
BY Zenon

\* A request is its four fields.
LEMMA ReqFields ==
  ASSUME NEW s \in ReqState
  PROVE  s = [waiting |-> s.waiting, input |-> s.input, dir |-> s.dir, attempt |-> s.attempt]
BY DEF ReqState

\* What a search that starts makes of the slots.
LEMMA SearchStarts ==
  ASSUME TypeOK, NEW r \in Req, NEW i \in Input, NEW d \in IndexDir, doSearch(r, i, d)
  PROVE  /\ req' \in [Req -> ReqState] /\ calls' \subseteq Req \X (0 .. Retries)
         /\ Slot(r, TRUE, i, d, 0) /\ \A q \in Req \ {r} : req'[q] = req[q]
         /\ Waiting' = Waiting \cup {r} /\ r \notin Waiting /\ busy' = TRUE
         /\ last' = [req |-> r, alone |-> Waiting = {}, ok |-> FALSE]
<1> DEFINE v == [waiting |-> TRUE, input |-> i, dir |-> d, attempt |-> 0]
<1>0. req \in [Req -> ReqState]
  BY DEF TypeOK, ReqState
<1>1. 0 \in 0 .. Retries
  BY SearchPageAssumption
<1>2. v \in ReqState
  BY <1>1 DEF ReqState
<1>3. req' = [req EXCEPT ![r] = v]
  BY DEF doSearch
<1>4. req' \in [Req -> ReqState] /\ req'[r] = v /\ \A q \in Req \ {r} : req'[q] = req[q]
  BY <1>0, <1>2, <1>3, SlotUpdate
<1>5. calls' \subseteq Req \X (0 .. Retries)
  BY <1>1 DEF doSearch, TypeOK
<1>6. Waiting' = Waiting \cup {r}
  BY <1>4 DEF Waiting
<1> QED
  BY <1>4, <1>5, <1>6 DEF doSearch, Slot

\* What the end of a search or its next attempt makes of the slots.
LEMMA SlotEnds ==
  ASSUME TypeOK, NEW r \in Req, req' = [req EXCEPT ![r].waiting = FALSE]
  PROVE  /\ req' \in [Req -> ReqState] /\ Waiting' = Waiting \ {r}
         /\ \A q \in Req : req'[q].input = req[q].input /\ req'[q].dir = req[q].dir
<1>0. req \in [Req -> ReqState]
  BY DEF TypeOK, ReqState
<1>1. PICK s \in ReqState : s = req[r]
  BY <1>0
<1> DEFINE v == [s EXCEPT !.waiting = FALSE]
<1>2. v \in ReqState /\ v.waiting = FALSE /\ v.input = s.input /\ v.dir = s.dir
  BY ZenonT(40) DEF ReqState
<1>3. req' = [req EXCEPT ![r] = v]
  BY <1>1
<1> HIDE DEF v
<1>4. req' \in [Req -> ReqState] /\ req'[r] = v /\ \A q \in Req \ {r} : req'[q] = req[q]
  BY ZenonT(40), <1>0, <1>2, <1>3, SlotUpdate
<1> QED
  BY <1>1, <1>2, <1>4 DEF Waiting

\* A further attempt changes neither what is searched for nor who waits.
LEMMA SlotAgain ==
  ASSUME TypeOK, NEW r \in Waiting, req[r].attempt < Retries, req' = [req EXCEPT ![r].attempt = @ + 1]
  PROVE  /\ req' \in [Req -> ReqState] /\ Waiting' = Waiting
         /\ \A q \in Req : req'[q].input = req[q].input /\ req'[q].dir = req[q].dir
<1>0. req \in [Req -> ReqState] /\ r \in Req
  BY DEF TypeOK, ReqState, Waiting
<1>1. PICK s \in ReqState : s = req[r]
  BY <1>0
<1> DEFINE v == [s EXCEPT !.attempt = @ + 1]
<1>2. s.attempt + 1 \in 0 .. Retries
  BY <1>1, SearchPageAssumption DEF ReqState
<1>3. v \in ReqState /\ v.waiting = s.waiting /\ v.input = s.input /\ v.dir = s.dir
  BY <1>2 DEF ReqState
<1>4. req' = [req EXCEPT ![r] = v]
  BY <1>1
<1> HIDE DEF v
<1>5. req' \in [Req -> ReqState] /\ req'[r] = v /\ \A q \in Req \ {r} : req'[q] = req[q]
  BY <1>0, <1>3, <1>4, SlotUpdate
<1> QED
  BY <1>0, <1>1, <1>3, <1>5 DEF Waiting

\* The failed attempt of a search: the slot is kept, or freed and the flag cleared.
LEMMA AttemptFails ==
  ASSUME TypeOK, NEW r \in Waiting, Again(r)
  PROVE  /\ req' \in [Req -> ReqState]
         /\ \/ Waiting' = Waiting /\ busy' = busy
            \/ Waiting' = Waiting \ {r} /\ busy' = FALSE
         /\ \A q \in Req : req'[q].input = req[q].input /\ req'[q].dir = req[q].dir
<1>1. r \in Req
  BY DEF Waiting
<1> QED
  BY <1>1, SlotEnds, SlotAgain DEF Again

-----------------------------------------------------------------------------
(* Types, and the busy flag.                                                *)

\* What the debounced effect makes of the timer.
LEMMA EffectType ==
  ASSUME TypeOK, NEW i \in Input, NEW pg \in Page, Rerun(i, pg)
  PROVE  timer' \in [on : BOOLEAN, input : Input, dir : IndexDir] /\ moved' \in BOOLEAN
<1>1. timer.input \in Input /\ timer.dir \in IndexDir
  BY DEF TypeOK
<1> QED
  BY <1>1 DEF TypeOK, Rerun, Effect, Off

\* The state of a window that was opened, or lost.
LEMMA FreshTypes ==
  ASSUME TypeOK, NEW i \in Input, NEW pg \in Page, Fresh(i, pg), used' \in 0 .. MaxKeys
  PROVE  Types'
<1>1. Default \in IndexDir /\ 0 \in 0 .. Retries /\ 0 \in 0 .. MaxSaves
  BY SearchPageAssumption
<1>2. req' \in [Req -> ReqState] /\ Waiting' = {}
  BY <1>1 DEF Fresh, IdleReq, ReqState, Waiting
<1>3. timer' \in [on : BOOLEAN, input : Input, dir : IndexDir]
  BY <1>1 DEF Fresh
<1>4. last' \in [req : Req, alone : BOOLEAN, ok : BOOLEAN]
  BY ZenonT(40) DEF Fresh, TypeOK
<1>5. TypeOK'
  BY ZenonT(40), <1>1, <1>2, <1>3, <1>4 DEF Fresh, TypeOK, ReqState
<1> QED
  BY <1>5 DEF Types, BusyOnlyWhileWorking, Fresh

\* At the start nothing is pending.
LEMMA InitTypes == Init => Types
<1> SUFFICES ASSUME Init PROVE Types
  OBVIOUS
<1>1. Default \in IndexDir /\ 0 \in 0 .. Retries /\ 0 \in 0 .. MaxSaves /\ 0 \in 0 .. MaxKeys /\ input \in Input
  BY SearchPageAssumption DEF Init
<1>2. req \in [Req -> ReqState]
  BY <1>1 DEF Init, IdleReq, ReqState
<1>3. (CHOOSE r \in Req : TRUE) \in Req
  BY SearchPageAssumption
<1>4. last \in [req : Req, alone : BOOLEAN, ok : BOOLEAN]
  BY <1>3 DEF Init
<1>5. TypeOK
  BY ZenonT(40), <1>1, <1>2, <1>4 DEF Init, TypeOK, ReqState, Page
<1> QED
  BY <1>5 DEF Types, BusyOnlyWhileWorking, Init

\* Every step keeps the types, and the busy flag to the work that is awaited.
LEMMA NextTypes == ASSUME Types, [Next]_vars PROVE Types'
<1> USE DEF Types
<1>0. input \in Input /\ page \in Page /\ indexDir \in IndexDir /\ timer.input \in Input /\ timer.dir \in IndexDir
  BY DEF TypeOK
<1>k. ASSUME Key PROVE used' \in 0 .. MaxKeys
  BY <1>k, SearchPageAssumption DEF Key, TypeOK
\* A search that starts, with everything else as it was but the timer and the keys.
<1>1. ASSUME NEW r \in Req, NEW i \in Input, NEW d \in IndexDir, doSearch(r, i, d),
             timer' \in [on : BOOLEAN, input : Input, dir : IndexDir], used' \in 0 .. MaxKeys,
             UNCHANGED <<input, page, config, shown, saves, moved>>
      PROVE  Types'
  <2>1. /\ req' \in [Req -> ReqState] /\ calls' \subseteq Req \X (0 .. Retries)
        /\ Waiting' = Waiting \cup {r} /\ busy' = TRUE
        /\ last' = [req |-> r, alone |-> Waiting = {}, ok |-> FALSE]
    BY ZenonT(40), <1>1, SearchStarts
  <2>2. last' \in [req : Req, alone : BOOLEAN, ok : BOOLEAN]
    BY <2>1
  <2>3. TypeOK'
    BY <1>1, <2>1, <2>2 DEF TypeOK, ReqState, config
  <2> QED
    BY <2>1, <2>3 DEF BusyOnlyWhileWorking
<1>2. CASE TimerFires
  <2>1. timer' \in [on : BOOLEAN, input : Input, dir : IndexDir]
    BY ZenonT(40), <1>2 DEF TimerFires, TypeOK
  <2>2. CASE UNCHANGED <<req, calls, busy, last>>
    BY <1>2, <2>1, <2>2 DEF TimerFires, TypeOK, BusyOnlyWhileWorking, Waiting, config
  <2>3. ASSUME NEW r \in Req, doSearch(r, timer.input, timer.dir) PROVE Types'
    BY ZenonT(40), <1>0, <1>1, <1>2, <2>1, <2>3 DEF TimerFires, TypeOK
  <2> QED
    BY <1>2, <2>2, <2>3 DEF TimerFires
<1>3. ASSUME NEW r \in Req, PressEnter(r) \/ ClickSearch(r) PROVE Types'
  BY <1>0, <1>1, <1>k, <1>3 DEF PressEnter, ClickSearch, TypeOK
<1>4. ASSUME NEW r \in Req, Answer(r) PROVE Types'
  <2>1. req' \in [Req -> ReqState]
    BY ZenonT(40), <1>4, SlotEnds DEF Answer
  <2>2. timer' \in [on : BOOLEAN, input : Input, dir : IndexDir] /\ moved' \in BOOLEAN
    BY <1>0, <1>4, EffectType DEF Answer, Page
  <2>3. shown' \in Result \cup {NoResult}
    <3>1. req[r].input \in Input /\ req[r].dir \in IndexDir
      BY DEF TypeOK
    <3> QED
      BY <1>4, <3>1 DEF Answer, Results, Result
  <2>4. last' \in [req : Req, alone : BOOLEAN, ok : BOOLEAN]
    BY ZenonT(40), <1>4 DEF Answer, TypeOK
  <2>5. TypeOK'
    BY ZenonT(40), <1>4, <2>1, <2>2, <2>3, <2>4 DEF Answer, TypeOK, ReqState, Page, config
  <2> QED
    BY <1>4, <2>5 DEF Answer, BusyOnlyWhileWorking
<1>5. ASSUME NEW r \in Req, Timeout(r) \/ Refused(r) PROVE Types'
  <2>1. /\ req' \in [Req -> ReqState] /\ r \in Waiting
        /\ \/ Waiting' = Waiting /\ busy' = busy
           \/ Waiting' = Waiting \ {r} /\ busy' = FALSE
    BY ZenonT(40), <1>5, AttemptFails DEF Timeout, Refused
  <2>2. calls' \subseteq Req \X (0 .. Retries)
    <3>1. req'[r].attempt \in 0 .. Retries
      BY <2>1 DEF ReqState
    <3> QED
      BY <1>5, <3>1 DEF Timeout, Refused, Invoked, TypeOK
  <2>3. TypeOK'
    BY ZenonT(40), <1>5, <2>1, <2>2 DEF Timeout, Refused, TypeOK, ReqState, config
  <2> QED
    BY <1>5, <2>1, <2>3 DEF Timeout, Refused, BusyOnlyWhileWorking
<1>6. ASSUME NEW c \in calls, LateAnswer(c) PROVE Types'
  BY <1>6 DEF LateAnswer, TypeOK, BusyOnlyWhileWorking, Waiting, config
<1>7. ASSUME NEW i \in Input, Type(i) PROVE Types'
  <2>1. timer' \in [on : BOOLEAN, input : Input, dir : IndexDir] /\ moved' \in BOOLEAN
    BY <1>0, <1>7, EffectType DEF Type
  <2>2. used' \in 0 .. MaxKeys
    BY <1>7, <1>k DEF Type
  <2> QED
    BY <1>7, <2>1, <2>2 DEF Type, TypeOK, BusyOnlyWhileWorking, Waiting, config
<1>8. ASSUME NEW pg \in Page \ {"down"}, Navigate(pg) PROVE Types'
  <2>1. timer' \in [on : BOOLEAN, input : Input, dir : IndexDir] /\ moved' \in BOOLEAN
    BY <1>0, <1>8, EffectType DEF Navigate
  <2>2. used' \in 0 .. MaxKeys
    BY <1>8, <1>k DEF Navigate
  <2> QED
    BY <1>8, <2>1, <2>2 DEF Navigate, TypeOK, BusyOnlyWhileWorking, Waiting, config
<1>9. ASSUME NEW pg, NavigateDown(pg) PROVE Types'
  <2>1. PICK i \in Blank : Fresh(i, "down")
    BY <1>9 DEF NavigateDown
  <2>2. i \in Input /\ "down" \in Page /\ used' \in 0 .. MaxKeys
    BY <1>9, <1>k, SearchPageAssumption DEF NavigateDown, Page
  <2> QED
    BY <2>1, <2>2, FreshTypes
<1>10. CASE Restart
  <2>1. PICK i \in Blank : Fresh(i, "search")
    BY <1>10 DEF Restart
  <2>2. i \in Input /\ "search" \in Page /\ used' \in 0 .. MaxKeys
    BY <1>10, <1>k, SearchPageAssumption DEF Restart, Page
  <2> QED
    BY <2>1, <2>2, FreshTypes
<1>11. ASSUME NEW d \in IndexDir, Loaded(d) PROVE Types'
  BY ZenonT(40), <1>11 DEF Loaded, TypeOK, BusyOnlyWhileWorking, Waiting
<1>12. CASE Save
  <2>1. saves' \in 0 .. MaxSaves /\ saves' > 0
    BY <1>12, SearchPageAssumption DEF Save, TypeOK
  <2> QED
    BY <1>12, <2>1 DEF Save, TypeOK, BusyOnlyWhileWorking, config
<1>13. CASE SaveEnds
  <2>1. saves' \in 0 .. MaxSaves
    BY <1>13, SearchPageAssumption DEF SaveEnds, TypeOK
  <2> QED
    BY ZenonT(40), <1>13, <2>1 DEF SaveEnds, TypeOK, BusyOnlyWhileWorking, config
<1>14. CASE UNCHANGED vars
  BY <1>14 DEF vars, TypeOK, BusyOnlyWhileWorking, Waiting, config
<1> QED
  BY <1>2, <1>3, <1>4, <1>5, <1>6, <1>7, <1>8, <1>9, <1>10, <1>11, <1>12, <1>13, <1>14 DEF Next

\* safeInvoke makes at most Retries + 1 attempts at a search, and the other variables
\* keep their types, however many searches are pending together.
THEOREM SearchPageTypeCorrect == Spec => []TypeOK
<1>1. Types => TypeOK
  BY DEF Types
<1> QED
  BY <1>1, InitTypes, NextTypes, PTL DEF Spec

\* The buttons are never locked for good: whichever calls end first, fail or are
\* lost with the window, the flag is set only while a search or a save runs.
THEOREM BusyIsWork == Spec => []BusyOnlyWhileWorking
<1>1. Types => BusyOnlyWhileWorking
  BY DEF Types
<1> QED
  BY <1>1, InitTypes, NextTypes, PTL DEF Spec

-----------------------------------------------------------------------------
(* The results shown are those of the fields.                               *)

\* Request i, d is the one of the fields, but for a directory that came later.
Current(i, d) == i = input /\ (moved \/ d = indexDir)

\* What the timer will search for.
TimerOK == timer.on => Current(timer.input, timer.dir)

\* The search started last, if it was started alone: no other is pending; unless the
\* timer is about to start another, it is for the fields; its answer is on the page.
LastOK ==
  last.alone =>
    /\ Waiting \subseteq {last.req}
    /\ page = "search" /\ ~timer.on /\ input \notin Blank /\ (last.req \in Waiting \/ last.ok)
         => Current(req[last.req].input, req[last.req].dir)
    /\ last.ok => shown = Results(req[last.req].input, req[last.req].dir)

FInv == Types /\ TimerOK /\ LastOK

\* The invariant says what is shown after a search that was alone.
LEMMA FreshShown == FInv => FreshUnlessRaced
<1> SUFFICES ASSUME FInv, Quiet, input \notin Blank, last.alone, last.ok
             PROVE  shown # NoResult /\ shown.input = input /\ (moved \/ shown.dir = indexDir)
  BY DEF FreshUnlessRaced
<1>1. Current(req[last.req].input, req[last.req].dir) /\ shown = Results(req[last.req].input, req[last.req].dir)
  BY DEF FInv, LastOK, Quiet
<1>2. req[last.req].input \in Input /\ req[last.req].dir \in IndexDir
  BY DEF FInv, Types, TypeOK
<1>3. shown = [input |-> req[last.req].input, dir |-> req[last.req].dir]
  BY <1>1 DEF Current, Results
<1>4. shown \in [input : Input, dir : IndexDir]
  BY <1>2, <1>3
<1> QED
  BY <1>1, <1>3, <1>4, SearchPageAssumption DEF Current

\* A rerun of the effect leaves a timer for the fields, or none.
LEMMA EffectOK ==
  ASSUME Types, TimerOK, NEW i \in Input, NEW pg \in Page, Rerun(i, pg), input' = i, indexDir' = indexDir
  PROVE  /\ TimerOK'
         /\ pg = "search" /\ ~timer'.on => i = input /\ pg = page /\ ~timer.on /\ moved' = moved
<1>1. CASE i = input /\ pg = page
  BY <1>1 DEF Rerun, Effect, TimerOK, Current, Types, TypeOK
<1>2. CASE ~(i = input /\ pg = page) /\ pg = "search"
  BY <1>2 DEF Rerun, Effect, TimerOK, Current
<1>3. CASE ~(i = input /\ pg = page) /\ pg # "search"
  BY <1>3 DEF Rerun, Effect, Off, TimerOK, Current
<1> QED
  BY <1>1, <1>2, <1>3

\* Every step keeps what the timer and the last search are for.
LEMMA NextFresh == ASSUME FInv, [Next]_vars PROVE FInv'
<1> USE DEF FInv
<1>t. Types'
  BY NextTypes
<1>0. /\ TypeOK /\ input \in Input /\ page \in Page /\ indexDir \in IndexDir /\ last.req \in Req
      /\ timer.input \in Input /\ timer.dir \in IndexDir
  BY DEF Types, TypeOK
\* A search for a request of the fields starts.
<1>1. ASSUME NEW r \in Req, NEW i \in Input, NEW d \in IndexDir, doSearch(r, i, d), Current(i, d),
             UNCHANGED <<input, page, config, shown, moved>>
      PROVE  LastOK'
  <2>1. /\ Slot(r, TRUE, i, d, 0) /\ Waiting' = Waiting \cup {r}
        /\ last' = [req |-> r, alone |-> Waiting = {}, ok |-> FALSE]
    BY ZenonT(40), <1>0, <1>1, SearchStarts
  <2>2. last'.req = r /\ last'.ok = FALSE /\ (last'.alone => Waiting = {})
    BY ZenonT(40), <2>1
  <2>3. req'[r].input = i /\ req'[r].dir = d
    BY <2>1 DEF Slot
  <2>4. Current(req[last.req].input, req[last.req].dir)'
    BY <1>1, <2>2, <2>3 DEF Current, config
  <2> QED
    BY <2>1, <2>2, <2>4 DEF LastOK
\* The slots keep their requests, and none is taken.
<1>2. ASSUME \A q \in Req : req'[q].input = req[q].input /\ req'[q].dir = req[q].dir, Waiting' \subseteq Waiting,
             UNCHANGED <<shown, last>>,
             page' = "search" /\ ~timer'.on /\ input' \notin Blank =>
               /\ page = "search" /\ ~timer.on /\ input' = input
               /\ (moved \/ indexDir' # indexDir) => moved'
      PROVE  LastOK'
  <2> SUFFICES ASSUME last.alone PROVE LastOK'
    BY SMTT(40), <1>2 DEF LastOK
  <2>1. Waiting' \subseteq {last'.req}
    BY <1>2 DEF LastOK
  <2>2. last'.ok => shown' = Results(req'[last'.req].input, req'[last'.req].dir)
    BY <1>0, <1>2 DEF LastOK
  <2>3. ASSUME page' = "search", ~timer'.on, input' \notin Blank, last'.req \in Waiting' \/ last'.ok
        PROVE  Current(req[last.req].input, req[last.req].dir)'
    <3>1. Current(req[last.req].input, req[last.req].dir)
      BY <1>2, <2>3 DEF LastOK
    <3>2. req'[last'.req].input = req[last.req].input /\ req'[last'.req].dir = req[last.req].dir
      BY <1>0, <1>2
    <3> QED
      BY <1>2, <2>3, <3>1, <3>2 DEF Current
  <2> QED
    BY <2>1, <2>2, <2>3 DEF LastOK
<1>3. CASE TimerFires
  <2>1. TimerOK'
    BY <1>0, <1>3 DEF TimerFires, TimerOK, Types, TypeOK
  <2>2. LastOK'
    <3>1. CASE timer.input \in Blank /\ UNCHANGED <<req, calls, busy, last>>
      <4>1. input' \in Blank
        BY <1>3, <3>1 DEF TimerFires, TimerOK, Current
      <4>2. UNCHANGED <<req, shown, last>> /\ Waiting' = Waiting
        BY <1>3, <3>1 DEF TimerFires, Waiting
      <4> QED
        BY <1>2, <4>1, <4>2
    <3>2. ASSUME NEW r \in Req, doSearch(r, timer.input, timer.dir) PROVE LastOK'
      BY <1>0, <1>1, <1>3, <3>2 DEF TimerFires, TimerOK
    <3> QED
      BY <1>3, <3>1, <3>2 DEF TimerFires
  <2> QED
    BY <1>t, <2>1, <2>2
<1>4. ASSUME NEW r \in Req, PressEnter(r) \/ ClickSearch(r) PROVE FInv'
  <2>1. TimerOK'
    BY <1>4 DEF PressEnter, ClickSearch, TimerOK, Current, config
  <2>2. LastOK'
    BY <1>0, <1>1, <1>4 DEF PressEnter, ClickSearch, Current
  <2> QED
    BY <1>t, <2>1, <2>2
<1>5. ASSUME NEW r \in Req, Answer(r) PROVE FInv'
  <2>1. /\ Waiting' = Waiting \ {r} /\ r \in Waiting
        /\ \A q \in Req : req'[q].input = req[q].input /\ req'[q].dir = req[q].dir
    BY ZenonT(40), <1>0, <1>5, SlotEnds DEF Answer
  <2>2. /\ TimerOK'
        /\ ~timer'.on => page = "search" /\ ~timer.on /\ moved' = moved
    BY <1>0, <1>5, EffectOK DEF Answer, config, Page
  <2>3. LastOK'
    <3>0. last'.alone = last.alone /\ last'.req = last.req
      BY <1>0, <1>5 DEF Answer, TypeOK
    <3> SUFFICES ASSUME last.alone PROVE LastOK'
      BY <3>0 DEF LastOK
    <3>1. r = last.req /\ Waiting' = {}
      BY <2>1 DEF LastOK
    <3>2. shown' = Results(req'[last'.req].input, req'[last'.req].dir)
      BY <1>5, <2>1, <3>0, <3>1 DEF Answer
    <3>3. ASSUME ~timer'.on, input' \notin Blank PROVE Current(req[last.req].input, req[last.req].dir)'
      <4>1. Current(req[last.req].input, req[last.req].dir)
        BY <1>5, <2>1, <2>2, <3>1, <3>3 DEF LastOK, Answer
      <4> QED
        BY <1>0, <1>5, <2>1, <2>2, <3>0, <3>3, <4>1 DEF Current, Answer, config
    <3> QED
      BY <3>1, <3>2, <3>3 DEF LastOK
  <2> QED
    BY <1>t, <2>2, <2>3
<1>6. ASSUME NEW r \in Req, Timeout(r) \/ Refused(r) PROVE FInv'
  <2>1. /\ Waiting' \subseteq Waiting
        /\ \A q \in Req : req'[q].input = req[q].input /\ req'[q].dir = req[q].dir
    BY ZenonT(40), <1>0, <1>6, AttemptFails DEF Timeout, Refused
  <2>2. UNCHANGED <<input, page, config, timer, shown, last, moved>>
    BY <1>6 DEF Timeout, Refused
  <2>3. TimerOK'
    BY <2>2 DEF TimerOK, Current, config
  <2>4. LastOK'
    BY <1>2, <2>1, <2>2 DEF config
  <2> QED
    BY <1>t, <2>3, <2>4
\* Neither the slots nor the page and the fields change.
<1>7. ASSUME UNCHANGED <<input, page, config, timer, req, shown, last, moved>> PROVE FInv'
  <2>1. Waiting' = Waiting
    BY <1>7 DEF Waiting
  <2>2. TimerOK'
    BY <1>7 DEF TimerOK, Current, config
  <2>3. LastOK'
    BY <1>2, <1>7, <2>1 DEF config
  <2> QED
    BY <1>t, <2>2, <2>3
<1>8. ASSUME NEW c \in calls, LateAnswer(c) PROVE FInv'
  BY <1>7, <1>8 DEF LateAnswer
<1>9. ASSUME NEW i \in Input, Type(i) PROVE FInv'
  <2>1. TimerOK' /\ (~timer'.on => FALSE)
    BY <1>0, <1>9, EffectOK DEF Type, config
  <2>2. UNCHANGED <<req, shown, last>> /\ Waiting' = Waiting
    BY <1>9 DEF Type, Waiting
  <2>3. LastOK'
    BY <1>2, <2>1, <2>2
  <2> QED
    BY <1>t, <2>1, <2>3
<1>10. ASSUME NEW pg \in Page \ {"down"}, Navigate(pg) PROVE FInv'
  <2>1. TimerOK' /\ (page' = "search" /\ ~timer'.on => FALSE)
    BY <1>0, <1>10, EffectOK DEF Navigate, config
  <2>2. UNCHANGED <<req, shown, last>> /\ Waiting' = Waiting
    BY <1>10 DEF Navigate, Waiting
  <2>3. LastOK'
    BY <1>2, <2>1, <2>2
  <2> QED
    BY <1>t, <2>1, <2>3
<1>11. ASSUME NEW i \in Blank, NEW pg, Fresh(i, pg) PROVE FInv'
  <2>1. input' \in Blank /\ Waiting' = {} /\ last'.ok = FALSE
    BY <1>0, <1>11 DEF Fresh, IdleReq, Waiting, TypeOK
  <2>2. TimerOK'
    BY <1>11 DEF Fresh, TimerOK, Current
  <2> QED
    BY <1>t, <2>1, <2>2 DEF LastOK
<1>12. ASSUME NEW pg, NavigateDown(pg) PROVE FInv'
  BY <1>11, <1>12 DEF NavigateDown
<1>13. CASE Restart
  BY <1>11, <1>13 DEF Restart
<1>14. ASSUME NEW d \in IndexDir, Loaded(d) PROVE FInv'
  <2>1. TimerOK'
    BY ZenonT(40), <1>14 DEF Loaded, TimerOK, Current
  <2>2. UNCHANGED <<req, shown, last>> /\ Waiting' = Waiting
    BY <1>14 DEF Loaded, Waiting
  <2>3. LastOK'
    BY ZenonT(40), <1>2, <1>14, <2>2 DEF Loaded
  <2> QED
    BY <1>t, <2>1, <2>3
<1>15. CASE Save \/ SaveEnds
  BY <1>7, <1>15 DEF Save, SaveEnds
<1>16. CASE UNCHANGED vars
  BY <1>7, <1>16 DEF vars
<1> QED
  BY <1>3, <1>4, <1>5, <1>6, <1>8, <1>9, <1>10, <1>12, <1>13, <1>14, <1>15, <1>16 DEF Next

\* At the start the timer is set for the fields and no search was made.
LEMMA InitFresh == Init => FInv
<1>1. Init => TimerOK
  BY DEF Init, TimerOK, Current
<1>2. Init => Waiting = {} /\ last.ok = FALSE
  BY DEF Init, Waiting, IdleReq
<1>3. Init => LastOK
  BY SMTT(40), <1>2 DEF LastOK, Init
<1> QED
  BY <1>1, <1>3, InitTypes DEF FInv

\* No order of typing, navigation, configuration, time-outs and late answers leaves on
\* the page the results of an older input, or of an index directory that was given up
\* before the input or the page last changed, but for searches pending together.
THEOREM ShownIsFresh == Spec => []FreshUnlessRaced
<1>1. FInv /\ [Next]_vars => FInv'
  BY NextFresh
<1> QED
  BY <1>1, InitFresh, FreshShown, PTL DEF Spec

-----------------------------------------------------------------------------
(* What the fields hold is searched for, and every search comes to its end. *)

\* The fields of the search page have a timer set for them, or the search started
\* last was for them (App.tsx:162-169, and the two ways around the timer).
InputDue ==
  page = "search" /\ input \notin Blank =>
    (timer.on /\ timer.input = input) \/ req[last.req].input = input

\* Every step keeps it.
LEMMA NextDue == ASSUME FInv, InputDue, [Next]_vars PROVE InputDue'
<1>t. FInv' /\ TimerOK'
  BY NextFresh DEF FInv
<1>0. /\ Types /\ TypeOK /\ TimerOK /\ input \in Input /\ page \in Page /\ indexDir \in IndexDir
      /\ timer.input \in Input /\ timer.dir \in IndexDir /\ last.req \in Req
  BY DEF FInv, Types, TypeOK
\* A search for the fields starts.
<1>1. ASSUME NEW r \in Req, NEW d \in IndexDir, doSearch(r, input, d), input' = input PROVE InputDue'
  <2>1. Slot(r, TRUE, input, d, 0) /\ last' = [req |-> r, alone |-> Waiting = {}, ok |-> FALSE]
    BY ZenonT(40), <1>0, <1>1, SearchStarts
  <2>2. req'[r].input = input /\ last'.req = r
    BY <2>1 DEF Slot
  <2> QED
    BY ZenonT(40), <1>1, <2>2 DEF InputDue
\* The timer is set, or nothing that matters changes.
<1>2. ASSUME page' = "search" /\ ~timer'.on => page = "search" /\ ~timer.on /\ input' = input,
             last'.req = last.req, \A q \in Req : req'[q].input = req[q].input
      PROVE  InputDue'
  <2>1. SUFFICES ASSUME page' = "search", input' \notin Blank, ~timer'.on PROVE req'[last'.req].input = input'
    BY ZenonT(40), <1>t DEF InputDue, TimerOK, Current
  <2> QED
    BY ZenonT(40), <1>0, <1>2, <2>1 DEF InputDue
<1>3. CASE TimerFires
  <2>1. timer.input = input /\ input' = input
    BY <1>0, <1>3 DEF TimerFires, TimerOK, Current
  <2>2. CASE timer.input \in Blank
    BY ZenonT(40), <2>1, <2>2 DEF InputDue
  <2>3. CASE timer.input \notin Blank
    <3>1. PICK r \in Req : doSearch(r, timer.input, timer.dir)
      BY <1>3, <2>3 DEF TimerFires
    <3> QED
      BY ZenonT(40), <1>0, <1>1, <2>1, <3>1
  <2> QED
    BY <2>2, <2>3
<1>4. ASSUME NEW r \in Req, PressEnter(r) \/ ClickSearch(r) PROVE InputDue'
  BY ZenonT(40), <1>0, <1>1, <1>4 DEF PressEnter, ClickSearch
<1>5. ASSUME NEW r \in Req, Answer(r) PROVE InputDue'
  <2>1. \A q \in Req : req'[q].input = req[q].input
    BY ZenonT(40), <1>0, <1>5, SlotEnds DEF Answer
  <2>2. ~timer'.on => page = "search" /\ ~timer.on
    BY <1>0, <1>5, EffectOK DEF Answer, config, Page
  <2>3. last'.req = last.req /\ input' = input
    BY <1>0, <1>5 DEF Answer, TypeOK
  <2> QED
    BY ZenonT(40), <1>2, <2>1, <2>2, <2>3
<1>6. ASSUME NEW r \in Req, Timeout(r) \/ Refused(r) PROVE InputDue'
  <2>1. \A q \in Req : req'[q].input = req[q].input
    BY ZenonT(40), <1>0, <1>6, AttemptFails DEF Timeout, Refused
  <2>2. UNCHANGED <<input, page, timer, last>>
    BY <1>6 DEF Timeout, Refused
  <2> QED
    BY <1>2, <2>1, <2>2
<1>7. ASSUME UNCHANGED <<input, page, timer, req, last>> PROVE InputDue'
  BY <1>7 DEF InputDue
<1>8. ASSUME NEW i \in Input, Type(i) PROVE InputDue'
  <2>1. ~timer'.on => FALSE
    BY <1>0, <1>8, EffectOK DEF Type, config
  <2>2. UNCHANGED <<req, last>>
    BY <1>8 DEF Type
  <2> QED
    BY <1>2, <2>1, <2>2
<1>9. ASSUME NEW pg \in Page \ {"down"}, Navigate(pg) PROVE InputDue'
  <2>1. page' = "search" /\ ~timer'.on => FALSE
    BY <1>0, <1>9, EffectOK DEF Navigate, config
  <2>2. UNCHANGED <<req, last>>
    BY <1>9 DEF Navigate
  <2> QED
    BY <1>2, <2>1, <2>2
<1>10. ASSUME NEW i \in Blank, NEW pg, Fresh(i, pg) PROVE InputDue'
  BY ZenonT(40), <1>10 DEF Fresh, InputDue
<1>11. ASSUME NEW pg, NavigateDown(pg) \/ Restart PROVE InputDue'
  BY ZenonT(40), <1>10, <1>11 DEF NavigateDown, Restart
<1>12. ASSUME NEW d \in IndexDir, Loaded(d) PROVE InputDue'
  BY <1>7, <1>12 DEF Loaded
<1>13. ASSUME NEW c \in calls, LateAnswer(c) PROVE InputDue'
  BY <1>7, <1>13 DEF LateAnswer
<1>14. CASE Save \/ SaveEnds \/ UNCHANGED vars
  BY <1>7, <1>14 DEF Save, SaveEnds, vars
<1> QED
  BY <1>3, <1>4, <1>5, <1>6, <1>8, <1>9, <1>11, <1>12, <1>13, <1>14 DEF Next

\* The safety half of InputSearched: no order of typing, navigation, answers and lost
\* windows leaves the fields without a timer or a search, for any inputs and bounds.
THEOREM InputAlwaysDue == Spec => []InputDue
<1>1. Init => InputDue
  BY ZenonT(40) DEF Init, InputDue
<1> QED
  BY <1>1, InitFresh, NextFresh, NextDue, PTL DEF Spec

\* A pending search keeps what it searches for, whatever other searches start and end
\* (App.tsx:305 awaits it, safeInvoke of api.ts retries it), until it is over; each failure of
\* an attempt ends it or uses up one of its attempts.
SearchesAdvance ==
  [][\A r \in Waiting :
       \/ r \notin Waiting'
       \/ req'[r] = req[r] /\ ~Timeout(r) /\ ~Refused(r)
       \/ req'[r] = [req[r] EXCEPT !.attempt = @ + 1] /\ req'[r].attempt <= Retries]_vars

\* The safety half of SearchSettles: for any number of retries and of searches pending
\* together, a search has only its attempts to make.
THEOREM SearchesAlwaysAdvance == Spec => SearchesAdvance
<1> DEFINE A(r) == \/ r \notin Waiting'
                   \/ req'[r] = req[r] /\ ~Timeout(r) /\ ~Refused(r)
                   \/ req'[r] = [req[r] EXCEPT !.attempt = @ + 1] /\ req'[r].attempt <= Retries
<1>1. ASSUME Types, Next, NEW r \in Waiting PROVE A(r)
  <2>0. TypeOK /\ r \in Req /\ req \in [Req -> ReqState]
    BY <1>1 DEF Types, TypeOK, Waiting, ReqState
  <2>1. ASSUME NEW q \in Req, Again(q), q \in Waiting PROVE q = r => r \notin Waiting' \/
               (req'[r] = [req[r] EXCEPT !.attempt = @ + 1] /\ req'[r].attempt <= Retries)
    <3>1. CASE req[q].attempt < Retries
      <4>1. req' = [req EXCEPT ![q].attempt = @ + 1] /\ req' \in [Req -> ReqState]
        BY ZenonT(40), <2>0, <2>1, <3>1, SlotAgain DEF Again
      <4>2. q = r => req'[r] = [req[r] EXCEPT !.attempt = @ + 1]
        BY ZenonT(40), <2>0, <4>1
      <4>3. req'[r].attempt <= Retries
        BY <2>0, <4>1, SearchPageAssumption DEF ReqState
      <4> QED
        BY <4>2, <4>3
    <3>2. CASE ~ (req[q].attempt < Retries)
      BY ZenonT(40), <2>0, <2>1, <3>2, SlotEnds DEF Again
    <3> QED
      BY <3>1, <3>2
  <2>2. CASE Timeout(r) \/ Refused(r)
    BY ZenonT(40), <1>1, <2>0, <2>1, <2>2 DEF Timeout, Refused
  <2>3. ASSUME ~Timeout(r), ~Refused(r) PROVE r \notin Waiting' \/ req'[r] = req[r]
    <3>1. ASSUME NEW q \in Req, Timeout(q) \/ Refused(q) PROVE req'[r] = req[r]
      <4>1. q # r /\ Again(q)
        BY <2>3, <3>1 DEF Timeout, Refused
      <4> QED
        BY ZenonT(40), <2>0, <4>1 DEF Again
    <3>2. ASSUME NEW q \in Req, Answer(q) PROVE r \notin Waiting' \/ req'[r] = req[r]
      <4>1. CASE q = r
        BY ZenonT(40), <2>0, <3>2, <4>1, SlotEnds DEF Answer
      <4>2. CASE q # r
        BY ZenonT(40), <2>0, <3>2, <4>2 DEF Answer
      <4> QED
        BY <4>1, <4>2
    <3>3. ASSUME NEW q \in Req, NEW i, NEW d, doSearch(q, i, d) PROVE req'[r] = req[r]
      BY ZenonT(40), <1>1, <2>0, <3>3 DEF doSearch
    <3>4. ASSUME NEW i, NEW pg, Fresh(i, pg) PROVE r \notin Waiting'
      BY ZenonT(40), <2>0, <3>4 DEF Fresh, IdleReq, Waiting
    <3>5. CASE TimerFires \/ \E q \in Req : PressEnter(q) \/ ClickSearch(q)
      BY ZenonT(40), <3>3, <3>5 DEF TimerFires, PressEnter, ClickSearch
    <3>6. CASE Restart \/ \E pg \in Page : NavigateDown(pg)
      BY ZenonT(40), <3>4, <3>6 DEF Restart, NavigateDown
    <3> QED
      BY <1>1, <3>1, <3>2, <3>5, <3>6 DEF Next, LateAnswer, Type, Navigate, Loaded, Save, SaveEnds
  <2> QED
    BY <2>2, <2>3
<1>2. Types /\ [Next]_vars => [\A r \in Waiting : A(r)]_vars
  BY <1>1
<1> QED
  BY <1>2, InitTypes, NextTypes, PTL DEF Spec, SearchesAdvance

=============================================================================
