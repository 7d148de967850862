---------------------------- MODULE ConfigProofs ----------------------------
(***************************************************************************)
(* What holds of the configuration for any number of calls at once, any    *)
(* lengths of the texts and any bounds: the form is repaired, a save is    *)
(* durable and changes only what was edited, a reset brings the default.   *)
(***************************************************************************)
EXTENDS Config, TLAPS

\* Where a call can be.
Place == {"none", "remove", "check", "read", "truncate", "write", "answer"}

\* The operations of a call and the places they can be in.
Shape ==
  \A k \in Call :
    /\ call[k].op = "idle" <=> call[k].pc = "none"
    /\ call[k].op = "idle" => call[k] = Idle
    /\ call[k].op = "save" => call[k].pc \in {"truncate", "write", "answer"}
    /\ call[k].op = "read" => call[k].pc # "remove"

IInv == TypeOK /\ Shape

\* The texts and repaired configurations have their types.
LEMMA CfgTypes ==
  /\ Default \in Cfg /\ PageDefault \in Form
  /\ Idle \in CallState
  /\ \A c \in Cfg : /\ Applied(c) \in Form
                    /\ Redirect(c) \in Cfg /\ Repair(c) \in Cfg /\ TextLen(c) \in Nat \ {0}
                    /\ Text(c) \in [kind : {"absent", "valid", "garbage"}, cfg : Cfg, len : Nat]
<1>1. Default \in Cfg /\ PageDefault \in Form
  BY DEF Default, PageDefault, Cfg, Form, Line, List, Dir, Mode
<1>2. Idle \in CallState
  BY <1>1 DEF Idle, CallState
<1>3. ASSUME NEW c \in Cfg
      PROVE  /\ Applied(c) \in Form
             /\ Redirect(c) \in Cfg /\ Repair(c) \in Cfg /\ TextLen(c) \in Nat \ {0}
             /\ Text(c) \in [kind : {"absent", "valid", "garbage"}, cfg : Cfg, len : Nat]
  <2>1. Redirect(c) \in Cfg
    BY DEF Redirect, Cfg, Dir
  <2>2. Repair(c) \in Cfg
    BY DEF Repair, Cfg, List, Dir, Mode
  <2>3. Length[c.mode] \in Nat /\ Length[c.roots] \in Nat /\ Length[c.dir] \in Nat
    BY ConfigAssumption DEF Cfg, Val
  <2>4. TextLen(c) \in Nat \ {0}
    BY <2>3 DEF TextLen
  <2>5. Applied(c) \in Form
    BY DEF Applied, join, Cfg, Form, Line, List, Dir
  <2> QED
    BY <2>1, <2>2, <2>4, <2>5 DEF Text
<1> QED
  BY <1>1, <1>2, <1>3

\* What the form is saved as is a configuration.
LEMMA FormCfgType == form \in Form => FormCfg \in Cfg /\ Redirect(FormCfg) \in Cfg
<1>1. form \in Form => FormCfg \in Cfg
  BY DEF FormCfg, parseCSV, Cfg, Form, Line, List, Dir, Mode
<1> QED
  BY <1>1, CfgTypes

\* The file states are file states, and writing keeps them so.
LEMMA FileTypes ==
  LET F == [kind : {"absent", "valid", "garbage"}, cfg : Cfg, len : Nat]
  IN  /\ Absent \in F /\ Empty \in F
      /\ \A f \in F, c \in Cfg : Overwrite(f, c) \in F
BY CfgTypes DEF Absent, Empty, Overwrite

\* A use of a bound keeps the counters natural numbers.
LEMMA UseType ==
  ASSUME NEW b \in {"calls", "edits", "faults", "crashes"},
         used \in [{"calls", "edits", "faults", "crashes"} -> Nat], Use(b)
  PROVE  /\ used' \in [{"calls", "edits", "faults", "crashes"} -> Nat]
         /\ used'[b] = used[b] + 1
         /\ \A a \in {"calls", "edits", "faults", "crashes"} : used'[a] >= used[a]
BY DEF Use

\* A changed call leaves the others alone.
LEMMA CallUpdate ==
  ASSUME TypeOK, NEW k \in Call, NEW v \in CallState, call' = [call EXCEPT ![k] = v]
  PROVE  /\ call' \in [Call -> CallState] /\ call'[k] = v
         /\ \A j \in Call \ {k} : call'[j] = call[j]
BY DEF TypeOK

\* A call moved to another place, field by field.
LEMMA CallFields ==
  ASSUME NEW r \in CallState
  PROVE  r = [op |-> r.op, pc |-> r.pc, by |-> r.by, cfg |-> r.cfg]
BY DEF CallState

\* A call that moves on is a call, with its new place and configuration.
LEMMA Moved ==
  ASSUME NEW r \in CallState, NEW l \in Place, NEW c \in Cfg
  PROVE  /\ [r EXCEPT !.pc = l, !.cfg = c] \in CallState
         /\ [r EXCEPT !.pc = l, !.cfg = c] = [op |-> r.op, pc |-> l, by |-> r.by, cfg |-> c]
<1> DEFINE u == [r EXCEPT !.pc = l, !.cfg = c]
<1>1. u \in CallState /\ u.op = r.op /\ u.pc = l /\ u.by = r.by /\ u.cfg = c
  BY Zenon DEF CallState, Place
<1>2. u = [op |-> u.op, pc |-> u.pc, by |-> u.by, cfg |-> u.cfg]
  BY Zenon, <1>1, CallFields
<1> HIDE DEF u
<1>3. u = [op |-> r.op, pc |-> l, by |-> r.by, cfg |-> c]
  BY <1>1, <1>2
<1> QED
  BY <1>1, <1>3 DEF u

\* Where a call goes next.
LEMMA GotoIs ==
  ASSUME TypeOK, NEW k \in Call, NEW l \in Place,
         NEW c \in Cfg, Goto(k, l, c)
  PROVE  LET v == [op |-> call[k].op, pc |-> l, by |-> call[k].by, cfg |-> c]
         IN  v \in CallState /\ call' = [call EXCEPT ![k] = v]
<1>1. call[k] \in CallState
  BY DEF TypeOK
<1>2. call' = [call EXCEPT ![k] = [call[k] EXCEPT !.pc = l, !.cfg = c]]
  BY Zenon DEF Goto, TypeOK
<1>3. /\ [call[k] EXCEPT !.pc = l, !.cfg = c] \in CallState
      /\ [call[k] EXCEPT !.pc = l, !.cfg = c] = [op |-> call[k].op, pc |-> l, by |-> call[k].by, cfg |-> c]
  <2>1. PICK r \in CallState : r = call[k]
    BY <1>1
  <2>2. /\ [r EXCEPT !.pc = l, !.cfg = c] \in CallState
        /\ [r EXCEPT !.pc = l, !.cfg = c] = [op |-> r.op, pc |-> l, by |-> r.by, cfg |-> c]
    BY Zenon, Moved
  <2> QED
    BY <2>1, <2>2
<1> QED
  BY Zenon, <1>2, <1>3

\* What a call leaves behind once it is through with the file.
LEMMA DoneIs ==
  ASSUME TypeOK, NEW k \in Call, NEW c \in Cfg, Done(k, c)
  PROVE  LET v == IF call[k].by = "page" THEN [op |-> call[k].op, pc |-> "answer", by |-> "page", cfg |-> c] ELSE Idle
         IN  v \in CallState /\ call' = [call EXCEPT ![k] = v]
<1> DEFINE w == [op |-> call[k].op, pc |-> "answer", by |-> "page", cfg |-> c]
<1>1. call[k] \in CallState
  BY DEF TypeOK
<1>2. call[k].by = "page" => w \in CallState /\ [call[k] EXCEPT !.pc = "answer", !.cfg = c] = w
  <2>1. PICK r \in CallState : r = call[k]
    BY <1>1
  <2>2. /\ [r EXCEPT !.pc = "answer", !.cfg = c] \in CallState
        /\ [r EXCEPT !.pc = "answer", !.cfg = c] = [op |-> r.op, pc |-> "answer", by |-> r.by, cfg |-> c]
    BY Zenon, Moved DEF Place
  <2> QED
    BY <2>1, <2>2
<1> QED
  BY Zenon, <1>2, CfgTypes DEF Done

-----------------------------------------------------------------------------
(* Types and shapes.                                                        *)

\* At the start no call runs and everything has its type.
LEMMA InitShape == Init => IInv
<1> SUFFICES ASSUME Init PROVE IInv
  OBVIOUS
<1>1. file \in [kind : {"absent", "valid", "garbage"}, cfg : Cfg, len : Nat] /\ want \in Cfg
  BY CfgTypes, FileTypes, ConfigAssumption DEF Init
<1>2. used \in [{"calls", "edits", "faults", "crashes"} -> Nat]
  BY DEF Init
<1>3. \A k \in Call : call[k] = Idle
  BY DEF Init
<1>4. TypeOK
  BY Zenon, <1>1, <1>2, CfgTypes DEF Init, TypeOK
<1>5. Shape
  BY <1>3 DEF Shape, Idle
<1> QED
  BY <1>4, <1>5 DEF IInv

\* A step that changes call k to v, and nothing else the types speak of but what is
\* given, keeps types and shapes.
LEMMA ShapeUpdate ==
  ASSUME IInv, NEW k \in Call, NEW v \in CallState, call' = [call EXCEPT ![k] = v],
         v.op = "idle" <=> v.pc = "none", v.op = "idle" => v = Idle,
         v.op = "save" => v.pc \in {"truncate", "write", "answer"}, v.op = "read" => v.pc # "remove"
  PROVE  call' \in [Call -> CallState] /\ Shape'
<1>1. call' \in [Call -> CallState] /\ call'[k] = v /\ \A j \in Call \ {k} : call'[j] = call[j]
  BY Zenon, CallUpdate DEF IInv
<1> QED
  BY <1>1 DEF IInv, Shape

\* The steps of the calls keep types and shapes.
LEMMA StepShape == ASSUME IInv, NEW k \in Call, Step(k) PROVE IInv'
<1> USE DEF IInv
<1> DEFINE F == [kind : {"absent", "valid", "garbage"}, cfg : Cfg, len : Nat]
<1>0. call[k] \in CallState /\ file \in F /\ Idle \in CallState /\ Default \in Cfg
  BY CfgTypes DEF TypeOK
<1>a. call[k].cfg \in Cfg /\ Repair(file.cfg) \in Cfg
  BY <1>0, CfgTypes DEF CallState
<1>b. call[k].op = "idle" <=> call[k].pc = "none"
  BY DEF Shape
<1>1. CASE Remove(k)
  <2> DEFINE v == [op |-> call[k].op, pc |-> "check", by |-> call[k].by, cfg |-> call[k].cfg]
  <2>1. v \in CallState /\ call' = [call EXCEPT ![k] = v]
    BY <1>1, <1>a, GotoIs DEF Place, Remove
  <2>2. call[k].op \notin {"idle", "save"}
    BY <1>1, <1>b DEF Remove, Shape
  <2>3. call' \in [Call -> CallState] /\ Shape'
    BY Zenon, <2>1, <2>2, ShapeUpdate
  <2>4. gone' \subseteq Call
    BY <1>1 DEF Remove, TypeOK
  <2> QED
    BY <1>1, <2>3, <2>4, FileTypes DEF Remove, TypeOK
<1>2. CASE RemoveFails(k)
  <2> DEFINE v == [op |-> call[k].op, pc |-> "check", by |-> call[k].by, cfg |-> call[k].cfg]
  <2>1. v \in CallState /\ call' = [call EXCEPT ![k] = v]
    BY <1>2, <1>a, GotoIs DEF Place, RemoveFails
  <2>2. call[k].op \notin {"idle", "save"}
    BY <1>2, <1>b DEF RemoveFails, Shape
  <2>3. call' \in [Call -> CallState] /\ Shape'
    BY Zenon, <2>1, <2>2, ShapeUpdate
  <2>4. used' \in [{"calls", "edits", "faults", "crashes"} -> Nat]
    BY <1>2, UseType DEF RemoveFails, TypeOK
  <2> QED
    BY Zenon, <1>2, <2>3, <2>4 DEF RemoveFails, TypeOK
<1>3. CASE Check(k)
  <2> DEFINE l == IF file.kind = "absent" THEN "truncate" ELSE "read"
  <2> DEFINE v == [op |-> call[k].op, pc |-> l, by |-> call[k].by, cfg |-> Default]
  <2>1. v \in CallState /\ call' = [call EXCEPT ![k] = v]
    BY <1>3, <1>0, GotoIs DEF Place, Check
  <2>2. call[k].op \notin {"idle", "save"}
    BY <1>3, <1>b DEF Check, Shape
  <2>3. call' \in [Call -> CallState] /\ Shape'
    BY Zenon, <2>1, <2>2, ShapeUpdate
  <2> QED
    BY <1>3, <2>3 DEF Check, TypeOK
<1>4. CASE Truncate(k)
  <2> DEFINE v == [op |-> call[k].op, pc |-> "write", by |-> call[k].by, cfg |-> call[k].cfg]
  <2>1. v \in CallState /\ call' = [call EXCEPT ![k] = v]
    BY <1>4, <1>a, GotoIs DEF Place, Truncate
  <2>2. call[k].op # "idle"
    BY <1>4, <1>b DEF Truncate
  <2>3. call' \in [Call -> CallState] /\ Shape'
    BY Zenon, <2>1, <2>2, ShapeUpdate
  <2>4. gone' \subseteq Call
    BY <1>4 DEF Truncate, TypeOK
  <2> QED
    BY <1>4, <2>3, <2>4, FileTypes DEF Truncate, Truncated, TypeOK
<1>5. ASSUME NEW c \in Cfg, Done(k, c), call[k].op # "idle"
      PROVE  call' \in [Call -> CallState] /\ Shape'
  <2> DEFINE v == IF call[k].by = "page" THEN [op |-> call[k].op, pc |-> "answer", by |-> "page", cfg |-> c] ELSE Idle
  <2>1. v \in CallState /\ call' = [call EXCEPT ![k] = v]
    BY <1>5, DoneIs
  <2> QED
    BY Zenon, <1>5, <2>1, ShapeUpdate DEF Idle
<1>6. ASSUME call' = [call EXCEPT ![k] = Idle]
      PROVE  call' \in [Call -> CallState] /\ Shape'
  BY Zenon, <1>0, <1>6, ShapeUpdate DEF Idle
<1>7. CASE ReadFile(k)
  <2>1. call' \in [Call -> CallState] /\ Shape'
    BY <1>7, <1>5, <1>a, <1>b DEF ReadFile
  <2> QED
    BY <1>7, <2>1 DEF ReadFile, TypeOK
<1>8. CASE ReadFails(k)
  <2>1. call' \in [Call -> CallState] /\ Shape'
    BY <1>8, <1>6 DEF ReadFails, Fails
  <2>2. busy' \in BOOLEAN
    BY <1>8 DEF ReadFails, Fails, Clears
  <2> QED
    BY <1>8, <2>1, <2>2 DEF ReadFails, Fails, TypeOK
<1>9. CASE Write(k)
  <2>1. call' \in [Call -> CallState] /\ Shape'
    BY <1>9, <1>5, <1>a, <1>b DEF Write
  <2>2. file' \in F
    BY <1>9, <1>0, <1>a, FileTypes DEF Write
  <2> QED
    BY <1>9, <2>1, <2>2 DEF Write, TypeOK
<1>10. CASE WriteFails(k)
  <2>1. call' \in [Call -> CallState] /\ Shape'
    BY <1>10, <1>6 DEF WriteFails, Fails
  <2>2. busy' \in BOOLEAN /\ used' \in [{"calls", "edits", "faults", "crashes"} -> Nat]
    BY <1>10, UseType DEF WriteFails, Fails, Clears, TypeOK
  <2>3. file' \in F
    BY <1>0, <1>10 DEF WriteFails
  <2> QED
    BY Zenon, <1>10, <2>1, <2>2, <2>3 DEF WriteFails, Fails, TypeOK
<1>11. CASE Answers(k)
  <2>1. call' \in [Call -> CallState] /\ Shape'
    BY <1>11, <1>6 DEF Answers
  <2>2. busy' \in BOOLEAN /\ loaded' \in BOOLEAN
    BY Zenon, <1>11 DEF Answers, Clears, UpToDate, TypeOK
  <2>3. form' \in Form /\ touched' \subseteq {"roots", "dir"}
    BY Zenon, <1>11, <1>a, CfgTypes DEF Answers, TypeOK
  <2> QED
    BY <1>11, <2>1, <2>2, <2>3 DEF Answers, TypeOK
<1> QED
  BY <1>1, <1>2, <1>3, <1>4, <1>7, <1>8, <1>9, <1>10, <1>11 DEF Step

\* What the start of a call does.
LEMMA BeginIs ==
  ASSUME IInv, NEW k \in Call, NEW op \in {"read", "save", "reset"}, NEW l \in Place,
         NEW by \in {"daily", "page"}, NEW c \in Cfg, Begin(k, op, l, by, c)
  PROVE  LET v == [op |-> op, pc |-> l, by |-> by, cfg |-> c]
         IN  /\ v \in CallState /\ call' = [call EXCEPT ![k] = v]
             /\ call[k] = Idle
             /\ used' \in [{"calls", "edits", "faults", "crashes"} -> Nat] /\ used'.faults = used.faults
             /\ serial' \in BOOLEAN /\ mixed' \in BOOLEAN
<1>1. call[k] = Idle
  BY DEF Begin, Running, IInv, Shape
<1>2. used' \in [{"calls", "edits", "faults", "crashes"} -> Nat]
  BY UseType DEF Begin, IInv, TypeOK
<1>3. used'.faults = used.faults
  BY DEF Begin, Use, IInv, TypeOK
<1>4. [op |-> op, pc |-> l, by |-> by, cfg |-> c] \in CallState
  BY DEF CallState, Place
<1>5. serial' \in BOOLEAN /\ mixed' \in BOOLEAN
  BY DEF Begin, IInv, TypeOK
<1> QED
  BY <1>1, <1>2, <1>3, <1>4, <1>5 DEF Begin

\* A call nobody waits for any more.
LEMMA TimeoutIs ==
  ASSUME TypeOK, NEW k \in Call, Timeout(k)
  PROVE  LET v == [op |-> call[k].op, pc |-> call[k].pc, by |-> "nobody", cfg |-> call[k].cfg]
         IN  v \in CallState /\ call' = [call EXCEPT ![k] = v]
<1>1. PICK r \in CallState : r = call[k]
  BY DEF TypeOK
<1> DEFINE u == [r EXCEPT !.by = "nobody"]
<1>2. u \in CallState /\ u.op = r.op /\ u.pc = r.pc /\ u.by = "nobody" /\ u.cfg = r.cfg
  BY DEF CallState
<1>3. call' = [call EXCEPT ![k] = u]
  BY <1>1 DEF Timeout, TypeOK
<1>4. u = [op |-> u.op, pc |-> u.pc, by |-> u.by, cfg |-> u.cfg]
  BY <1>2, CallFields
<1> HIDE DEF u
<1> QED
  BY Zenon, <1>1, <1>2, <1>3, <1>4

\* The other steps keep types and shapes.
LEMMA CallerShape ==
  ASSUME IInv, NEW k \in Call, Timeout(k) \/ DailyRead(k) \/ Load(k) \/ doSaveConfig(k) \/ doResetConfig(k)
  PROVE  IInv'
<1> USE DEF IInv
<1>0. Default \in Cfg /\ Redirect(FormCfg) \in Cfg
  BY CfgTypes, FormCfgType DEF TypeOK
<1>1. CASE Timeout(k)
  <2> DEFINE v == [op |-> call[k].op, pc |-> call[k].pc, by |-> "nobody", cfg |-> call[k].cfg]
  <2>1. v \in CallState /\ call' = [call EXCEPT ![k] = v]
    BY <1>1, TimeoutIs
  <2>2. call[k].op # "idle"
    BY <1>1 DEF Timeout, Shape, Idle
  <2>3. call' \in [Call -> CallState] /\ Shape'
    BY Zenon, <2>1, <2>2, ShapeUpdate DEF Shape
  <2>4. used' \in [{"calls", "edits", "faults", "crashes"} -> Nat] /\ busy' \in BOOLEAN
    BY <1>1, UseType DEF Timeout, TypeOK
  <2> QED
    BY Zenon, <1>1, <2>3, <2>4 DEF Timeout, TypeOK
<1>2. ASSUME NEW op \in {"read", "save", "reset"}, NEW l \in Place \ {"none"}, NEW by \in {"daily", "page"}, NEW c \in Cfg,
             Begin(k, op, l, by, c), op = "save" => l = "truncate", op = "read" => l = "check"
      PROVE  /\ call' \in [Call -> CallState] /\ Shape'
             /\ used' \in [{"calls", "edits", "faults", "crashes"} -> Nat]
             /\ serial' \in BOOLEAN /\ mixed' \in BOOLEAN
  <2> DEFINE v == [op |-> op, pc |-> l, by |-> by, cfg |-> c]
  <2>1. v \in CallState /\ call' = [call EXCEPT ![k] = v]
    BY <1>2, BeginIs
  <2>2. call' \in [Call -> CallState] /\ Shape'
    BY Zenon, <1>2, <2>1, ShapeUpdate
  <2> QED
    BY Zenon, <1>2, <2>2, BeginIs
<1>3. CASE DailyRead(k)
  BY <1>0, <1>2, <1>3 DEF DailyRead, TypeOK, Place
<1>4. CASE Load(k)
  BY <1>0, <1>2, <1>4 DEF Load, TypeOK, Place
<1>5. CASE doSaveConfig(k)
  BY <1>0, <1>2, <1>5 DEF doSaveConfig, TypeOK, Place
<1>6. CASE doResetConfig(k)
  BY Zenon, <1>0, <1>2, <1>6 DEF doResetConfig, TypeOK, Place
<1> QED
  BY <1>1, <1>3, <1>4, <1>5, <1>6

\* Every step keeps the types and the places of the calls.
LEMMA NextShape == ASSUME IInv, [Next]_vars PROVE IInv'
<1> USE DEF IInv
<1>1. ASSUME NEW f \in {"roots", "dir"}, NEW v \in Line \cup Dir, EditForm(f, v) PROVE IInv'
  <2>1. used' \in [{"calls", "edits", "faults", "crashes"} -> Nat]
    BY <1>1, UseType DEF EditForm, TypeOK
  <2> QED
    BY <1>1, <2>1 DEF EditForm, TypeOK, Shape
<1>2. CASE OtherEnds
  BY Zenon, <1>2 DEF OtherEnds, TypeOK, Shape
<1>3. CASE Crash
  <2>1. used' \in [{"calls", "edits", "faults", "crashes"} -> Nat]
    BY <1>3, UseType DEF Crash, TypeOK
  <2>2. serial' \in BOOLEAN
    BY <1>3 DEF Crash, TypeOK
  <2>3. \A k \in Call : call'[k] = Idle
    BY <1>3 DEF Crash
  <2>4. Shape'
    BY <2>3 DEF Shape, Idle
  <2> QED
    BY Zenon, <1>3, <2>1, <2>2, <2>4, CfgTypes DEF Crash, TypeOK
<1>4. CASE UNCHANGED vars
  BY <1>4 DEF vars, TypeOK, Shape
<1> QED
  BY <1>1, <1>2, <1>3, <1>4, StepShape, CallerShape DEF Next

\* The variables keep their types, however many calls run together.
THEOREM ConfigTypeCorrect == Spec => []TypeOK
<1>1. Init => IInv
  BY InitShape
<1>2. IInv /\ [Next]_vars => IInv'
  BY NextShape
<1>3. IInv => TypeOK
  BY DEF IInv
<1> QED
  BY <1>1, <1>2, <1>3, PTL DEF Spec

-----------------------------------------------------------------------------
(* What each step does to the calls.                                        *)

\* Call k is at l with configuration c after the step.
Goes(k, l, c) == call'[k] = [op |-> call[k].op, pc |-> l, by |-> call[k].by, cfg |-> c]

\* Call k has handed c over, or has ended with nobody to hand it to.
Hands(k, c) == call'[k] = Idle \/ Goes(k, "answer", c)

\* What a step of a call does to that call, as the invariants below need it.
LEMMA StepCalls ==
  ASSUME IInv, NEW k \in Call, Step(k)
  PROVE  /\ \A j \in Call \ {k} : call'[j] = call[j]
         /\ call[k].op # "idle" /\ call[k] \in CallState /\ call[k].cfg \in Cfg
         /\ Remove(k) \/ RemoveFails(k) => Goes(k, "check", call[k].cfg)
         /\ Check(k) => Goes(k, IF file.kind = "absent" THEN "truncate" ELSE "read", Default)
         /\ Truncate(k) => Goes(k, "write", call[k].cfg)
         /\ ReadFile(k) => Hands(k, Repair(file.cfg))
         /\ Write(k) => Hands(k, call[k].cfg)
         /\ ReadFails(k) \/ WriteFails(k) \/ Answers(k) => call'[k] = Idle
<1> USE DEF IInv
<1>0. call[k] \in CallState /\ Idle \in CallState /\ Default \in Cfg /\ file.cfg \in Cfg
  BY CfgTypes DEF TypeOK
<1>1. call[k].cfg \in Cfg /\ Repair(file.cfg) \in Cfg
  BY <1>0, CfgTypes DEF CallState
<1>2. call[k].op # "idle"
  BY Zenon DEF Step, Shape, Remove, RemoveFails, Check, Truncate, ReadFile, ReadFails, Write, WriteFails, Answers
<1>3. ASSUME NEW l \in Place, NEW c \in Cfg, Goto(k, l, c)
      PROVE  Goes(k, l, c) /\ \A j \in Call \ {k} : call'[j] = call[j]
  BY <1>3, GotoIs, CallUpdate DEF Goes
<1>4. ASSUME NEW c \in Cfg, Done(k, c)
      PROVE  Hands(k, c) /\ \A j \in Call \ {k} : call'[j] = call[j]
  <2> DEFINE v == IF call[k].by = "page" THEN [op |-> call[k].op, pc |-> "answer", by |-> "page", cfg |-> c] ELSE Idle
  <2>1. v \in CallState /\ call' = [call EXCEPT ![k] = v]
    BY <1>4, DoneIs
  <2>2. call'[k] = v /\ \A j \in Call \ {k} : call'[j] = call[j]
    BY Zenon, <2>1, CallUpdate
  <2> QED
    BY Zenon, <2>2 DEF Hands, Goes
<1>5. ASSUME call' = [call EXCEPT ![k] = Idle]
      PROVE  call'[k] = Idle /\ \A j \in Call \ {k} : call'[j] = call[j]
  BY Zenon, <1>0, <1>5, CallUpdate
<1>6. Remove(k) \/ RemoveFails(k) => Goes(k, "check", call[k].cfg) /\ \A j \in Call \ {k} : call'[j] = call[j]
  BY <1>1, <1>3 DEF Remove, RemoveFails, Place
<1>7. Check(k) => /\ Goes(k, IF file.kind = "absent" THEN "truncate" ELSE "read", Default)
                  /\ \A j \in Call \ {k} : call'[j] = call[j]
  BY <1>0, <1>3 DEF Check, Place
<1>8. Truncate(k) => Goes(k, "write", call[k].cfg) /\ \A j \in Call \ {k} : call'[j] = call[j]
  BY Zenon, <1>1, <1>3 DEF Truncate, Place
<1>9. ReadFile(k) => Hands(k, Repair(file.cfg)) /\ \A j \in Call \ {k} : call'[j] = call[j]
  BY <1>1, <1>4 DEF ReadFile
<1>10. Write(k) => Hands(k, call[k].cfg) /\ \A j \in Call \ {k} : call'[j] = call[j]
  BY <1>1, <1>4 DEF Write
<1>11. ReadFails(k) \/ WriteFails(k) \/ Answers(k) => call'[k] = Idle /\ \A j \in Call \ {k} : call'[j] = call[j]
  BY <1>5 DEF ReadFails, WriteFails, Answers, Fails
<1> QED
  BY Zenon, <1>0, <1>1, <1>2, <1>6, <1>7, <1>8, <1>9, <1>10, <1>11 DEF Step

\* Call k has been started.
Starts(k, op, l, by, c) == call'[k] = [op |-> op, pc |-> l, by |-> by, cfg |-> c]

\* Nobody waits for call k any more.
Orphaned(k) == call'[k] = [op |-> call[k].op, pc |-> call[k].pc, by |-> "nobody", cfg |-> call[k].cfg]

\* What the page's handlers do to the calls.
LEMMA CallerCalls ==
  ASSUME IInv, NEW k \in Call, Timeout(k) \/ DailyRead(k) \/ Load(k) \/ doSaveConfig(k) \/ doResetConfig(k)
  PROVE  /\ \A j \in Call \ {k} : call'[j] = call[j]
         /\ Timeout(k) => /\ Orphaned(k)
                          /\ used'.faults # 0
         /\ DailyRead(k) => Starts(k, "read", "check", "daily", Default)
         /\ Load(k) => Starts(k, "read", "check", "page", Default)
         /\ doSaveConfig(k) => Starts(k, "save", "truncate", "page", Redirect(FormCfg))
         /\ doResetConfig(k) => Starts(k, "reset", "remove", "page", Default)
         /\ ~Timeout(k) => call[k] = Idle /\ used'.faults = used.faults
<1> USE DEF IInv
<1>0. Default \in Cfg /\ Redirect(FormCfg) \in Cfg
  BY CfgTypes, FormCfgType DEF TypeOK
<1>1. ASSUME NEW op \in {"read", "save", "reset"}, NEW l \in Place, NEW by \in {"daily", "page"}, NEW c \in Cfg,
             Begin(k, op, l, by, c)
      PROVE  /\ Starts(k, op, l, by, c) /\ \A j \in Call \ {k} : call'[j] = call[j]
             /\ call[k] = Idle /\ used'.faults = used.faults
  BY SMTT(40), <1>1, BeginIs, CallUpdate DEF Starts
<1>2. CASE Timeout(k)
  <2>1. /\ Orphaned(k)
        /\ \A j \in Call \ {k} : call'[j] = call[j]
    BY <1>2, TimeoutIs, CallUpdate DEF Orphaned
  <2>2. used'.faults # 0
    BY <1>2, UseType DEF Timeout, TypeOK
  <2>3. k \in Running
    BY <1>2 DEF Timeout, Shape, Idle, Running
  <2>4. ~DailyRead(k) /\ ~Load(k) /\ ~doSaveConfig(k) /\ ~doResetConfig(k)
    BY Zenon, <2>3 DEF DailyRead, Load, doSaveConfig, doResetConfig, Begin
  <2> QED
    BY Zenon, <1>2, <2>1, <2>2, <2>4
<1>3. CASE ~Timeout(k)
  <2>1. DailyRead(k) => /\ Starts(k, "read", "check", "daily", Default)
                        /\ \A j \in Call \ {k} : call'[j] = call[j]
                        /\ call[k] = Idle /\ used'.faults = used.faults
    BY Zenon, <1>0, <1>1 DEF DailyRead, Place
  <2>2. Load(k) => /\ Starts(k, "read", "check", "page", Default)
                   /\ \A j \in Call \ {k} : call'[j] = call[j]
                   /\ call[k] = Idle /\ used'.faults = used.faults
    BY Zenon, <1>0, <1>1 DEF Load, Place
  <2>3. doSaveConfig(k) => /\ Starts(k, "save", "truncate", "page", Redirect(FormCfg))
                           /\ \A j \in Call \ {k} : call'[j] = call[j]
                           /\ call[k] = Idle /\ used'.faults = used.faults
    BY Zenon, <1>0, <1>1 DEF doSaveConfig, Place
  <2>4. doResetConfig(k) => /\ Starts(k, "reset", "remove", "page", Default)
                            /\ \A j \in Call \ {k} : call'[j] = call[j]
                            /\ call[k] = Idle /\ used'.faults = used.faults
    BY Zenon, <1>0, <1>1 DEF doResetConfig, Place
  <2> QED
    BY Zenon, <1>3, <2>1, <2>2, <2>3, <2>4
<1> QED
  BY Zenon, <1>2, <1>3

-----------------------------------------------------------------------------
(* The form is repaired.                                                    *)

Repaired(c) == c \in Cfg /\ c.roots # "empty" /\ c.dir \notin {"empty", "src-tauri"}

\* What a read or a reset carries: the default while it writes, a repaired
\* configuration once it answers.
Cargo(k) ==
  call[k].op \in {"read", "reset"} =>
    /\ call[k].pc \in {"truncate", "write"} => call[k].cfg = Default
    /\ call[k].pc = "answer" => Repaired(call[k].cfg)

FInv == (\A k \in Call : Cargo(k)) /\ FormRepaired

\* read_config leaves no empty field and no directory below src-tauri.
LEMMA RepairRepairs ==
  /\ \A c \in Cfg : Repaired(Repair(c))
  /\ Repaired(Default) /\ Repair(Default) = Default
<1>1. \A c \in Cfg : Repaired(Repair(c))
  BY CfgTypes DEF Repaired, Repair
<1>2. Repaired(Default)
  BY CfgTypes DEF Repaired, Default
<1>3. Repair(Default) = Default
  BY DEF Repair, Default
<1> QED
  BY <1>1, <1>2, <1>3

\* What the page takes from a repaired configuration is neither blank nor below src-tauri.
LEMMA AppliedRepaired ==
  ASSUME NEW c, Repaired(c)
  PROVE  /\ Applied(c).roots # "blank" /\ Applied(c).dir \notin {"empty", "src-tauri"}
         /\ Applied(c).roots = join(c.roots) /\ Applied(c).dir = c.dir
BY DEF Repaired, Applied, join, Cfg, List, Dir

\* A step of a call brings only repaired configurations to the form.
LEMMA StepForm == ASSUME IInv, FInv, NEW k \in Call, Step(k) PROVE FInv'
<1> USE DEF IInv
<1>0. /\ \A j \in Call \ {k} : call'[j] = call[j]
      /\ call[k].op # "idle" /\ Cargo(k) /\ file.cfg \in Cfg
  BY Zenon, StepCalls DEF FInv, TypeOK
<1>1. ASSUME Cargo(k)' PROVE \A j \in Call : Cargo(j)'
  BY <1>0, <1>1 DEF FInv, Cargo
<1>2. ASSUME call'[k] = Idle PROVE Cargo(k)'
  BY <1>2 DEF Cargo, Idle
<1>h. ASSUME NEW c, Hands(k, c), Repaired(c) PROVE Cargo(k)'
  BY <1>2, <1>h DEF Hands, Goes, Cargo
<1>3. CASE Remove(k) \/ RemoveFails(k) \/ Check(k) \/ Truncate(k)
  <2>1. Cargo(k)'
    <3>1. CASE Remove(k) \/ RemoveFails(k)
      <4>1. Goes(k, "check", call[k].cfg)
        BY Zenon, <3>1, StepCalls
      <4> QED
        BY <4>1 DEF Goes, Cargo
    <3>2. CASE Check(k)
      <4>1. Goes(k, IF file.kind = "absent" THEN "truncate" ELSE "read", Default)
        BY Zenon, <3>2, StepCalls
      <4> QED
        BY SMTT(40), <4>1 DEF Goes, Cargo
    <3>3. CASE Truncate(k)
      <4>1. Goes(k, "write", call[k].cfg) /\ call[k].pc = "truncate"
        BY Zenon, <3>3, StepCalls DEF Truncate
      <4> QED
        BY <1>0, <4>1 DEF Goes, Cargo
    <3> QED
      BY <1>3, <3>1, <3>2, <3>3
  <2> QED
    BY Zenon, <1>1, <1>3, <2>1 DEF FInv, FormRepaired, Remove, RemoveFails, Check, Truncate
<1>4. CASE ReadFile(k)
  <2>1. Cargo(k)'
    BY Zenon, <1>0, <1>4, <1>h, StepCalls, RepairRepairs
  <2> QED
    BY Zenon, <1>1, <1>4, <2>1 DEF FInv, FormRepaired, ReadFile
<1>5. CASE Write(k)
  <2>1. Cargo(k)'
    <3>1. Hands(k, call[k].cfg) /\ call[k].pc = "write"
      BY Zenon, <1>5, StepCalls DEF Write
    <3>2. CASE call[k].op \in {"read", "reset"}
      BY Zenon, <1>0, <1>h, <3>1, <3>2, RepairRepairs DEF Cargo
    <3>3. CASE call[k].op \notin {"read", "reset"}
      BY <3>1, <3>3 DEF Hands, Goes, Cargo, Idle
    <3> QED
      BY <3>2, <3>3
  <2> QED
    BY Zenon, <1>1, <1>5, <2>1 DEF FInv, FormRepaired, Write
<1>6. CASE ReadFails(k) \/ WriteFails(k)
  <2>1. Cargo(k)'
    BY Zenon, <1>2, <1>6, StepCalls
  <2> QED
    BY <1>1, <1>6, <2>1 DEF FInv, FormRepaired, ReadFails, WriteFails, Fails
<1>7. CASE Answers(k)
  <2>1. Cargo(k)'
    BY Zenon, <1>2, <1>7, StepCalls
  <2>2. FormRepaired'
    BY Zenon, <1>0, <1>7, AppliedRepaired DEF FInv, FormRepaired, Answers, Cargo
  <2> QED
    BY <1>1, <2>1, <2>2 DEF FInv
<1> QED
  BY <1>3, <1>4, <1>5, <1>6, <1>7 DEF Step

\* So does every step of the system.
LEMMA NextForm == ASSUME IInv, FInv, [Next]_vars PROVE FInv'
<1> USE DEF IInv
<1>1. ASSUME NEW k \in Call, Timeout(k) \/ DailyRead(k) \/ Load(k) \/ doSaveConfig(k) \/ doResetConfig(k)
      PROVE  FInv'
  <2>1. \A j \in Call \ {k} : call'[j] = call[j]
    BY Zenon, <1>1, CallerCalls
  <2>2. Cargo(k)'
    <3>1. CASE Timeout(k)
      <4>1. Orphaned(k)
        BY Zenon, <3>1, CallerCalls
      <4> QED
        BY SMTT(40), <4>1 DEF Orphaned, Cargo, FInv
    <3>2. CASE ~Timeout(k)
      <4>1. \/ Starts(k, "read", "check", "daily", Default) \/ Starts(k, "read", "check", "page", Default)
            \/ Starts(k, "save", "truncate", "page", Redirect(FormCfg)) \/ Starts(k, "reset", "remove", "page", Default)
        BY Zenon, <1>1, <3>2, CallerCalls
      <4> QED
        BY <4>1 DEF Starts, Cargo
    <3> QED
      BY <3>1, <3>2
  <2>3. FormRepaired'
    BY <1>1 DEF FInv, FormRepaired, Timeout, DailyRead, Load, doSaveConfig, doResetConfig
  <2> QED
    BY <2>1, <2>2, <2>3 DEF FInv, Cargo
<1>2. ASSUME NEW f \in {"roots", "dir"}, NEW v \in Line \cup Dir, EditForm(f, v) PROVE FInv'
  BY Zenon, <1>2 DEF EditForm, FInv, FormRepaired, Cargo, TypeOK, Form
<1>3. CASE OtherEnds
  BY Zenon, <1>3 DEF OtherEnds, FInv, FormRepaired, Cargo
<1>4. CASE Crash
  BY <1>4 DEF Crash, FInv, FormRepaired, Cargo, Idle, PageDefault
<1>5. CASE UNCHANGED vars
  BY <1>5 DEF vars, FInv, FormRepaired, Cargo
<1> QED
  BY <1>1, <1>2, <1>3, <1>4, <1>5, StepForm DEF Next

\* The page's defaults are repaired configurations.
LEMMA InitForm == Init => FInv
BY DEF Init, FInv, FormRepaired, Cargo, Idle, PageDefault

\* Whatever the file holds and whichever reads, saves and resets run together, with
\* their answers in any order, the form has no empty field and no directory below
\* src-tauri that the user did not type.
THEOREM FormAlwaysRepaired == Spec => []FormRepaired
<1>1. Init => IInv /\ FInv
  BY InitShape, InitForm
<1>2. IInv /\ FInv /\ [Next]_vars => (IInv /\ FInv)'
  BY NextShape, NextForm
<1>3. FInv => FormRepaired
  BY DEF FInv
<1> QED
  BY <1>1, <1>2, <1>3, PTL DEF Spec

-----------------------------------------------------------------------------
(* A save is durable.                                                       *)

\* The file holds what is wanted.
Held == file.kind = "valid" /\ file.cfg = want

\* So it does, or it will once it is found missing.
FileOK == (file = Absent /\ want = Default) \/ Held

\* What one call, alone, makes of the file at each of its places.
Alone(k) ==
  /\ call[k].pc = "remove" => want = Default
  /\ call[k].pc = "check" => FileOK
  /\ call[k].pc \in {"read", "answer"} => Held
  /\ call[k].pc \in {"truncate", "write"} => call[k].cfg = want
  /\ call[k].pc = "write" => file = Empty /\ k \notin gone

SInv ==
  serial => /\ Running = {} => Held \/ (file = Absent /\ want = Default /\ used.calls = 0)
            /\ \A k \in Running : Alone(k) /\ \A j \in Running : j = k

\* The step of a call that runs alone, or its end, keeps SInv.
LEMMA StepAlone == ASSUME IInv, SInv, NEW k \in Call, Step(k) PROVE SInv'
<1> USE DEF IInv
<1> SUFFICES ASSUME serial' PROVE SInv'
  BY DEF SInv
<1>0. /\ \A j \in Call \ {k} : call'[j] = call[j]
      /\ call[k].op # "idle" /\ k \in Running
      /\ file.kind = "absent" \/ file.kind = "valid" \/ file.kind = "garbage"
  BY Zenon, StepCalls DEF Running, TypeOK
<1>1. CASE ~serial
  BY Zenon, <1>1 DEF Step, Remove, RemoveFails, Check, Truncate, ReadFile, ReadFails, Write, WriteFails, Answers
<1>2. CASE serial
  <2>1. Alone(k) /\ \A j \in Running : j = k
    BY <1>0, <1>2 DEF SInv
  <2>2. \A j \in Running' : j = k
    BY <1>0, <2>1 DEF Running
  <2>3. ASSUME call'[k] = Idle, Held' PROVE SInv'
    BY SMTT(40), <2>2, <2>3 DEF SInv, Running, Idle
  <2>4. ASSUME NEW l, NEW c, Goes(k, l, c), Alone(k)' PROVE SInv'
    BY SMTT(40), <1>0, <2>2, <2>4 DEF SInv, Running, Goes
  <2>5. ASSUME NEW c, Hands(k, c), Held' PROVE SInv'
    <3>1. Goes(k, "answer", c) => Alone(k)'
      BY SMTT(40), <2>5 DEF Goes, Alone
    <3> QED
      BY <2>3, <2>4, <2>5, <3>1 DEF Hands
  <2>6. CASE Remove(k)
    <3>1. FileOK'
      BY <2>1, <2>6 DEF Remove, Alone, FileOK
    <3>2. Goes(k, "check", call[k].cfg)
      BY Zenon, <2>6, StepCalls
    <3>3. Alone(k)'
      BY SMTT(40), <3>1, <3>2 DEF Goes, Alone
    <3> QED
      BY <2>4, <3>2, <3>3
  <2>7. CASE RemoveFails(k) \/ WriteFails(k)
    BY <2>7 DEF RemoveFails, WriteFails
  <2>8. CASE Check(k)
    <3>1. FileOK /\ FileOK' /\ want' = want /\ file' = file
      BY Zenon, <2>1, <2>8 DEF Check, Alone, FileOK, Held
    <3>2. Goes(k, IF file.kind = "absent" THEN "truncate" ELSE "read", Default)
      BY Zenon, <2>8, StepCalls
    <3>3. IF file.kind = "absent" THEN want = Default ELSE Held'
      BY <3>1 DEF FileOK, Held, Absent
    <3>4. Alone(k)'
      BY SMTT(40), <3>1, <3>2, <3>3 DEF Goes, Alone
    <3> QED
      BY <2>4, <3>2, <3>4
  <2>9. CASE Truncate(k)
    <3>1. Goes(k, "write", call[k].cfg)
      BY Zenon, <2>9, StepCalls
    <3>2. call[k].cfg = want /\ want' = want /\ file' = Empty /\ k \notin gone'
      BY Zenon, <2>1, <2>9 DEF Truncate, Truncated, Alone
    <3>3. Alone(k)'
      BY <3>1, <3>2 DEF Goes, Alone
    <3> QED
      BY <2>4, <3>1, <3>3
  <2>10. CASE ReadFile(k)
    <3>1. Held'
      BY Zenon, <2>1, <2>10 DEF ReadFile, Alone, Held
    <3> QED
      BY Zenon, <2>5, <2>10, <3>1, StepCalls
  <2>11. CASE ReadFails(k)
    BY Zenon, <2>1, <2>11 DEF ReadFails, Alone, Held
  <2>12. CASE Write(k)
    <3>1. call[k].cfg = want /\ want' = want /\ file = Empty /\ file' = Overwrite(file, call[k].cfg)
      BY Zenon, <2>1, <2>12 DEF Write, Alone
    <3>2. TextLen(call[k].cfg) \in Nat
      BY Zenon, <2>12, StepCalls, CfgTypes
    <3>3. file' = Text(want)
      BY <3>1, <3>2 DEF Overwrite, Empty
    <3>4. Held'
      BY <3>1, <3>3 DEF Held, Text
    <3> QED
      BY Zenon, <2>5, <2>12, <3>4, StepCalls
  <2>13. CASE Answers(k)
    <3>1. Held'
      BY Zenon, <2>1, <2>13 DEF Answers, Alone, Held
    <3> QED
      BY Zenon, <2>3, <2>13, <3>1, StepCalls
  <2> QED
    BY <2>6, <2>7, <2>8, <2>9, <2>10, <2>11, <2>12, <2>13 DEF Step
<1> QED
  BY <1>1, <1>2 DEF TypeOK

\* A call that runs alone makes of the file what Alone says.
LEMMA NextAlone == ASSUME IInv, SInv, [Next]_vars PROVE SInv'
<1> USE DEF IInv
<1>1. ASSUME NEW k \in Call, NEW op, NEW l, NEW by, NEW c, Starts(k, op, l, by, c), op # "idle",
             \A j \in Call \ {k} : call'[j] = call[j], serial' = (serial /\ Running = {}), file' = file,
             \/ l = "check" /\ want' = want
             \/ l = "truncate" /\ want' = c
             \/ l = "remove" /\ want' = Default
      PROVE  SInv'
  <2> SUFFICES ASSUME serial, Running = {} PROVE SInv'
    BY Zenon, <1>1 DEF SInv
  <2>1. FileOK
    BY DEF SInv, FileOK
  <2>2. Running' = {k}
    BY SMTT(40), <1>1 DEF Running, Starts
  <2>3. Alone(k)'
    BY SMTT(40), <1>1, <2>1 DEF Starts, Alone, FileOK, Held
  <2> QED
    BY <2>2, <2>3 DEF SInv
<1>2. ASSUME NEW k \in Call, Timeout(k) PROVE SInv'
  BY <1>2 DEF Timeout, SInv
<1>3. ASSUME NEW k \in Call, DailyRead(k) PROVE SInv'
  BY Zenon, <1>1, <1>3, CallerCalls DEF DailyRead, Begin
<1>4. ASSUME NEW k \in Call, Load(k) PROVE SInv'
  BY Zenon, <1>1, <1>4, CallerCalls DEF Load, Begin
<1>5. ASSUME NEW k \in Call, doSaveConfig(k) PROVE SInv'
  BY Zenon, <1>1, <1>5, CallerCalls DEF doSaveConfig, Begin
<1>6. ASSUME NEW k \in Call, doResetConfig(k) PROVE SInv'
  BY Zenon, <1>1, <1>6, CallerCalls DEF doResetConfig, Begin
<1>7. ASSUME UNCHANGED <<file, call, gone, serial, want>>, used'.calls = used.calls PROVE SInv'
  BY Zenon, <1>7 DEF SInv, Running, Alone, FileOK, Held
<1>8. ASSUME NEW f \in {"roots", "dir"}, NEW v \in Line \cup Dir, EditForm(f, v) PROVE SInv'
  BY <1>7, <1>8 DEF EditForm, Use, TypeOK
<1>9. CASE OtherEnds
  BY <1>7, <1>9 DEF OtherEnds
<1>10. CASE Crash
  <2>1. serial' => Held \/ (file = Absent /\ want = Default /\ used.calls = 0)
    BY Zenon, <1>10 DEF Crash, SInv
  <2>2. Running' = {}
    BY Zenon, <1>10 DEF Crash, Running, Idle
  <2>3. UNCHANGED <<file, want>> /\ used'.calls = used.calls
    BY <1>10 DEF Crash, Use, TypeOK
  <2> QED
    BY <2>1, <2>2, <2>3 DEF SInv, Held
<1>11. CASE UNCHANGED vars
  BY <1>7, <1>11 DEF vars
<1> QED
  BY <1>2, <1>3, <1>4, <1>5, <1>6, <1>8, <1>9, <1>10, <1>11, StepAlone DEF Next

\* While calls do not overlap, fail or get cut short, the file holds, between calls,
\* what was saved last, whatever the lengths of the old and the new text.
THEOREM SerialSavesLast == Spec => []SerialSaveDurable
<1>1. Init => IInv /\ SInv
  <2>1. Init => Held \/ (file = Absent /\ want = Default /\ used.calls = 0)
    BY SMTT(40) DEF Init, Held, Absent, Text
  <2>2. Init => Running = {}
    BY SMTT(40) DEF Init, Running, Idle
  <2> QED
    BY <2>1, <2>2, InitShape DEF SInv
<1>2. IInv /\ SInv /\ [Next]_vars => (IInv /\ SInv)'
  BY NextShape, NextAlone
<1>3. SInv => SerialSaveDurable
  BY DEF SInv, SerialSaveDurable, Held
<1> QED
  BY <1>1, <1>2, <1>3, PTL DEF Spec

-----------------------------------------------------------------------------
(* A save changes only what was edited.                                     *)

\* The fields of c that were not edited are those the form shows.
Agrees(c) ==
  /\ "roots" \notin touched => join(c.roots) = form.roots
  /\ "dir" \notin touched => c.dir = form.dir

LInv ==
  loaded => /\ file.kind # "absent"
            /\ file.kind = "valid" => Agrees(Repair(file.cfg))
            /\ \A k \in Call : /\ call[k].pc # "remove"
                               /\ call[k].pc \in {"truncate", "write"} => call[k].op = "save" /\ Agrees(call[k].cfg)

\* What agrees with a repaired form needs no repair where it agrees.
LEMMA AgreeRepair ==
  ASSUME FormRepaired, NEW c \in Cfg, Agrees(c)
  PROVE  Agrees(Repair(c))
BY DEF FormRepaired, Agrees, Repair, Cfg, join

\* What a save takes from a repaired form agrees with the form: no directory has to move.
LEMMA AgreeRedirect ==
  ASSUME FormRepaired, form \in Form
  PROVE  Agrees(Redirect(FormCfg))
<1>1. Redirect(FormCfg).roots = parseCSV(form.roots) /\ Redirect(FormCfg).dir = IF form.dir = "src-tauri" THEN "backend" ELSE form.dir
  BY DEF Redirect, FormCfg
<1>2. \A t \in Line : join(parseCSV(t)) = t
  BY DEF join, parseCSV, Line
<1> QED
  BY <1>1, <1>2 DEF FormRepaired, Agrees, Form

\* A step of a call keeps file, form and calls in agreement.
LEMMA StepLoaded == ASSUME IInv, FInv, LInv, NEW k \in Call, Step(k) PROVE LInv'
<1> USE DEF IInv
<1> SUFFICES ASSUME loaded' PROVE LInv'
  BY Zenon DEF LInv
<1>0. /\ \A j \in Call \ {k} : call'[j] = call[j]
      /\ call[k].op # "idle" /\ call[k].cfg \in Cfg /\ FormRepaired
  BY Zenon, StepCalls DEF FInv
<1>1. CASE Answers(k) /\ call[k].by = "page" /\ call[k].op \in {"read", "reset"}
  <2>1. form' = Applied(call[k].cfg) /\ file' = file /\ call'[k] = Idle /\ UpToDate(k)
    BY Zenon, <1>1, StepCalls DEF Answers
  <2>a. Repaired(call[k].cfg)
    BY Zenon, <1>1 DEF FInv, Cargo, Answers
  <2>2. file'.kind = "valid" /\ Agrees(Repair(file.cfg))'
    BY Zenon, <2>1, <2>a, AppliedRepaired DEF UpToDate, Agrees
  <2>3. ASSUME NEW j \in Call PROVE call'[j].pc \notin {"remove", "truncate", "write"}
    BY SMTT(40), <1>0, <2>1 DEF UpToDate, Idle
  <2> QED
    BY Zenon, <2>1, <2>2, <2>3 DEF LInv
<1>2. CASE ~(Answers(k) /\ call[k].by = "page" /\ call[k].op \in {"read", "reset"})
  <2>1. UNCHANGED <<form, touched, loaded>>
    BY Zenon, <1>2 DEF Step, Remove, RemoveFails, Check, Truncate, ReadFile, ReadFails, Write, WriteFails, Answers, Fails
  <2>2. /\ file.kind # "absent"
        /\ file.kind = "valid" => Agrees(Repair(file.cfg))
        /\ \A j \in Call : /\ call[j].pc # "remove"
                           /\ call[j].pc \in {"truncate", "write"} => call[j].op = "save" /\ Agrees(call[j].cfg)
    BY Zenon, <2>1 DEF LInv
  <2>3. ASSUME call'[k].pc # "remove", call'[k].pc \in {"truncate", "write"} => call'[k].op = "save" /\ Agrees(call'[k].cfg),
               file'.kind # "absent", file'.kind = "valid" => Agrees(Repair(file'.cfg))
        PROVE  LInv'
    <3>1. ASSUME NEW j \in Call
          PROVE  /\ call'[j].pc # "remove"
                 /\ call'[j].pc \in {"truncate", "write"} => call'[j].op = "save" /\ Agrees(call'[j].cfg)
      BY Zenon, <1>0, <2>2, <2>3
    <3>2. \A j \in Call : Agrees(call'[j].cfg) => Agrees(call[j].cfg)'
      BY <2>1 DEF Agrees
    <3>3. Agrees(Repair(file'.cfg)) => Agrees(Repair(file.cfg))'
      BY <2>1 DEF Agrees
    <3> QED
      BY Zenon, <2>3, <3>1, <3>2, <3>3 DEF LInv
  <2>4. CASE Remove(k) \/ RemoveFails(k)
    BY Zenon, <2>2, <2>4 DEF Remove, RemoveFails
  <2>5. CASE Check(k)
    <3>1. Goes(k, "read", Default) /\ file' = file
      BY Zenon, <2>2, <2>5, StepCalls DEF Check
    <3> QED
      BY SMTT(40), <2>2, <2>3, <3>1 DEF Goes
  <2>6. CASE Truncate(k)
    <3>1. Goes(k, "write", call[k].cfg) /\ file' = Empty /\ call[k].op = "save" /\ Agrees(call[k].cfg)
      BY Zenon, <2>2, <2>6, StepCalls DEF Truncate, Truncated
    <3> QED
      BY SMTT(40), <2>3, <3>1 DEF Goes, Empty
  <2>7. ASSUME NEW c, Hands(k, c), file'.kind # "absent", file'.kind = "valid" => Agrees(Repair(file'.cfg)) PROVE LInv'
    BY SMTT(40), <2>3, <2>7 DEF Hands, Goes, Idle
  <2>8. CASE ReadFile(k)
    BY Zenon, <2>2, <2>7, <2>8, StepCalls DEF ReadFile
  <2>9. CASE Write(k)
    <3>0. CASE k \in gone
      BY Zenon, <2>2, <2>7, <2>9, <3>0, StepCalls DEF Write
    <3> SUFFICES ASSUME k \notin gone PROVE LInv'
      BY <3>0
    <3>1. Hands(k, call[k].cfg) /\ file' = Overwrite(file, call[k].cfg) /\ Agrees(call[k].cfg)
      BY Zenon, <2>2, <2>9, StepCalls DEF Write
    <3>2. Agrees(Repair(call[k].cfg))
      BY Zenon, <1>0, <3>1, AgreeRepair
    <3>3. file'.kind # "absent" /\ file'.cfg = call[k].cfg
      BY Zenon, <3>1 DEF Overwrite, Text
    <3> QED
      BY Zenon, <2>7, <3>1, <3>2, <3>3
  <2>10. CASE ReadFails(k) \/ WriteFails(k) \/ Answers(k)
    <3>1. call'[k] = Idle
      BY Zenon, <2>10, StepCalls
    <3>2. file' = file \/ file'.kind = "garbage"
      BY <2>10 DEF ReadFails, WriteFails, Answers, TypeOK
    <3> QED
      BY SMTT(40), <2>2, <2>3, <3>1, <3>2 DEF Idle
  <2> QED
    BY <2>4, <2>5, <2>6, <2>8, <2>9, <2>10 DEF Step
<1> QED
  BY <1>1, <1>2

\* So does every step of the system.
LEMMA NextLoaded == ASSUME IInv, FInv, LInv, [Next]_vars PROVE LInv'
<1> USE DEF IInv
<1>1. ASSUME NEW k \in Call, \A j \in Call \ {k} : call'[j] = call[j], UNCHANGED <<file, form, touched>>, loaded' => loaded,
             loaded => /\ call'[k].pc # "remove"
                       /\ call'[k].pc \in {"truncate", "write"} => call'[k].op = "save" /\ Agrees(call'[k].cfg)
      PROVE  LInv'
  <2> SUFFICES ASSUME loaded, loaded' PROVE LInv'
    BY Zenon, <1>1 DEF LInv
  <2>1. ASSUME NEW j \in Call
        PROVE  /\ call'[j].pc # "remove"
               /\ call'[j].pc \in {"truncate", "write"} => call'[j].op = "save" /\ Agrees(call'[j].cfg)
    BY Zenon, <1>1 DEF LInv
  <2> QED
    BY Zenon, <1>1, <2>1 DEF LInv, Agrees
<1>2. ASSUME NEW k \in Call, Timeout(k) PROVE LInv'
  <2>1. Orphaned(k) /\ \A j \in Call \ {k} : call'[j] = call[j]
    BY Zenon, <1>2, CallerCalls
  <2>2. loaded => /\ call'[k].pc # "remove"
                  /\ call'[k].pc \in {"truncate", "write"} => call'[k].op = "save" /\ Agrees(call'[k].cfg)
    BY SMTT(40), <2>1 DEF Orphaned, LInv
  <2> QED
    BY <1>1, <1>2, <2>1, <2>2 DEF Timeout
<1>3. ASSUME NEW k \in Call, DailyRead(k) \/ Load(k) PROVE LInv'
  <2>1. /\ Starts(k, "read", "check", "daily", Default) \/ Starts(k, "read", "check", "page", Default)
        /\ \A j \in Call \ {k} : call'[j] = call[j]
    BY Zenon, <1>3, CallerCalls
  <2>2. call'[k].pc = "check"
    BY SMTT(40), <2>1 DEF Starts
  <2> QED
    BY SMTT(40), <1>1, <1>3, <2>1, <2>2 DEF DailyRead, Load
<1>4. ASSUME NEW k \in Call, doSaveConfig(k) PROVE LInv'
  <2>1. Starts(k, "save", "truncate", "page", Redirect(FormCfg)) /\ \A j \in Call \ {k} : call'[j] = call[j]
    BY Zenon, <1>4, CallerCalls
  <2>2. Agrees(Redirect(FormCfg))
    BY Zenon, AgreeRedirect DEF FInv, TypeOK
  <2>3. call'[k].pc = "truncate" /\ call'[k].op = "save" /\ Agrees(call'[k].cfg)
    BY SMTT(40), <2>1, <2>2 DEF Starts
  <2> QED
    BY Zenon, <1>1, <1>4, <2>1, <2>3 DEF doSaveConfig
<1>5. ASSUME NEW k \in Call, doResetConfig(k) PROVE LInv'
  BY Zenon, <1>5 DEF doResetConfig, LInv
<1>6. ASSUME NEW f \in {"roots", "dir"}, NEW v \in Line \cup Dir, EditForm(f, v) PROVE LInv'
  <2>1. /\ UNCHANGED <<file, call, loaded>> /\ touched' = touched \cup {f}
        /\ f # "roots" => form'.roots = form.roots
        /\ f # "dir" => form'.dir = form.dir
    BY <1>6 DEF EditForm, TypeOK, Form
  <2>2. \A j \in Call : Agrees(call[j].cfg) => Agrees(call[j].cfg)'
    BY <2>1 DEF Agrees
  <2>3. Agrees(Repair(file.cfg)) => Agrees(Repair(file.cfg))'
    BY <2>1 DEF Agrees
  <2> QED
    BY Zenon, <2>1, <2>2, <2>3 DEF LInv
<1>7. CASE OtherEnds
  BY Zenon, <1>7 DEF OtherEnds, LInv, Agrees
<1>8. CASE Crash
  BY Zenon, <1>8 DEF Crash, LInv
<1>9. CASE UNCHANGED vars
  BY Zenon, <1>9 DEF vars, LInv, Agrees
<1> QED
  BY <1>2, <1>3, <1>4, <1>5, <1>6, <1>7, <1>8, <1>9, StepLoaded DEF Next

\* Only doSaveConfig starts a save.
LEMMA OnlySaves ==
  ASSUME IInv, Next, NEW k \in Call, call[k].op = "idle", call'[k].op = "save"
  PROVE  doSaveConfig(k)
<1>1. ASSUME NEW j \in Call, Step(j) PROVE FALSE
  BY Zenon, <1>1, StepCalls
<1>2. ASSUME NEW j \in Call, Timeout(j) PROVE FALSE
  <2>1. Orphaned(j) /\ \A i \in Call \ {j} : call'[i] = call[i]
    BY Zenon, <1>2, CallerCalls
  <2> QED
    BY SMTT(40), <2>1 DEF Orphaned
<1>3. ASSUME NEW j \in Call, DailyRead(j) \/ Load(j) \/ doResetConfig(j) PROVE FALSE
  <2>1. /\ \/ Starts(j, "read", "check", "daily", Default) \/ Starts(j, "read", "check", "page", Default)
           \/ Starts(j, "reset", "remove", "page", Default)
        /\ \A i \in Call \ {j} : call'[i] = call[i]
    BY Zenon, <1>3, CallerCalls
  <2> QED
    BY SMTT(40), <2>1 DEF Starts
<1>4. ASSUME NEW j \in Call, doSaveConfig(j) PROVE j = k
  BY Zenon, <1>4, CallerCalls
<1>5. ~OtherEnds /\ ~Crash /\ \A f \in {"roots", "dir"}, v \in Line \cup Dir : ~EditForm(f, v)
  <2>1. call' # call
    OBVIOUS
  <2>2. ~Crash
    BY SMTT(40) DEF Crash, Idle
  <2> QED
    BY Zenon, <2>1, <2>2 DEF OtherEnds, EditForm
<1> QED
  BY Zenon, <1>1, <1>2, <1>3, <1>4, <1>5 DEF Next

\* A save from a form that got what the file held writes back, in every field that was
\* not edited, what a read of the file yields, but for lists that fall apart at a comma.
THEOREM SavesKeepUntouched == Spec => LoadedSaveKeeps
<1> DEFINE A(k) == call[k].op = "idle" /\ call'[k].op = "save" /\ loaded /\ file.kind = "valid" =>
                     LET held == Repair(file.cfg)
                     IN  /\ "dir" \notin touched => call'[k].cfg.dir = held.dir
                         /\ "roots" \notin touched /\ held.roots # "comma" => call'[k].cfg.roots = held.roots
<1>1. Init => IInv /\ FInv /\ LInv
  BY Zenon, InitShape, InitForm DEF Init, LInv
<1>2. IInv /\ FInv /\ LInv /\ [Next]_vars => (IInv /\ FInv /\ LInv)'
  BY NextShape, NextForm, NextLoaded
<1>3. ASSUME IInv, FInv, LInv, Next, NEW k \in Call PROVE A(k)
  <2> SUFFICES ASSUME call[k].op = "idle", call'[k].op = "save", loaded, file.kind = "valid"
               PROVE  /\ "dir" \notin touched => call'[k].cfg.dir = Repair(file.cfg).dir
                      /\ "roots" \notin touched /\ Repair(file.cfg).roots # "comma" => call'[k].cfg.roots = Repair(file.cfg).roots
    OBVIOUS
  <2>1. Starts(k, "save", "truncate", "page", Redirect(FormCfg))
    BY Zenon, <1>3, OnlySaves, CallerCalls
  <2>2. call'[k].cfg = Redirect(FormCfg)
    BY SMTT(40), <2>1 DEF Starts
  <2>3. Agrees(Repair(file.cfg)) /\ FormRepaired /\ Repair(file.cfg) \in Cfg
    BY Zenon, <1>3, CfgTypes DEF LInv, FInv, IInv, TypeOK
  <2>4. Redirect(FormCfg).roots = parseCSV(form.roots) /\ Redirect(FormCfg).dir = IF form.dir = "src-tauri" THEN "backend" ELSE form.dir
    BY DEF Redirect, FormCfg
  <2>5. \A l \in List \ {"comma"} : parseCSV(join(l)) = l
    BY DEF join, parseCSV, List
  <2>6. Repair(file.cfg).roots \in List
    BY <2>3 DEF Cfg
  <2> QED
    BY <2>2, <2>3, <2>4, <2>5, <2>6 DEF Agrees, FormRepaired
<1>4. IInv /\ FInv /\ LInv /\ [Next]_vars => [\A k \in Call : A(k)]_vars
  BY Zenon, <1>3
<1> QED
  BY <1>1, <1>2, <1>4, PTL DEF Spec, LoadedSaveKeeps

-----------------------------------------------------------------------------
(* A reset brings the default.                                              *)

\* A reset that is past the removal has the default before it, in the file or in
\* its answer.
Resets(k) ==
  /\ call[k].by = "page"
  /\ call[k].pc \in {"check", "read", "truncate", "write"} => file.cfg = Default
  /\ call[k].pc = "answer" => call[k].cfg = Default

RInv ==
  ~mixed /\ used.faults = 0 =>
    \A k \in Call : call[k].op = "reset" => Resets(k) /\ \A j \in Call : call[j].op # "save"

\* A step of a call keeps the default before a reset that is past its removal.
LEMMA StepReset == ASSUME IInv, FInv, RInv, NEW k \in Call, Step(k) PROVE RInv'
<1> USE DEF IInv
<1> SUFFICES ASSUME ~mixed', used'.faults = 0, NEW r \in Call, call'[r].op = "reset"
             PROVE  Resets(r)' /\ \A j \in Call : call'[j].op # "save"
  BY Zenon DEF RInv
<1>0. /\ \A j \in Call \ {k} : call'[j] = call[j]
      /\ call[k].op # "idle" /\ call[k].cfg \in Cfg /\ Cargo(k)
  BY Zenon, StepCalls DEF FInv
<1>1. ~RemoveFails(k) /\ ~WriteFails(k)
  BY SMTT(40), UseType DEF RemoveFails, WriteFails, TypeOK
<1>2. mixed' = mixed /\ used' = used
  BY Zenon, <1>1 DEF Step, Remove, Check, Truncate, ReadFile, ReadFails, Write, Answers, Fails
<1>3. call'[k].op = "idle" \/ call'[k].op = call[k].op
  <2>1. \/ call'[k] = Idle \/ Goes(k, "check", call[k].cfg)
        \/ Goes(k, IF file.kind = "absent" THEN "truncate" ELSE "read", Default) \/ Goes(k, "write", call[k].cfg)
        \/ Hands(k, Repair(file.cfg)) \/ Hands(k, call[k].cfg)
    BY Zenon, StepCalls DEF Step
  <2>2. \A l, c : Goes(k, l, c) => call'[k].op = call[k].op
    BY DEF Goes
  <2>3. call'[k] = Idle => call'[k].op = "idle"
    BY DEF Idle
  <2> QED
    BY Zenon, <2>1, <2>2, <2>3 DEF Hands
<1>4. /\ call[r].op = "reset" /\ Resets(r) /\ \A j \in Call : call[j].op # "save"
      /\ call[k].op \in {"read", "reset"}
  <2>1. call[r].op = "reset"
    BY ZenonT(40), <1>0, <1>3 DEF Idle
  <2>2. Resets(r) /\ \A j \in Call : call[j].op # "save"
    BY Zenon, <1>2, <2>1 DEF RInv
  <2> QED
    BY Zenon, <1>0, <2>1, <2>2 DEF TypeOK, CallState
<1>5. \A j \in Call : call'[j].op # "save"
  BY ZenonT(40), <1>0, <1>3, <1>4 DEF Idle
\* The file keeps the default.
<1>6. file'.cfg = Default \/ file' = file
  <2>1. Remove(k) => file'.cfg = Default
    BY SMTT(40) DEF Remove, Absent
  <2>2. Truncate(k) => file'.cfg = Default
    BY SMTT(40) DEF Truncate, Truncated, Empty
  <2>3. Write(k) => file'.cfg = Default \/ file' = file
    BY SMTT(40), <1>0, <1>4 DEF Write, Cargo, Overwrite, Text
  <2>4. ~Remove(k) /\ ~Truncate(k) /\ ~Write(k) => file' = file
    BY Zenon, <1>1 DEF Step, Check, ReadFile, ReadFails, Answers
  <2> QED
    BY Zenon, <2>1, <2>2, <2>3, <2>4
<1>7. CASE r # k
  BY Zenon, <1>0, <1>4, <1>6, <1>7, <1>5 DEF Resets
<1>8. CASE r = k
  <2>1. call'[k] # Idle
    BY SMTT(40), <1>8 DEF Idle
  <2>2. CASE Remove(k)
    <3>1. Goes(k, "check", call[k].cfg) /\ file' = Absent
      BY Zenon, <2>2, StepCalls DEF Remove
    <3> QED
      BY SMTT(40), <1>4, <1>5, <1>8, <3>1 DEF Goes, Resets, Absent
  <2>3. CASE Check(k)
    <3>1. Goes(k, IF file.kind = "absent" THEN "truncate" ELSE "read", Default) /\ file' = file /\ call[k].pc = "check"
      BY Zenon, <2>3, StepCalls DEF Check
    <3> QED
      BY SMTT(40), <1>4, <1>5, <1>8, <3>1 DEF Goes, Resets
  <2>4. CASE Truncate(k)
    <3>1. Goes(k, "write", call[k].cfg) /\ file' = Empty
      BY Zenon, <2>4, StepCalls DEF Truncate, Truncated
    <3> QED
      BY SMTT(40), <1>4, <1>5, <1>8, <3>1 DEF Goes, Resets, Empty
  <2>5. CASE ReadFile(k)
    <3>1. Goes(k, "answer", Repair(file.cfg)) /\ call[k].pc = "read"
      BY Zenon, <2>1, <2>5, StepCalls DEF Hands, ReadFile
    <3>2. Repair(file.cfg) = Default
      BY Zenon, <1>4, <1>8, <3>1, RepairRepairs DEF Resets
    <3> QED
      BY SMTT(40), <1>4, <1>5, <1>8, <3>1, <3>2 DEF Goes, Resets
  <2>6. CASE Write(k)
    <3>1. Goes(k, "answer", call[k].cfg) /\ call[k].pc = "write"
      BY Zenon, <2>1, <2>6, StepCalls DEF Hands, Write
    <3>2. call[k].cfg = Default
      BY Zenon, <1>0, <1>4, <3>1 DEF Cargo
    <3> QED
      BY SMTT(40), <1>4, <1>5, <1>8, <3>1, <3>2 DEF Goes, Resets
  <2>7. CASE ReadFails(k) \/ Answers(k)
    BY Zenon, <2>1, <2>7, StepCalls
  <2> QED
    BY Zenon, <1>1, <2>2, <2>3, <2>4, <2>5, <2>6, <2>7 DEF Step
<1> QED
  BY Zenon, <1>7, <1>8

\* So does every step of the system.
LEMMA NextReset == ASSUME IInv, FInv, RInv, [Next]_vars PROVE RInv'
<1> USE DEF IInv
<1>1. ASSUME NEW k \in Call, NEW op, NEW l, NEW by, NEW c, Starts(k, op, l, by, c), Begin(k, op, l, by, c), call[k] = Idle,
             \A j \in Call \ {k} : call'[j] = call[j], file' = file, used'.faults = used.faults,
             op = "reset" => l = "remove" /\ by = "page"
      PROVE  RInv'
  <2> SUFFICES ASSUME ~mixed', used'.faults = 0, NEW r \in Call, call'[r].op = "reset"
               PROVE  Resets(r)' /\ \A j \in Call : call'[j].op # "save"
    BY Zenon DEF RInv
  <2>1. ~mixed /\ used.faults = 0 /\ \A j \in Running : {op, call[j].op} # {"save", "reset"}
    BY Zenon, <1>1 DEF Begin, TypeOK
  <2>2. call'[k].op = op /\ call'[k].pc = l /\ call'[k].by = by
    BY SMTT(40), <1>1 DEF Starts
  <2>3. CASE r = k
    <3>1. \A j \in Call : call[j].op # "save"
      BY <2>1, <2>2, <2>3 DEF Running
    <3> QED
      BY Zenon, <1>1, <2>2, <2>3, <3>1 DEF Resets
  <2>4. CASE r # k
    <3>1. call[r].op = "reset" /\ call'[r] = call[r]
      BY Zenon, <1>1, <2>4
    <3>2. Resets(r) /\ \A j \in Call : call[j].op # "save"
      BY Zenon, <2>1, <3>1 DEF RInv
    <3>3. op # "save"
      BY Zenon, <2>1, <3>1 DEF Running
    <3> QED
      BY Zenon, <1>1, <2>2, <3>1, <3>2, <3>3 DEF Resets
  <2> QED
    BY <2>3, <2>4
<1>2. ASSUME NEW k \in Call, Timeout(k) PROVE RInv'
  BY Zenon, <1>2, CallerCalls DEF RInv
<1>3. ASSUME NEW k \in Call, DailyRead(k) PROVE RInv'
  <2>1. ~Timeout(k)
    BY <1>3 DEF DailyRead, Begin, Timeout, Running, Shape, Idle
  <2> QED
    BY Zenon, <1>1, <1>3, <2>1, CallerCalls DEF DailyRead
<1>4. ASSUME NEW k \in Call, Load(k) PROVE RInv'
  <2>1. ~Timeout(k)
    BY Zenon, <1>4 DEF Load, Begin, Timeout, Running, Shape, Idle
  <2> QED
    BY Zenon, <1>1, <1>4, <2>1, CallerCalls DEF Load
<1>5. ASSUME NEW k \in Call, doSaveConfig(k) PROVE RInv'
  <2>1. ~Timeout(k)
    BY Zenon, <1>5 DEF doSaveConfig, Begin, Timeout, Running, Shape, Idle
  <2> QED
    BY Zenon, <1>1, <1>5, <2>1, CallerCalls DEF doSaveConfig
<1>6. ASSUME NEW k \in Call, doResetConfig(k) PROVE RInv'
  <2>1. ~Timeout(k)
    BY Zenon, <1>6 DEF doResetConfig, Begin, Timeout, Running, Shape, Idle
  <2> QED
    BY Zenon, <1>1, <1>6, <2>1, CallerCalls DEF doResetConfig
<1>7. ASSUME UNCHANGED <<file, call, mixed>>, used'.faults = used.faults PROVE RInv'
  BY Zenon, <1>7 DEF RInv, Resets
<1>8. ASSUME NEW f \in {"roots", "dir"}, NEW v \in Line \cup Dir, EditForm(f, v) PROVE RInv'
  BY Zenon, <1>7, <1>8 DEF EditForm, Use, TypeOK
<1>9. CASE OtherEnds
  BY <1>7, <1>9 DEF OtherEnds
<1>10. CASE Crash
  BY Zenon, <1>10 DEF Crash, RInv, Idle
<1>11. CASE UNCHANGED vars
  BY <1>7, <1>11 DEF vars
<1> QED
  BY <1>2, <1>3, <1>4, <1>5, <1>6, <1>8, <1>9, <1>10, <1>11, StepReset DEF Next

\* A reset that reaches the page brings the default, however many loads, daily reads
\* and other resets run beside it, if no save overlaps a reset and no call fails.
THEOREM ResetsBringDefault == Spec => ResetBringsDefault
<1> DEFINE A == \A k \in Call :
                  call[k].op = "reset" /\ call[k].pc = "answer" /\ call'[k].op = "idle" /\ used.crashes = used'.crashes
                    /\ ~mixed /\ used.faults = 0 => form' = Applied(Default)
<1>1. Init => IInv /\ FInv /\ RInv
  BY SMTT(40), InitShape, InitForm DEF Init, RInv, Idle
<1>2. IInv /\ FInv /\ RInv /\ [Next]_vars => (IInv /\ FInv /\ RInv)'
  BY NextShape, NextForm, NextReset
<1>3. ASSUME IInv, RInv, [Next]_vars PROVE [A]_vars
  <2> SUFFICES ASSUME Next, NEW k \in Call, call[k].op = "reset", call[k].pc = "answer", call'[k].op = "idle",
                      used.crashes = used'.crashes, ~mixed, used.faults = 0
               PROVE  form' = Applied(Default)
    BY Zenon, <1>3
  <2>1. call[k].by = "page" /\ call[k].cfg = Default
    BY Zenon, <1>3 DEF RInv, Resets
  <2>2. ASSUME NEW j \in Call, Step(j) PROVE form' = Applied(Default)
    <3>1. j = k
      BY Zenon, <1>3, <2>2, StepCalls
    <3>2. Answers(k)
      BY Zenon, <2>2, <3>1 DEF Step, Remove, RemoveFails, Check, Truncate, ReadFile, ReadFails, Write, WriteFails
    <3> QED
      BY Zenon, <2>1, <3>2 DEF Answers
  <2>3. ASSUME NEW j \in Call, Timeout(j) \/ DailyRead(j) \/ Load(j) \/ doSaveConfig(j) \/ doResetConfig(j) PROVE FALSE
    <3>1. (call[j] = Idle \/ Orphaned(j)) /\ \A i \in Call \ {j} : call'[i] = call[i]
      BY Zenon, <1>3, <2>3, CallerCalls
    <3> QED
      BY SMTT(40), <3>1 DEF Idle, Orphaned
  <2>4. ~Crash
    BY SMTT(40), <1>3, UseType DEF Crash, IInv, TypeOK
  <2>5. ~OtherEnds /\ \A f \in {"roots", "dir"}, v \in Line \cup Dir : ~EditForm(f, v)
    BY Zenon DEF OtherEnds, EditForm
  <2> QED
    BY Zenon, <2>2, <2>3, <2>4, <2>5 DEF Next
<1> QED
  BY <1>1, <1>2, <1>3, PTL DEF Spec, ResetBringsDefault

=============================================================================
