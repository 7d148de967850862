---------------------------- MODULE MCResultView ----------------------------
(***************************************************************************)
(* An instance of ResultView for TLC: sizes and times at the borders of    *)
(* the units, two documents of one path, scores that are equal.            *)
(***************************************************************************)
EXTENDS ResultView

MCExt == {"pdf", "PDF", "txt"}

MCLower == [e \in MCExt |-> IF e = "PDF" THEN "pdf" ELSE e]

Doc(p, e, sc, sz, ts) == [path |-> p, ext |-> e, score |-> sc, size |-> sz, modified_ts |-> ts]

\* A megabyte is 64 bytes here, and a size field has two decimals.
MCHit ==
  {Doc("p", "pdf", 2, 63, 1000), Doc("p", "pdf", 1, 64, 5000),
   Doc("q", "PDF", 2, 65, Missing), Doc("r", "txt", 1, Missing, 5000)}

\* -0.01, 0.99 (63.36 bytes) and 1.01 (64.64 bytes).
MCMegs == {-1, 99, 101}

MCClock == {1004, 5059, 47800, 2700000}

-----------------------------------------------------------------------------
(* The texts: a path and a name of every shape and every query, one after   *)
(* the other for a search without hits, and one of each for the searches.   *)

MCMaxLen == {20, 21}

MCShape ==
  {p \in [len : {0, 20, 21, 22, 26, 45}, parts : 1 .. 4, first : {0, 2, 12}, beforeLast : {1, 9}, last : {0, 5, 14, 30}] :
     p \in PathShape}

MCLetter == {"a", "A", "b"}

MCFold == [x \in MCLetter |-> IF x = "A" THEN "a" ELSE x]

MCWord == UpTo(MCLetter, 2)

MCAsked ==
  [mode : {"phrase"}, terms : {<<w>> : w \in MCWord}, cased : {FALSE}, flag : {""}]
    \cup [mode : {"pattern"}, terms : {<<w>> : w \in MCWord}, cased : BOOLEAN, flag : {"", "g", "y"}]
    \cup [mode : {"words"}, terms : UpTo(MCWord \ {<<>>}, 2), cased : {FALSE}, flag : {""}]

Written(p, n, q) == [path |-> <<p>>, name |-> <<n>>, query |-> q]

SomePath == [len |-> 45, parts |-> 3, first |-> 2, beforeLast |-> 9, last |-> 14]
SomeQuery == [mode |-> "words", terms |-> <<<<"a">>>>, cased |-> FALSE, flag |-> ""]

Main == Written(SomePath, <<"A", "b">>, SomeQuery)

MCTexts ==
  {Main} \cup {Written(p, <<>>, SomeQuery) : p \in MCShape}
    \cup {Written(SomePath, t[1], t[2]) :
            t \in {u \in UpTo(MCLetter, 4) \X MCAsked : Len(u[1]) < 4 \/ u[2].mode = "pattern"}}

\* Every search and view for the main text, the other texts without hits ...
MCInit ==
  \/ text = Main /\ ViewInit
  \/ /\ hits = <<>>
     /\ form = [exts |-> <<>>, min |-> [kind |-> "blank", mb |-> 0], max |-> [kind |-> "blank", mb |-> 0]]
     /\ ViewInit
     /\ text.name = <<<<>>>> \/ view.pathMaxLen = 20

MCSpec == MCInit /\ [][ViewNext]_allVars

\* ... and without changing how the list is shown.
MCShown == hits # <<>> \/ view' = view

=============================================================================
