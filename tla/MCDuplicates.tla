---------------------------- MODULE MCDuplicates ----------------------------
(***************************************************************************)
(* Instances of Duplicates for TLC: two files of one name in two           *)
(* directories, and a third one.                                           *)
(***************************************************************************)
EXTENDS Duplicates

CONSTANTS j1, j2, h1, h2, xa, ya, yc

Files == {xa, ya, yc}

MCName == [p \in Files |-> IF p = yc THEN "c" ELSE "a"]

\* The roots / and, with it, /x: the file of /x is listed twice.
MCWalks ==
  [files \in SUBSET Files |->
     {SelectSeq(walk, LAMBDA p : p \in files) : walk \in {<<xa, ya, yc>>, <<xa, ya, yc, xa>>}}]

\* The contents up to a renaming of h1 and h2.
MCContents == {c \in [Files -> {h1, h2}] : c[xa] = h1}

=============================================================================
