------------------------------ MODULE MCConfig ------------------------------
(***************************************************************************)
(* Instances of Config for TLC.                                            *)
(***************************************************************************)
EXTENDS Config, TLC

CONSTANTS k1, k2

\* The backend's default is the longest text, an empty field the shortest.
MCLength ==
  [v \in Val |-> CASE v = "backend" -> 3 [] v = "user" -> 2 [] v = "empty" -> 0 [] OTHER -> 1]

\* Fields that are empty, below src-tauri or fall apart, alone and together.
MCLeft ==
  [mode : {"hybrid"}, roots : {"backend", "user", "empty", "comma"}, dir : {"user", "src-tauri"}]
    \cup [mode : {"empty"}, roots : {"user", "empty"}, dir : {"empty"}]

Slots == Permutations(Call)

=============================================================================
