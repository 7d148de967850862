----------------------------- MODULE MCPipeline -----------------------------
(***************************************************************************)
(* Instances of Pipeline for TLC.                                          *)
(***************************************************************************)
EXTENDS PipelinePromise, TLC

CONSTANTS r1, r2, dirA, dirB, home, docs

PathA == <<"/", "docs", "/", "a">>
PathB == <<"/", "docs", "/", "B">>
MCSeparator == {"/"}
MCLower == [w \in {"docs", "a", "B", "b"} |-> IF w = "B" THEN "b" ELSE w]

OnePath == {PathA}
TwoPaths == {PathA, PathB}

\* Two roots, one below the other: the files of docs are visited twice.
NestedRoots == [x \in {home, docs} |-> IF x = home THEN Path ELSE {PathA}]
OneRoot == [x \in {home} |-> Path]

Cfg(on, d, roots) == [auto_scan_enabled |-> on, index_dir |-> d, scan_roots |-> roots]

ConfigHome == {Cfg(TRUE, dirA, <<home>>)}
ConfigOnOff == {Cfg(on, dirA, <<home>>) : on \in BOOLEAN}
ConfigNested == {Cfg(TRUE, dirA, <<home, docs>>)}

RunSymmetry == Permutations({r1, r2})

=============================================================================
