--------------------------- MODULE MCSummaryGraph ---------------------------
(* Three files with one function each: c's calls b's, which calls a's.     *)
(* An analyser spells the path of a "A", and records a call of c without a *)
(* path; a and c are both called util.                                     *)
EXTENDS SummaryGraph, TLC

CONSTANTS bare

Spelling == [p \in Paths |-> IF p = "A" THEN "a" ELSE p]
FileName == [p \in Paths |-> IF p = "b" THEN "main" ELSE "util"]
MCBare == {bare}

A == <<"a", "f">>
B == <<"b", "f">>
C == <<"c", "f">>
MCCalls == {<<B, A>>, <<B, <<"A", "f">>>>, <<C, B>>, <<C, bare>>}
MCBridges == {<<C, A>>}
=============================================================================
