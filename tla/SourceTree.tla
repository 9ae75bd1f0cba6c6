----------------------------- MODULE SourceTree -----------------------------
(***************************************************************************)
(* The files guardmarly scans, as cache/incremental.py sees them: a text   *)
(* per file, and in each text the project files it imports.                *)
(*                                                                         *)
(* The analyser is outside of this model.  Its findings about a file are   *)
(* represented by the texts they were computed from: the file's own and,   *)
(* for the values that cross module boundaries, those of the files it      *)
(* imports, directly or not, as far as the analysis can see them.  Two     *)
(* findings are equal exactly when they were computed from the same texts. *)
(* Function summaries also cross files; they are SummaryGraph's subject.   *)
(***************************************************************************)
EXTENDS Naturals, FiniteSets

CONSTANTS
    Files,      \* normalised paths
    Versions,   \* texts a file can have
    ImportsOf   \* [Files -> [Versions -> SUBSET Files]]: _extract_*_imports

ASSUME SourceTreeAssumption == ImportsOf \in [Files -> [Versions -> SUBSET Files]]

(* The contents of the tree. *)
Tree == [Files -> Versions]

(* The texts of some of the files: what an analysis sees. *)
Views == UNION {[S -> Versions] : S \in SUBSET Files}

Imports(tree, f) == ImportsOf[f][tree[f]]

(* The imports of f that can be followed: resolve_cross_file_taint knows   *)
(* what the files in the view import, and of these only what is in it.     *)
Known(view, f) ==
    IF f \in DOMAIN view THEN Imports(view, f) \cap DOMAIN view ELSE {}

(* f and what the view shows of its imports, directly or not: the least    *)
(* set that holds f and is closed under imports.                           *)
ClosedIn(view, S) == \A g \in S : Known(view, g) \subseteq S
Reach(view, f) == {g \in Files : \A S \in SUBSET Files :
                       f \in S /\ ClosedIn(view, S) => g \in S}

(* The findings of an analysis that reads f as text, and the rest as the   *)
(* view has it.                                                            *)
Findings(view, f, text) ==
    [g \in Reach(view, f) |-> IF g = f THEN text ELSE view[g]]
=============================================================================
