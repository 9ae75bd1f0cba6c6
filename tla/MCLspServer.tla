---------------------------- MODULE MCLspServer ----------------------------
(* Instances of LspServer: texts 2 (empty) and 3 (the analyser raises). *)
EXTENDS LspServer

MCBlank == {2}
MCFailing == {3}
============================================================================
