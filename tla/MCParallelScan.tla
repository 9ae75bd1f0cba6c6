--------------------------- MODULE MCParallelScan ---------------------------
(* A Python file given twice, and a Java file, which has no fallback. *)
EXTENDS ParallelScan

MCTargets == <<"app.py", "Main.java", "app.py">>
MCChunked == {"app.py"}

(* Seven lines, of which the third and the fourth are blank; two lines.    *)
MCBlank == [f \in Files |->
    IF f = "app.py" THEN [n \in 1..7 |-> n \in {3, 4}] ELSE <<FALSE, FALSE>>]
=============================================================================
