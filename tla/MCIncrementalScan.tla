-------------------------- MODULE MCIncrementalScan --------------------------
(* Instances of IncrementalScan: app imports lib, which imports the helper  *)
(* in one of its texts only; the helper's second text imports lib and so    *)
(* closes a cycle with lib's first.  A file without a language is added.    *)
EXTENDS IncrementalScan

MCFiles == {"app", "lib", "help"}
MCVersions == {1, 2}
MCImportsOf ==
    [f \in MCFiles |-> [v \in MCVersions |->
        CASE f = "app"  -> {"lib"}
          [] f = "lib"  -> IF v = 1 THEN {"help"} ELSE {}
          [] f = "help" -> IF v = 1 THEN {} ELSE {"lib"}]]
MCWhole == {MCFiles}

MCAllFiles == MCFiles \cup {"env"}
MCAllImportsOf ==
    [f \in MCAllFiles |-> IF f = "env" THEN [v \in MCVersions |-> {}] ELSE MCImportsOf[f]]
MCParts == {{"app", "env"}, {"help"}, MCAllFiles}
===============================================================================
