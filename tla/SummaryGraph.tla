---------------------------- MODULE SummaryGraph ----------------------------
(***************************************************************************)
(* guardmarly/ir/global_graph.py: the function summaries of GlobalGraph,   *)
(* the index from a function to the functions whose summaries depend on    *)
(* it, and the SQLite cache both are saved to.                             *)
(*                                                                         *)
(* What a summary says of taint is left out: a summary is the set of its   *)
(* dependency labels.  A label is a path, as it was spelled, and a name; a *)
(* key is a label whose path is normalised.  One process at a time uses    *)
(* the cache; with Contended, reading it can fail (OperationalError).      *)
(***************************************************************************)
EXTENDS FiniteSets

CONSTANTS
    Paths,      \* spellings of file paths, the normalised ones included
    Names,      \* function names
    Norm,       \* _normalize_path
    Base,       \* the last component of a path
    Calls,      \* who calls what, as the analysers label the callee
    Bare,       \* labels without a path (java_ast_analyzer)
    Bridges,    \* calls from one language to another
    Contended   \* the cache may be locked when it is read

Labels == Paths \X Names
KeyOf(l) == <<Norm[l[1]], l[2]>>
Keys == {KeyOf(l) : l \in Labels}

ASSUME SummaryAssumption ==
    /\ Norm \in [Paths -> Paths]
    /\ \A p \in Paths : Norm[Norm[p]] = Norm[p]
    /\ Calls \subseteq Keys \X (Labels \cup Bare)
    /\ Bridges \subseteq Keys \X Keys
    /\ Contended \in BOOLEAN

VARIABLES
    mem,      \* function_summaries
    rev,      \* reverse_summary_dependencies, {} where it has no entry
    missing,  \* _missing_summary_keys
    disk,     \* the summary bucket of the cache
    diskRev   \* the dependency bucket, {} where it has no entry

memory == <<mem, rev, missing>>
cache == <<disk, diskRev>>
graphVars == <<memory, cache>>

(* A dictionary with one entry set. *)
With(m, k, deps) == [x \in DOMAIN m \cup {k} |-> IF x = k THEN deps ELSE m[x]]

(* A dictionary without some of its entries. *)
Without(m, gone) == [x \in DOMAIN m \ gone |-> m[x]]

Empty == [k \in {} |-> {}]

GraphInit ==
    /\ mem = Empty
    /\ rev = [l \in Labels |-> {}]
    /\ missing = {}
    /\ disk = Empty
    /\ diskRev = [k \in Keys |-> {}]

-----------------------------------------------------------------------------
(* _rebuild_reverse_dependencies_for *)
Reindexed(r, c, deps) ==
    [l \in Labels |-> IF l \in deps THEN r[l] \cup {c} ELSE r[l] \ {c}]

(* record_function_summary, of a function found to call what is in called. *)
Record(k, called) ==
    LET deps == called \cap Labels IN
    /\ mem' = With(mem, k, deps)
    /\ rev' = Reindexed(rev, k, deps)
    /\ missing' = missing \ {k}
    /\ UNCHANGED cache

(* record_call_dependency, on summaries m and index r. *)
Dependency(m, r, caller, callee) ==
    LET old == IF caller \in DOMAIN m THEN m[caller] ELSE {}
        deps == old \cup {callee}
    IN IF callee \in old
       THEN mem' = m /\ rev' = r
       ELSE /\ mem' = With(m, caller, deps)
            /\ rev' = Reindexed(r, caller, deps)

(* get_function_summary: any file of the same name will do. *)
Matches(callee) ==
    {k \in DOMAIN mem : k[2] = callee[2] /\ Base[k[1]] = Base[callee[1]]}

(* propagate_call_facts when the callee's summary is in memory, *)
CallKnown(caller, callee) ==
    /\ Matches(callee) # {}
    /\ Dependency(mem, rev, caller, callee)
    /\ UNCHANGED <<missing, cache>>

(* when load_summary finds none, *)
CallUnknown(caller, callee) ==
    /\ Matches(callee) = {}
    /\ callee \in missing \/ Contended \/ callee \notin DOMAIN disk
    /\ missing' = missing \cup {callee}
    /\ UNCHANGED <<mem, rev, cache>>

(* and when it reads one from the cache, with the callers saved for it. *)
CallLoaded(caller, callee) ==
    /\ Matches(callee) = {}
    /\ callee \in DOMAIN disk \ missing
    /\ LET indexed == Reindexed(rev, callee, disk[callee]) IN
       Dependency(With(mem, callee, disk[callee]),
                  [indexed EXCEPT ![callee] = @ \cup diskRev[callee]],
                  caller, callee)
    /\ missing' = missing \ {callee}
    /\ UNCHANGED cache

(* publish_cross_language_bridges, one bridge. *)
Bridge(from, to) ==
    /\ rev' = [rev EXCEPT ![to] = @ \cup {from}]
    /\ UNCHANGED <<mem, missing, cache>>

(* save_summaries.  Entries of the index whose labels have one key are     *)
(* written in turn to one row: the last of them, last[k], is what stays.   *)
Save ==
    /\ disk' = [k \in DOMAIN disk \cup DOMAIN mem |->
                 IF k \in DOMAIN mem THEN mem[k] ELSE disk[k]]
    /\ \E last \in [Keys -> Labels] :
        /\ \A k \in Keys :
            /\ KeyOf(last[k]) = k
            /\ rev[last[k]] = {} => \A l \in Labels : KeyOf(l) = k => rev[l] = {}
        /\ diskRev' = [k \in Keys |-> IF rev[last[k]] = {} THEN diskRev[k]
                                      ELSE rev[last[k]]]
    /\ UNCHANGED memory

-----------------------------------------------------------------------------
ClosedUnderCallers(S) == \A k \in S : rev[k] \subseteq S

(* Mutant: only the direct callers are invalidated. *)
ImpactedDirectly(files) ==
    LET seeds == {k \in DOMAIN mem : k[1] \in files} IN
    seeds \cup UNION {rev[k] : k \in seeds}

(* The work list of invalidate_changed_files: the recorded summaries of    *)
(* the changed files and, transitively, the callers indexed for them.      *)
Impacted(files) ==
    LET seeds == {k \in DOMAIN mem : k[1] \in files} IN
    {k \in Keys : \A S \in SUBSET Keys :
                    seeds \subseteq S /\ ClosedUnderCallers(S) => k \in S}

(* Mutant: what is dropped from memory counts as missing but stays cached. *)
InvalidateMemoryOnly(files) ==
    LET gone == Impacted(files) IN
    /\ mem' = Without(mem, gone)
    /\ rev' = [l \in Labels |-> rev[l] \ gone]
    /\ missing' = missing \cup gone
    /\ UNCHANGED cache

(* invalidate_changed_files, the paths normalised. *)
Invalidate(files) ==
    LET gone == Impacted(files) IN
    /\ mem' = Without(mem, gone)
    /\ rev' = [l \in Labels |-> rev[l] \ gone]
    /\ missing' = missing \ gone
    /\ disk' = Without(disk, gone)
    /\ diskRev' = [k \in Keys |-> IF k \in gone THEN {} ELSE diskRev[k]]

(* GlobalGraph(): the next scan starts with nothing but the cache. *)
NewGraph ==
    /\ mem' = Empty
    /\ rev' = [l \in Labels |-> {}]
    /\ missing' = {}
    /\ UNCHANGED cache

Files == {k[1] : k \in Keys}
Callees(k) == {call[2] : call \in {c \in Calls : c[1] = k}}

GraphNext ==
    \/ \E k \in Keys : \E called \in SUBSET Callees(k) : Record(k, called)
    \/ \E caller \in Keys : \E callee \in Callees(caller) \cap Keys :
        \/ CallKnown(caller, callee)
        \/ CallUnknown(caller, callee)
        \/ CallLoaded(caller, callee)
    \/ \E bridge \in Bridges : Bridge(bridge[1], bridge[2])
    \/ Save
    \/ \E files \in SUBSET Files : Invalidate(files)
    \/ NewGraph

GraphSpec == GraphInit /\ [][GraphNext]_graphVars

-----------------------------------------------------------------------------
(* The state has the shape GlobalGraph declares for it. *)
GraphTypeOK ==
    /\ DOMAIN mem \subseteq Keys /\ mem \in [DOMAIN mem -> SUBSET Labels]
    /\ rev \in [Labels -> SUBSET Keys]
    /\ missing \subseteq Keys
    /\ DOMAIN disk \subseteq Keys /\ disk \in [DOMAIN disk -> SUBSET Labels]
    /\ diskRev \in [Keys -> SUBSET Keys]

(* However summaries were recorded, loaded, replaced and invalidated, each *)
(* function with a summary is in the index under everything its summary    *)
(* depends on: rebuilding it for one function never loses another's entry. *)
DependenciesIndexed ==
    \A k \in DOMAIN mem : \A l \in mem[k] : k \in rev[l]

(* A function load_summary has stopped looking for is one the cache really *)
(* has no summary of, unless memory has one: saving and invalidating never *)
(* leave it hidden.                                                        *)
MissingIsMissing == missing \cap DOMAIN disk \subseteq DOMAIN mem

(* Invalidating leaves no summary that depends on one it dropped. *)
InvalidationReachesCallers ==
    [][\A files \in SUBSET Files : Invalidate(files) =>
         \A k \in DOMAIN mem' :
            mem'[k] \cap (DOMAIN mem \ DOMAIN mem') = {}]_graphVars

(* What the docstring of invalidate_changed_files says of a scan's start:  *)
(* afterwards no summary of a changed file is left to be loaded.           *)
ChangedFilesForgotten ==
    [][\A files \in SUBSET Files : Invalidate(files) =>
         \A k \in DOMAIN disk' : k[1] \notin files]_graphVars
=============================================================================
