------------------------ MODULE IncrementalScanProofs ------------------------
(***************************************************************************)
(* The cache of --incremental-sha256 for every tree, every import relation *)
(* (cyclic ones too), every choice of what is scanned, every failure and   *)
(* every sequence of edits, scans and crashes, as long as no file changes  *)
(* while a scan runs.                                                      *)
(***************************************************************************)
EXTENDS IncrementalScan, TLAPS

LEMMA ReachBounds ==
    ASSUME NEW view \in Views, NEW f \in Files
    PROVE  /\ Reach(view, f) \in SUBSET Files
           /\ Reach(view, f) \subseteq {f} \cup DOMAIN view
           /\ f \in Reach(view, f)
           /\ ClosedIn(view, Reach(view, f))
<1>1. DOMAIN view \in SUBSET Files /\ \A g \in Files : Known(view, g) \subseteq DOMAIN view
  BY DEF Views, Known
<1>2. ClosedIn(view, {f} \cup DOMAIN view) /\ {f} \cup DOMAIN view \in SUBSET Files
  BY <1>1 DEF ClosedIn
<1>3. f \in Reach(view, f) /\ Reach(view, f) \subseteq {f} \cup DOMAIN view
  BY <1>2 DEF Reach
<1>4. ASSUME NEW x \in Reach(view, f), NEW y \in Known(view, x)
      PROVE  y \in Reach(view, f)
  <2>1. x \in Files /\ y \in Files
    BY <1>1 DEF Reach
  <2>2. ASSUME NEW S \in SUBSET Files, f \in S, ClosedIn(view, S) PROVE y \in S
    BY <2>2 DEF Reach, ClosedIn
  <2> QED
    BY <2>1, <2>2 DEF Reach
<1>5. ClosedIn(view, Reach(view, f))
  BY <1>4 DEF ClosedIn
<1> QED
  BY <1>3, <1>5 DEF Reach

LEMMA ReachLeast ==
    ASSUME NEW view, NEW f, NEW S \in SUBSET Files, f \in S, ClosedIn(view, S)
    PROVE  Reach(view, f) \subseteq S
  BY DEF Reach

LEMMA FindingsType ==
    ASSUME NEW view \in Views, NEW f \in Files, NEW text \in Versions
    PROVE  /\ Findings(view, f, text) \in Views
           /\ DOMAIN Findings(view, f, text) = Reach(view, f)
           /\ f \in DOMAIN Findings(view, f, text)
           /\ Findings(view, f, text)[f] = text
<1>1. /\ Reach(view, f) \in SUBSET Files /\ f \in Reach(view, f)
      /\ Reach(view, f) \subseteq {f} \cup DOMAIN view
  BY ReachBounds
<1>2. \A g \in DOMAIN view : view[g] \in Versions
  BY DEF Views
<1>3. Findings(view, f, text) \in [Reach(view, f) -> Versions]
  BY <1>1, <1>2 DEF Findings
<1> QED
  BY <1>1, <1>3 DEF Findings, Views

(* Findings rest on nothing that cannot be reached from the file again,    *)
(* through the imports of the texts they rest on.                          *)
Rooted(fi, f) == DOMAIN fi \subseteq Reach(fi, f)

LEMMA FindingsRooted ==
    ASSUME NEW view \in Views, NEW f \in Files, NEW text \in Versions,
           f \in DOMAIN view => view[f] = text
    PROVE  Rooted(Findings(view, f, text), f)
<1> DEFINE fi == Findings(view, f, text)
           R == Reach(view, f)
<1>1. R \in SUBSET Files /\ ClosedIn(view, R) /\ R \subseteq {f} \cup DOMAIN view /\ DOMAIN fi = R
  BY ReachBounds, FindingsType
<1>2. SUFFICES ASSUME NEW T \in SUBSET Files, f \in T, ClosedIn(fi, T) PROVE R \subseteq T
  BY <1>1, <1>2 DEF Reach, Rooted
<1>3. \A g \in R : g \in DOMAIN view => fi[g] = view[g]
  BY <1>1 DEF Findings
<1>4. ASSUME NEW g \in T \cap R PROVE Known(view, g) \subseteq T \cap R
  <2>1. CASE g \notin DOMAIN view
    BY <2>1 DEF Known
  <2>2. CASE g \in DOMAIN view
    <3>1. Known(view, g) \subseteq R
      BY <1>1, <1>4 DEF ClosedIn
    <3>2. Imports(fi, g) = Imports(view, g) /\ g \in DOMAIN fi
      BY <1>1, <1>3, <1>4, <2>2 DEF Imports
    <3>3. Known(view, g) \subseteq Known(fi, g)
      BY <1>1, <2>2, <3>1, <3>2 DEF Known
    <3> QED
      BY <1>2, <1>4, <3>1, <3>3 DEF ClosedIn
  <2> QED
    BY <2>1, <2>2
<1>5. ClosedIn(view, T \cap R) /\ f \in T \cap R
  BY <1>2, <1>4, ReachBounds DEF ClosedIn
<1> QED
  BY <1>5, ReachLeast

LEMMA TreeIsView == Tree \subseteq Views
  BY DEF Tree, Views

-----------------------------------------------------------------------------
(* TypeOK alone is not inductive: a scan starts from cleared locals, and   *)
(* only results without a parse_error are stored.                          *)
Shape ==
    /\ phase = "idle" => targets = {} /\ DOMAIN graph = {}
    /\ phase = "update" => left \subseteq Storable

TypeInv == TypeOK /\ Shape

LEMMA NothingSeen == Nothing \in Views /\ DOMAIN Nothing = {}
<1>1. Nothing \in [{} -> Versions] /\ {} \in SUBSET Files
  BY DEF Nothing
<1> QED
  BY <1>1 DEF Views, Nothing

LEMMA TypeInit == Init => TypeInv
  BY NothingSeen
     DEF Init, TypeInv, TypeOK, Shape, EmptyCache, Cache, Cached, Phases, Nothing

LEMMA ExtendView ==
    ASSUME NEW view \in Views, NEW f \in Files, NEW v \in Versions
    PROVE  Extend(view, f, v) \in Views
<1>1. PICK S \in SUBSET Files : view \in [S -> Versions]
  BY DEF Views
<1>2. Extend(view, f, v) \in [S \cup {f} -> Versions] /\ S \cup {f} \in SUBSET Files
  BY <1>1 DEF Extend
<1> QED
  BY <1>2 DEF Views

LEMMA ScannedType ==
    ASSUME TypeOK, NEW f \in Files
    PROVE  /\ View(f) \in Views /\ content[f] \in Versions
           /\ Findings(View(f), f, content[f]) \in Views
<1>1. View(f) \in Views /\ content[f] \in Versions
  BY TreeIsView DEF View, TypeOK, Tree
<1> QED
  BY <1>1, FindingsType

LEMMA TypeStep == TypeInv /\ [Next]_vars => TypeInv'
<1> SUFFICES ASSUME TypeInv, [Next]_vars PROVE TypeInv'
  OBVIOUS
<1> USE DEF TypeInv, TypeOK, Shape, Phases
<1>1. ASSUME NEW f \in Files, NEW v \in Versions, Edit(f, v) PROVE TypeInv'
  BY <1>1 DEF Edit, Tree, Storable
<1>2. ASSUME NEW T \in Targets, Start(T) PROVE TypeInv'
  BY <1>2, ScanAssumption DEF Start
<1>3. ASSUME NEW f \in Files, CheckFile(f) PROVE TypeInv'
  BY <1>3 DEF CheckFile
<1>4. ASSUME NEW f \in Files, AddAffected(f) PROVE TypeInv'
  BY <1>4 DEF AddAffected, Importer
<1>5. CASE AffectedDone
  BY <1>5 DEF AffectedDone
<1>6. ASSUME NEW f \in Files, Classify(f) PROVE TypeInv'
  <2>1. CASE MustScan(f)
    BY <1>6, <2>1 DEF Classify
  <2>2. CASE ~MustScan(f)
    <3>1. db.findings[f] \in Views
      BY <2>2 DEF MustScan, Cache, Cached
    <3> QED
      BY <1>6, <2>2, <3>1 DEF Classify, Extend
  <2> QED
    BY <2>1, <2>2
<1>7. CASE BeginScan
  BY <1>7 DEF BeginScan
<1>8. CASE SkipScan
  BY <1>8, NothingSeen DEF SkipScan, Forget
<1>9. ASSUME NEW f \in Files, IndexFile(f) PROVE TypeInv'
  <2>1. graph' \in Views
    BY <1>9, ExtendView DEF IndexFile, Tree
  <2> QED
    BY <1>9, <2>1 DEF IndexFile
<1>10. CASE BeginEvaluation
  BY <1>10 DEF BeginEvaluation
<1>11. ASSUME NEW f \in Files, ScanFile(f) PROVE TypeInv'
  <2>1. \E x \in Views \cup {Failed} : results' = Extend(results, f, x)
    BY <1>11, ScannedType DEF ScanFile
  <2> QED
    BY <1>11, <2>1 DEF ScanFile, Extend
<1>12. CASE BeginUpdate
  BY <1>12 DEF BeginUpdate, Storable
<1>13. ASSUME NEW f \in Files, UpdateEntry(f) PROVE TypeInv'
  <2>1. results[f] \in Views
    BY <1>13 DEF UpdateEntry, Storable
  <2>2. content[f] \in Versions /\ Imports(content, f) \subseteq Files
    BY SourceTreeAssumption DEF Imports, Tree
  <2>3. db' \in Cache
    BY <1>13, <2>1, <2>2 DEF UpdateEntry, Cache, Cached
  <2> QED
    BY <1>13, <2>3 DEF UpdateEntry, Storable
<1>14. CASE Close
  BY <1>14, NothingSeen DEF Close, Forget
<1>15. CASE Crash
  BY <1>15, NothingSeen DEF Crash, Forget
<1>16. CASE UNCHANGED vars
  BY <1>16 DEF vars, Storable
<1> QED
  BY <1>1, <1>2, <1>3, <1>4, <1>5, <1>6, <1>7, <1>8, <1>9, <1>10, <1>11,
     <1>12, <1>13, <1>14, <1>15, <1>16 DEF Next, ScanStep

LEMMA TypeAlways == Spec => []TypeInv
  BY TypeInit, TypeStep, PTL DEF Spec

(* Every reachable state is well typed: no row ever holds a failed result. *)
THEOREM TypeCorrect == Spec => []TypeOK
<1>1. TypeInv => TypeOK
  BY DEF TypeInv
<1> QED
  BY <1>1, TypeAlways, PTL

-----------------------------------------------------------------------------
(* OwnTextCached speaks of what is committed; a scan keeps it through what *)
(* the connection sees and through its results.  A row's imports are those *)
(* of the text its hash is of.                                             *)
Row(cache, f) ==
    /\ cache.hash[f] = None => cache.findings[f] = None
    /\ cache.hash[f] # None =>
        /\ cache.findings[f] # None
        /\ f \in DOMAIN cache.findings[f]
        /\ cache.findings[f][f] = cache.hash[f]
        /\ cache.imports[f] = ImportsOf[f][cache.hash[f]]
        /\ Rooted(cache.findings[f], f)

Result(f) ==
    results[f] # Failed =>
        f \in DOMAIN results[f] /\ results[f][f] = content[f] /\ Rooted(results[f], f)

RowInv ==
    /\ \A f \in Files : Row(disk, f) /\ Row(db, f)
    /\ \A f \in DOMAIN results : Result(f)
    /\ \A f \in DOMAIN graph : graph[f] = content[f]

LEMMA ScannedResult ==
    ASSUME TypeOK, RowInv, NEW f \in Files,
           NEW fi, fi = Findings(View(f), f, content[f])
    PROVE  /\ f \in DOMAIN fi /\ fi[f] = content[f] /\ Rooted(fi, f)
           /\ \A g \in DOMAIN fi : fi[g] = content[g]
<1>1. View(f) \in Views /\ content[f] \in Versions
  BY ScannedType
<1>2. \A g \in DOMAIN View(f) : View(f)[g] = content[g]
  BY DEF View, RowInv
<1>3. Reach(View(f), f) \subseteq {f} \cup DOMAIN View(f)
  BY <1>1, ReachBounds
<1>4. f \in DOMAIN fi /\ fi[f] = content[f] /\ DOMAIN fi = Reach(View(f), f)
  BY <1>1, FindingsType
<1>5. \A g \in DOMAIN fi : fi[g] = content[g]
  BY <1>2, <1>3, <1>4 DEF Findings
<1>6. Rooted(fi, f)
  BY <1>1, <1>2, FindingsRooted
<1> QED
  BY <1>4, <1>5, <1>6

LEMMA RowStep ==
    ASSUME ~EditsDuringScan
    PROVE  TypeInv /\ RowInv /\ [Next]_vars => RowInv'
<1> SUFFICES ASSUME TypeInv, RowInv, [Next]_vars PROVE RowInv'
  OBVIOUS
<1> USE DEF RowInv
<1>0. DOMAIN results \subseteq Files /\ DOMAIN graph \subseteq Files
  BY DEF TypeInv, TypeOK, Views
<1>a. ASSUME UNCHANGED <<content, db, disk, results, graph>> PROVE RowInv'
  BY <1>a DEF Row, Result
<1>b. ASSUME DOMAIN results' = {}, DOMAIN graph' = {}, \A f \in Files : Row(disk, f)' /\ Row(db, f)'
      PROVE  RowInv'
  BY <1>b
<1>1. ASSUME NEW f \in Files, NEW v \in Versions, Edit(f, v) PROVE RowInv'
  <2>1. DOMAIN results = {} /\ DOMAIN graph = {}
    BY <1>1 DEF Edit, TypeInv, TypeOK, Shape
  <2> QED
    BY <1>1, <1>b, <2>1 DEF Edit, Row
<1>2. ASSUME NEW T \in Targets, Start(T) PROVE RowInv'
  BY <1>2, <1>a DEF Start
<1>3. ASSUME NEW f \in Files, CheckFile(f) \/ AddAffected(f) PROVE RowInv'
  BY <1>3, <1>a DEF CheckFile, AddAffected
<1>4. CASE AffectedDone \/ BeginScan \/ BeginEvaluation \/ BeginUpdate
  BY <1>4, <1>a DEF AffectedDone, BeginScan, BeginEvaluation, BeginUpdate
<1>5. ASSUME NEW f \in Files, Classify(f) PROVE RowInv'
  <2>1. CASE MustScan(f)
    BY <1>5, <1>a, <2>1 DEF Classify
  <2>2. CASE ~MustScan(f)
    <3>1. db.hash[f] = content[f] /\ db.hash[f] # None
      BY <2>2, ScanAssumption DEF MustScan, FileChanged, TypeInv, TypeOK, Tree
    <3>2. /\ f \in DOMAIN db.findings[f] /\ db.findings[f][f] = content[f]
          /\ Rooted(db.findings[f], f)
      BY <3>1 DEF Row
    <3>3. results' = Extend(results, f, db.findings[f]) /\ UNCHANGED <<content, db, disk, graph>>
      BY <1>5, <2>2 DEF Classify
    <3>4. \A g \in DOMAIN results' : Result(g)'
      BY <3>2, <3>3 DEF Extend, Result
    <3> QED
      BY <3>3, <3>4 DEF Row
  <2> QED
    BY <2>1, <2>2
<1>6. CASE SkipScan
  BY <1>6, <1>b, NothingSeen DEF SkipScan, Forget, Row
<1>7. ASSUME NEW f \in Files, IndexFile(f) PROVE RowInv'
  BY <1>7 DEF IndexFile, Extend, Row, Result
<1>8. ASSUME NEW f \in Files, ScanFile(f) PROVE RowInv'
  <2>1. PICK x : /\ results' = Extend(results, f, x)
                 /\ x = Failed \/ x = Findings(View(f), f, content[f])
    BY <1>8 DEF ScanFile
  <2>2. x # Failed => f \in DOMAIN x /\ x[f] = content[f] /\ Rooted(x, f)
    BY <2>1, ScannedResult DEF TypeInv
  <2>3. UNCHANGED <<content, db, disk, graph>>
    BY <1>8 DEF ScanFile
  <2>4. \A g \in DOMAIN results' : Result(g)'
    BY <2>1, <2>2, <2>3 DEF Extend, Result
  <2> QED
    BY <2>3, <2>4 DEF Row
<1>9. ASSUME NEW f \in Files, UpdateEntry(f) PROVE RowInv'
  <2>1. results[f] \in Views /\ results[f] # Failed /\ f \in DOMAIN results
    BY <1>9 DEF UpdateEntry, TypeInv, TypeOK, Shape, Storable
  <2>2. /\ results[f] # None /\ f \in DOMAIN results[f] /\ results[f][f] = content[f]
        /\ Rooted(results[f], f) /\ content[f] # None
    BY <2>1, ScanAssumption DEF Result, TypeInv, TypeOK, Tree
  <2>3. /\ db'.hash[f] = content[f] /\ db'.findings[f] = results[f]
        /\ db'.imports[f] = Imports(content, f)
        /\ \A g \in Files \ {f} : /\ db'.hash[g] = db.hash[g]
                                  /\ db'.findings[g] = db.findings[g]
                                  /\ db'.imports[g] = db.imports[g]
    BY <1>9 DEF UpdateEntry, TypeInv, TypeOK, Cache
  <2>4. Row(db, f)'
    BY <2>2, <2>3 DEF Row, Imports
  <2>5. \A g \in Files \ {f} : Row(db, g)'
    BY <2>3 DEF Row
  <2>6. UNCHANGED <<content, disk, results, graph>>
    BY <1>9 DEF UpdateEntry
  <2> QED
    BY <2>4, <2>5, <2>6 DEF Row, Result
<1>10. CASE Close
  BY <1>10, <1>b, NothingSeen DEF Close, Forget, Nothing, Row
<1>11. CASE Crash
  BY <1>11, <1>b, NothingSeen DEF Crash, Forget, Nothing, Row
<1>12. CASE UNCHANGED vars
  BY <1>12, <1>a DEF vars
<1> QED
  BY <1>1, <1>2, <1>3, <1>4, <1>5, <1>6, <1>7, <1>8, <1>9, <1>10, <1>11, <1>12
     DEF Next, ScanStep

LEMMA RowAlways == ASSUME ~EditsDuringScan PROVE Spec => []RowInv
<1>1. Init => RowInv
  BY NothingSeen DEF Init, RowInv, Row, EmptyCache, Nothing
<1> QED
  BY <1>1, TypeAlways, RowStep, PTL DEF Spec

(* A committed hash is the hash of the text its findings were computed     *)
(* from, whatever part of the tree was scanned, whatever failed and        *)
(* wherever a scan was interrupted.                                        *)
THEOREM HashMatchesFindings ==
    ASSUME ~EditsDuringScan
    PROVE  Spec => []OwnTextCached
<1>1. RowInv => OwnTextCached
  BY DEF RowInv, Row, OwnTextCached
<1> QED
  BY <1>1, RowAlways, PTL

-----------------------------------------------------------------------------
(* What each phase has established by the time it is where it is.          *)
Lookup ==
    /\ phase # "update" => db = disk
    /\ phase = "check" => \A f \in targets \ left : FileChanged(f) => f \in affected
    /\ phase \in {"affected", "classify"} => \A f \in targets : FileChanged(f) => f \in affected
    /\ phase = "classify" => \A f \in Files : ~Importer(f)

Complete ==
    /\ phase = "classify" => targets \subseteq DOMAIN results \cup changed \cup left
    /\ phase = "index" => targets \subseteq DOMAIN results \cup changed
    /\ phase = "scan" => targets \subseteq DOMAIN results \cup left
    /\ phase = "update" => targets \subseteq DOMAIN results

Stored ==
    phase = "update" => \A f \in Storable \ left :
        db.hash[f] = content[f] /\ db.findings[f] = results[f]

FreshInv == Lookup /\ Complete /\ Stored /\ ResultsFresh

(* affected_files catches every difference that matters: what the findings *)
(* of a file that is left over rest on did not change.  The files among    *)
(* these that are not affected include all that they import, and are so    *)
(* all that can be reached from the file.                                  *)
LEMMA ServedIsFresh ==
    ASSUME TypeInv, RowInv, Lookup, phase = "classify", Consistent(disk),
           NEW f \in targets, ~MustScan(f), DOMAIN db.findings[f] \subseteq targets
    PROVE  \A g \in DOMAIN db.findings[f] : db.findings[f][g] = content[g]
<1> DEFINE fi == db.findings[f]
           A == DOMAIN fi \ affected
<1>1. /\ db = disk /\ targets \in SUBSET Files /\ f \in Files
      /\ f \notin affected /\ fi # None /\ ~FileChanged(f)
  BY DEF Lookup, TypeInv, TypeOK, MustScan
<1>2. fi \in Views /\ \A g \in DOMAIN fi : fi[g] \in Versions
  <2>1. fi \in Views
    BY <1>1 DEF TypeInv, TypeOK, Cache, Cached
  <2> QED
    BY <2>1 DEF Views
<1>3. f \in DOMAIN fi /\ Rooted(fi, f)
  BY <1>1 DEF RowInv, Row
<1>4. \A g \in DOMAIN fi : db.hash[g] = fi[g] /\ db.hash[g] # None /\ g \in Files
  BY <1>1, <1>2, ScanAssumption DEF Consistent
<1>5. ASSUME NEW g \in A PROVE Known(fi, g) \subseteq A
  <2>1. db.imports[g] = Imports(fi, g)
    BY <1>1, <1>4, <1>5 DEF RowInv, Row, Imports
  <2>2. ~Importer(g) /\ g \in targets
    BY <1>1, <1>4, <1>5 DEF Lookup
  <2>3. Imports(fi, g) \cap affected = {}
    BY <1>5, <2>1, <2>2 DEF Importer
  <2> QED
    BY <2>3 DEF Known
<1>6. A \in SUBSET Files /\ f \in A /\ ClosedIn(fi, A)
  BY <1>1, <1>3, <1>4, <1>5 DEF ClosedIn
<1>7. DOMAIN fi \subseteq A
  BY <1>3, <1>6, ReachLeast DEF Rooted
<1>8. ASSUME NEW g \in DOMAIN fi PROVE fi[g] = content[g]
  <2>1. g \in targets /\ g \notin affected
    BY <1>7, <1>8
  <2>2. ~FileChanged(g)
    BY <2>1 DEF Lookup
  <2> QED
    BY <1>4, <1>8, <2>2 DEF FileChanged
<1> QED
  BY <1>8

LEMMA ResultAdded ==
    ASSUME ResultsFresh, NEW f, NEW x, results' = Extend(results, f, x),
           UNCHANGED <<content, disk, targets>>,
           Consistent(disk) /\ x # Failed /\ DOMAIN x \subseteq targets
             => \A g \in DOMAIN x : x[g] = content[g]
    PROVE  ResultsFresh'
<1>1. /\ DOMAIN results' = DOMAIN results \cup {f} /\ results'[f] = x
      /\ \A h \in DOMAIN results \ {f} : results'[h] = results[h]
  BY DEF Extend
<1> SUFFICES ASSUME Consistent(disk)', NEW h \in DOMAIN results', results'[h] # Failed,
                    DOMAIN results'[h] \subseteq targets'
             PROVE  UpToDate(h)'
  BY DEF ResultsFresh
<1>2. Consistent(disk)
  BY DEF Consistent
<1>3. CASE h = f
  BY <1>1, <1>2, <1>3 DEF UpToDate
<1>4. CASE h # f
  <2>1. h \in DOMAIN results /\ results'[h] = results[h]
    BY <1>1, <1>4
  <2>2. UpToDate(h)
    BY <1>2, <2>1 DEF ResultsFresh
  <2> QED
    BY <2>1, <2>2 DEF UpToDate
<1> QED
  BY <1>3, <1>4

LEMMA FreshStep ==
    ASSUME ~EditsDuringScan
    PROVE  TypeInv /\ RowInv /\ FreshInv /\ [Next]_vars => FreshInv'
<1> SUFFICES ASSUME TypeInv, RowInv, FreshInv, [Next]_vars PROVE FreshInv'
  OBVIOUS
<1> USE DEF FreshInv, Lookup, Complete, Stored, FileChanged, Importer
<1>0. phase \in Phases /\ DOMAIN results \subseteq targets
  BY DEF TypeInv, TypeOK
<1>a. ASSUME UNCHANGED <<content, disk, results, targets>> PROVE ResultsFresh'
  BY <1>a DEF ResultsFresh, Consistent, UpToDate
<1>b. ASSUME DOMAIN results' = {} PROVE ResultsFresh'
  BY <1>b DEF ResultsFresh
<1>1. ASSUME NEW f \in Files, NEW v \in Versions, Edit(f, v) PROVE FreshInv'
  <2>1. phase = "idle" /\ DOMAIN results = {}
    BY <1>1 DEF Edit, TypeInv, TypeOK, Shape
  <2> QED
    BY <1>1, <1>b, <2>1 DEF Edit
<1>2. ASSUME NEW T \in Targets, Start(T) PROVE FreshInv'
  <2>1. DOMAIN results' = {}
    BY <1>2 DEF Start, TypeInv, TypeOK, Shape
  <2> QED
    BY <1>2, <1>b, <2>1 DEF Start
<1>3. ASSUME NEW f \in Files, CheckFile(f) PROVE FreshInv'
  BY <1>3, <1>a DEF CheckFile
<1>4. ASSUME NEW f \in Files, AddAffected(f) PROVE FreshInv'
  BY <1>4, <1>a DEF AddAffected
<1>5. CASE AffectedDone
  BY <1>5, <1>a DEF AffectedDone
<1>6. ASSUME NEW f \in Files, Classify(f) PROVE FreshInv'
  <2>1. CASE MustScan(f)
    BY <1>6, <1>a, <2>1 DEF Classify
  <2>2. CASE ~MustScan(f)
    <3>1. /\ results' = Extend(results, f, db.findings[f]) /\ f \in targets
          /\ UNCHANGED <<content, disk, targets>>
      BY <1>6, <2>2 DEF Classify, TypeInv, TypeOK
    <3>2. Consistent(disk) /\ DOMAIN db.findings[f] \subseteq targets
            => \A g \in DOMAIN db.findings[f] : db.findings[f][g] = content[g]
      BY <1>6, <2>2, <3>1, ServedIsFresh DEF Classify
    <3>3. ResultsFresh'
      BY <3>1, <3>2, ResultAdded
    <3> QED
      BY <1>6, <2>2, <3>3 DEF Classify, Extend
  <2> QED
    BY <2>1, <2>2
<1>7. CASE BeginScan
  BY <1>7, <1>a DEF BeginScan
<1>8. CASE SkipScan
  BY <1>8, <1>b, NothingSeen DEF SkipScan, Forget
<1>9. ASSUME NEW f \in Files, IndexFile(f) PROVE FreshInv'
  BY <1>9, <1>a DEF IndexFile
<1>10. CASE BeginEvaluation
  BY <1>10, <1>a DEF BeginEvaluation
<1>11. ASSUME NEW f \in Files, ScanFile(f) PROVE FreshInv'
  <2>1. PICK x : /\ results' = Extend(results, f, x)
                 /\ x = Failed \/ x = Findings(View(f), f, content[f])
    BY <1>11 DEF ScanFile
  <2>2. x # Failed => \A g \in DOMAIN x : x[g] = content[g]
    BY <2>1, ScannedResult DEF TypeInv
  <2>3. UNCHANGED <<content, disk, targets>>
    BY <1>11 DEF ScanFile
  <2>4. ResultsFresh'
    BY <2>1, <2>2, <2>3, ResultAdded
  <2> QED
    BY <1>11, <2>1, <2>4 DEF ScanFile, Extend
<1>12. CASE BeginUpdate
  BY <1>12, <1>a DEF BeginUpdate, Storable
<1>13. ASSUME NEW f \in Files, UpdateEntry(f) PROVE FreshInv'
  <2>1. /\ db'.hash[f] = content[f] /\ db'.findings[f] = results[f]
        /\ \A g \in Files \ {f} : db'.hash[g] = db.hash[g] /\ db'.findings[g] = db.findings[g]
    BY <1>13 DEF UpdateEntry, TypeInv, TypeOK, Cache
  <2>2. Storable \subseteq Files /\ Storable' = Storable
    BY <1>13 DEF UpdateEntry, Storable, TypeInv, TypeOK
  <2>3. Stored'
    BY <1>13, <2>1, <2>2 DEF UpdateEntry
  <2> QED
    BY <1>13, <1>a, <2>3 DEF UpdateEntry
<1>14. CASE Close
  BY <1>14, <1>b, NothingSeen DEF Close, Forget
<1>15. CASE Crash
  BY <1>15, <1>b, NothingSeen DEF Crash, Forget
<1>16. CASE UNCHANGED vars
  BY <1>16, <1>a DEF vars, Storable
<1> QED
  BY <1>1, <1>2, <1>3, <1>4, <1>5, <1>6, <1>7, <1>8, <1>9, <1>10, <1>11,
     <1>12, <1>13, <1>14, <1>15, <1>16 DEF Next, ScanStep

LEMMA FreshAlways == ASSUME ~EditsDuringScan PROVE Spec => []FreshInv
<1>1. Init => FreshInv
  BY NothingSeen DEF Init, FreshInv, Lookup, Complete, Stored, ResultsFresh
<1> QED
  BY <1>1, TypeAlways, RowAlways, FreshStep, PTL DEF Spec

(* From a consistent cache no scan reports findings of texts that files of *)
(* the scan no longer have, however long ago the findings were cached,     *)
(* whatever part of the tree is scanned and whatever fails.                *)
THEOREM NeverStale == ASSUME ~EditsDuringScan PROVE Spec => []ResultsFresh
<1>1. FreshInv => ResultsFresh
  BY DEF FreshInv
<1> QED
  BY <1>1, FreshAlways, PTL

(* Once every row is rewritten the rows rest on the texts of the hashes.   *)
LEMMA UpdatedConsistent ==
    ASSUME TypeInv, FreshInv, Consistent(disk), phase = "update", left = {},
           targets = Files, \A f \in DOMAIN results : results[f] # Failed
    PROVE  Consistent(db)
<1>1. DOMAIN results = Files /\ Storable = Files
  BY DEF FreshInv, Complete, TypeInv, TypeOK, Storable
<1>2. \A f \in Files : db.hash[f] = content[f] /\ db.findings[f] = results[f]
  BY <1>1 DEF FreshInv, Stored
<1>3. \A f \in Files : DOMAIN results[f] \subseteq Files
  BY <1>1 DEF TypeInv, TypeOK, Views
<1>4. \A f \in Files : UpToDate(f)
  BY <1>1, <1>3 DEF FreshInv, ResultsFresh
<1> QED
  BY <1>2, <1>3, <1>4 DEF Consistent, UpToDate

(* Scans of the whole tree keep the cache consistent, as long as no        *)
(* analysis fails; crashes lose rows only together.                        *)
THEOREM WholeScansKeep == ASSUME ~EditsDuringScan PROVE Spec => ConsistentKept
<1> DEFINE Kept == Consistent(disk) /\ targets = Files
                      /\ (\A f \in DOMAIN results : results[f] # Failed)
                   => Consistent(disk')
<1>1. TypeInv /\ FreshInv /\ [Next]_vars => Kept \/ UNCHANGED vars
  <2> SUFFICES ASSUME TypeInv, FreshInv, Next PROVE Kept
    OBVIOUS
  <2>1. CASE Close
    BY <2>1, UpdatedConsistent DEF Close
  <2>2. CASE UNCHANGED disk
    BY <2>2
  <2>3. UNCHANGED disk \/ Close
    BY DEF Next, ScanStep, Edit, Start, CheckFile, AddAffected, AffectedDone, Classify,
           BeginScan, SkipScan, IndexFile, BeginEvaluation, ScanFile, BeginUpdate,
           UpdateEntry, Crash
  <2> QED
    BY <2>1, <2>2, <2>3
<1> QED
  BY <1>1, TypeAlways, FreshAlways, PTL DEF Spec, ConsistentKept

-----------------------------------------------------------------------------
(* Scans of the whole tree in which no analysis fails. *)
WholeTree == ~EditsDuringScan /\ Targets = {Files} /\ MayFail = {}

WholeInv ==
    /\ Consistent(disk)
    /\ phase # "idle" => targets = Files
    /\ \A f \in DOMAIN results : results[f] # Failed

LEMMA WholeStep ==
    ASSUME WholeTree
    PROVE  TypeInv /\ FreshInv /\ WholeInv /\ [Next]_vars => WholeInv'
<1> SUFFICES ASSUME TypeInv, FreshInv, WholeInv, [Next]_vars PROVE WholeInv'
  OBVIOUS
<1> USE DEF WholeInv
<1>1. ASSUME UNCHANGED <<disk, targets, results>>, phase' # "idle" => phase # "idle" PROVE WholeInv'
  BY <1>1 DEF Consistent
<1>2. ASSUME NEW T \in Targets, Start(T) PROVE WholeInv'
  BY <1>2 DEF Start, WholeTree
<1>3. ASSUME NEW f \in Files, Classify(f) PROVE WholeInv'
  <2>1. CASE MustScan(f)
    BY <1>1, <1>3, <2>1 DEF Classify
  <2>2. CASE ~MustScan(f)
    <3>1. db.findings[f] # Failed
      BY <2>2, ScanAssumption DEF MustScan, TypeInv, TypeOK, Cache, Cached
    <3> QED
      BY <1>3, <2>2, <3>1 DEF Classify, Extend
  <2> QED
    BY <2>1, <2>2
<1>4. ASSUME NEW f \in Files, ScanFile(f) PROVE WholeInv'
  <2>1. results' = Extend(results, f, Findings(View(f), f, content[f]))
    BY <1>4 DEF ScanFile, WholeTree
  <2>2. Findings(View(f), f, content[f]) # Failed
    BY ScannedType, ScanAssumption DEF TypeInv
  <2> QED
    BY <1>4, <2>1, <2>2 DEF ScanFile, Extend
<1>5. CASE Close
  <2>1. Consistent(db)
    BY <1>5, UpdatedConsistent DEF Close
  <2> QED
    BY <1>5, <2>1, NothingSeen DEF Close, Forget
<1>6. CASE SkipScan \/ Crash
  BY <1>6, NothingSeen DEF SkipScan, Crash, Forget
<1>7. ASSUME NEW f \in Files,
             (\E v \in Versions : Edit(f, v)) \/ CheckFile(f) \/ AddAffected(f)
               \/ IndexFile(f) \/ UpdateEntry(f)
      PROVE  WholeInv'
  BY <1>1, <1>7 DEF Edit, CheckFile, AddAffected, IndexFile, UpdateEntry
<1>8. CASE AffectedDone \/ BeginScan \/ BeginEvaluation \/ BeginUpdate
  BY <1>1, <1>8 DEF AffectedDone, BeginScan, BeginEvaluation, BeginUpdate
<1>9. CASE UNCHANGED vars
  BY <1>1, <1>9 DEF vars
<1> QED
  BY <1>2, <1>3, <1>4, <1>5, <1>6, <1>7, <1>8, <1>9 DEF Next, ScanStep

(* Where every scan is of the whole tree and no analysis fails, nothing    *)
(* stale is ever reported.                                                 *)
THEOREM WholeScansNeverStale == ASSUME WholeTree PROVE Spec => []AlwaysFresh
<1>1. Init => WholeInv
  BY NothingSeen DEF Init, WholeInv, Consistent, EmptyCache
<1>2. TypeInv /\ FreshInv /\ WholeInv => AlwaysFresh
  <2> SUFFICES ASSUME TypeInv, FreshInv, WholeInv, NEW f \in DOMAIN results PROVE UpToDate(f)
    BY DEF AlwaysFresh
  <2>1. phase # "idle" /\ targets = Files
    BY DEF TypeInv, TypeOK, Shape, WholeInv
  <2>2. DOMAIN results[f] \subseteq Files /\ results[f] # Failed
    BY DEF WholeInv, TypeInv, TypeOK, Views
  <2> QED
    BY <2>1, <2>2 DEF FreshInv, ResultsFresh, WholeInv
<1>3. ~EditsDuringScan
  BY DEF WholeTree
<1> QED
  BY <1>1, <1>2, <1>3, TypeAlways, FreshAlways, WholeStep, PTL DEF Spec

-----------------------------------------------------------------------------
(* A text that f's imports lead to is not the text of its stored hash.     *)
Moved(f) == \E g \in Reach(content, f) : disk.hash[g] # content[g]

StaleInv ==
    phase \in {"check", "affected", "classify", "index", "scan"} =>
        \A f \in affected \cup changed : Moved(f)

LEMMA ChangedMoved ==
    ASSUME TypeInv, db = disk, NEW f \in Files, FileChanged(f)
    PROVE  Moved(f)
<1>1. f \in Reach(content, f)
  BY TreeIsView, ReachBounds DEF TypeInv, TypeOK
<1> QED
  BY <1>1 DEF Moved, FileChanged

(* The imports recorded of a file whose text did not change are those of   *)
(* its text, so what moved below them moved below the file.                *)
LEMMA ImporterMoved ==
    ASSUME TypeInv, RowInv, db = disk,
           NEW f \in Files, NEW g \in db.imports[f], g \in Files, Moved(g)
    PROVE  Moved(f)
<1>1. content \in Views /\ DOMAIN content = Files /\ content[f] \in Versions
  BY TreeIsView DEF TypeInv, TypeOK, Tree
<1>2. CASE FileChanged(f)
  BY <1>2, ChangedMoved
<1>3. CASE ~FileChanged(f)
  <2>1. db.hash[f] = content[f] /\ db.hash[f] # None
    BY <1>1, <1>3, ScanAssumption DEF FileChanged
  <2>2. g \in Known(content, f)
    BY <1>1, <2>1 DEF RowInv, Row, Known, Imports
  <2>3. g \in Reach(content, f) /\ ClosedIn(content, Reach(content, f))
        /\ Reach(content, f) \in SUBSET Files
    BY <1>1, <2>2, ReachBounds DEF ClosedIn
  <2>4. Reach(content, g) \subseteq Reach(content, f)
    BY <2>3, ReachLeast
  <2> QED
    BY <2>4 DEF Moved
<1> QED
  BY <1>2, <1>3

LEMMA StaleStep ==
    ASSUME ~EditsDuringScan
    PROVE  TypeInv /\ RowInv /\ FreshInv /\ StaleInv /\ [Next]_vars => StaleInv'
<1> SUFFICES ASSUME TypeInv, RowInv, FreshInv, StaleInv, [Next]_vars PROVE StaleInv'
  OBVIOUS
<1>0. /\ Lookup /\ affected \subseteq Files /\ changed \subseteq Files
      /\ phase = "idle" => affected = {} /\ changed = {}
  BY DEF FreshInv, TypeInv, TypeOK, Shape
<1>1. ASSUME UNCHANGED <<content, disk>>,
             phase \in {"check", "affected", "classify", "index", "scan"},
             \A f \in (affected' \cup changed') \ (affected \cup changed) : Moved(f)
      PROVE  StaleInv'
  BY <1>1 DEF StaleInv, Moved
<1>2. ASSUME NEW f \in Files, NEW v \in Versions, Edit(f, v) PROVE StaleInv'
  BY <1>2 DEF Edit, StaleInv
<1>3. ASSUME NEW T \in Targets, Start(T) PROVE StaleInv'
  BY <1>0, <1>3 DEF Start, StaleInv
<1>4. ASSUME NEW f \in Files, CheckFile(f) PROVE StaleInv'
  <2>1. FileChanged(f) => Moved(f)
    BY <1>0, <1>4, ChangedMoved DEF CheckFile, Lookup
  <2> QED
    BY <1>1, <1>4, <2>1 DEF CheckFile
<1>5. ASSUME NEW f \in Files, AddAffected(f) PROVE StaleInv'
  <2>1. PICK g \in db.imports[f] : g \in affected
    BY <1>5 DEF AddAffected, Importer
  <2>2. Moved(g) /\ g \in Files /\ db = disk
    BY <1>0, <1>5, <2>1 DEF AddAffected, StaleInv, Lookup
  <2>3. Moved(f)
    BY <2>1, <2>2, ImporterMoved
  <2> QED
    BY <1>1, <1>5, <2>3 DEF AddAffected
<1>6. ASSUME NEW f \in Files, Classify(f) PROVE StaleInv'
  <2>1. CASE MustScan(f)
    <3>1. db = disk /\ (FileChanged(f) => Moved(f))
      BY <1>0, <1>6, ChangedMoved DEF Classify, Lookup
    <3>2. db.findings[f] = None => FileChanged(f)
      BY ScanAssumption DEF RowInv, Row, FileChanged, TypeInv, TypeOK, Tree
    <3>3. Moved(f)
      BY <1>6, <2>1, <3>1, <3>2 DEF MustScan, Classify, StaleInv
    <3> QED
      BY <1>1, <1>6, <2>1, <3>3 DEF Classify
  <2>2. CASE ~MustScan(f)
    BY <1>1, <1>6, <2>2 DEF Classify
  <2> QED
    BY <2>1, <2>2
<1>7. CASE AffectedDone \/ BeginScan \/ BeginEvaluation
  BY <1>1, <1>7 DEF AffectedDone, BeginScan, BeginEvaluation
<1>8. ASSUME NEW f \in Files, IndexFile(f) \/ ScanFile(f) PROVE StaleInv'
  BY <1>1, <1>8 DEF IndexFile, ScanFile
<1>9. ASSUME phase' \in {"idle", "update"} PROVE StaleInv'
  BY <1>9 DEF StaleInv
<1>10. ASSUME NEW f \in Files, UpdateEntry(f) PROVE StaleInv'
  BY <1>9, <1>10 DEF UpdateEntry
<1>11. CASE SkipScan \/ BeginUpdate \/ Close \/ Crash
  BY <1>9, <1>11 DEF SkipScan, BeginUpdate, Close, Crash, Forget
<1>12. CASE UNCHANGED vars
  BY <1>12 DEF vars, StaleInv, Moved
<1> QED
  BY <1>2, <1>3, <1>4, <1>5, <1>6, <1>7, <1>8, <1>10, <1>11, <1>12 DEF Next, ScanStep

(* No scan, of whatever part of the tree, analyses a file in vain: every   *)
(* file found affected has, at the end of a chain of its imports, a text   *)
(* that is not the one of its stored hash.                                 *)
THEOREM NothingForNothing ==
    ASSUME ~EditsDuringScan
    PROVE  Spec => []OnlyStaleScanned
<1>1. Init => StaleInv
  BY DEF Init, StaleInv
<1>2. StaleInv => OnlyStaleScanned
  BY DEF StaleInv, OnlyStaleScanned, Moved
<1> QED
  BY <1>1, <1>2, TypeAlways, RowAlways, FreshAlways, StaleStep, PTL DEF Spec
=============================================================================
