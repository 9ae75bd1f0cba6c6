-------------------------- MODULE CliBaselineProofs --------------------------
(***************************************************************************)
(* What CliBaseline guarantees for any rules, files and issues, when the   *)
(* command is always given the same directory.                             *)
(***************************************************************************)
EXTENDS CliBaseline, TLAPS

(* A path below a directory is the directory and what is below it. *)
LEMMA BelowInjective ==
    ASSUME NEW d \in Seq(STRING), NEW f \in Seq(STRING), NEW g \in Seq(STRING),
           Under(d, f), Under(d, g), Below(d, f) = Below(d, g)
    PROVE  f = g
<1> DEFINE n == Len(d)
<1>1. n \in Nat /\ Len(f) \in Nat /\ Len(g) \in Nat /\ n < Len(f) /\ n < Len(g)
  BY DEF Under
<1>2. /\ Len(Below(d, f)) = Len(f) - n
      /\ \A i \in 1..(Len(f) - n) : Below(d, f)[i] = f[n + i]
  BY <1>1 DEF Below
<1>3. /\ Len(Below(d, g)) = Len(g) - n
      /\ \A i \in 1..(Len(g) - n) : Below(d, g)[i] = g[n + i]
  BY <1>1 DEF Below
<1>4. Len(f) = Len(g)
  BY <1>1, <1>2, <1>3
<1>5. ASSUME NEW i \in 1..Len(f) PROVE f[i] = g[i]
  <2>1. CASE i \in 1..n
    BY <2>1 DEF Under
  <2>2. CASE i \notin 1..n
    <3> DEFINE j == i - n
    <3>1. j \in 1..(Len(f) - n) /\ n + j = i
      BY <1>1, <1>5, <2>2
    <3> HIDE DEF j
    <3>2. f[n + j] = Below(d, f)[j] /\ g[n + j] = Below(d, g)[j]
      BY <1>2, <1>3, <1>4, <3>1
    <3> QED
      BY <3>1, <3>2
  <2> QED
    BY <2>1, <2>2
<1> QED
  BY <1>4, <1>5

(* In one run two files never have the same token. *)
LEMMA TokenInjective ==
    ASSUME NEW a \in Args, NEW f \in Files, NEW g \in Files,
           Under(a.dir, f), Under(a.dir, g),
           Token(Spelled(a, f), a.dir) = Token(Spelled(a, g), a.dir)
    PROVE  f = g
<1>1. a.dir \in Seq(STRING) /\ Cwd \in Seq(STRING) /\ a.abs \in BOOLEAN
  BY BaselineAssumption
<1>2. f \in Seq(STRING) /\ g \in Seq(STRING)
  BY BaselineAssumption
<1>3. CASE a.abs
  <2>1. Below(a.dir, f) = Below(a.dir, g)
    BY <1>1, <1>3 DEF Token, Spelled
  <2> QED
    BY <1>1, <1>2, <2>1, BelowInjective
<1>4. CASE ~a.abs
  <2>1. Below(Cwd, f) = Below(Cwd, g)
    BY <1>1, <1>4 DEF Token, Spelled
  <2>2. Under(Cwd, f) /\ Under(Cwd, g)
    BY <1>4, BaselineAssumption
  <2> QED
    BY <1>1, <1>2, <2>1, <2>2, BelowInjective
<1> QED
  BY <1>1, <1>3, <1>4

-----------------------------------------------------------------------------
LEMMA PathType ==
    ASSUME NEW a \in Args, NEW f \in Files, Under(a.dir, f)
    PROVE  Spelled(a, f) \in Path
<1>1. f \in Seq(STRING) /\ Cwd \in Seq(STRING)
  BY BaselineAssumption
<1>2. CASE a.abs
  BY <1>1, <1>2 DEF Spelled, Path
<1>3. CASE ~a.abs
  <2>1. Under(Cwd, f)
    BY <1>3, BaselineAssumption
  <2>2. Below(Cwd, f) \in Seq(STRING)
    BY <1>1, <2>1 DEF Below, Under
  <2> QED
    BY <1>3, <2>2 DEF Spelled, Path
<1> QED
  BY <1>2, <1>3

LEMMA ScannedType ==
    ASSUME TypeOK, NEW a \in Args
    PROVE  /\ Scanned(a) \subseteq Finding
           /\ \A f \in Scanned(a) : Under(a.dir, f.at.file)
           /\ New(a) \subseteq Scanned(a)
BY DEF TypeOK, Scanned, New, Finding, Place

LEMMA TypeStep == TypeOK /\ [Next]_vars => TypeOK'
<1> SUFFICES ASSUME TypeOK, [Next]_vars PROVE TypeOK'
  OBVIOUS
<1> USE DEF TypeOK
<1>1. ASSUME NEW a \in Args, Scan(a) PROVE TypeOK'
  BY <1>1, ScannedType DEF Scan, Report
<1>2. ASSUME NEW a \in Args, Update(a) PROVE TypeOK'
  <2>1. ASSUME NEW f \in New(a) PROVE AsEntry(a, f) \in Entry
    <3>1. f.issue \in Issues /\ f.at.file \in Files /\ f.at.line \in Lines
             /\ Under(a.dir, f.at.file)
      BY <2>1, ScannedType DEF Finding, Place
    <3> QED
      BY <3>1, PathType DEF AsEntry, Entry
  <2>2. entries' \subseteq Entry
    BY <1>2, <2>1 DEF Update
  <2> QED
    BY <1>2, <2>2, ScannedType DEF Update, Report
<1>3. ASSUME NEW a \in Args, UpdateCut(a) PROVE TypeOK'
  BY <1>3 DEF UpdateCut
<1>4. ASSUME NEW i \in Issues, Appear(i) PROVE TypeOK'
  BY <1>4 DEF Appear
<1>5. ASSUME NEW i \in Issues, Fix(i) PROVE TypeOK'
  BY <1>5 DEF Fix
<1>6. ASSUME NEW i \in Issues, Move(i) PROVE TypeOK'
  BY <1>6 DEF Move
<1>7. CASE UNCHANGED vars
  BY <1>7 DEF vars
<1> QED
  BY <1>1, <1>2, <1>3, <1>4, <1>5, <1>6, <1>7 DEF Next

LEMMA TypeInit == Init => TypeOK
BY DEF Init, TypeOK

(* Findings, entries and their paths keep their shape. *)
THEOREM TypeCorrect == Spec => []TypeOK
BY TypeInit, TypeStep, PTL DEF Spec

-----------------------------------------------------------------------------
(* Every entry stands for a finding some update saw, and what the last run *)
(* hid is like one of these.                                               *)
Traced(a) ==
    /\ \A e \in entries : \E g \in accepted :
          Under(a.dir, g.at.file) /\ e = AsEntry(a, g)
    /\ NewIsReported

(* What a fingerprint in common means.                                     *)
LEMMA MatchedIsAlike ==
    ASSUME TypeOK, NEW a \in Args, NEW f \in Scanned(a), Matched(a, f), Traced(a)
    PROVE  \E g \in accepted : Alike(f, g)
<1>1. PICK e \in entries :
         Fingerprints(f.issue, Token(Spelled(a, f.at.file), a.dir), f.at.line)
           \cap Fingerprints(e.issue, Token(e.path, a.dir), e.line) # {}
  BY DEF Matched, Loaded
<1>2. PICK g \in accepted : Under(a.dir, g.at.file) /\ e = AsEntry(a, g)
  BY DEF Traced
<1>3. /\ f \in Finding /\ g \in Finding /\ Under(a.dir, f.at.file)
  BY ScannedType DEF TypeOK
<1>4. /\ Token(Spelled(a, f.at.file), a.dir) = Token(Spelled(a, g.at.file), a.dir)
      /\ f.at.line = g.at.line
      /\ \/ Class[Rule[f.issue]] = Class[Rule[g.issue]]
         \/ Rule[f.issue] = Rule[g.issue]
  BY <1>1, <1>2 DEF Fingerprints, AsEntry
<1>5. f.at.file = g.at.file
  BY <1>2, <1>3, <1>4, TokenInjective DEF Finding, Place
<1>6. f.at = g.at
  BY <1>3, <1>4, <1>5 DEF Finding, Place
<1> QED
  BY <1>4, <1>6 DEF Alike

LEMMA TracedStep ==
    ASSUME NEW a, Args = {a}
    PROVE  TypeOK /\ Traced(a) /\ [Next]_vars => Traced(a)'
<1> SUFFICES ASSUME TypeOK, Traced(a), [Next]_vars PROVE Traced(a)'
  OBVIOUS
<1>0. a \in Args
  OBVIOUS
<1>a. \A f \in Scanned(a) \ New(a) : \E g \in accepted : Alike(f, g)
  BY <1>0, MatchedIsAlike DEF New
<1>1. CASE Scan(a)
  BY <1>1, <1>a DEF Scan, Report, Traced, NewIsReported
<1>2. CASE Update(a)
  <2>1. ASSUME NEW e \in entries'
        PROVE  \E g \in accepted' : Under(a.dir, g.at.file) /\ e = AsEntry(a, g)
    <3>1. PICK f \in New(a) : e = AsEntry(a, f)
      BY <1>2, <2>1 DEF Update
    <3>2. f \in accepted' /\ Under(a.dir, f.at.file)
      BY <1>0, <1>2, <3>1, ScannedType DEF Update
    <3> QED
      BY <3>1, <3>2
  <2>2. NewIsReported'
    BY <1>2, <1>a DEF Update, Report, NewIsReported
  <2> QED
    BY <2>1, <2>2 DEF Traced
<1>3. CASE UpdateCut(a)
  BY <1>3 DEF UpdateCut, Traced, NewIsReported
<1>4. ASSUME NEW i \in Issues, Appear(i) \/ Fix(i) \/ Move(i) PROVE Traced(a)'
  BY <1>4 DEF Appear, Fix, Move, Traced, NewIsReported
<1>5. CASE UNCHANGED vars
  BY <1>5 DEF vars, Traced, NewIsReported
<1> QED
  BY <1>1, <1>2, <1>3, <1>4, <1>5 DEF Next

(* One directory, however often the baseline is refreshed or its writing   *)
(* cut short: a finding is hidden only if an update saw one like it.       *)
THEOREM NoNewFindingHidden ==
    ASSUME NEW a, Args = {a}
    PROVE  Spec => []NewIsReported
<1>1. Init => Traced(a)
  BY DEF Init, Traced, NewIsReported
<1>2. Traced(a) => NewIsReported
  BY DEF Traced
<1> QED
  BY <1>1, <1>2, TracedStep, TypeInit, TypeStep, PTL DEF Spec

-----------------------------------------------------------------------------
(* A baseline written once lists everything its run saw. *)
Complete(a) ==
    /\ ~exists => entries = {} /\ accepted = {}
    /\ \A g \in accepted : AsEntry(a, g) \in entries

LEMMA CompleteStep ==
    ASSUME NEW a, Args = {a}, ~Refresh
    PROVE  TypeOK /\ Complete(a) /\ [Next]_vars => Complete(a)'
<1> SUFFICES ASSUME TypeOK, Complete(a), [Next]_vars PROVE Complete(a)'
  OBVIOUS
<1>1. CASE Scan(a)
  BY <1>1 DEF Scan, Complete
<1>2. CASE Update(a)
  <2>1. entries = {} /\ accepted = {}
    BY <1>2 DEF Update, Complete
  <2>2. New(a) = Scanned(a)
    BY <2>1 DEF New, Matched, Loaded
  <2> QED
    BY <1>2, <2>1, <2>2 DEF Update, Complete
<1>3. CASE UpdateCut(a)
  BY <1>3 DEF UpdateCut, Complete
<1>4. ASSUME NEW i \in Issues, Appear(i) \/ Fix(i) \/ Move(i) PROVE Complete(a)'
  BY <1>4 DEF Appear, Fix, Move, Complete
<1>5. CASE UNCHANGED vars
  BY <1>5 DEF vars, Complete
<1> QED
  BY <1>1, <1>2, <1>3, <1>4, <1>5 DEF Next

(* One directory and a baseline never refreshed: what was in the code when *)
(* the baseline was written is not reported again from where it was.       *)
THEOREM AcceptedNotReported ==
    ASSUME NEW a, Args = {a}, ~Refresh
    PROVE  Spec => AcceptedStayQuiet
<1>1. Init => Complete(a)
  BY DEF Init, Complete
<1>2. ASSUME Complete(a), Scan(a) PROVE reported' \cap accepted = {}
  <2> SUFFICES ASSUME NEW f \in reported', f \in accepted PROVE FALSE
    OBVIOUS
  <2>1. f \in New(a) /\ AsEntry(a, f) \in entries
    BY <1>2 DEF Scan, Report, Complete
  <2>2. Fingerprints(f.issue, Token(Spelled(a, f.at.file), a.dir), f.at.line)
          \subseteq Loaded(a)
    BY <2>1 DEF Loaded, AsEntry
  <2>3. Matched(a, f)
    BY <2>2 DEF Matched, Fingerprints
  <2> QED
    BY <2>1, <2>3 DEF New
<1>3. Complete(a) /\ [Next]_vars =>
        [\A arg \in Args : Scan(arg) => reported' \cap accepted = {}]_vars
  BY <1>2
<1> QED
  BY <1>1, <1>3, CompleteStep, TypeInit, TypeStep, PTL DEF Spec, AcceptedStayQuiet
=============================================================================
