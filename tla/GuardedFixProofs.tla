-------------------------- MODULE GuardedFixProofs --------------------------
(***************************************************************************)
(* Proofs about the report pipeline and the guarded autofix: the report     *)
(* keeps what has evidence and never brings back what was silenced, a      *)
(* revert restores, and verified texts hold nothing new that has evidence. *)
(***************************************************************************)
EXTENDS GuardedFix, TLAPS, WellFoundedInduction

Shape(R, S) == R \in [S -> SUBSET Finding]
(* Of every finding left there was one of the same rule and line. *)
Same(x, y) == x.rule = y.rule /\ x.line = y.line
Derived(R, Q, S) == Shape(Q, S) /\ \A f \in S : \A y \in Q[f] : \E x \in R[f] : Same(x, y)

-------------------------------------------------------------------------------
(* What the stages do to one finding: it keeps its shape, rule and line. *)
LEMMA FieldTypes ==
    ASSUME NEW x \in Finding
    PROVE  /\ x.line \in Nat \ {0} /\ x.rule \in Rules /\ x.sev \in 0..4 /\ x.conf \in 0..100
           /\ x.kind \in Kinds /\ x.trace \in Traces /\ x.fix \in BOOLEAN
  BY DEF Finding, Severities

LEMMA ConfidenceChanged ==
    ASSUME NEW x \in Finding, NEW c \in 0..100
    PROVE  [x EXCEPT !.conf = c] \in Finding /\ Same(x, [x EXCEPT !.conf = c])
  BY DEF Finding, Same

LEMMA SeverityChanged ==
    ASSUME NEW x \in Finding, NEW s \in 0..4
    PROVE  [x EXCEPT !.sev = s] \in Finding /\ Same(x, [x EXCEPT !.sev = s])
  BY DEF Finding, Severities, Same

LEMMA Rescored ==
    ASSUME NEW x \in Finding, NEW s \in 0..4, NEW c \in 0..100
    PROVE  /\ [x EXCEPT !.sev = s, !.conf = c] \in Finding
           /\ Same(x, [x EXCEPT !.sev = s, !.conf = c])
  BY DEF Finding, Severities, Same

LEMMA RehydratedIsFinding ==
    ASSUME NEW x \in Finding
    PROVE  Rehydrated(x) \in Finding /\ Same(x, Rehydrated(x))
<1>1. "pattern" \in Kinds /\ "none" \in Traces /\ 100 \in 0..100 /\ FALSE \in BOOLEAN
  BY DEF Kinds, Traces
<1>2. \A k \in Kinds, t \in Traces, c \in 0..100, b \in BOOLEAN :
          [x EXCEPT !.conf = c, !.kind = k, !.trace = t, !.fix = b] \in Finding
  BY DEF Finding
<1>3. Same(x, Rehydrated(x))
  BY DEF Rehydrated, Same, Finding
<1> QED BY <1>1, <1>2, <1>3 DEF Rehydrated

LEMMA OverriddenIsFinding ==
    ASSUME NEW x \in Finding
    PROVE  Overridden(x) \in Finding /\ Same(x, Overridden(x))
<1>1. \A r \in DOMAIN Override : Override[r] \in 0..4
  BY PipelineAssumption DEF Severities
<1>2. Same(x, x)
  BY DEF Same
<1>3. \A r \in DOMAIN Override : /\ [x EXCEPT !.sev = Override[r]] \in Finding
                              /\ Same(x, [x EXCEPT !.sev = Override[r]])
  BY <1>1, SeverityChanged
<1> QED BY <1>2, <1>3, Zenon DEF Overridden

LEMMA DoubtedIsFinding ==
    ASSUME NEW x \in Finding
    PROVE  Doubted(x) \in Finding /\ Same(x, Doubted(x))
<1> DEFINE c == Larger(0, x.conf - 35)
<1>1. c \in 0..100
  BY FieldTypes DEF Larger
<1>2. Doubted(x) = [x EXCEPT !.conf = c]
  BY DEF Doubted
<1> HIDE DEF c
<1> QED BY <1>1, <1>2, ConfidenceChanged

LEMMA DemotedIsFinding ==
    ASSUME NEW x \in Finding
    PROVE  Demoted(x) \in Finding /\ Same(x, Demoted(x))
<1>1. Same(x, x)
  BY DEF Same
<1>2. /\ [x EXCEPT !.sev = 3, !.conf = 20] \in Finding
      /\ Same(x, [x EXCEPT !.sev = 3, !.conf = 20])
  <2>1. 3 \in 0..4 /\ 20 \in 0..100
    OBVIOUS
  <2> QED BY <2>1, Rescored, Zenon
<1>3. /\ [x EXCEPT !.sev = 2, !.conf = 35] \in Finding
      /\ Same(x, [x EXCEPT !.sev = 2, !.conf = 35])
  <2>1. 2 \in 0..4 /\ 35 \in 0..100
    OBVIOUS
  <2> QED BY <2>1, Rescored, Zenon
<1> QED BY <1>1, <1>2, <1>3, Zenon DEF Demoted

LEMMA ExposureIsFinding ==
    ASSUME NEW x \in Finding, NEW f, NEW R, NEW skipped
    PROVE  Exposure(x, f, R, skipped) \in Finding /\ Same(x, Exposure(x, f, R, skipped))
<1> DEFINE low == Larger(10, x.conf \div 2)
           auth == Larger(40, (x.conf * 3) \div 4)
           next == x.sev + 1
<1>1. low \in 0..100 /\ auth \in 0..100
  BY FieldTypes DEF Larger
<1>2. x.sev <= 2 => next \in 0..4
  BY FieldTypes
<1>3. Same(x, x)
  BY DEF Same
<1>4. \/ Exposure(x, f, R, skipped) \in {x, [x EXCEPT !.conf = low]}
      \/ x.sev <= 2 /\ Exposure(x, f, R, skipped) = [x EXCEPT !.sev = next, !.conf = auth]
  BY DEF Exposure
<1> HIDE DEF low, auth, next
<1> QED BY <1>1, <1>2, <1>3, <1>4, ConfidenceChanged, Rescored

LEMMA RepresentativeInGroup ==
    ASSUME NEW g, g \subseteq Finding, g # {}
    PROVE  /\ Representative(g) \in g
           /\ \A y \in g : Representative(g).sev <= y.sev
<1> DEFINE key(x) == x.sev * 101 + (100 - x.conf)
           keys == {key(x) : x \in g}
<1>1. keys \subseteq Nat /\ keys # {}
  BY FieldTypes
<1>2. PICK m \in keys : \A k \in keys : <<k, m>> \notin OpToRel(<, Nat)
  BY <1>1, WFMin, NatLessThanWellFounded, Zenon
<1>3. \A k \in keys : ~(k < m)
  BY <1>1, <1>2, Zenon DEF OpToRel
<1>4. PICK x \in g : m = key(x)
  OBVIOUS
<1>5. \A y \in g : x.sev < y.sev \/ (x.sev = y.sev /\ x.conf >= y.conf)
  <2> TAKE y \in g
  <2>1. ~(key(y) < key(x))
    BY <1>3, <1>4
  <2>2. x.sev \in 0..4 /\ y.sev \in 0..4 /\ x.conf \in 0..100 /\ y.conf \in 0..100
    BY FieldTypes
  <2>3. \A a, b \in 0..4 : \A c, d \in 0..100 :
            ~(b * 101 + (100 - d) < a * 101 + (100 - c)) => a < b \/ (a = b /\ c >= d)
    OBVIOUS
  <2>4. ~(y.sev * 101 + (100 - y.conf) < x.sev * 101 + (100 - x.conf))
    BY <2>1
  <2> HIDE DEF key
  <2> QED BY <2>2, <2>3, <2>4
<1>6. Representative(g) \in g /\ \A y \in g : \/ Representative(g).sev < y.sev
                                          \/ /\ Representative(g).sev = y.sev
                                             /\ Representative(g).conf >= y.conf
  BY <1>5, Zenon DEF Representative
<1> QED BY <1>6, FieldTypes

LEMMA MergedIsFinding ==
    ASSUME NEW g, g \subseteq Finding, g # {}
    PROVE  /\ Merged(g) \in Finding /\ \E x \in g : Same(x, Merged(g))
           /\ \A y \in g : Merged(g).sev <= y.sev
<1> DEFINE r == Representative(g)
           c == Smaller(100, r.conf + 5)
<1>1. r \in g /\ \A y \in g : r.sev <= y.sev
  BY RepresentativeInGroup
<1>2. c \in 0..100
  BY <1>1, FieldTypes DEF Smaller
<1>3. Merged(g) = r \/ Merged(g) = [r EXCEPT !.conf = c, !.kind = "incident-cluster"]
  BY DEF Merged
<1> HIDE DEF r, c
<1>4. "incident-cluster" \in Kinds
  BY DEF Kinds
<1>5. \A k \in Kinds : /\ [r EXCEPT !.conf = c, !.kind = k] \in Finding
                      /\ Same(r, [r EXCEPT !.conf = c, !.kind = k])
                      /\ [r EXCEPT !.conf = c, !.kind = k].sev = r.sev
  BY <1>1, <1>2 DEF Finding, Same
<1>6. Same(r, r)
  BY DEF Same
<1> QED BY <1>1, <1>3, <1>4, <1>5, <1>6

-------------------------------------------------------------------------------
(* What the stages do to the findings of files S. *)
LEMMA AnalyseFinds ==
    ASSUME NEW t \in Seq(Code), NEW whole
    PROVE  Analyse(t, whole) \subseteq Finding
<1> SUFFICES ASSUME ~Unparsable(t), NEW l \in DOMAIN t, NEW i \in Issues[t[l]]
             PROVE  [line |-> l, rule |-> i.rule, sev |-> i.sev, conf |-> i.conf, kind |-> i.kind,
                     trace |-> i.trace, fix |-> i.fix] \in Finding
  BY DEF Analyse
<1>1. t[l] \in Code /\ l \in Nat \ {0}
  OBVIOUS
<1>2. i \in IssueType
  BY <1>1, PipelineAssumption
<1> QED BY <1>1, <1>2 DEF IssueType, Finding

LEMMA DerivedItself ==
    ASSUME NEW S, NEW R, Shape(R, S)
    PROVE  Derived(R, R, S)
  BY DEF Derived, Shape, Same

LEMMA DerivedTrans ==
    ASSUME NEW S, NEW R, NEW Q, NEW P, Derived(R, Q, S), Derived(Q, P, S)
    PROVE  Derived(R, P, S)
  BY DEF Derived, Shape, Same

LEMMA ConfiguredDerives ==
    ASSUME NEW S, NEW R, Shape(R, S)
    PROVE  Derived(R, Configured(R), S)
  BY OverriddenIsFinding DEF Derived, Shape, Configured

LEMMA ContextTriagedDerives ==
    ASSUME NEW S, NEW R, Shape(R, S)
    PROVE  Derived(R, ContextTriaged(R), S) /\ Derived(R, TestDropped(R), S)
<1>1. \A x \in Finding : Same(x, x)
  BY DEF Same
<1> QED BY <1>1, DoubtedIsFinding DEF Derived, Shape, ContextTriaged, TestDropped

LEMMA TaintDemotedDerives ==
    ASSUME NEW S, NEW R, Shape(R, S)
    PROVE  Derived(R, TaintDemoted(R), S)
  BY DemotedIsFinding DEF Derived, Shape, TaintDemoted

LEMMA IdorValidatedDerives ==
    ASSUME NEW S, NEW R, Shape(R, S)
    PROVE  Derived(R, IdorValidated(R), S)
<1>1. ASSUME NEW x \in Finding
      PROVE  [x EXCEPT !.conf = Smaller(100, @ + 10)] \in Finding
             /\ Same(x, [x EXCEPT !.conf = Smaller(100, @ + 10)])
  <2> DEFINE c == Smaller(100, x.conf + 10)
  <2>1. c \in 0..100
    BY FieldTypes DEF Smaller
  <2> HIDE DEF c
  <2>2. [x EXCEPT !.conf = c] \in Finding /\ Same(x, [x EXCEPT !.conf = c])
    BY <2>1, ConfidenceChanged
  <2> QED BY <2>2 DEF c
<1>2. \A x \in Finding : Same(x, x)
  BY DEF Same
<1> QED BY <1>1, <1>2 DEF Derived, Shape, IdorValidated

LEMMA TestDowngradedDerives ==
    ASSUME NEW S, NEW R, Shape(R, S)
    PROVE  Derived(R, TestDowngraded(R), S)
<1>1. ASSUME NEW x \in Finding
      PROVE  [x EXCEPT !.conf = Smaller(@, 35)] \in Finding
             /\ Same(x, [x EXCEPT !.conf = Smaller(@, 35)])
  <2> DEFINE c == Smaller(x.conf, 35)
  <2>1. c \in 0..100
    BY FieldTypes DEF Smaller
  <2> HIDE DEF c
  <2>2. [x EXCEPT !.conf = c] \in Finding /\ Same(x, [x EXCEPT !.conf = c])
    BY <2>1, ConfidenceChanged
  <2> QED BY <2>2 DEF c
<1>2. \A x \in Finding : Same(x, x)
  BY DEF Same
<1> QED BY <1>1, <1>2 DEF Derived, Shape, TestDowngraded

LEMMA UnsuppressedDerives ==
    ASSUME NEW S, NEW R, Shape(R, S), NEW T
    PROVE  Derived(R, Unsuppressed(R, T), S)
  BY DEF Derived, Shape, Same, Unsuppressed

LEMMA ConfidentDerives ==
    ASSUME NEW S, NEW R, Shape(R, S), NEW all
    PROVE  Derived(R, Confident(R, all), S)
  BY DEF Derived, Shape, Same, Confident

LEMMA StrictDerives ==
    ASSUME NEW S, NEW R, Shape(R, S), NEW T
    PROVE  Derived(R, Strict(R, T), S)
  BY DEF Derived, Shape, Same, Strict

LEMMA UnacceptedDerives ==
    ASSUME NEW S, NEW R, Shape(R, S)
    PROVE  Derived(R, Unaccepted(R), S) /\ Derived(R, UnacceptedAgain(R), S)
  BY DEF Derived, Shape, Same, Unaccepted, UnacceptedAgain

LEMMA InContextDerives ==
    ASSUME NEW S, NEW R, Shape(R, S)
    PROVE  Derived(R, InContext(R), S)
  BY DEF Derived, Shape, Same, InContext

LEMMA TriagedDerives ==
    ASSUME NEW S, NEW R, Shape(R, S), NEW T
    PROVE  Derived(R, Triaged(R, T), S)
<1>0. 95 \in 0..100
  OBVIOUS
<1>1. \A x \in Finding : [x EXCEPT !.conf = 95] \in Finding /\ Same(x, [x EXCEPT !.conf = 95])
  BY <1>0, ConfidenceChanged, Zenon
<1> QED BY <1>1 DEF Derived, Shape, Triaged

LEMMA EntryPointTriagedDerives ==
    ASSUME NEW S, NEW R, Shape(R, S), NEW skipped
    PROVE  Derived(R, EntryPointTriaged(R, skipped), S)
<1>1. \A x \in Finding : Same(x, x)
  BY DEF Same
<1> QED BY <1>1, ExposureIsFinding DEF Derived, Shape, EntryPointTriaged

LEMMA ClusteredDerives ==
    ASSUME NEW S, NEW R, Shape(R, S)
    PROVE  Derived(R, Clustered(R), S)
<1>1. \A f \in S : R[f] \subseteq Finding
  BY DEF Shape
<1>2. \A f \in S : \A x \in R[f] :
          LET g == {y \in R[f] : y.line = x.line}
          IN  Merged(g) \in Finding /\ \E z \in g : Same(z, Merged(g))
  <2> TAKE f \in S
  <2> TAKE x \in R[f]
  <2> DEFINE g == {y \in R[f] : y.line = x.line}
  <2>1. g \subseteq Finding /\ g # {}
    BY <1>1
  <2> QED BY <2>1, MergedIsFinding
<1> DEFINE M(f, x) == Merged({y \in R[f] : y.line = x.line})
<1>3. \A f \in S : \A x \in R[f] : M(f, x) \in Finding /\ \E z \in R[f] : Same(z, M(f, x))
  BY <1>2
<1>4. Clustered(R) = [f \in S |-> {M(f, x) : x \in R[f]}]
  BY DEF Shape, Clustered
<1> HIDE DEF M
<1> QED BY <1>3, <1>4 DEF Derived, Shape

LEMMA FoundShape ==
    ASSUME NEW T \in [Files -> Seq(Code)], NEW S
    PROVE  Shape(Found(T, S), Files)
<1>1. \A f \in Files : Analyse(T[f], TRUE) \subseteq Finding
  BY AnalyseFinds
<1> QED BY <1>1, RehydratedIsFinding DEF Shape, Found

LEMMA PostprocessedDerives ==
    ASSUME TypeOK, NEW S, NEW R, Shape(R, S)
    PROVE  Derived(R, Postprocessed(R), S)
<1> DEFINE A == Configured(R)
           B == TestDropped(A)
           C == Confident(B, opts.all)
           D == UnacceptedAgain(C)
           E == IF opts.triage THEN Triaged(D, text) ELSE D
           F == EntryPointTriaged(E, {})
           G == InContext(F)
<1>0. Postprocessed(R) = G
  BY DEF Postprocessed
<1>9. \A Q, P : Derived(R, Q, S) /\ Derived(Q, P, S) => Derived(R, P, S) /\ Shape(P, S)
  <2> TAKE Q, P
  <2> HAVE Derived(R, Q, S) /\ Derived(Q, P, S)
  <2>1. Derived(R, P, S)
    BY DerivedTrans
  <2> QED BY <2>1 DEF Derived
<1>1. Derived(R, A, S) /\ Shape(A, S)
  BY ConfiguredDerives DEF Derived
<1> HIDE DEF A
<1>2. Derived(R, B, S) /\ Shape(B, S)
  <2>1. Derived(A, B, S)
    BY <1>1, ContextTriagedDerives
  <2> HIDE DEF B
  <2> QED BY <2>1, <1>1, <1>9
<1> HIDE DEF B
<1>3. Derived(R, C, S) /\ Shape(C, S)
  <2>1. Derived(B, C, S)
    BY <1>2, ConfidentDerives
  <2> HIDE DEF C
  <2> QED BY <2>1, <1>2, <1>9
<1> HIDE DEF C
<1>4. Derived(R, D, S) /\ Shape(D, S)
  <2>1. Derived(C, D, S)
    BY <1>3, UnacceptedDerives
  <2> HIDE DEF D
  <2> QED BY <2>1, <1>3, <1>9
<1> HIDE DEF D
<1>5. Derived(R, E, S) /\ Shape(E, S)
  <2>1. Derived(D, E, S)
    BY <1>4, TriagedDerives, DerivedItself
  <2> HIDE DEF E
  <2> QED BY <2>1, <1>4, <1>9
<1> HIDE DEF E
<1>6. Derived(R, F, S) /\ Shape(F, S)
  <2>1. Derived(E, F, S)
    BY <1>5, EntryPointTriagedDerives
  <2> HIDE DEF F
  <2> QED BY <2>1, <1>5, <1>9
<1> HIDE DEF F
<1>7. Derived(R, G, S) /\ Shape(G, S)
  <2>1. Derived(F, G, S)
    BY <1>6, InContextDerives
  <2> HIDE DEF G
  <2> QED BY <2>1, <1>6, <1>9
<1> HIDE DEF G
<1> QED BY <1>0, <1>7

-------------------------------------------------------------------------------
(* The pipeline, a step at a time. *)
Pipeline == {"scan", "config", "inline", "context", "demote", "idor", "confidence", "tests", "strict",
    "baseline", "triage", "entry", "cluster"}

LEMMA StageStep ==
    ASSUME TypeOK, PipelineStep
    PROVE  /\ Shape(results', Files)
           /\ stage \in Pipeline /\ stage' \in Pipeline \cup {"reported"}
           /\ UNCHANGED <<text, served, opts>>
           /\ stage # "scan" => Derived(results, results', Files)
<1> DEFINE Goal == /\ Shape(results', Files)
                   /\ stage \in Pipeline /\ stage' \in Pipeline \cup {"reported"}
                   /\ UNCHANGED <<text, served, opts>>
                   /\ stage # "scan" => Derived(results, results', Files)
<1>0. Shape(results, Files) /\ Derived(results, results, Files)
  BY DerivedItself DEF TypeOK, Shape
<1>2. ASSUME NEW from \in Pipeline, NEW to \in Pipeline \cup {"reported"}, NEW Q,
             Derived(results, Q, Files), Pass(from, to, Q)
      PROVE  Goal
  BY <1>2 DEF Pass, Derived
<1> SUFFICES Goal
  OBVIOUS
<1> HIDE DEF Goal
<1>1. CASE Scan
  <2>1. Shape(Found(text, served), Files)
    BY FoundShape DEF TypeOK
  <2> QED BY <1>1, <2>1 DEF Goal, Scan, Pass, Pipeline
<1>3. CASE ApplyConfig
  BY <1>0, <1>2, <1>3, ConfiguredDerives DEF ApplyConfig, Pipeline
<1>4. CASE ApplyInlineSuppressions
  BY <1>0, <1>2, <1>4, UnsuppressedDerives DEF ApplyInlineSuppressions, Pipeline
<1>5. CASE TriageContext
  BY <1>0, <1>2, <1>5, ContextTriagedDerives DEF TriageContext, Pipeline
<1>6. CASE ApplyTaintAwareDemotion
  BY <1>0, <1>2, <1>6, TaintDemotedDerives DEF ApplyTaintAwareDemotion, Pipeline
<1>7. CASE ValidateIdor
  BY <1>0, <1>2, <1>7, IdorValidatedDerives DEF ValidateIdor, Pipeline
<1>8. CASE FilterConfidence
  BY <1>0, <1>2, <1>8, ConfidentDerives DEF FilterConfidence, Pipeline
<1>9. CASE DowngradeTests
  BY <1>0, <1>2, <1>9, TestDowngradedDerives DEF DowngradeTests, Pipeline
<1>10. CASE ApplyStrict
  BY <1>0, <1>2, <1>10, StrictDerives DEF ApplyStrict, Pipeline
<1>11. CASE ApplyBaseline
  BY <1>0, <1>2, <1>11, UnacceptedDerives DEF ApplyBaseline, Pipeline
<1>12. CASE RunTriage
  BY <1>0, <1>2, <1>12, TriagedDerives DEF RunTriage, Pipeline
<1>13. CASE ApplyEntryPointTriage
  BY <1>0, <1>2, <1>13, EntryPointTriagedDerives DEF ApplyEntryPointTriage, Pipeline
<1>14. CASE ClusterResults
  BY <1>0, <1>2, <1>14, ClusteredDerives DEF ClusterResults, Pipeline
<1> QED BY <1>1, <1>3, <1>4, <1>5, <1>6, <1>7, <1>8, <1>9, <1>10, <1>11, <1>12, <1>13, <1>14
     DEF PipelineStep

-------------------------------------------------------------------------------
(* Type correctness, in the parts that the actions change. *)
LEMMA RewrittenLines ==
    ASSUME TypeOK, NEW x \in Finding
    PROVE  Rewritten(x) \in Seq(Code)
<1>1. CASE /\ x.rule \in DOMAIN Rewrite /\ x.line \in DOMAIN lines
           /\ lines[x.line] \in DOMAIN Rewrite[x.rule]
  <2>1. Rewrite[x.rule][lines[x.line]] \in Code
    BY <1>1, FixAssumption
  <2>2. [lines EXCEPT ![x.line] = Rewrite[x.rule][lines[x.line]]] \in Seq(Code)
    BY <1>1, <2>1 DEF TypeOK
  <2> QED BY <2>2 DEF Rewritten, TypeOK
<1> QED BY <1>1 DEF Rewritten, TypeOK

LEMMA RescanFinds ==
    ASSUME TypeOK, NEW f \in Files
    PROVE  /\ Postprocessed([g \in {f} |-> Analyse(text[f], FALSE)])[f] \subseteq Finding
           /\ Derived([g \in {f} |-> Analyse(text[f], FALSE)],
                      Postprocessed([g \in {f} |-> Analyse(text[f], FALSE)]), {f})
<1> DEFINE R == [g \in {f} |-> Analyse(text[f], FALSE)]
           P == Postprocessed(R)
<1>1. text[f] \in Seq(Code)
  BY DEF TypeOK
<1>2. Analyse(text[f], FALSE) \subseteq Finding
  BY <1>1, AnalyseFinds
<1>3. Shape(R, {f})
  BY <1>2 DEF Shape
<1> HIDE DEF R
<1>4. Derived(R, P, {f})
  BY <1>3, PostprocessedDerives
<1> HIDE DEF P
<1>5. P[f] \subseteq Finding
  BY <1>4 DEF Derived, Shape
<1> QED BY <1>4, <1>5 DEF P, R

LEMMA BackupTypes ==
    ASSUME DOMAIN backups \subseteq Files, \A g \in DOMAIN backups : backups[g] \in Seq(Code),
           NEW f \in Files, NEW t \in Seq(Code)
    PROVE  /\ DOMAIN WithNew(backups, f, t) = DOMAIN backups \cup {f}
           /\ \A g \in DOMAIN WithNew(backups, f, t) : WithNew(backups, f, t)[g] \in Seq(Code)
<1>1. CASE f \in DOMAIN backups
  BY <1>1 DEF WithNew
<1>2. CASE f \notin DOMAIN backups
  <2>1. WithNew(backups, f, t) = With(backups, f, t)
    BY <1>2 DEF WithNew
  <2>2. /\ DOMAIN With(backups, f, t) = DOMAIN backups \cup {f}
        /\ \A g \in DOMAIN backups \cup {f} :
              With(backups, f, t)[g] = IF g = f THEN t ELSE backups[g]
    BY DEF With
  <2> HIDE DEF With
  <2> QED BY <2>1, <2>2
<1> QED BY <1>1, <1>2

(* What is still to be visited, and what the verdict and the restore will read. *)
Progress ==
    /\ stage = "rescan" => Scope \ left \subseteq DOMAIN rescanned
    /\ stage = "restore" => left \subseteq DOMAIN backups
TypeInv == TypeOK /\ Progress

LEMMA TypeStart == FixInit => TypeInv
<1> SUFFICES ASSUME FixInit PROVE TypeInv
  OBVIOUS
<1>1. results = [f \in Files |-> {}] /\ results \in [Files -> SUBSET Finding]
  BY DEF FixInit, Init
<1>2. DOMAIN Nowhere = {}
  BY DEF Nowhere
<1> QED BY <1>1, <1>2, PipelineAssumption DEF FixInit, Init, TypeInv, Progress, TypeOK, Stages, None

LEMMA TypeStep == TypeInv /\ [Next]_vars => TypeInv'
<1> SUFFICES ASSUME TypeInv, [Next]_vars PROVE TypeInv'
  OBVIOUS
<1>0. TypeOK /\ Progress
  BY DEF TypeInv
<1>1. CASE UNCHANGED vars
  BY <1>1 DEF vars, pipelineVars, fixVars, TypeInv, TypeOK, Progress, Scope
<1>2. CASE ReportStep
  <2>1. /\ Shape(results', Files) /\ stage' \in Pipeline \cup {"reported"}
        /\ UNCHANGED <<text, served, opts>> /\ UNCHANGED fixVars
    BY <1>0, <1>2, StageStep DEF ReportStep
  <2>2. stage' \in Stages /\ stage' # "rescan" /\ stage' # "restore"
    BY <2>1 DEF Stages, Pipeline
  <2> QED BY <2>1, <2>2, <1>0 DEF Shape, fixVars, TypeInv, TypeOK, Progress
<1>3. CASE BeginFix
  BY <1>0, <1>3 DEF BeginFix, Stages, TypeInv, TypeOK, Progress
<1>4. ASSUME NEW f \in Files, OpenFile(f) PROVE TypeInv'
  BY <1>0, <1>4 DEF OpenFile, TypeInv, TypeOK, Progress
<1>5. ASSUME NEW x \in todo, FixFinding(x) PROVE TypeInv'
  <2>1. x \in Finding /\ x.line \in Nat \ {0} /\ x.rule \in Rules
    BY <1>0, FieldTypes DEF TypeOK
  <2>2. lines' \in Seq(Code)
    BY <1>0, <1>5, <2>1, RewrittenLines DEF FixFinding
  <2>3. open \in Files
    BY <1>0, <1>5 DEF FixFinding, TypeOK
  <2>4. applied' \subseteq Files \X (Nat \ {0}) \X Rules
    BY <1>0, <1>5, <2>1, <2>3 DEF FixFinding, TypeOK
  <2>5. DOMAIN backups \subseteq Files /\ \A g \in DOMAIN backups : backups[g] \in Seq(Code)
    BY <1>0 DEF TypeOK
  <2>6. /\ DOMAIN WithNew(backups, open, content) \subseteq Files
        /\ \A g \in DOMAIN WithNew(backups, open, content) :
              WithNew(backups, open, content)[g] \in Seq(Code)
    <3>1. content \in Seq(Code)
      BY <1>0 DEF TypeOK
    <3>2. /\ DOMAIN WithNew(backups, open, content) = DOMAIN backups \cup {open}
          /\ \A g \in DOMAIN WithNew(backups, open, content) :
                WithNew(backups, open, content)[g] \in Seq(Code)
      BY <2>3, <2>5, <3>1, BackupTypes
    <3> QED BY <2>3, <2>5, <3>2
  <2>7. backups' = WithNew(backups, open, content) \/ backups' = backups
    BY <1>5 DEF FixFinding
  <2>8. DOMAIN backups' \subseteq Files /\ \A g \in DOMAIN backups' : backups'[g] \in Seq(Code)
    BY <2>5, <2>6, <2>7, Zenon
  <2> QED BY <1>0, <1>5, <2>2, <2>4, <2>8 DEF FixFinding, TypeInv, TypeOK, Progress
<1>6. CASE WriteFile
  <2>1. text' \in [Files -> Seq(Code)]
    BY <1>0, <1>6 DEF WriteFile, TypeOK
  <2> QED BY <1>0, <1>6, <2>1 DEF WriteFile, Close, TypeInv, TypeOK, Progress
<1>7. CASE WriteFails
  <2>1. << >> \in Seq(Code)
    OBVIOUS
  <2>2. text' \in [Files -> Seq(Code)]
    BY <1>0, <1>7, <2>1 DEF WriteFails, TypeOK
  <2> QED BY <1>0, <1>7, <2>1, <2>2 DEF WriteFails, Close, TypeInv, TypeOK, Progress
<1>8. CASE FixesDone
  BY <1>0, <1>8 DEF FixesDone, Stages, Scope, TypeInv, TypeOK, Progress
<1>9. ASSUME NEW f \in Files, Rescan(f) PROVE TypeInv'
  <2> DEFINE P == Postprocessed([g \in {f} |-> Analyse(text[f], FALSE)])[f]
             r == [findings |-> P, error |-> ParseError(f, text[f])]
  <2>1. P \subseteq Finding
    BY <1>0, RescanFinds
  <2>2. rescanned' = With(rescanned, f, r)
    BY <1>9 DEF Rescan
  <2>3. ParseError(f, text[f]) \in BOOLEAN
    BY DEF ParseError
  <2> HIDE DEF P
  <2>4. r \in [findings : SUBSET Finding, error : BOOLEAN]
    BY <2>1, <2>3
  <2> HIDE DEF r
  <2>5. /\ DOMAIN rescanned' = DOMAIN rescanned \cup {f}
        /\ \A g \in DOMAIN rescanned \cup {f} :
              rescanned'[g] = IF g = f THEN r ELSE rescanned[g]
    BY <2>2 DEF With
  <2>6. /\ DOMAIN rescanned' \subseteq Files
        /\ \A g \in DOMAIN rescanned' : rescanned'[g] \in [findings : SUBSET Finding, error : BOOLEAN]
    BY <1>0, <2>4, <2>5, Zenon DEF TypeOK
  <2>7. Progress'
    BY <1>0, <1>9, <2>5 DEF Rescan, Progress, Scope
  <2> QED BY <1>0, <1>9, <2>6, <2>7 DEF Rescan, TypeInv, TypeOK
<1>10. CASE Decide
  <2>1. CASE \E f \in Scope : Regresses(f)
    BY <1>0, <1>10, <2>1 DEF Decide, Stages, TypeInv, TypeOK, Progress
  <2>2. CASE ~\E f \in Scope : Regresses(f)
    <3>1. \A f \in Scope : rescanned[f].findings \subseteq Finding
      BY <1>0, <1>10 DEF Decide, TypeOK, Progress
    <3>2. results' = [f \in Files |-> IF f \in Scope THEN rescanned[f].findings ELSE {}]
      BY <1>10, <2>2 DEF Decide
    <3>3. results' \in [Files -> SUBSET Finding]
      BY <3>1, <3>2
    <3> QED BY <1>0, <1>10, <2>2, <3>3 DEF Decide, Stages, TypeInv, TypeOK, Progress
  <2> QED BY <2>1, <2>2
<1>11. ASSUME NEW f \in Files, Restore(f) PROVE TypeInv'
  <2>1. text' \in [Files -> Seq(Code)]
    BY <1>0, <1>11 DEF Restore, TypeOK, Progress
  <2> QED BY <1>0, <1>11, <2>1 DEF Restore, Stages, TypeInv, TypeOK, Progress
<1>12. ASSUME NEW f \in Files, RestoreFails(f) PROVE TypeInv'
  <2>1. << >> \in Seq(Code)
    OBVIOUS
  <2>2. text' \in [Files -> Seq(Code)]
    BY <1>0, <1>12, <2>1 DEF RestoreFails, TypeOK
  <2> QED BY <1>0, <1>12, <2>2 DEF RestoreFails, Stages, TypeInv, TypeOK, Progress
<1>13. ASSUME NEW f \in Files, NEW l \in DOMAIN text[f], NEW c \in Pasted, Edit(f, l, c)
       PROVE  TypeInv'
  <2>1. [text[f] EXCEPT ![l] = c] \in Seq(Code)
    BY <1>0, FixAssumption DEF TypeOK
  <2>2. text' \in [Files -> Seq(Code)]
    BY <1>0, <1>13, <2>1 DEF Edit, TypeOK
  <2> QED BY <1>0, <1>13, <2>2 DEF Edit, TypeInv, TypeOK, Progress, Scope
<1> QED BY <1>1, <1>2, <1>3, <1>4, <1>5, <1>6, <1>7, <1>8, <1>9, <1>10, <1>11, <1>12, <1>13
        DEF Next, FixStep

(* The report, the texts and the state of the fix keep their types. *)
THEOREM TypeCorrect == Spec => []TypeOK
<1>1. TypeInv => TypeOK
  BY DEF TypeInv
<1> QED BY <1>1, TypeStart, TypeStep, PTL DEF Spec

-------------------------------------------------------------------------------
(* Where the unedited files are while they are rewritten and put back. *)
Later == {"fix", "rescan", "restore", "exit"}
Undoable ==
    /\ stage \notin Later \cup {"raised"} =>
           DOMAIN backups = {} /\ edited = {} /\ open = None /\ status = None
    /\ stage \in {"fix", "rescan"} => status = None
    /\ stage = "fix" =>
           /\ left \cap DOMAIN backups = {}
           /\ open # None => open \notin left
           /\ open # None /\ open \notin edited => content = start[open]
    /\ stage \in Later =>
           /\ \A f \in DOMAIN backups \ edited : backups[f] = start[f]
           /\ \A f \in Files \ (DOMAIN backups \cup edited) : text[f] = start[f]
    /\ stage = "restore" =>
           \A f \in DOMAIN backups \ (left \cup edited) : text[f] = start[f]
    /\ stage = "exit" /\ status = "reverted" =>
           \A f \in DOMAIN backups \ edited : text[f] = start[f]

LEMMA UndoableStart == FixInit => Undoable
  BY DEF FixInit, Init, Undoable, Later, Nowhere

LEMMA UndoableStep == TypeInv /\ Undoable /\ [Next]_vars => Undoable'
<1> SUFFICES ASSUME TypeInv, Undoable, [Next]_vars PROVE Undoable'
  OBVIOUS
<1>0. TypeOK /\ Progress
  BY DEF TypeInv
<1>1. CASE UNCHANGED vars
  BY <1>1 DEF vars, pipelineVars, fixVars, Undoable
<1>2. CASE ReportStep
  <2>1. /\ stage \in Pipeline /\ stage' \in Pipeline \cup {"reported"} /\ UNCHANGED fixVars
    BY <1>0, <1>2, StageStep DEF ReportStep
  <2>2. stage \notin Later \cup {"raised"} /\ stage' \notin Later \cup {"raised"}
    BY <2>1 DEF Pipeline, Later
  <2> QED BY <2>1, <2>2 DEF Undoable, fixVars, Later
<1>3. CASE BeginFix
  BY <1>0, <1>3 DEF BeginFix, Undoable, Later, TypeOK
<1>4. ASSUME NEW f \in Files, OpenFile(f) PROVE Undoable'
  BY <1>0, <1>4 DEF OpenFile, Undoable, Later, TypeOK
<1>5. ASSUME NEW x \in todo, FixFinding(x) PROVE Undoable'
  <2>1. open \in Files /\ stage = "fix" /\ open \notin left
    BY <1>0, <1>5 DEF FixFinding, TypeOK, Undoable
  <2>2. DOMAIN backups' \in {DOMAIN backups, DOMAIN backups \cup {open}}
    BY <1>5 DEF FixFinding, WithNew, With
  <2>3. ASSUME NEW g \in DOMAIN backups' \ edited
        PROVE  backups'[g] = start[g]
    <3>1. CASE g \in DOMAIN backups
      <4>1. backups'[g] = backups[g] \/ (g = open /\ backups'[g] = content)
        BY <1>5, <3>1 DEF FixFinding, WithNew, With
      <4>2. backups[g] = start[g] /\ (g = open => content = start[g])
        BY <1>5, <2>1, <2>3, <3>1 DEF FixFinding, Undoable, Later
      <4> QED BY <4>1, <4>2
    <3>2. CASE g \notin DOMAIN backups
      <4>1. g = open /\ backups'[g] = content
        BY <1>5, <2>2, <2>3, <3>2 DEF FixFinding, WithNew, With
      <4> QED BY <1>5, <2>1, <2>3, <4>1 DEF FixFinding, Undoable
    <3> QED BY <3>1, <3>2
  <2>4. UNCHANGED <<stage, text, start, left, open, content, status, edited>>
    BY <1>5 DEF FixFinding
  <2> QED BY <2>1, <2>2, <2>3, <2>4 DEF Undoable, Later
<1>6. CASE WriteFile
  <2>1. \A g \in Files \ DOMAIN backups : text'[g] = text[g]
    BY <1>0, <1>6 DEF WriteFile, TypeOK
  <2>2. /\ stage = "fix" /\ open' = None
        /\ UNCHANGED <<stage, start, left, backups, status, edited>>
    BY <1>6 DEF WriteFile, Close
  <2> QED BY <2>1, <2>2 DEF Undoable, Later
<1>7. CASE WriteFails
  <2>1. \A g \in Files \ DOMAIN backups : text'[g] = text[g]
    BY <1>0, <1>7 DEF WriteFails, TypeOK
  <2>2. /\ stage = "fix" /\ open' = None
        /\ UNCHANGED <<stage, start, left, backups, status, edited>>
    BY <1>7 DEF WriteFails, Close
  <2> QED BY <2>1, <2>2 DEF Undoable, Later
<1>8. CASE FixesDone
  BY <1>0, <1>8 DEF FixesDone, Undoable, Later
<1>9. ASSUME NEW f \in Files, Rescan(f) PROVE Undoable'
  BY <1>0, <1>9 DEF Rescan, Undoable, Later
<1>10. CASE Decide
  BY <1>0, <1>10 DEF Decide, Undoable, Later
<1>11. ASSUME NEW f \in Files, Restore(f) PROVE Undoable'
  BY <1>0, <1>11 DEF Restore, Undoable, Later, TypeOK, Progress
<1>12. ASSUME NEW f \in Files, RestoreFails(f) PROVE Undoable'
  BY <1>0, <1>12 DEF RestoreFails, Undoable, Later
<1>13. ASSUME NEW f \in Files, NEW l \in DOMAIN text[f], NEW c \in Pasted, Edit(f, l, c)
       PROVE  Undoable'
  BY <1>0, <1>13 DEF Edit, Undoable, Later, TypeOK
<1> QED BY <1>1, <1>2, <1>3, <1>4, <1>5, <1>6, <1>7, <1>8, <1>9, <1>10, <1>11, <1>12, <1>13
        DEF Next, FixStep

(* A revert puts every file back that nobody else edited: those rewritten from
   their backup, whatever was written to them, and the others were left alone. *)
THEOREM RevertRestored == Spec => []RevertRestores
<1>1. TypeInv /\ Undoable => RevertRestores
  BY DEF Undoable, Later, RevertRestores
<1> QED BY <1>1, TypeStart, TypeStep, UndoableStart, UndoableStep, PTL DEF Spec

-------------------------------------------------------------------------------
(* What is disabled, ignored or accepted depends on rule and line only. *)
Enabled(R) == \A f \in Files : \A x \in R[f] : ~Off(x)
Heard(R, T) == \A f \in Files : \A x \in R[f] : ~Suppressed(x, T[f])
New(R) == \A f \in Files : \A x \in R[f] : Fingerprint(f, x) \notin Accepted

LEMMA SameIsAsLoud ==
    ASSUME NEW x, NEW y, Same(x, y)
    PROVE  /\ Off(x) = Off(y) /\ Cwe(x) = Cwe(y)
           /\ \A t : Suppressed(x, t) = Suppressed(y, t)
           /\ \A f : Fingerprint(f, x) = Fingerprint(f, y)
  BY DEF Same, Off, Cwe, Suppressed, Fingerprint

LEMMA SilenceInherited ==
    ASSUME NEW R, NEW Q, \A f \in Files : \A y \in Q[f] : \E x \in R[f] : Same(x, y)
    PROVE  /\ Enabled(R) => Enabled(Q)
           /\ \A T : Heard(R, T) => Heard(Q, T)
           /\ New(R) => New(Q)
  BY SameIsAsLoud DEF Enabled, Heard, New

LEMMA ConfiguredEnabled ==
    ASSUME NEW R, Shape(R, Files)
    PROVE  Enabled(Configured(R))
<1>1. \A x \in Finding : Off(Overridden(x)) = Off(x)
  BY OverriddenIsFinding, SameIsAsLoud
<1> QED BY <1>1 DEF Shape, Configured, Enabled

Quieted ==
    /\ stage \in Stages \ {"scan", "config"} => Enabled(results)
    /\ stage \in Stages \ {"scan", "config", "inline"} =>
           Heard(results, IF stage \in Pipeline \cup {"reported"} THEN text ELSE start)
    /\ stage \in {"triage", "entry", "cluster", "reported"} \cup Later \cup {"raised"} =>
           New(results)
    /\ stage \in Later => Enabled(report) /\ Heard(report, start) /\ New(report)

LEMMA QuietedStart == FixInit => Quieted
  BY DEF FixInit, Init, Quieted, Later

LEMMA QuietedReport == TypeOK /\ Quieted /\ ReportStep => Quieted'
<1> SUFFICES ASSUME TypeOK, Quieted, ReportStep PROVE Quieted'
  OBVIOUS
<1>1. /\ stage \in Pipeline /\ stage' \in Pipeline \cup {"reported"}
      /\ UNCHANGED text
      /\ stage # "scan" => Derived(results, results', Files)
  BY StageStep DEF ReportStep
<1>2. Shape(results, Files)
  BY DEF TypeOK, Shape
<1>3. stage' \notin Later \cup {"raised"} /\ stage' \in Pipeline \cup {"reported"}
  BY <1>1 DEF Pipeline, Later
<1>4. stage # "scan" => /\ Enabled(results) => Enabled(results')
                        /\ Heard(results, text) => Heard(results', text)
                        /\ New(results) => New(results')
  BY <1>1, SilenceInherited DEF Derived
<1>5. CASE Scan
  BY <1>3, <1>5 DEF Scan, Pass, Quieted, Later
<1>6. CASE ApplyConfig
  <2>1. Enabled(results') /\ stage' = "inline"
    BY <1>2, <1>6, ConfiguredEnabled DEF ApplyConfig, Pass
  <2> QED BY <1>3, <2>1 DEF Quieted, Later
<1>7. CASE ApplyInlineSuppressions
  <2>1. Heard(results', text) /\ stage = "inline" /\ stage' = "context"
    BY <1>2, <1>7 DEF ApplyInlineSuppressions, Pass, Unsuppressed, Heard, Shape
  <2> QED BY <1>1, <1>3, <1>4, <2>1 DEF Quieted, Later, Stages
<1>8. CASE ApplyBaseline
  <2>1. New(results') /\ stage = "baseline" /\ stage' = "triage"
    BY <1>2, <1>8 DEF ApplyBaseline, Pass, Unaccepted, New, Shape
  <2> QED BY <1>1, <1>3, <1>4, <2>1 DEF Quieted, Later, Stages, Pipeline
<1>9. CASE \/ <<stage, stage'>> \in {<<"context", "demote">>, <<"demote", "idor">>,
                  <<"idor", "confidence">>, <<"confidence", "tests">>, <<"tests", "strict">>,
                  <<"strict", "baseline">>}
          \/ <<stage, stage'>> \in {<<"triage", "entry">>, <<"entry", "cluster">>,
                  <<"cluster", "reported">>}
  BY <1>1, <1>3, <1>4, <1>9 DEF Quieted, Later, Stages, Pipeline
<1> QED BY <1>5, <1>6, <1>7, <1>8, <1>9
     DEF ReportStep, PipelineStep, Pass, TriageContext, ApplyTaintAwareDemotion, ValidateIdor,
         FilterConfidence, DowngradeTests, ApplyStrict, RunTriage, ApplyEntryPointTriage,
         ClusterResults

LEMMA QuietedStep == TypeInv /\ Quieted /\ [Next]_vars => Quieted'
<1> SUFFICES ASSUME TypeInv, Quieted, [Next]_vars PROVE Quieted'
  OBVIOUS
<1>0. TypeOK /\ Progress /\ stage \in Stages
  BY DEF TypeInv, TypeOK
<1>1. CASE UNCHANGED vars
  BY <1>1 DEF vars, pipelineVars, fixVars, Quieted
<1>2. CASE ReportStep
  BY <1>0, <1>2, QuietedReport
<1>3. CASE BeginFix
  BY <1>3 DEF BeginFix, Quieted, Later, Pipeline, Stages
<1>4. CASE Decide
  <2>1. CASE \E f \in Scope : Regresses(f)
    BY <1>4, <2>1 DEF Decide, Quieted, Later, Pipeline, Stages
  <2>2. CASE ~\E f \in Scope : Regresses(f)
    <3>1. \A f \in Files : results'[f] = IF f \in Scope THEN rescanned[f].findings ELSE {}
      BY <1>4, <2>2 DEF Decide
    <3>2. \A f \in Scope : Fingerprints(f, rescanned[f].findings) \subseteq Fingerprints(f, report[f])
      BY <2>2 DEF Regresses
    <3>3. \A f \in Files : \A y \in results'[f] : \E x \in report[f] : Same(x, y)
      <4> SUFFICES ASSUME NEW f \in Files, NEW y \in results'[f]
                   PROVE  \E x \in report[f] : Same(x, y)
        OBVIOUS
      <4>1. f \in Scope /\ y \in rescanned[f].findings
        BY <3>1
      <4>2. Fingerprint(f, y) \in Fingerprints(f, report[f])
        BY <3>2, <4>1 DEF Fingerprints
      <4> QED BY <4>2 DEF Fingerprints, Fingerprint, Same
    <3>4. Enabled(report) /\ Heard(report, start) /\ New(report)
      BY <1>4 DEF Decide, Quieted, Later
    <3>5. Enabled(results') /\ Heard(results', start) /\ New(results')
      BY <3>3, <3>4, SilenceInherited
    <3>6. stage' = "exit" /\ UNCHANGED <<start, report>>
      BY <1>4, <2>2 DEF Decide
    <3> QED BY <3>4, <3>5, <3>6 DEF Quieted, Later, Pipeline
  <2> QED BY <2>1, <2>2
<1>5. CASE stage \in Later /\ stage' \in Later \cup {"raised"} /\ UNCHANGED <<results, report, start>>
  BY <1>5 DEF Quieted, Later, Pipeline, Stages
<1>6. ASSUME NEW f \in Files, \/ OpenFile(f) \/ Rescan(f) \/ Restore(f) \/ RestoreFails(f)
      PROVE  Quieted'
  BY <1>5, <1>6 DEF OpenFile, Rescan, Restore, RestoreFails, Later
<1>7. ASSUME NEW x \in todo, FixFinding(x) PROVE Quieted'
  BY <1>5, <1>7 DEF FixFinding, Later
<1>8. CASE WriteFile \/ WriteFails \/ FixesDone
  BY <1>5, <1>8 DEF WriteFile, WriteFails, FixesDone, Later
<1>9. ASSUME NEW f \in Files, NEW l \in DOMAIN text[f], NEW c \in Pasted, Edit(f, l, c)
      PROVE  Quieted'
  BY <1>5, <1>9 DEF Edit, Later
<1> QED BY <1>1, <1>2, <1>3, <1>4, <1>6, <1>7, <1>8, <1>9 DEF Next, FixStep

(* No finding of a disabled rule, of an ignored line or of the baseline is in the
   report at exit, the rescan's included.  The rescan itself can find one again, by a
   comment it does not read or a path it takes differently: the fixes are then undone. *)
THEOREM SilenceHolds == Spec => []SilencedStaysOut
<1>1. TypeInv /\ Quieted => SilencedStaysOut
  BY DEF Quieted, Later, Pipeline, Stages, Enabled, Heard, New, SilencedStaysOut
<1> QED BY <1>1, TypeStart, TypeStep, QuietedStart, QuietedStep, PTL DEF Spec

-------------------------------------------------------------------------------
(* What the rescan keeps of a text: everything evident that speaks for itself. *)
Promised(x, f, t) == Evident(x) /\ ~Silenced(x, f, t) /\ ~Discounted(x, f, t)
PromisedAgain(x, f, t) == Promised(x, f, t) /\ ~AcceptedAgain(f, x)

LEMMA SameIsAsGood ==
    ASSUME NEW x, NEW y, Same(x, y)
    PROVE  /\ \A f, t : Rejected(x, f, t) = Rejected(y, f, t)
           /\ Off(x) = Off(y) /\ Cwe(x) = Cwe(y) /\ x.rule = y.rule /\ x.line = y.line
           /\ \A t : Suppressed(x, t) = Suppressed(y, t)
           /\ \A f : Fingerprint(f, x) = Fingerprint(f, y)
  BY DEF Same, Rejected, TakenForSafe, Off, Cwe, Suppressed, Fingerprint

LEMMA ConfiguredKeeps ==
    ASSUME NEW R, NEW f \in DOMAIN R, NEW x \in R[f],
           ~Off(x), {x.rule, Cwe(x)} \cap DOMAIN Override = {}
    PROVE  x \in Configured(R)[f] /\ DOMAIN Configured(R) = DOMAIN R
<1>1. Overridden(x) = x
  BY DEF Overridden
<1> QED BY <1>1 DEF Configured

LEMMA TriagedKeeps ==
    ASSUME NEW R, NEW T, NEW f \in DOMAIN R, NEW x \in R[f], ~Rejected(x, f, T[f])
    PROVE  [x EXCEPT !.conf = 95] \in Triaged(R, T)[f] /\ DOMAIN Triaged(R, T) = DOMAIN R
  BY DEF Triaged

LEMMA EntryPointTriagedKeeps ==
    ASSUME NEW R, NEW skipped, NEW f \in DOMAIN R, NEW x \in R[f]
    PROVE  /\ \/ x \in EntryPointTriaged(R, skipped)[f]
              \/ Exposure(x, f, R, skipped) \in EntryPointTriaged(R, skipped)[f]
           /\ DOMAIN EntryPointTriaged(R, skipped) = DOMAIN R
  BY DEF EntryPointTriaged

LEMMA RescanKeeps ==
    ASSUME TypeOK, NEW f \in Files, Context[f] = {}, Env[f] = "UNKNOWN",
           NEW x \in Analyse(text[f], FALSE), PromisedAgain(x, f, text[f])
    PROVE  \E y \in Postprocessed([g \in {f} |-> Analyse(text[f], FALSE)])[f] : Same(x, y)
<1> DEFINE R == [g \in {f} |-> Analyse(text[f], FALSE)]
           A == Configured(R)
           B == TestDropped(A)
           C == Confident(B, opts.all)
           D == UnacceptedAgain(C)
           E == IF opts.triage THEN Triaged(D, text) ELSE D
           F == EntryPointTriaged(E, {})
           G == InContext(F)
<1>0. Postprocessed(R) = G
  BY DEF Postprocessed
<1>1. x \in Finding
  <2>1. text[f] \in Seq(Code)
    BY DEF TypeOK
  <2> QED BY <2>1, AnalyseFinds
<1>2. DOMAIN R = {f} /\ x \in R[f]
  OBVIOUS
<1> HIDE DEF R
<1>3. DOMAIN A = {f} /\ x \in A[f]
  <2>1. ~Off(x) /\ {x.rule, Cwe(x)} \cap DOMAIN Override = {}
    BY DEF PromisedAgain, Promised, Silenced
  <2> QED BY <1>2, <2>1, ConfiguredKeeps
<1> HIDE DEF A
<1>4. DOMAIN B = {f} /\ x \in B[f]
  BY <1>3 DEF TestDropped, In
<1> HIDE DEF B
<1>5. DOMAIN C = {f} /\ x \in C[f]
  BY <1>4 DEF Confident, PromisedAgain, Promised, Evident
<1> HIDE DEF C
<1>6. DOMAIN D = {f} /\ x \in D[f]
  BY <1>5 DEF UnacceptedAgain, PromisedAgain
<1> HIDE DEF D
<1>7. DOMAIN E = {f} /\ \E y \in E[f] : y \in Finding /\ Same(x, y)
  <2>1. CASE opts.triage
    <3>1. ~Rejected(x, f, text[f])
      BY DEF PromisedAgain, Promised, Discounted
    <3>2. [x EXCEPT !.conf = 95] \in Triaged(D, text)[f] /\ DOMAIN Triaged(D, text) = {f}
      BY <1>6, <3>1, TriagedKeeps
    <3>3. 95 \in 0..100
      OBVIOUS
    <3>4. [x EXCEPT !.conf = 95] \in Finding /\ Same(x, [x EXCEPT !.conf = 95])
      BY <1>1, <3>3, ConfidenceChanged
    <3> QED BY <2>1, <3>2, <3>4, Zenon
  <2>2. CASE ~opts.triage
    BY <1>1, <1>6, <2>2 DEF Same
  <2> QED BY <2>1, <2>2
<1> HIDE DEF E
<1>8. DOMAIN F = {f} /\ \E y \in F[f] : y \in Finding /\ Same(x, y)
  <2>1. PICK y \in E[f] : y \in Finding /\ Same(x, y)
    BY <1>7
  <2>2. /\ y \in F[f] \/ Exposure(y, f, E, {}) \in F[f]
        /\ DOMAIN F = {f}
    BY <1>7, EntryPointTriagedKeeps
  <2>3. Exposure(y, f, E, {}) \in Finding /\ Same(y, Exposure(y, f, E, {}))
    BY <2>1, ExposureIsFinding
  <2>4. Same(x, Exposure(y, f, E, {}))
    BY <2>1, <2>3 DEF Same
  <2> HIDE DEF F
  <2> QED BY <2>1, <2>2, <2>3, <2>4
<1> HIDE DEF F
<1>9. \E y \in G[f] : Same(x, y)
  <2>1. PICK y \in F[f] : Same(x, y)
    BY <1>8
  <2>2. ~OutOfContext(y, f)
    BY DEF OutOfContext
  <2> QED BY <1>8, <2>1, <2>2 DEF InContext
<1> HIDE DEF G
<1> QED BY <1>0, <1>9 DEF R

(* Every rescanned file nobody edited still has its promised findings, also in the
   results the verdict takes over. *)
Rescanned(f, t) ==
    Context[f] = {} /\ Env[f] = "UNKNOWN" =>
        \A x \in Analyse(t, FALSE) : PromisedAgain(x, f, t) =>
            \E y \in rescanned[f].findings : Same(x, y)
Known ==
    /\ stage \in Stages \ {"rescan", "restore", "exit", "raised"} => DOMAIN rescanned = {}
    /\ stage = "rescan" => \A f \in DOMAIN rescanned \ edited : Rescanned(f, text[f])
    /\ status = "verified" => stage = "exit" /\ VerifiedTextIsKnown

LEMMA KnownStart == FixInit => Known
  BY DEF FixInit, Init, Known, Nowhere, None

(* Where the command was given does not change. *)
LEMMA SameAccepted ==
    ASSUME [Next]_vars
    PROVE  \A f, x : AcceptedAgain(f, x)' = AcceptedAgain(f, x)
<1>1. opts' = opts
  BY DEF Next, ReportStep, PipelineStep, Pass, Scan, ApplyConfig, ApplyInlineSuppressions,
     TriageContext, ApplyTaintAwareDemotion, ValidateIdor, FilterConfidence, DowngradeTests,
     ApplyStrict, ApplyBaseline, RunTriage, ApplyEntryPointTriage, ClusterResults, FixStep,
     BeginFix, OpenFile, FixFinding, WriteFile, WriteFails, FixesDone, Rescan, Decide, Restore,
     RestoreFails, Edit, vars, pipelineVars
<1> QED BY <1>1 DEF AcceptedAgain, Fingerprint

LEMMA KnownStep == TypeInv /\ Undoable /\ Known /\ [Next]_vars => Known'
<1> SUFFICES ASSUME TypeInv, Undoable, Known, [Next]_vars PROVE Known'
  OBVIOUS
<1>0. TypeOK /\ Progress /\ stage \in Stages
  BY DEF TypeInv, TypeOK
<1>1. CASE UNCHANGED vars
  BY <1>1, SameAccepted DEF vars, pipelineVars, fixVars, Known, VerifiedTextIsKnown, Scope, Rescanned,
     PromisedAgain
<1>2. CASE ReportStep
  <2>1. stage \in Pipeline /\ stage' \in Pipeline \cup {"reported"} /\ UNCHANGED fixVars
    BY <1>0, <1>2, StageStep DEF ReportStep
  <2>2. /\ stage \in Stages \ {"rescan", "restore", "exit", "raised"}
        /\ stage' \notin {"rescan", "exit"}
    BY <2>1 DEF Pipeline, Stages
  <2> QED BY <2>1, <2>2 DEF Known, fixVars
<1>3. ASSUME stage \in {"reported", "fix"}, UNCHANGED rescanned, stage' # "exit",
             status' # "verified"
      PROVE  Known'
  BY <1>3 DEF Known, Stages
<1>4. stage \in {"reported", "fix"} => status # "verified"
  BY DEF Undoable, Later, None
<1>5. CASE BeginFix
  BY <1>3, <1>4, <1>5 DEF BeginFix
<1>6. ASSUME NEW f \in Files, OpenFile(f) PROVE Known'
  BY <1>3, <1>4, <1>6 DEF OpenFile
<1>7. ASSUME NEW x \in todo, FixFinding(x) PROVE Known'
  BY <1>3, <1>4, <1>7 DEF FixFinding
<1>8. CASE WriteFile \/ WriteFails
  BY <1>3, <1>4, <1>8 DEF WriteFile, WriteFails
<1>9. CASE FixesDone
  BY <1>3, <1>4, <1>9 DEF FixesDone, Known, Stages
<1>10. ASSUME NEW f \in Files, Rescan(f) PROVE Known'
  <2> DEFINE P == Postprocessed([g \in {f} |-> Analyse(text[f], FALSE)])[f]
             r == [findings |-> P, error |-> ParseError(f, text[f])]
  <2>1. rescanned' = With(rescanned, f, r) /\ r.findings = P
    BY <1>10 DEF Rescan
  <2>2. Context[f] = {} /\ Env[f] = "UNKNOWN" =>
            \A x \in Analyse(text[f], FALSE) : PromisedAgain(x, f, text[f]) =>
                \E y \in P : Same(x, y)
    BY <1>0, RescanKeeps
  <2> HIDE DEF P, r
  <2>3. /\ DOMAIN rescanned' = DOMAIN rescanned \cup {f}
        /\ \A g \in DOMAIN rescanned \cup {f} :
              rescanned'[g] = IF g = f THEN r ELSE rescanned[g]
    BY <2>1 DEF With
  <2>4. \A g \in DOMAIN rescanned' \ edited : Rescanned(g, text[g])'
    <3> SUFFICES ASSUME NEW g \in DOMAIN rescanned' \ edited PROVE Rescanned(g, text[g])'
      OBVIOUS
    <3>1. text' = text /\ stage = "rescan"
      BY <1>10 DEF Rescan
    <3>2. CASE g = f
      BY <2>1, <2>2, <2>3, <3>1, <3>2, SameAccepted DEF Rescanned, PromisedAgain
    <3>3. CASE g # f
      <4>1. Rescanned(g, text[g]) /\ rescanned'[g] = rescanned[g]
        BY <2>3, <3>1, <3>3 DEF Known
      <4> QED BY <3>1, <4>1, SameAccepted DEF Rescanned, PromisedAgain
    <3> QED BY <3>2, <3>3
  <2>5. status # "verified"
    BY <1>10 DEF Rescan, Undoable, None
  <2> QED BY <1>10, <2>4, <2>5 DEF Rescan, Known
<1>11. CASE Decide
  <2>1. CASE \E f \in Scope : Regresses(f)
    BY <1>11, <2>1 DEF Decide, Known
  <2>2. CASE ~\E f \in Scope : Regresses(f)
    <3>1. \A f \in Scope : Fingerprints(f, rescanned[f].findings) \subseteq Fingerprints(f, report[f])
      BY <2>2 DEF Regresses
    <3>2. \A f \in Scope \ edited : Rescanned(f, text[f])
      BY <1>0, <1>11 DEF Decide, Known, Progress
    <3>3. UNCHANGED <<text, served, report, edited>> /\ stage' = "exit"
      BY <1>11, <2>2 DEF Decide
    <3>4. VerifiedTextIsKnown
      BY <1>11 DEF Decide, VerifiedTextIsKnown
    <3>5. ASSUME NEW f \in Scope \ edited, Context[f] = {} /\ Env[f] = "UNKNOWN",
                 NEW x \in Analyse(text[f], FALSE), PromisedAgain(x, f, text[f])
          PROVE  Fingerprint(f, x) \in Fingerprints(f, report[f])
      <4>1. PICK y \in rescanned[f].findings : Same(x, y)
        BY <3>2, <3>5 DEF Rescanned
      <4>2. Fingerprint(f, x) = Fingerprint(f, y)
        BY <4>1 DEF Same, Fingerprint
      <4>3. Fingerprint(f, y) \in Fingerprints(f, rescanned[f].findings)
        BY DEF Fingerprints
      <4> QED BY <3>1, <4>2, <4>3
    <3>6. VerifiedTextIsKnown'
      BY <3>3, <3>5, SameAccepted DEF VerifiedTextIsKnown, Scope, PromisedAgain, Promised
    <3> QED BY <3>3, <3>6 DEF Known, Stages
  <2> QED BY <2>1, <2>2
<1>12. ASSUME NEW f \in Files, Restore(f) \/ RestoreFails(f) PROVE Known'
  BY <1>12 DEF Restore, RestoreFails, Known, Stages
<1>13. ASSUME NEW f \in Files, NEW l \in DOMAIN text[f], NEW c \in Pasted, Edit(f, l, c)
       PROVE  Known'
  <2>1. \A g \in Files \ {f} : text'[g] = text[g]
    BY <1>0, <1>13 DEF Edit, TypeOK
  <2>2. /\ UNCHANGED <<stage, rescanned, status>> /\ edited' = edited \cup {f}
        /\ stage # "exit"
    BY <1>13 DEF Edit
  <2>3. DOMAIN rescanned \subseteq Files
    BY <1>0 DEF TypeOK
  <2> QED BY <2>1, <2>2, <2>3, SameAccepted DEF Known, Rescanned, PromisedAgain
<1> QED BY <1>1, <1>2, <1>5, <1>6, <1>7, <1>8, <1>9, <1>10, <1>11, <1>12, <1>13 DEF Next, FixStep

(* Fixes are verified only when the rewritten files have nothing severe and evident
   that was not reported: the rescan drops nothing of the kind, and the verdict
   compares all the rest. *)
THEOREM VerifiedKnown == Spec => []VerifiedTextIsKnown
<1>1. Known => VerifiedTextIsKnown
  BY DEF Known, VerifiedTextIsKnown
<1> QED BY <1>1, TypeStart, TypeStep, UndoableStart, UndoableStep, KnownStart, KnownStep, PTL DEF Spec

-------------------------------------------------------------------------------
(* What the report still holds of a promised finding x as y: until triage with the
   evidence, or from the cache with the confidence, that the stages spare. *)
Likeness(x, y) == y \in Finding /\ Same(x, y) /\ y.sev = x.sev /\ y.trace \in {x.trace, "none"}
Carried(x, y) == Likeness(x, y) /\ (y.conf >= 90 \/ Structural(y))
Lowered(x, f) == x.sev + (IF AuthContext(x, f, {}) THEN 1 ELSE 0)
Promises(f) == {x \in Analyse(text[f], TRUE) : Context[f] = {} /\ Promised(x, f, text[f])}

Untriaged == {"config", "inline", "context", "demote", "idor", "confidence", "tests", "strict",
    "baseline", "triage"}
Kept ==
    \A f \in Files : \A x \in Promises(f) :
        /\ stage \in Untriaged => \E y \in results[f] : Carried(x, y)
        /\ stage = "entry" => \E y \in results[f] : Likeness(x, y)
        /\ stage = "cluster" =>
               \E y \in results[f] : y \in Finding /\ Same(x, y) /\ y.sev <= Lowered(x, f)
        /\ stage = "reported" => \E y \in results[f] : y.line = x.line /\ y.sev <= Lowered(x, f)

LEMMA PromisesAreFindings ==
    ASSUME TypeOK, NEW f \in Files, NEW x \in Promises(f)
    PROVE  x \in Finding /\ x.sev \in 0..1 /\ Structural(x)
<1>1. text[f] \in Seq(Code)
  BY DEF TypeOK
<1>2. x \in Finding
  BY <1>1, AnalyseFinds DEF Promises
<1> QED BY <1>2, FieldTypes DEF Promises, Promised, Evident, Severe

LEMMA RehydratedCarried ==
    ASSUME NEW x \in Finding
    PROVE  Carried(x, Rehydrated(x))
<1>1. Rehydrated(x) \in Finding /\ Same(x, Rehydrated(x))
  BY RehydratedIsFinding
<1>2. Rehydrated(x).sev = x.sev /\ Rehydrated(x).trace = "none" /\ Rehydrated(x).conf = 100
  BY DEF Rehydrated, Finding
<1> QED BY <1>1, <1>2 DEF Carried, Likeness

(* Each stage up to triage lets a carried finding through as it is, but for the
   confidence that the check of IDORs raises. *)
LEMMA DemotionSpares ==
    ASSUME NEW x, NEW y \in Finding, Carried(x, y), Cwe(y) \notin QualityAlwaysLow
    PROVE  Demoted(y) = y
<1>1. (y.trace # "none" /\ y.kind \notin HeuristicKinds) \/ y.conf >= 90
  BY DEF Carried, Structural
<1>2. DemotedTo(y) = "none"
  BY <1>1 DEF DemotedTo
<1> QED BY <1>2 DEF Demoted

LEMMA IdorCarried ==
    ASSUME NEW x, NEW y \in Finding, Carried(x, y)
    PROVE  Carried(x, [y EXCEPT !.conf = Smaller(100, @ + 10)])
<1> DEFINE c == Smaller(100, y.conf + 10)
           z == [y EXCEPT !.conf = c]
<1>1. c \in 0..100 /\ (y.conf >= 90 => c >= 90)
  BY FieldTypes DEF Smaller
<1> HIDE DEF c
<1>2. z \in Finding /\ Same(y, z)
  BY <1>1, ConfidenceChanged
<1>3. z.sev = y.sev /\ z.trace = y.trace /\ z.kind = y.kind /\ z.conf = c
  BY DEF Finding
<1> HIDE DEF z
<1>4. Carried(x, z)
  BY <1>1, <1>2, <1>3 DEF Carried, Likeness, Same, Structural
<1> QED BY <1>4 DEF z, c

LEMMA ExposureLowers ==
    ASSUME NEW x \in Finding, NEW y, Likeness(x, y), NEW f, NEW R, NEW skipped
    PROVE  /\ y.sev <= Lowered(x, f)
           /\ Exposure(y, f, R, skipped) \in Finding /\ Same(x, Exposure(y, f, R, skipped))
           /\ Exposure(y, f, R, skipped).sev <= Lowered(x, f)
<1>1. /\ y \in Finding /\ Same(x, y) /\ y.sev = x.sev /\ y.trace \in {x.trace, "none"}
      /\ x.sev \in 0..4
  BY FieldTypes DEF Likeness
<1>2. Exposure(y, f, R, skipped) \in Finding /\ Same(y, Exposure(y, f, R, skipped))
  BY <1>1, ExposureIsFinding
<1>3. \/ Exposure(y, f, R, skipped).sev = y.sev
      \/ AuthContext(y, f, skipped) /\ Exposure(y, f, R, skipped).sev = y.sev + 1
  BY <1>1 DEF Exposure, Finding
<1>4. AuthContext(y, f, skipped) => AuthContext(x, f, {})
  BY <1>1 DEF AuthContext
<1>5. y.sev <= Lowered(x, f) /\ Exposure(y, f, R, skipped).sev <= Lowered(x, f)
  BY <1>1, <1>3, <1>4 DEF Lowered
<1>6. Same(x, Exposure(y, f, R, skipped))
  BY <1>1, <1>2 DEF Same
<1> QED BY <1>2, <1>5, <1>6

LEMMA ClusteredKeeps ==
    ASSUME NEW R, NEW f \in DOMAIN R, R[f] \subseteq Finding, NEW y \in R[f]
    PROVE  \E z \in Clustered(R)[f] : z.line = y.line /\ z.sev <= y.sev
<1> DEFINE g == {u \in R[f] : u.line = y.line}
<1>1. g \subseteq Finding /\ g # {} /\ y \in g
  OBVIOUS
<1>2. PICK u \in g : Same(u, Merged(g))
  BY <1>1, MergedIsFinding
<1>3. Merged(g).sev <= y.sev /\ Merged(g).line = y.line
  <2>1. Merged(g).sev <= y.sev
    BY <1>1, MergedIsFinding
  <2> QED BY <1>2, <2>1 DEF Same
<1>4. Merged(g) \in Clustered(R)[f]
  BY DEF Clustered
<1> HIDE DEF g
<1> QED BY <1>3, <1>4

(* One stage after the other. *)
LEMMA KeptStage ==
    ASSUME TypeOK, Kept, PipelineStep, NEW f \in Files, NEW x \in Promises(f)
    PROVE  /\ stage' \in Untriaged => \E y \in results'[f] : Carried(x, y)
           /\ stage' = "entry" => \E y \in results'[f] : Likeness(x, y)
           /\ stage' = "cluster" =>
                  \E y \in results'[f] : y \in Finding /\ Same(x, y) /\ y.sev <= Lowered(x, f)
           /\ stage' = "reported" =>
                  \E y \in results'[f] : y.line = x.line /\ y.sev <= Lowered(x, f)
<1> DEFINE Through == stage' \in Untriaged /\ \E y \in results'[f] : Carried(x, y)
           Goal == /\ stage' \in Untriaged => \E y \in results'[f] : Carried(x, y)
                   /\ stage' = "entry" => \E y \in results'[f] : Likeness(x, y)
                   /\ stage' = "cluster" =>
                        \E y \in results'[f] : y \in Finding /\ Same(x, y) /\ y.sev <= Lowered(x, f)
                   /\ stage' = "reported" =>
                        \E y \in results'[f] : y.line = x.line /\ y.sev <= Lowered(x, f)
<1> SUFFICES Goal
  OBVIOUS
<1>1. Through => Goal
  BY DEF Untriaged
<1> HIDE DEF Goal
<1>2. /\ x \in Finding /\ x.sev \in 0..1 /\ Structural(x)
      /\ x \in Analyse(text[f], TRUE) /\ Context[f] = {} /\ Promised(x, f, text[f])
  BY PromisesAreFindings DEF Promises
<1>3. DOMAIN results = Files /\ results[f] \subseteq Finding
  BY DEF TypeOK
<1>4. ASSUME NEW y, Carried(x, y)
      PROVE  /\ y \in Finding /\ Same(x, y) /\ Severe(y) /\ Cwe(y) \notin QualityAlwaysLow
             /\ ~Off(y) /\ {y.rule, Cwe(y)} \cap DOMAIN Override = {}
             /\ ~Suppressed(y, text[f]) /\ Fingerprint(f, y) \notin Accepted
             /\ ~Rejected(y, f, text[f]) /\ Likeness(x, y)
             /\ ~(y.line \in DOMAIN text[f] /\ text[f][y.line] \in Comments)
  <2>1. y \in Finding /\ Same(x, y) /\ y.sev = x.sev /\ Likeness(x, y)
    BY <1>4 DEF Carried, Likeness
  <2> QED BY <1>2, <2>1, SameIsAsGood DEF Promised, Silenced, Discounted, Severe
<1>5. stage \in Untriaged => \E y \in results[f] : Carried(x, y)
  BY DEF Kept
<1>6. CASE Scan
  <2>1. Carried(x, x)
    BY <1>2 DEF Carried, Likeness, Same
  <2>2. Carried(x, Rehydrated(x))
    BY <1>2, RehydratedCarried
  <2>3. x \in results'[f] \/ Rehydrated(x) \in results'[f]
    BY <1>2, <1>6 DEF Scan, Pass, Found
  <2>4. stage' \in Untriaged
    BY <1>6 DEF Scan, Pass, Untriaged
  <2> QED BY <1>1, <2>1, <2>2, <2>3, <2>4
<1>7. CASE ApplyConfig
  <2>1. PICK y \in results[f] : Carried(x, y)
    BY <1>5, <1>7 DEF ApplyConfig, Pass, Untriaged
  <2>2. y \in Configured(results)[f]
    BY <1>3, <1>4, <2>1, ConfiguredKeeps
  <2> QED BY <1>1, <1>7, <2>1, <2>2 DEF ApplyConfig, Pass, Untriaged
<1>8. CASE ApplyInlineSuppressions
  <2>1. PICK y \in results[f] : Carried(x, y)
    BY <1>5, <1>8 DEF ApplyInlineSuppressions, Pass, Untriaged
  <2>2. y \in Unsuppressed(results, text)[f]
    BY <1>3, <1>4, <2>1 DEF Unsuppressed
  <2> QED BY <1>1, <1>8, <2>1, <2>2 DEF ApplyInlineSuppressions, Pass, Untriaged
<1>9. CASE TriageContext
  <2>1. PICK y \in results[f] : Carried(x, y)
    BY <1>5, <1>9 DEF TriageContext, Pass, Untriaged
  <2>2. y \in ContextTriaged(results)[f]
    BY <1>2, <1>3, <2>1 DEF ContextTriaged, In
  <2> QED BY <1>1, <1>9, <2>1, <2>2 DEF TriageContext, Pass, Untriaged
<1>10. CASE ApplyTaintAwareDemotion
  <2>1. PICK y \in results[f] : Carried(x, y)
    BY <1>5, <1>10 DEF ApplyTaintAwareDemotion, Pass, Untriaged
  <2>2. Demoted(y) = y
    BY <1>4, <2>1, DemotionSpares
  <2>3. y \in TaintDemoted(results)[f]
    BY <1>3, <2>2 DEF TaintDemoted
  <2> QED BY <1>1, <1>10, <2>1, <2>3 DEF ApplyTaintAwareDemotion, Pass, Untriaged
<1>11. CASE ValidateIdor
  <2>1. PICK y \in results[f] : Carried(x, y)
    BY <1>5, <1>11 DEF ValidateIdor, Pass, Untriaged
  <2>2. \/ y \in IdorValidated(results)[f]
        \/ [y EXCEPT !.conf = Smaller(100, @ + 10)] \in IdorValidated(results)[f]
    BY <1>3 DEF IdorValidated
  <2>3. Carried(x, [y EXCEPT !.conf = Smaller(100, @ + 10)])
    BY <1>3, <2>1, IdorCarried
  <2> QED BY <1>1, <1>11, <2>1, <2>2, <2>3 DEF ValidateIdor, Pass, Untriaged
<1>12. CASE FilterConfidence
  <2>1. PICK y \in results[f] : Carried(x, y)
    BY <1>5, <1>12 DEF FilterConfidence, Pass, Untriaged
  <2>2. y \in Confident(results, opts.all)[f]
    BY <1>3, <1>4, <2>1 DEF Confident
  <2> QED BY <1>1, <1>12, <2>1, <2>2 DEF FilterConfidence, Pass, Untriaged
<1>13. CASE DowngradeTests
  <2>1. PICK y \in results[f] : Carried(x, y)
    BY <1>5, <1>13 DEF DowngradeTests, Pass, Untriaged
  <2>2. y \in TestDowngraded(results)[f]
    BY <1>2, <1>3, <2>1 DEF TestDowngraded, In
  <2> QED BY <1>1, <1>13, <2>1, <2>2 DEF DowngradeTests, Pass, Untriaged
<1>14. CASE ApplyStrict
  <2>1. PICK y \in results[f] : Carried(x, y)
    BY <1>5, <1>14 DEF ApplyStrict, Pass, Untriaged
  <2>2. Cwe(y) \notin Quality
    BY <1>4, <2>1 DEF Rejected
  <2>3. StrictlyKept(y, f, text[f])
    BY <1>2, <1>4, <2>1, <2>2 DEF StrictlyKept, In
  <2>4. y \in Strict(results, text)[f]
    BY <1>3, <2>3 DEF Strict
  <2> QED BY <1>1, <1>14, <2>1, <2>4 DEF ApplyStrict, Pass, Untriaged
<1>15. CASE ApplyBaseline
  <2>1. PICK y \in results[f] : Carried(x, y)
    BY <1>5, <1>15 DEF ApplyBaseline, Pass, Untriaged
  <2>2. y \in Unaccepted(results)[f]
    BY <1>3, <1>4, <2>1 DEF Unaccepted
  <2> QED BY <1>1, <1>15, <2>1, <2>2 DEF ApplyBaseline, Pass, Untriaged
<1>16. CASE RunTriage
  <2>1. PICK y \in results[f] : Carried(x, y)
    BY <1>5, <1>16 DEF RunTriage, Pass, Untriaged
  <2> DEFINE T == CodeMap(text, served)
             z == [y EXCEPT !.conf = 95]
  <2>2. T[f] = text[f] \/ T[f] = << >>
    BY DEF CodeMap, TypeOK
  <2>3. ~Rejected(y, f, T[f])
    <3>1. ~Rejected(y, f, text[f])
      BY <1>4, <2>1
    <3>2. ~TakenForSafe(y, << >>)
      BY DEF TakenForSafe
    <3> QED BY <2>2, <3>1, <3>2 DEF Rejected
  <2>4. y \in Finding /\ Likeness(x, y)
    BY <1>4, <2>1
  <2>5. Likeness(x, z)
    <3>1. 95 \in 0..100
      OBVIOUS
    <3>2. z \in Finding /\ Same(y, z)
      BY <2>4, <3>1, ConfidenceChanged
    <3>3. z.sev = y.sev /\ z.trace = y.trace
      BY <2>4 DEF Finding
    <3> HIDE DEF z
    <3> QED BY <2>4, <3>2, <3>3 DEF Likeness, Same
  <2> HIDE DEF T
  <2>6. z \in Triaged(results, T)[f]
    BY <1>3, <2>3, TriagedKeeps
  <2> HIDE DEF z
  <2>7. stage' = "entry" /\ results' = IF opts.triage THEN Triaged(results, T) ELSE results
    BY <1>16 DEF RunTriage, Pass, T
  <2>8. \E u \in results'[f] : Likeness(x, u)
    BY <2>4, <2>5, <2>6, <2>7
  <2> QED BY <2>7, <2>8 DEF Goal, Untriaged
<1>17. CASE ApplyEntryPointTriage
  <2>1. PICK y \in results[f] : Likeness(x, y)
    BY <1>17 DEF ApplyEntryPointTriage, Pass, Kept
  <2>2. \/ y \in EntryPointTriaged(results, served)[f]
        \/ Exposure(y, f, results, served) \in EntryPointTriaged(results, served)[f]
    BY <1>3, EntryPointTriagedKeeps
  <2>3. /\ y \in Finding /\ Same(x, y) /\ y.sev <= Lowered(x, f)
        /\ Exposure(y, f, results, served) \in Finding
        /\ Same(x, Exposure(y, f, results, served))
        /\ Exposure(y, f, results, served).sev <= Lowered(x, f)
    BY <1>2, <2>1, ExposureLowers DEF Likeness
  <2>4. /\ stage' = "cluster"
        /\ results' = IF opts.triage THEN EntryPointTriaged(results, served) ELSE results
    BY <1>17 DEF ApplyEntryPointTriage, Pass
  <2>5. \E u \in results'[f] : u \in Finding /\ Same(x, u) /\ u.sev <= Lowered(x, f)
    BY <2>2, <2>3, <2>4
  <2> QED BY <2>4, <2>5 DEF Goal, Untriaged
<1>18. CASE ClusterResults
  <2>1. PICK y \in results[f] : y \in Finding /\ Same(x, y) /\ y.sev <= Lowered(x, f)
    BY <1>18 DEF ClusterResults, Pass, Kept
  <2>2. PICK z \in Clustered(results)[f] : z.line = y.line /\ z.sev <= y.sev
    BY <1>3, ClusteredKeeps
  <2>3. z.sev \in Int
    <3>1. Shape(Clustered(results), Files)
      BY <1>3, ClusteredDerives DEF Derived, Shape, TypeOK
    <3>2. z \in Finding
      BY <3>1 DEF Shape
    <3> QED BY <3>2, FieldTypes
  <2>4. z.line = x.line /\ z.sev <= Lowered(x, f)
    <3>1. y.sev \in Int /\ Lowered(x, f) \in Int
      BY <1>2, <2>1, FieldTypes DEF Lowered
    <3> QED BY <2>1, <2>2, <2>3, <3>1 DEF Same
  <2>5. /\ stage' = "reported"
        /\ results' = IF opts.cluster THEN Clustered(results) ELSE results
    BY <1>18 DEF ClusterResults, Pass
  <2>6. \E u \in results'[f] : u.line = x.line /\ u.sev <= Lowered(x, f)
    BY <2>1, <2>2, <2>4, <2>5 DEF Same
  <2> QED BY <2>5, <2>6 DEF Goal, Untriaged
<1> QED BY <1>6, <1>7, <1>8, <1>9, <1>10, <1>11, <1>12, <1>13, <1>14, <1>15, <1>16, <1>17, <1>18
     DEF PipelineStep

LEMMA KeptStart == FixInit => Kept
  BY DEF FixInit, Init, Kept, Untriaged

LEMMA KeptStep == TypeInv /\ Kept /\ [Next]_vars => Kept'
<1> SUFFICES ASSUME TypeInv, Kept, [Next]_vars PROVE Kept'
  OBVIOUS
<1>0. TypeOK
  BY DEF TypeInv
<1>1. CASE UNCHANGED vars
  BY <1>1 DEF vars, pipelineVars, Kept, Promises
<1>2. CASE ReportStep
  <2>1. PipelineStep /\ UNCHANGED text
    BY <1>0, <1>2, StageStep DEF ReportStep
  <2>2. \A f \in Files : Promises(f)' = Promises(f)
    BY <2>1 DEF Promises
  <2> QED BY <1>0, <2>1, <2>2, KeptStage DEF Kept
<1>3. CASE stage' \in Later \cup {"raised"}
  BY <1>3 DEF Kept, Untriaged, Later
<1>4. ASSUME FixStep \/ \E f \in Files : \E l \in DOMAIN text[f] : \E c \in Pasted : Edit(f, l, c)
      PROVE  stage' \in Later \cup {"raised"}
  BY <1>4 DEF FixStep, BeginFix, OpenFile, FixFinding, WriteFile, WriteFails, FixesDone, Rescan,
              Decide, Restore, RestoreFails, Edit, Later
<1> QED BY <1>1, <1>2, <1>3, <1>4 DEF Next

(* Whatever the order of the stages does to it, a severe finding with a trace that
   nobody silenced is in the report, as itself or in a cluster of its line. *)
THEOREM SevereReported == Spec => []SevereIsReported
<1>1. TypeInv /\ Kept => SevereIsReported
  BY DEF Kept, Promises, Promised, Lowered, SevereIsReported
<1> QED BY <1>1, TypeStart, TypeStep, KeptStart, KeptStep, PTL DEF Spec
=============================================================================
