----------------------- MODULE DetectionReportProofs -----------------------
(***************************************************************************)
(* Theorems about DetectionReport, for any tools, outputs, weaknesses,     *)
(* references, sources and telemetry.                                      *)
(***************************************************************************)
EXTENDS DetectionReport, FiniteSetTheorems, SequenceTheorems, WellFoundedInduction, TLAPS

(* Least and greatest elements, induction over a finite set, and folds.    *)

LEMMA LeastNumber ==
  ASSUME NEW S \in SUBSET Nat, S # {}
  PROVE  \E m \in S : \A k \in S : m <= k
<1> DEFINE Less == OpToRel(<, Nat)
<1>1. PICK m \in S : \A k \in S : ~(<<k, m>> \in Less)
  BY NatLessThanWellFounded, WFMin
<1>2. ASSUME NEW k \in S PROVE m <= k
  <2>1. <<k, m>> \in Less <=> k < m
    BY DEF OpToRel
  <2>2. ~(<<k, m>> \in Less)
    BY <1>1
  <2> HIDE DEF Less
  <2>3. k \in Nat /\ m \in Nat
    OBVIOUS
  <2> QED BY <2>1, <2>2, <2>3
<1> QED BY <1>2

LEMMA GreatestNumber ==
  ASSUME NEW n \in Nat, NEW S \in SUBSET (0 .. n), S # {}
  PROVE  /\ Max(S) \in S /\ \A k \in S : k <= Max(S)
         /\ \A m \in S : (\A k \in S : k <= m) => Max(S) = m
<1> DEFINE Distances == {n - k : k \in S}
<1>1. Distances \in SUBSET Nat /\ Distances # {}
  <2>1. \A k \in S : n - k \in Nat
    OBVIOUS
  <2>2. PICK k \in S : TRUE
    OBVIOUS
  <2>3. n - k \in Distances
    BY <2>2
  <2> QED BY <2>1, <2>3
<1>2. PICK g \in Distances : \A h \in Distances : g <= h
  BY <1>1, LeastNumber
<1>3. PICK m \in S : g = n - m
  BY <1>2
<1>4. \A k \in S : n - k \in Distances
  OBVIOUS
<1>5. ASSUME NEW k \in S PROVE m >= k
  <2>1. g <= n - k
    BY <1>2, <1>4
  <2> QED BY <2>1, <1>3
<1>6. Max(S) \in S /\ \A k \in S : Max(S) >= k
  BY <1>5, Zenon DEF Max
<1>7. \A k \in S : k \in Int
  OBVIOUS
<1> HIDE DEF Distances
<1>8. \A k \in S : k <= Max(S)
  BY <1>6, <1>7
<1>9. ASSUME NEW j \in S, \A k \in S : k <= j PROVE Max(S) = j
  <2>1. Max(S) <= j /\ j <= Max(S)
    BY <1>6, <1>8, <1>9
  <2>2. Max(S) \in Int /\ j \in Int
    BY <1>6, <1>7
  <2> QED BY <2>1, <2>2
<1> QED BY <1>6, <1>8, <1>9

\* What holds of the empty set and of a set when it does without the element that a
\* fold takes first, holds of every finite set.
LEMMA FoldInduction ==
  ASSUME NEW S, IsFiniteSet(S), NEW Good,
         {} \in Good,
         \A s \in SUBSET S : s # {} /\ s \ {CHOOSE x \in s : TRUE} \in Good => s \in Good
  PROVE  S \in Good
<1> DEFINE Bad == {n \in Nat : \E s \in SUBSET S : s \notin Good /\ Cardinality(s) = n}
<1>1. SUFFICES ASSUME S \notin Good PROVE FALSE
  OBVIOUS
<1>2. Cardinality(S) \in Bad
  BY <1>1, FS_CardinalityType
<1>3. PICK n \in Bad : \A k \in Bad : n <= k
  <2> Bad \in SUBSET Nat /\ Bad # {}
    BY <1>2
  <2> HIDE DEF Bad
  <2> QED BY LeastNumber
<1>4. PICK s \in SUBSET S : s \notin Good /\ Cardinality(s) = n
  BY <1>3
<1>5. s # {} /\ IsFiniteSet(s)
  BY <1>4, FS_Subset
<1> DEFINE x == CHOOSE y \in s : TRUE
<1>6. x \in s
  BY <1>5
<1>7. Cardinality(s \ {x}) = n - 1 /\ n - 1 \in Nat
  <2> HIDE DEF x
  <2>1. Cardinality(s \ {x}) = Cardinality(s) - 1 /\ IsFiniteSet(s \ {x})
    BY <1>5, <1>6, FS_RemoveElement
  <2> QED BY <2>1, <1>4, FS_CardinalityType
<1>8. s \ {x} \in Good
  <2> SUFFICES ASSUME s \ {x} \notin Good PROVE FALSE
    OBVIOUS
  <2> HIDE DEF x
  <2> n - 1 \in Bad
    BY <1>7
  <2> QED BY <1>3
<1> QED BY <1>4, <1>5, <1>8
-----------------------------------------------------------------------------
(* What the oracle says (VerdictsCredited).                                *)

LEMMA RankOrders ==
  /\ Rank("BLOCKED") = 3 /\ Rank("DETECTED") = 2 /\ Rank("PARTIAL") = 1 /\ Rank("MISSED") = 0
  /\ \A v \in Verdicts : Rank(v) \in 0 .. 3
  /\ \A u, v \in Verdicts : Rank(u) = Rank(v) => u = v
  /\ \A v \in Verdicts : Covered(v) <=> Rank(v) >= 2
<1>1. /\ Rank("BLOCKED") = 3 /\ Rank("DETECTED") = 2
      /\ Rank("PARTIAL") = 1 /\ Rank("MISSED") = 0
  BY DEF Rank
<1>2. \A v \in Verdicts : v \in {"BLOCKED", "DETECTED", "PARTIAL", "MISSED"}
  BY DEF Verdicts
<1> QED BY <1>1, <1>2 DEF Covered

LEMMA BestIsBest ==
  ASSUME NEW V \in SUBSET Verdicts
  PROVE  /\ BestVerdict(V) \in Verdicts
         /\ V = {} => BestVerdict(V) = "MISSED"
         /\ V # {} => BestVerdict(V) \in V
         /\ \A u \in V : Rank(u) <= Rank(BestVerdict(V))
<1> DEFINE From == IF V = {} THEN {"MISSED"} ELSE V
<1>1. \E v \in From : \A u \in V : Rank(v) >= Rank(u)
  <2>1. CASE "BLOCKED" \in V
    BY <2>1, RankOrders DEF Verdicts
  <2>2. CASE "BLOCKED" \notin V /\ "DETECTED" \in V
    BY <2>2, RankOrders DEF Verdicts
  <2>3. CASE "BLOCKED" \notin V /\ "DETECTED" \notin V /\ "PARTIAL" \in V
    BY <2>3, RankOrders DEF Verdicts
  <2>4. CASE V \subseteq {"MISSED"}
    BY <2>4, RankOrders DEF Verdicts
  <2> QED BY <2>1, <2>2, <2>3, <2>4 DEF Verdicts
<1>2. BestVerdict(V) \in From /\ \A u \in V : Rank(BestVerdict(V)) >= Rank(u)
  BY <1>1, Zenon DEF BestVerdict
<1>3. BestVerdict(V) \in Verdicts
  BY <1>2 DEF Verdicts
<1>4. \A u \in V : Rank(u) <= Rank(BestVerdict(V))
  BY <1>2, <1>3, RankOrders
<1> QED BY <1>2, <1>3, <1>4

LEMMA ConnectorReads ==
  ASSUME NEW s, NEW E
  PROVE  LET v == ConnectorVerdict(s, E)
         IN  /\ v \in Verdicts
             /\ v = "MISSED" <=> E = {}
             /\ v = "BLOCKED" <=> E # {} /\ s \in Blockers /\ \E e \in E : e.blocked
             /\ v = "DETECTED" => \E e \in E : e.alerted
<1>1. CASE E = {}
  BY <1>1 DEF ConnectorVerdict, Verdicts, Blocks
<1>2. CASE E # {} /\ Blocks(s, E)
  <2>1. ConnectorVerdict(s, E) = "BLOCKED"
    BY <1>2 DEF ConnectorVerdict
  <2> QED BY <1>2, <2>1 DEF Verdicts, Blocks
<1>3. CASE E # {} /\ ~Blocks(s, E) /\ \E e \in E : e.alerted
  <2>1. ConnectorVerdict(s, E) = "DETECTED"
    BY <1>3 DEF ConnectorVerdict
  <2> QED BY <1>3, <2>1 DEF Verdicts, Blocks
<1>4. CASE E # {} /\ ~Blocks(s, E) /\ ~\E e \in E : e.alerted
  <2>1. ConnectorVerdict(s, E) = "PARTIAL"
    BY <1>4 DEF ConnectorVerdict
  <2> QED BY <1>4, <2>1 DEF Verdicts, Blocks
<1> QED BY <1>1, <1>2, <1>3, <1>4

\* What VerdictsCredited says of one observation.
Credited(d, events) ==
  LET Near == {e \in events : /\ \E s \in Sources : About(e, s, d.ref)
                              /\ -Lead <= e.time /\ e.time <= Window}
      Alerts == {e \in Near : e.alerted \/ e.blocked}
  IN  /\ d.verdict # "MISSED" => Near # {}
      /\ d.verdict = "BLOCKED" => \E e \in Near : e.blocked /\ e.source \in Blockers
      /\ d.verdict = "DETECTED" => \E e \in Near : e.alerted
      /\ d.ttd # NoTime => Covered(d.verdict) /\ \E e \in Alerts : e.time = d.ttd /\ d.ttd >= 0
      /\ Covered(d.verdict) /\ d.ttd = NoTime => \E e \in Alerts : e.time < 0

LEMMA CreditStays ==
  ASSUME NEW d, NEW T, NEW U, T \subseteq U, Credited(d, T)
  PROVE  Credited(d, U)
BY SMTT(30) DEF Credited

LEMMA QueryInWindow ==
  ASSUME NEW T \in SUBSET Events, NEW s, NEW r
  PROVE  Query(T, s, r, 0) =
           {e \in T : About(e, s, r) /\ -Lead <= e.time /\ e.time <= Window}
<1>1. \A e \in T : e.time \in Int
  BY OracleAssumption, ReportAssumption DEF Events
<1> QED BY <1>1, OracleAssumption DEF Query

LEMMA VerdictRanks ==
  ASSUME NEW T, NEW r
  PROVE  /\ PerConnector(T, r, 0) \in SUBSET Verdicts
         /\ Verdict(T, r, 0) \in Verdicts
         /\ \A s \in Sources : Rank(ConnectorVerdict(s, Query(T, s, r, 0))) <= Rank(Verdict(T, r, 0))
         /\ Verdict(T, r, 0) # "MISSED" =>
              \E s \in Sources : ConnectorVerdict(s, Query(T, s, r, 0)) = Verdict(T, r, 0)
<1>1. PerConnector(T, r, 0) \in SUBSET Verdicts
  BY ConnectorReads DEF PerConnector
<1>2. /\ Verdict(T, r, 0) \in Verdicts
      /\ PerConnector(T, r, 0) = {} => Verdict(T, r, 0) = "MISSED"
      /\ PerConnector(T, r, 0) # {} => Verdict(T, r, 0) \in PerConnector(T, r, 0)
      /\ \A u \in PerConnector(T, r, 0) : Rank(u) <= Rank(Verdict(T, r, 0))
  BY <1>1, BestIsBest DEF Verdict
<1> QED BY <1>1, <1>2 DEF PerConnector

LEMMA ObservationCredited ==
  ASSUME NEW T \in SUBSET Events, NEW d,
         d.verdict = Verdict(T, d.ref, 0), d.ttd = TimeToDetect(T, d.ref, 0)
  PROVE  Credited(d, T) /\ d.verdict \in Verdicts /\ d.ttd \in Int \cup {NoTime}
<1> DEFINE Q(s) == Query(T, s, d.ref, 0)
           CV(s) == ConnectorVerdict(s, Q(s))
           Near == {e \in T : /\ \E s \in Sources : About(e, s, d.ref)
                              /\ -Lead <= e.time /\ e.time <= Window}
           Caught == {s \in Sources : Covered(CV(s))}
           Seen == UNION {Q(s) : s \in Caught}
           Times == {e.time - 0 : e \in {x \in Seen : (x.alerted \/ x.blocked) /\ x.time >= 0}}
<1>1. \A s \in Sources : Q(s) \subseteq Near
  BY QueryInWindow
<1>2. \A s : \A e \in Q(s) : e.source = s
  BY DEF Query, About
<1>3. \A e \in T : e.time \in Int
  BY OracleAssumption, ReportAssumption DEF Events
<1>4. d.verdict \in Verdicts
  BY VerdictRanks
<1>5. d.verdict # "MISSED" => \E s \in Sources : CV(s) = d.verdict
  BY VerdictRanks
<1>6. \A s \in Sources : Rank(CV(s)) <= Rank(d.verdict) /\ CV(s) \in Verdicts
  BY VerdictRanks, ConnectorReads
<1>7. \A s \in Sources : /\ CV(s) = "MISSED" <=> Q(s) = {}
                         /\ CV(s) = "BLOCKED" => s \in Blockers /\ \E e \in Q(s) : e.blocked
                         /\ CV(s) = "DETECTED" => \E e \in Q(s) : e.alerted
  BY ConnectorReads
<1>8. d.ttd = IF Times = {} THEN NoTime ELSE CHOOSE t \in Times : \A u \in Times : t <= u
  BY DEF TimeToDetect
<1>9. Caught # {} <=> Covered(d.verdict)
  <2>1. ASSUME NEW s \in Caught PROVE Covered(d.verdict)
    BY <1>4, <1>6, RankOrders
  <2>2. ASSUME Covered(d.verdict) PROVE Caught # {}
    <3>1. PICK s \in Sources : CV(s) = d.verdict
      BY <1>5, <2>2 DEF Covered
    <3> QED BY <3>1, <2>2
  <2> QED BY <2>1, <2>2
<1>10. Seen \subseteq Near
  BY <1>1
<1>11. ASSUME Covered(d.verdict) PROVE \E e \in Seen : e.alerted \/ e.blocked
  <2>1. PICK s \in Sources : CV(s) = d.verdict
    BY <1>5, <1>11 DEF Covered
  <2>2. s \in Caught /\ Q(s) \subseteq Seen
    BY <2>1, <1>11
  <2>3. \E e \in Q(s) : e.alerted \/ e.blocked
    BY <2>1, <1>7, <1>11 DEF Covered
  <2> QED BY <2>2, <2>3
<1> HIDE DEF Q, CV
<1>12. Times \in SUBSET Nat
  <2>1. \A e \in Seen : e.time \in Int
    BY <1>3, <1>10
  <2> QED BY <2>1
<1>13. ASSUME Times # {} PROVE d.ttd \in Times
  <2>1. \E m \in Times : \A k \in Times : m <= k
    <3> HIDE DEF Times
    <3> QED BY <1>12, <1>13, LeastNumber
  <2>2. d.ttd = CHOOSE t \in Times : \A u \in Times : t <= u
    BY <1>8, <1>13
  <2> HIDE DEF Times
  <2> QED BY <2>1, <2>2, Zenon
<1>14. d.ttd # NoTime <=> Times # {}
  BY <1>8, <1>12, <1>13, OracleAssumption
<1>15. d.verdict # "MISSED" => Near # {}
  BY <1>1, <1>5, <1>6, <1>7
<1>16. d.verdict = "BLOCKED" => \E e \in Near : e.blocked /\ e.source \in Blockers
  <2> SUFFICES ASSUME d.verdict = "BLOCKED" PROVE \E e \in Near : e.blocked /\ e.source \in Blockers
    OBVIOUS
  <2>1. PICK s \in Sources : CV(s) = "BLOCKED"
    BY <1>5
  <2>2. PICK e \in Q(s) : e.blocked
    BY <2>1, <1>7
  <2> HIDE DEF Near
  <2>3. e \in Near /\ e.source = s /\ s \in Blockers
    BY <1>1, <1>2, <1>7, <2>1
  <2> QED BY <2>2, <2>3
<1>17. d.verdict = "DETECTED" => \E e \in Near : e.alerted
  BY <1>1, <1>5, <1>7
<1> DEFINE Alerts == {e \in Near : e.alerted \/ e.blocked}
<1>18. d.ttd # NoTime => Covered(d.verdict) /\ \E e \in Alerts : e.time = d.ttd /\ d.ttd >= 0
  <2> SUFFICES ASSUME d.ttd # NoTime
               PROVE  Covered(d.verdict) /\ \E e \in Alerts : e.time = d.ttd /\ d.ttd >= 0
    OBVIOUS
  <2>1. PICK e \in Seen : /\ e.alerted \/ e.blocked
                          /\ e.time >= 0 /\ d.ttd = e.time - 0
    BY <1>13, <1>14
  <2>2. e \in Near /\ e.time \in Int
    BY <1>3, <1>10
  <2>3. Caught # {}
    BY <2>1
  <2> HIDE DEF Near, Seen, Caught
  <2> QED BY <2>1, <2>2, <2>3, <1>9
<1>19. Covered(d.verdict) /\ d.ttd = NoTime => \E e \in Alerts : e.time < 0
  <2> SUFFICES ASSUME Covered(d.verdict), Times = {} PROVE \E e \in Alerts : e.time < 0
    BY <1>14
  <2>1. PICK e \in Seen : e.alerted \/ e.blocked
    BY <1>11
  <2>2. e \in Near /\ e.time \in Int
    BY <1>3, <1>10
  <2>3. ~(e.time >= 0)
    <3> SUFFICES ASSUME e.time >= 0 PROVE FALSE
      OBVIOUS
    <3> e.time - 0 \in Times
      BY <2>1
    <3> QED OBVIOUS
  <2> HIDE DEF Near, Seen, Caught, Times
  <2> QED BY <2>1, <2>2, <2>3
<1>20. d.ttd \in Int \cup {NoTime}
  BY <1>12, <1>13, <1>14
<1> HIDE DEF Caught, Seen, Times
<1> QED BY <1>4, <1>15, <1>16, <1>17, <1>18, <1>19, <1>20 DEF Credited
-----------------------------------------------------------------------------
(* What the adapters make of an output, by the kind of tool.                *)

LEMMA ImageFinite ==
  ASSUME NEW S, IsFiniteSet(S), NEW f, DOMAIN f = S, NEW T, T = {f[x] : x \in S}
  PROVE  IsFiniteSet(T)
<1> DEFINE g == [x \in S |-> f[x]]
<1>1. g \in Surjection(S, T)
  BY DEF Surjection
<1> QED BY <1>1, FS_Surjection DEF ExistsSurjection

LEMMA GradesAreSeverities ==
  ASSUME NEW table, \A w \in DOMAIN table : table[w] \in Severities,
         NEW word, NEW default \in Severities
  PROVE  Grade(table, word, default) \in Severities
BY DEF Grade

LEMMA ParseScan ==
  ASSUME NEW t \in Scanners, NEW r, NEW out \in Outputs[t]
  PROVE  LET p == Parse(t, r, out)
         IN  /\ p.assets = {} /\ p.validations = {}
             /\ p.findings \in SUBSET [weakness : Weaknesses, severity : Severities]
             /\ out.timedOut => p.findings = {}
<1> DEFINE p == Parse(t, r, out)
           Graded == SUBSET [weakness : Weaknesses, severity : Severities]
           Fine(q) == q.assets = {} /\ q.validations = {} /\ q.findings \in Graded
<1>1. CASE out.timedOut
  BY <1>1 DEF Parse, Failed, Result
<1>2. Grades \in [{"critical", "high", "medium", "low"} -> Severities]
  BY DEF Grades, Severities
<1>3. \A x \in out.records : x.weakness \in Weaknesses
  BY OutputsAssumption
<1>4. \A fs \in Graded : Fine(WithFindings(fs))
  BY DEF WithFindings, Result
<1>5. \A word : \A d \in Severities : Grade(Grades, word, d) \in Severities
  BY <1>2, GradesAreSeverities
<1>6. \A word : \A d \in Severities : Grade(Ungraded, word, d) \in Severities
  BY DEF Grade, Ungraded
<1>7. \A forms : Read(out, forms) \subseteq out.records
  BY DEF Read
<1>8. 0 \in Severities /\ 1 \in Severities /\ 2 \in Severities /\ 3 \in Severities
  BY DEF Severities
<1>9. ASSUME NEW rs \in SUBSET out.records, NEW table, NEW d \in Severities,
             \A w \in DOMAIN table : table[w] \in Severities
      PROVE  Fine(Findings(rs, table, d))
  <2>1. {[weakness |-> x.weakness, severity |-> Grade(table, x.word, d)] : x \in rs} \in Graded
    BY <1>3, <1>9, GradesAreSeverities
  <2> HIDE DEF Fine, Graded
  <2> QED BY <2>1, <1>4 DEF Findings
<1>10. Fine(Nuclei(out))
  <2>1. {[weakness |-> x.weakness, severity |-> FromStr(x.word)] : x \in Read(out, {"lines"})} \in Graded
    BY <1>3, <1>5, <1>7, <1>8 DEF FromStr
  <2> HIDE DEF Fine, Graded
  <2> QED BY <2>1, <1>4 DEF Nuclei
<1>11. Fine(Prowler(out))
  <2> DEFINE failed == {x \in Read(out, {"document", "lines"}) : x.failed}
             found == {[weakness |-> x.weakness,
                        severity |-> IF x.word = "informational" THEN 0
                                     ELSE Grade(Grades, x.word, 2)] : x \in failed}
  <2>1. failed \subseteq out.records
    BY <1>7
  <2>2. found \in Graded
    <3> HIDE DEF failed
    <3>1. \A x \in failed : x.weakness \in Weaknesses
      BY <2>1, <1>3
    <3>2. \A x \in failed : (IF x.word = "informational" THEN 0 ELSE Grade(Grades, x.word, 2)) \in Severities
      BY <1>5, <1>8
    <3> QED BY <3>1, <3>2
  <2> HIDE DEF Fine, Graded
  <2> QED BY <2>2, <1>4 DEF Prowler
<1> DEFINE failing == {x \in Read(out, {"document"}) : x.failed}
<1>12. failing \in SUBSET out.records /\ \A forms : Read(out, forms) \in SUBSET out.records
  BY <1>7
<1>13. \A w \in DOMAIN Grades : Grades[w] \in Severities
  BY <1>2
<1>14. \A w \in DOMAIN Ungraded : Ungraded[w] \in Severities
  BY DEF Ungraded
<1>15. \A w \in DOMAIN [error |-> 3, warning |-> 2] : [error |-> 3, warning |-> 2][w] \in Severities
  BY <1>8
<1> HIDE DEF Fine, Graded, failing
<1>16. /\ Fine(Nikto(out)) /\ Fine(Trivy(out)) /\ Fine(Semgrep(out)) /\ Fine(Gitleaks(out))
       /\ Fine(Checkov(out))
  <2>1. Fine(Nikto(out))
    BY <1>8, <1>9, <1>12, <1>14 DEF Nikto
  <2>2. Fine(Trivy(out))
    BY <1>8, <1>9, <1>12, <1>13 DEF Trivy
  <2>3. Fine(Semgrep(out))
    BY <1>8, <1>9, <1>12, <1>15 DEF Semgrep
  <2>4. Fine(Gitleaks(out))
    BY <1>8, <1>9, <1>12, <1>14 DEF Gitleaks
  <2>5. Fine(Checkov(out))
    BY <1>8, <1>9, <1>12, <1>13 DEF Checkov, failing
  <2> QED BY <2>1, <2>2, <2>3, <2>4, <2>5
<1>17. Fine(ParseFinished(t, r, out))
  <2> SUFFICES ASSUME NEW q, q = ParseFinished(t, r, out) PROVE Fine(q)
    OBVIOUS
  <2>1. q \in {Nuclei(out), Nikto(out), Prowler(out), Trivy(out), Semgrep(out), Gitleaks(out), Checkov(out)}
    BY DEF ParseFinished, Scanners
  <2> QED BY <2>1, <1>10, <1>11, <1>16
<1>18. CASE ~out.timedOut
  BY <1>18, <1>17 DEF Parse, Fine, Graded
<1> QED BY <1>1, <1>18

LEMMA ParseRecon ==
  ASSUME NEW t \in ReconTools, NEW r \in Refs, NEW out \in Outputs[t]
  PROVE  LET p == Parse(t, r, out)
         IN  /\ p.findings = {} /\ p.validations = {}
             /\ IsFiniteSet(p.assets) /\ p.assets \subseteq Discoverable
             /\ out.timedOut => p.assets = {}
<1> DEFINE p == Parse(t, r, out)
           Fine(q) == q.findings = {} /\ q.validations = {} /\ IsFiniteSet(q.assets)
<1>1. t \in Tools /\ IsFiniteSet(out.records)
  BY ReportAssumption, OutputsAssumption
<1>2. p.assets \subseteq Discoverable
  BY DEF Discoverable
<1>3. CASE out.timedOut
  <2>1. p = Failed
    BY <1>3 DEF Parse
  <2>2. p.assets = {} /\ p.findings = {} /\ p.validations = {}
    BY <2>1 DEF Failed, Result
  <2> QED BY <2>2, <1>2, FS_EmptySet
<1>4. \A as : IsFiniteSet(as) => Fine(WithAssets(as))
  BY DEF WithAssets, Result
<1>5. \A rs \in SUBSET out.records : IsFiniteSet(rs)
  BY <1>1, FS_Subset
<1>6. \A forms : Read(out, forms) \in SUBSET out.records
  BY DEF Read
<1>7. Fine(Failed)
  BY FS_EmptySet DEF Failed, Result
<1>8. Fine(Nmap(out))
  <2> DEFINE open == {x \in out.records : x.port # None /\ x.open}
             hf == [x \in out.records |-> Asset("host", x.address, None, None, None, NoTech)]
             sf == [x \in open |-> Asset("service", x.address, x.port, "tcp", x.service, x.tech)]
             hosts == {Asset("host", x.address, None, None, None, NoTech) : x \in out.records}
             services == {Asset("service", x.address, x.port, "tcp", x.service, x.tech) : x \in open}
  <2>1. IsFiniteSet(hosts)
    <3>1. hosts = {hf[x] : x \in out.records} /\ DOMAIN hf = out.records
      OBVIOUS
    <3> HIDE DEF hosts, hf
    <3> QED BY <3>1, <1>1, ImageFinite
  <2>2. IsFiniteSet(services)
    <3>1. services = {sf[x] : x \in open} /\ DOMAIN sf = open /\ open \in SUBSET out.records
      OBVIOUS
    <3> HIDE DEF services, sf, open
    <3> QED BY <3>1, <1>5, ImageFinite
  <2>3. IsFiniteSet(hosts \cup services)
    <3> HIDE DEF hosts, services
    <3> QED BY <2>1, <2>2, FS_Union
  <2>4. Nmap(out) = IF out.form # "document" THEN Failed ELSE WithAssets(hosts \cup services)
    BY DEF Nmap
  <2> HIDE DEF hosts, services, Fine
  <2> QED BY <2>3, <2>4, <1>4, <1>7
<1>9. Fine(Httpx(out))
  <2> DEFINE rs == Read(out, {"lines"})
             f == [x \in rs |-> Asset("endpoint", x.address, x.port, x.service, x.service, x.tech)]
             as == {Asset("endpoint", x.address, x.port, x.service, x.service, x.tech) : x \in rs}
  <2>1. as = {f[x] : x \in rs} /\ DOMAIN f = rs /\ rs \in SUBSET out.records
    BY <1>6
  <2>2. IsFiniteSet(as)
    <3> HIDE DEF as, f, rs
    <3> QED BY <2>1, <1>5, ImageFinite
  <2>3. Httpx(out) = WithAssets(as)
    BY DEF Httpx
  <2> HIDE DEF as, Fine
  <2> QED BY <2>2, <2>3, <1>4
<1>10. Fine(Whatweb(out))
  <2> DEFINE rs == {s \in Read(out, {"document", "lines"}) : s.address # None}
             f == [x \in rs |-> Asset("endpoint", x.address, None, None, None, x.tech)]
             as == {Asset("endpoint", x.address, None, None, None, x.tech) : x \in rs}
  <2>1. as = {f[x] : x \in rs} /\ DOMAIN f = rs /\ rs \in SUBSET out.records
    BY <1>6
  <2>2. IsFiniteSet(as)
    <3> HIDE DEF as, f, rs
    <3> QED BY <2>1, <1>5, ImageFinite
  <2>3. Whatweb(out) = WithAssets(as)
    BY DEF Whatweb
  <2> HIDE DEF as, Fine
  <2> QED BY <2>2, <2>3, <1>4
<1>11. Fine(Gobuster(r, out))
  <2> DEFINE rs == Read(out, {"lines"})
             f == [x \in rs |-> Asset("endpoint", Under[r, x.address], None, None, None, x.tech)]
             as == {Asset("endpoint", Under[r, x.address], None, None, None, x.tech) : x \in rs}
  <2>1. as = {f[x] : x \in rs} /\ DOMAIN f = rs /\ rs \in SUBSET out.records
    BY <1>6
  <2>2. IsFiniteSet(as)
    <3> HIDE DEF as, f, rs
    <3> QED BY <2>1, <1>5, ImageFinite
  <2>3. Gobuster(r, out) = WithAssets(as)
    BY DEF Gobuster
  <2> HIDE DEF as, Fine
  <2> QED BY <2>2, <2>3, <1>4
<1>12. CASE ~out.timedOut
  <2> HIDE DEF Fine
  <2>1. p \in {Nmap(out), Httpx(out), Whatweb(out), Gobuster(r, out)}
    BY <1>12 DEF Parse, ParseFinished, ReconTools
  <2>2. Fine(p)
    <3> HIDE DEF p
    <3> QED BY <2>1, <1>8, <1>9, <1>10, <1>11
  <2> QED BY <2>2, <1>2, <1>12 DEF Fine
<1> QED BY <1>3, <1>12

LEMMA ParseValidate ==
  ASSUME NEW t \in Validators, NEW r, NEW out \in Outputs[t]
  PROVE  LET p == Parse(t, r, out)
         IN  /\ p.assets = {} /\ p.findings = {}
             /\ \A v \in p.validations :
                  v.result = "confirmed" => /\ v.tool = t /\ v.target = r
                                            /\ ~out.timedOut /\ out.records # {}
<1> DEFINE p == Parse(t, r, out)
<1>1. CASE out.timedOut
  <2>1. p = Failed
    BY <1>1 DEF Parse
  <2> QED BY <2>1 DEF Failed, Result
<1>2. CASE ~out.timedOut
  <2>1. PICK proofs \in SUBSET out.records : p = Validated(t, r, proofs)
    <3>1. p \in {Dalfox(r, out), Sqlmap(r, out)}
      BY <1>2 DEF Parse, ParseFinished, Validators
    <3>2. (t = "dalfox" => p = Dalfox(r, out)) /\ (t = "sqlmap" => p = Sqlmap(r, out))
      BY <1>2 DEF Parse, ParseFinished
    <3>3. Read(out, {"document", "lines"}) \in SUBSET out.records
      BY DEF Read
    <3> QED BY <3>2, <3>3 DEF Validators, Dalfox, Sqlmap
  <2>2. /\ p.assets = {} /\ p.findings = {}
        /\ p.validations = {[tool |-> t, target |-> r,
                             result |-> IF proofs = {} THEN "inconclusive" ELSE "confirmed"]}
    BY <2>1 DEF Validated, Result
  <2> SUFFICES ASSUME NEW q, q = p
               PROVE  /\ q.assets = {} /\ q.findings = {}
                      /\ \A v \in q.validations :
                           v.result = "confirmed" => /\ v.tool = t /\ v.target = r
                                                     /\ ~out.timedOut /\ out.records # {}
    OBVIOUS
  <2>3. \A v \in q.validations : v = [tool |-> t, target |-> r,
                                     result |-> IF proofs = {} THEN "inconclusive" ELSE "confirmed"]
    BY <2>2
  <2> QED BY <2>2, <2>3, <1>2
<1> QED BY <1>1, <1>2
-----------------------------------------------------------------------------
(* What a call's assets make of an inventory.                              *)

Chosen(s) == CHOOSE x \in s : TRUE

Adding(f, inv, S) ==
  /\ f[{}] = inv /\ f[S] = AddAssets(inv, S)
  /\ \A s \in SUBSET S : s # {} =>
       f[s] = AddAsset(f[s \ {Chosen(s)}], MergeKey(Chosen(s)), Facts(Chosen(s)))

LEMMA AddAssetsFolds ==
  ASSUME NEW inv, NEW S, IsFiniteSet(S)
  PROVE  \E f : Adding(f, inv, S)
<1> DEFINE Turn(g, s) == IF s = {} THEN inv
                         ELSE AddAsset(g[s \ {Chosen(s)}], MergeKey(Chosen(s)), Facts(Chosen(s)))
           Sol(g) == g = [s \in SUBSET S |-> Turn(g, s)]
           D(n) == {s \in SUBSET S : Cardinality(s) <= n}
           Part(g, n) == g = [s \in D(n) |-> Turn(g, s)]
           Lacking == {n \in Nat : ~\E g : Part(g, n)}
<1>1. AddAssets(inv, S) = (CHOOSE g : Sol(g))[S]
  BY Zenon DEF AddAssets, FoldSet, MapThenFoldSet, Chosen
<1>2. \A s \in SUBSET S : IsFiniteSet(s) /\ Cardinality(s) \in Nat
  BY FS_Subset, FS_CardinalityType
<1>3. \A s \in SUBSET S : s # {} =>
        s \ {Chosen(s)} \in SUBSET S /\ Cardinality(s \ {Chosen(s)}) = Cardinality(s) - 1
  <2> SUFFICES ASSUME NEW s \in SUBSET S, s # {}
               PROVE  s \ {Chosen(s)} \in SUBSET S
                      /\ Cardinality(s \ {Chosen(s)}) = Cardinality(s) - 1
    OBVIOUS
  <2>1. Chosen(s) \in s
    BY DEF Chosen
  <2> QED BY <2>1, <1>2, FS_RemoveElement
<1>4. \E g : Part(g, 0)
  <2>1. \A s \in D(0) : s = {}
    BY <1>2, FS_EmptySet
  <2> DEFINE g == [s \in D(0) |-> inv]
  <2>2. Part(g, 0)
    BY <2>1
  <2> QED BY <2>2
<1>5. ASSUME NEW n \in Nat, NEW g, Part(g, n) PROVE \E h : Part(h, n + 1)
  <2> DEFINE h == [s \in D(n + 1) |-> Turn(g, s)]
  <2>1. \A s \in D(n) : h[s] = g[s]
    <3>1. \A s \in D(n) : s \in D(n + 1)
      BY <1>2
    <3>2. \A s \in D(n) : g[s] = Turn(g, s)
      <4> HIDE DEF Turn, D
      <4> QED BY <1>5
    <3>3. \A s \in D(n + 1) : h[s] = Turn(g, s)
      <4> HIDE DEF Turn, D
      <4> QED OBVIOUS
    <3> HIDE DEF Turn, D, h
    <3> QED BY <3>1, <3>2, <3>3
  <2>2. \A s \in D(n + 1) : s # {} => s \ {Chosen(s)} \in D(n)
    BY <1>2, <1>3
  <2>3. \A s \in D(n + 1) : Turn(h, s) = Turn(g, s)
    <3> HIDE DEF h, D
    <3> QED BY <2>1, <2>2
  <2>4. h = [s \in D(n + 1) |-> Turn(h, s)]
    <3> HIDE DEF Turn, D
    <3> QED BY <2>3
  <2> QED BY <2>4
<1>6. Lacking = {}
  <2> SUFFICES ASSUME Lacking # {} PROVE FALSE
    OBVIOUS
  <2>1. PICK m \in Lacking : \A k \in Lacking : m <= k
    <3> Lacking \in SUBSET Nat
      OBVIOUS
    <3> HIDE DEF Lacking
    <3> QED BY LeastNumber
  <2> HIDE DEF Part
  <2>2. m # 0
    BY <1>4
  <2>3. m - 1 \in Nat /\ m - 1 \notin Lacking
    <3> m \in Nat /\ m # 0
      BY <2>2
    <3> HIDE DEF Lacking
    <3> QED BY <2>1
  <2>4. PICK g : Part(g, m - 1)
    BY <2>3
  <2>5. \E h : Part(h, (m - 1) + 1)
    BY <2>3, <2>4, <1>5
  <2>6. (m - 1) + 1 = m
    OBVIOUS
  <2> QED BY <2>5, <2>6
<1>7. \E g : Sol(g)
  <2>1. Cardinality(S) \in Nat
    BY <1>2
  <2>2. PICK g : Part(g, Cardinality(S))
    <3> HIDE DEF Part
    <3> QED BY <2>1, <1>6
  <2>3. D(Cardinality(S)) = SUBSET S
    BY FS_Subset
  <2> HIDE DEF D, Turn
  <2> QED BY <2>2, <2>3
<1> DEFINE f == CHOOSE g : Sol(g)
<1>8. Sol(f)
  <2> HIDE DEF Sol
  <2> QED BY <1>7, Zenon
<1>9. f[S] = AddAssets(inv, S)
  BY <1>1
<1> HIDE DEF f
<1>10. \A s \in SUBSET S : f[s] = Turn(f, s)
  <2> HIDE DEF Turn
  <2> QED BY <1>8
<1>11. /\ f[{}] = inv
       /\ \A s \in SUBSET S : s # {} =>
            f[s] = AddAsset(f[s \ {Chosen(s)}], MergeKey(Chosen(s)), Facts(Chosen(s)))
  BY <1>10, Zenon
<1>12. Adding(f, inv, S)
  BY <1>9, <1>11 DEF Adding
<1> QED BY <1>12
-----------------------------------------------------------------------------
(* Types: what the variables hold, which the other invariants build on.     *)

ToolsOf(n) ==
  CASE n = "recon" -> ReconTools [] n = "scan" -> Scanners [] n = "validate" -> Validators
    [] OTHER -> {}
Invocations(n) == [tool : ToolsOf(n), target : Refs]
Observation ==
  [action : {"recon", "scan", "validate"}, technique : {"T1046", "T1595", "xss"}, ref : Refs]
Detection ==
  [action : {"recon", "scan", "validate"}, technique : {"T1046", "T1595", "xss"}, ref : Refs,
   verdict : Verdicts, ttd : Int \cup {NoTime}]
Entry ==
  UNION {[call : [tool : {t}, target : Refs], out : Outputs[t]] :
           t \in ReconTools \cup Scanners \cup Validators}
InventoryOK(inv) ==
  /\ inv = [k \in DOMAIN inv |-> inv[k]] /\ IsFiniteSet(DOMAIN inv)
  /\ \A k \in DOMAIN inv : k.type = "endpoint" => k.address \in Refs
LedgerOK(lg) == DOMAIN lg \subseteq Weaknesses /\ lg \in [DOMAIN lg -> Rows]

TypeOK ==
  /\ setup \in Setups /\ resumed \in Nat /\ clock \in Nat
  /\ node \in {"planner", "recon", "scan", "correlate", "validate", "approval_gate", "report"}
  /\ at \in {"left", "works", "observes"}
  /\ calls \in Seq(Invocations(node))
  /\ InventoryOK(flow.inventory) /\ LedgerOK(flow.ledger) /\ flow.allowed \in Nat
  /\ spent \in Nat
  /\ todo \in Seq(Observation)
  /\ at = "observes" => todo # <<>> /\ node \in {"recon", "scan", "validate"}
  /\ InventoryOK(inventory) /\ LedgerOK(ledger)
  /\ detections \in Seq(Detection)
  /\ status \in [DOMAIN status -> Verdicts]
  /\ telemetry \subseteq Events
  /\ wrote \in Seq(Entry)

LEMMA FunctionIsSeq ==
  ASSUME NEW S, NEW n \in Nat, NEW f \in [1 .. n -> S]
  PROVE  f \in Seq(S)
BY SeqDef, Zenon

LEMMA CallsTyped ==
  ASSUME NEW T, NEW plan \in Seq(T), NEW targets \in Seq(Refs)
  PROVE  Calls(plan, targets) \in Seq([tool : T, target : Refs])
<1> DEFINE a == Len(plan)
           b == Len(targets)
<1>1. a \in Nat /\ b \in Nat /\ a * b \in Nat
  OBVIOUS
<1>2. ASSUME NEW n \in 1 .. (a * b)
      PROVE  ((n - 1) \div b) + 1 \in 1 .. a /\ ((n - 1) % b) + 1 \in 1 .. b
  <2> HIDE DEF a, b
  <2>1. b > 0
    BY <1>1
  <2> QED BY <1>1, <2>1
<1>3. \A n \in 1 .. (a * b) : /\ plan[((n - 1) \div b) + 1] \in T
                              /\ targets[((n - 1) % b) + 1] \in Refs
  BY <1>2
<1>4. Calls(plan, targets) \in [1 .. (a * b) -> [tool : T, target : Refs]]
  BY <1>3 DEF Calls
<1> DEFINE many == a * b
<1>5. many \in Nat /\ Calls(plan, targets) \in [1 .. many -> [tool : T, target : Refs]]
  BY <1>1, <1>4
<1> HIDE DEF many
<1> QED BY <1>5, FunctionIsSeq

LEMMA EndpointsTyped ==
  ASSUME InventoryOK(inventory)
  PROVE  Endpoints \in Seq(Refs)
<1> DEFINE S == OfType(inventory, "endpoint")
           keys == SetToSeq(S)
<1>1. IsFiniteSet(S) /\ \A k \in S : k.address \in Refs
  BY FS_Subset DEF InventoryOK, OfType
<1>2. Cardinality(S) \in Nat /\ \E g \in [1 .. Cardinality(S) -> S] : IsInjective(g)
  <2> HIDE DEF S
  <2>1. Cardinality(S) \in Nat /\ ExistsBijection(1 .. Cardinality(S), S)
    BY <1>1, FS_CardinalityType
  <2>2. PICK g \in Bijection(1 .. Cardinality(S), S) : TRUE
    BY <2>1 DEF ExistsBijection
  <2>3. g \in [1 .. Cardinality(S) -> S] /\ IsInjective(g)
    BY <2>2 DEF Bijection, Injection, IsInjective
  <2> QED BY <2>1, <2>3
<1>3. keys \in [1 .. Cardinality(S) -> S]
  <2> HIDE DEF S
  <2> QED BY <1>2, Zenon DEF SetToSeq
<1>4. Endpoints = [i \in DOMAIN keys |-> keys[i].address]
  BY DEF Endpoints
<1> HIDE DEF S, keys
<1>5. Endpoints \in [1 .. Cardinality(S) -> Refs]
  BY <1>1, <1>3, <1>4
<1> QED BY <1>2, <1>5

LEMMA HottestExists ==
  ASSUME LedgerOK(ledger), Hot # {}
  PROVE  Hottest \in Hot
<1>1. \A w \in Hot : ledger[w].severity \in 0 .. 4 /\ w \in Weaknesses /\ w \in DOMAIN ledger
  BY DEF LedgerOK, Rows, Hot, Severities
<1> DEFINE levels == {ledger[w].severity : w \in Hot}
<1>2. Max(levels) \in levels /\ \A l \in levels : l <= Max(levels)
  <2>1. levels \in SUBSET (0 .. 4) /\ levels # {}
    BY <1>1
  <2> HIDE DEF levels
  <2> QED BY <2>1, GreatestNumber
<1> DEFINE worst == {w \in Hot : ledger[w].severity = Max(levels)}
           spots == {Place(w) : w \in worst}
<1>3. \A w \in Hot : Place(w) \in Nat
  <2> SUFFICES ASSUME NEW w \in Hot PROVE Place(w) \in Nat
    OBVIOUS
  <2>1. \E i \in DOMAIN RefOrder : RefOrder[i] = RefOf[w]
    BY <1>1, ReportAssumption
  <2>2. Place(w) \in DOMAIN RefOrder
    BY <2>1, Zenon DEF Place
  <2> QED BY <2>2, ReportAssumption
<1>4. PICK m \in spots : \A k \in spots : m <= k
  <2>1. spots \in SUBSET Nat
    BY <1>3
  <2>2. spots # {}
    BY <1>2
  <2> HIDE DEF spots
  <2> QED BY <2>1, <2>2, LeastNumber
<1>5. PICK w \in worst : m = Place(w)
  BY <1>4
<1>6. ASSUME NEW v \in Hot
      PROVE  \/ ledger[v].severity < ledger[w].severity
             \/ ledger[v].severity = ledger[w].severity /\ Place(w) <= Place(v)
  <2>1. ledger[v].severity \in Int /\ ledger[w].severity = Max(levels) /\ Max(levels) \in Int
    BY <1>1, <1>5
  <2>2. ledger[v].severity <= Max(levels)
    <3> ledger[v].severity \in levels
      OBVIOUS
    <3> HIDE DEF levels
    <3> QED BY <1>2
  <2>3. CASE ledger[v].severity = Max(levels)
    <3> Place(v) \in spots
      BY <2>3
    <3> HIDE DEF spots, levels
    <3> QED BY <1>4, <1>5, <2>1, <2>3
  <2> HIDE DEF levels
  <2> QED BY <2>1, <2>2, <2>3
<1>7. w \in Hot
  OBVIOUS
<1> HIDE DEF worst, levels, spots
<1> QED BY <1>6, <1>7, Zenon DEF Hottest

LEMMA PlacesFinite ==
  ASSUME NEW N \in Nat, NEW S \in SUBSET (1 .. N)
  PROVE  IsFiniteSet(S) /\ Cardinality(S) \in Nat
<1>1. IsFiniteSet(1 .. N)
  BY FS_Interval
<1> QED BY <1>1, FS_Subset, FS_CardinalityType

\* Of the numbers in S one is the n-th.
LEMMA PlacesCounted ==
  ASSUME NEW N \in Nat, NEW S \in SUBSET (1 .. N), NEW n \in 1 .. Cardinality(S)
  PROVE  \E i \in S : Cardinality(S \cap (1 .. i)) = n
<1> DEFINE C(i) == Cardinality(S \cap (1 .. i))
           enough == {i \in 0 .. N : C(i) >= n}
<1>1. IsFiniteSet(S) /\ Cardinality(S) \in Nat
  BY PlacesFinite
<1>2. \A i : IsFiniteSet(S \cap (1 .. i)) /\ C(i) \in Nat
  BY <1>1, FS_Subset, FS_CardinalityType
<1>3. S \cap (1 .. N) = S
  OBVIOUS
<1>4. PICK i \in enough : \A k \in enough : i <= k
  <2>1. N \in enough
    BY <1>1, <1>3
  <2>2. enough \in SUBSET Nat
    OBVIOUS
  <2> HIDE DEF enough
  <2> QED BY <2>1, <2>2, LeastNumber
<1>5. i # 0
  <2>1. S \cap (1 .. 0) = {}
    OBVIOUS
  <2>2. C(0) = 0
    BY <2>1, FS_EmptySet
  <2> SUFFICES ASSUME i = 0 PROVE FALSE
    OBVIOUS
  <2> QED BY <1>4, <2>2
<1>6. i \in 1 .. N /\ i - 1 \in 0 .. N
  BY <1>5
<1>7. ~(C(i - 1) >= n)
  <2> SUFFICES ASSUME C(i - 1) >= n PROVE FALSE
    OBVIOUS
  <2>1. i - 1 \in enough
    BY <1>6
  <2>2. i <= i - 1
    <3> HIDE DEF enough
    <3> QED BY <1>4, <2>1
  <2> QED BY <2>2, <1>6
<1>8. S \cap (1 .. i) = IF i \in S THEN (S \cap (1 .. (i - 1))) \cup {i} ELSE S \cap (1 .. (i - 1))
  <2>1. 1 .. i = (1 .. (i - 1)) \cup {i}
    BY <1>6
  <2> QED BY <2>1
<1>9. i \in S
  <2> SUFFICES ASSUME i \notin S PROVE FALSE
    OBVIOUS
  <2>1. C(i) = C(i - 1)
    BY <1>8
  <2> QED BY <2>1, <1>4, <1>7
<1>10. C(i) = C(i - 1) + 1
  <2>1. i \notin S \cap (1 .. (i - 1))
    BY <1>6
  <2>2. IsFiniteSet(S \cap (1 .. (i - 1)))
    BY <1>2
  <2>3. S \cap (1 .. i) = (S \cap (1 .. (i - 1))) \cup {i}
    BY <1>8, <1>9
  <2> QED BY <2>1, <2>2, <2>3, FS_AddElement
<1>11. C(i) >= n
  BY <1>4
<1>12. C(i) = n
  <2>1. C(i) \in Nat /\ C(i - 1) \in Nat /\ n \in Nat
    BY <1>1, <1>2
  <2> HIDE DEF C
  <2> QED BY <2>1, <1>7, <1>10, <1>11
<1> QED BY <1>9, <1>12

LEMMA FindingRefsTyped ==
  ASSUME NEW lg
  PROVE  FindingRefs(lg) \in Seq(Refs)
<1> DEFINE places == {i \in DOMAIN RefOrder : \E w \in DOMAIN lg : RefOf[w] = RefOrder[i]}
           at0(n) == CHOOSE i \in places : Cardinality(places \cap (1 .. i)) = n
<1>1. /\ places \in SUBSET (1 .. Len(RefOrder)) /\ Len(RefOrder) \in Nat
      /\ \A i \in places : RefOrder[i] \in Refs
  BY ReportAssumption
<1>2. Cardinality(places) \in Nat
  <2> HIDE DEF places
  <2> QED BY <1>1, PlacesFinite
<1>3. \A n \in 1 .. Cardinality(places) : at0(n) \in places
  <2> SUFFICES ASSUME NEW n \in 1 .. Cardinality(places) PROVE at0(n) \in places
    OBVIOUS
  <2> HIDE DEF places
  <2>1. \E i \in places : Cardinality(places \cap (1 .. i)) = n
    BY <1>1, PlacesCounted
  <2> QED BY <2>1, Zenon
<1>4. FindingRefs(lg) = [n \in 1 .. Cardinality(places) |-> RefOrder[at0(n)]]
  BY DEF FindingRefs
<1> HIDE DEF places, at0
<1>5. FindingRefs(lg) \in [1 .. Cardinality(places) -> Refs]
  BY <1>1, <1>3, <1>4
<1> QED BY <1>2, <1>5, FunctionIsSeq
-----------------------------------------------------------------------------
(* What is told of an asset, as a set of [turn, asset], and what an          *)
(* inventory makes of it.                                                    *)

Tellings == [turn : Nat, asset : Discoverable]
At(K, k) == {t \in K : MergeKey(t.asset) = k}
Before(K, L) == \A t \in K, u \in L : t.turn <= u.turn

FactsTell(f, T) ==
  LET named == {t \in T : t.asset.service # None}
  IN  /\ f.service = None <=> named = {}
      /\ named # {} => \E t \in named : /\ f.service = t.asset.service
                                        /\ \A u \in named : t.turn <= u.turn
      /\ \A t \in T : \A n \in DOMAIN t.asset.tech :
           /\ n \in DOMAIN f.tech
           /\ t.asset.tech[n].list => t.asset.tech[n].values \subseteq f.tech[n].values
      /\ \A n \in DOMAIN f.tech :
           \E a \in Discoverable : n \in DOMAIN a.tech /\ f.tech[n].list = a.tech[n].list

InventoryTells(inv, K) ==
  /\ DOMAIN inv = {MergeKey(t.asset) : t \in K}
  /\ \A k \in DOMAIN inv : FactsTell(inv[k], At(K, k))

LEMMA FactsMerge ==
  ASSUME NEW f, NEW g, NEW T \in SUBSET Tellings, NEW U \in SUBSET Tellings,
         FactsTell(f, T), FactsTell(g, U), Before(T, U)
  PROVE  FactsTell(MergeAsset(f, g), T \cup U)
<1> DEFINE m == MergeAsset(f, g)
           Named(X) == {t \in X : t.asset.service # None}
<1>1. m.service = Either(f.service, g.service) /\ m.tech = MergeTech(f.tech, g.tech)
  BY DEF MergeAsset
<1>2. Named(T \cup U) = Named(T) \cup Named(U)
  OBVIOUS
<1>3. /\ f.service = None <=> Named(T) = {}
      /\ Named(T) # {} => \E t \in Named(T) : /\ f.service = t.asset.service
                                              /\ \A u \in Named(T) : t.turn <= u.turn
      /\ g.service = None <=> Named(U) = {}
      /\ Named(U) # {} => \E t \in Named(U) : /\ g.service = t.asset.service
                                              /\ \A u \in Named(U) : t.turn <= u.turn
  BY Zenon DEF FactsTell
<1>4. Named(T) \subseteq T /\ Named(U) \subseteq U
  OBVIOUS
<1>5. /\ m.service = None <=> Named(T \cup U) = {}
      /\ Named(T \cup U) # {} => \E t \in Named(T \cup U) : /\ m.service = t.asset.service
                                                            /\ \A u \in Named(T \cup U) : t.turn <= u.turn
  <2> HIDE DEF Named, m
  <2>1. CASE f.service = None
    <3>1. m.service = g.service /\ Named(T \cup U) = Named(U)
      BY <2>1, <1>1, <1>2, <1>3 DEF Either
    <3> QED BY <3>1, <1>3
  <2>2. CASE f.service # None
    <3>1. m.service = f.service /\ m.service # None
      BY <2>2, <1>1 DEF Either
    <3>2. PICK t \in Named(T) : f.service = t.asset.service /\ \A u \in Named(T) : t.turn <= u.turn
      BY <2>2, <1>3
    <3>3. \A u \in Named(U) : t.turn <= u.turn
      BY <1>4 DEF Before
    <3> QED BY <3>1, <3>2, <3>3, <1>2
  <2> QED BY <2>1, <2>2
<1>6. DOMAIN m.tech = DOMAIN f.tech \cup DOMAIN g.tech
  BY <1>1 DEF MergeTech
<1>7. \A n \in DOMAIN f.tech :
        /\ \E a \in Discoverable : n \in DOMAIN a.tech /\ f.tech[n].list = a.tech[n].list
        /\ \A b \in Discoverable : n \in DOMAIN b.tech => f.tech[n].list = b.tech[n].list
  BY OutputsAssumption DEF FactsTell
<1>8. \A n \in DOMAIN g.tech :
        /\ \E a \in Discoverable : n \in DOMAIN a.tech /\ g.tech[n].list = a.tech[n].list
        /\ \A b \in Discoverable : n \in DOMAIN b.tech => g.tech[n].list = b.tech[n].list
  BY OutputsAssumption DEF FactsTell
<1>9. ASSUME NEW n \in DOMAIN m.tech
      PROVE  /\ \E a \in Discoverable : n \in DOMAIN a.tech /\ m.tech[n].list = a.tech[n].list
             /\ (\E a \in Discoverable : n \in DOMAIN a.tech /\ a.tech[n].list) =>
                  /\ n \in DOMAIN f.tech => f.tech[n].values \subseteq m.tech[n].values
                  /\ n \in DOMAIN g.tech => g.tech[n].values \subseteq m.tech[n].values
  <2>1. CASE n \notin DOMAIN f.tech
    <3>1. n \in DOMAIN g.tech /\ m.tech[n] = g.tech[n]
      BY <2>1, <1>1, <1>6, <1>9 DEF MergeTech
    <3> QED BY <3>1, <2>1, <1>8
  <2>2. CASE n \in DOMAIN f.tech /\ n \notin DOMAIN g.tech
    <3>1. m.tech[n] = f.tech[n]
      BY <2>2, <1>1, <1>6, <1>9 DEF MergeTech
    <3> QED BY <3>1, <2>2, <1>7
  <2>3. CASE n \in DOMAIN f.tech /\ n \in DOMAIN g.tech
    <3>1. m.tech[n] = MergeValue(f.tech[n], g.tech[n])
      BY <2>3, <1>1, <1>6, <1>9 DEF MergeTech
    <3>2. CASE f.tech[n].values = {}
      <4>1. m.tech[n] = g.tech[n]
        BY <3>1, <3>2 DEF MergeValue
      <4> QED BY <4>1, <3>2, <2>3, <1>8
    <3>3. CASE f.tech[n].values # {} /\ f.tech[n].list /\ g.tech[n].list
      <4>1. m.tech[n] = [list |-> TRUE, values |-> f.tech[n].values \cup g.tech[n].values]
        BY <3>1, <3>3 DEF MergeValue
      <4>2. m.tech[n].list = TRUE /\ m.tech[n].values = f.tech[n].values \cup g.tech[n].values
        BY <4>1
      <4>3. PICK a \in Discoverable : n \in DOMAIN a.tech /\ f.tech[n].list = a.tech[n].list
        BY <2>3, <1>7
      <4>4. a.tech[n].list = TRUE
        BY <4>3, <3>3, OutputsAssumption
      <4> QED BY <4>2, <4>3, <4>4
    <3>4. CASE f.tech[n].values # {} /\ ~(f.tech[n].list /\ g.tech[n].list)
      <4>1. m.tech[n] = f.tech[n]
        BY <3>1, <3>4 DEF MergeValue
      <4>2. ~\E a \in Discoverable : n \in DOMAIN a.tech /\ a.tech[n].list
        BY <3>4, <2>3, <1>7, <1>8
      <4> QED BY <4>1, <4>2, <2>3, <1>7
    <3> QED BY <3>2, <3>3, <3>4
  <2> QED BY <2>1, <2>2, <2>3
<1>10. ASSUME NEW t \in T \cup U, NEW n \in DOMAIN t.asset.tech
       PROVE  /\ n \in DOMAIN m.tech
              /\ t.asset.tech[n].list => t.asset.tech[n].values \subseteq m.tech[n].values
  <2>1. t.asset \in Discoverable
    BY DEF Tellings
  <2>2. CASE t \in T
    <3>1. n \in DOMAIN f.tech /\ (t.asset.tech[n].list => t.asset.tech[n].values \subseteq f.tech[n].values)
      BY <2>2 DEF FactsTell
    <3> QED BY <3>1, <2>1, <1>6, <1>9
  <2>3. CASE t \in U
    <3>1. n \in DOMAIN g.tech /\ (t.asset.tech[n].list => t.asset.tech[n].values \subseteq g.tech[n].values)
      BY <2>3 DEF FactsTell
    <3> QED BY <3>1, <2>1, <1>6, <1>9
  <2> QED BY <2>2, <2>3
<1> HIDE DEF m
<1> QED BY <1>5, <1>9, <1>10 DEF FactsTell, m

LEMMA InventoriesMerge ==
  ASSUME NEW inv, NEW oth, NEW K \in SUBSET Tellings, NEW L \in SUBSET Tellings,
         InventoryTells(inv, K), InventoryTells(oth, L), Before(K, L)
  PROVE  InventoryTells(AddInventory(inv, oth), K \cup L)
<1> DEFINE sum == AddInventory(inv, oth)
<1>1. DOMAIN sum = DOMAIN inv \cup DOMAIN oth
  BY DEF AddInventory
<1>2. DOMAIN sum = {MergeKey(t.asset) : t \in K \cup L}
  BY <1>1 DEF InventoryTells
<1>3. ASSUME NEW k \in DOMAIN sum PROVE FactsTell(sum[k], At(K \cup L, k))
  <2>1. At(K \cup L, k) = At(K, k) \cup At(L, k)
    BY DEF At
  <2>2. CASE k \notin DOMAIN oth
    <3>1. k \in DOMAIN inv /\ sum[k] = inv[k]
      BY <2>2, <1>1, <1>3 DEF AddInventory
    <3>2. At(L, k) = {}
      BY <2>2 DEF InventoryTells, At
    <3> QED BY <3>1, <3>2, <2>1 DEF InventoryTells
  <2>3. CASE k \notin DOMAIN inv
    <3>1. k \in DOMAIN oth /\ sum[k] = oth[k]
      BY <2>3, <1>1, <1>3 DEF AddInventory
    <3>2. At(K, k) = {}
      BY <2>3 DEF InventoryTells, At
    <3> QED BY <3>1, <3>2, <2>1 DEF InventoryTells
  <2>4. CASE k \in DOMAIN inv /\ k \in DOMAIN oth
    <3>1. sum[k] = MergeAsset(inv[k], oth[k])
      BY <2>4, <1>1, <1>3 DEF AddInventory
    <3>2. /\ FactsTell(inv[k], At(K, k)) /\ FactsTell(oth[k], At(L, k))
          /\ Before(At(K, k), At(L, k))
          /\ At(K, k) \in SUBSET Tellings /\ At(L, k) \in SUBSET Tellings
      BY <2>4 DEF InventoryTells, At, Before
    <3>3. FactsTell(MergeAsset(inv[k], oth[k]), At(K, k) \cup At(L, k))
      BY <3>2, FactsMerge
    <3> QED BY <3>1, <3>3, <2>1
  <2> QED BY <2>2, <2>3, <2>4
<1> HIDE DEF sum
<1>4. InventoryTells(sum, K \cup L)
  BY <1>2, <1>3 DEF InventoryTells
<1> QED BY <1>4 DEF sum

LEMMA InventoriesOK ==
  ASSUME NEW inv, NEW oth, InventoryOK(inv), InventoryOK(oth)
  PROVE  InventoryOK(AddInventory(inv, oth))
<1> DEFINE sum == AddInventory(inv, oth)
<1>1. DOMAIN sum = DOMAIN inv \cup DOMAIN oth /\ sum = [k \in DOMAIN sum |-> sum[k]]
  BY DEF AddInventory
<1>2. IsFiniteSet(DOMAIN sum)
  <2>1. IsFiniteSet(DOMAIN inv) /\ IsFiniteSet(DOMAIN oth)
    BY DEF InventoryOK
  <2> HIDE DEF sum
  <2> QED BY <2>1, <1>1, FS_Union
<1> HIDE DEF sum
<1> QED BY <1>1, <1>2 DEF InventoryOK, sum

LEMMA AddAssetMerges ==
  ASSUME NEW inv, NEW key, NEW facts
  PROVE  AddAsset(inv, key, facts) = AddInventory(inv, [k \in {key} |-> facts])
<1> DEFINE one == [k \in {key} |-> facts]
<1>1. DOMAIN one = {key} /\ one[key] = facts
  OBVIOUS
<1>2. \A k \in DOMAIN inv \cup {key} :
        (IF k # key THEN inv[k] ELSE IF k \in DOMAIN inv THEN MergeAsset(inv[k], facts) ELSE facts)
        = (CASE k \notin DOMAIN one -> inv[k]
             [] k \notin DOMAIN inv -> one[k]
             [] OTHER -> MergeAsset(inv[k], one[k]))
  <2> HIDE DEF one
  <2> QED BY <1>1
<1> HIDE DEF one
<1>3. AddAsset(inv, key, facts) = AddInventory(inv, one)
  BY <1>1, <1>2 DEF AddAsset, AddInventory
<1> QED BY <1>3 DEF one

LEMMA OneAsset ==
  ASSUME NEW a \in Discoverable, NEW i \in Nat
  PROVE  LET one == [k \in {MergeKey(a)} |-> Facts(a)]
         IN  InventoryOK(one) /\ InventoryTells(one, {[turn |-> i, asset |-> a]})
<1> DEFINE one == [k \in {MergeKey(a)} |-> Facts(a)]
           it == [turn |-> i, asset |-> a]
<1>1. DOMAIN one = {MergeKey(a)} /\ one[MergeKey(a)] = Facts(a) /\ one = [k \in DOMAIN one |-> one[k]]
  OBVIOUS
<1>2. InventoryOK(one)
  <2>1. MergeKey(a).type = a.type /\ MergeKey(a).address = a.address
    BY DEF MergeKey
  <2> HIDE DEF one
  <2> QED BY ZenonT(40), <1>1, <2>1, FS_Singleton, OutputsAssumption DEF InventoryOK
<1>3. it.turn = i /\ it.asset = a /\ At({it}, MergeKey(a)) = {it}
  BY DEF At
<1>4. Facts(a).service = a.service /\ Facts(a).tech = a.tech
  BY DEF Facts
<1> HIDE DEF it
<1>5. FactsTell(Facts(a), {it})
  <2>1. /\ Facts(a).service = None <=> {x \in {it} : x.asset.service # None} = {}
        /\ {x \in {it} : x.asset.service # None} # {} =>
             \E t \in {x \in {it} : x.asset.service # None} :
               /\ Facts(a).service = t.asset.service
               /\ \A u \in {x \in {it} : x.asset.service # None} : t.turn <= u.turn
    BY <1>3, <1>4
  <2>2. /\ \A t \in {it} : \A n \in DOMAIN t.asset.tech :
             /\ n \in DOMAIN Facts(a).tech
             /\ t.asset.tech[n].list => t.asset.tech[n].values \subseteq Facts(a).tech[n].values
        /\ \A n \in DOMAIN Facts(a).tech :
             \E b \in Discoverable : n \in DOMAIN b.tech /\ Facts(a).tech[n].list = b.tech[n].list
    BY <1>3, <1>4
  <2> QED BY <2>1, <2>2 DEF FactsTell
<1>6. {MergeKey(t.asset) : t \in {it}} = {MergeKey(a)}
  BY <1>3
<1>7. InventoryTells(one, {it})
  <2> HIDE DEF one
  <2> QED BY <1>1, <1>3, <1>5, <1>6 DEF InventoryTells
<1> QED BY <1>2, <1>7 DEF it

LEMMA AddAssetsTells ==
  ASSUME NEW inv, NEW K \in SUBSET Tellings, NEW i \in Nat, NEW S \in SUBSET Discoverable,
         IsFiniteSet(S), InventoryOK(inv), InventoryTells(inv, K), \A t \in K : t.turn <= i
  PROVE  /\ InventoryOK(AddAssets(inv, S))
         /\ InventoryTells(AddAssets(inv, S), K \cup {[turn |-> i, asset |-> a] : a \in S})
<1>0. PICK f : Adding(f, inv, S)
  BY AddAssetsFolds
<1>1. /\ f[{}] = inv /\ f[S] = AddAssets(inv, S)
      /\ \A s \in SUBSET S : s # {} =>
           f[s] = AddAsset(f[s \ {Chosen(s)}], MergeKey(Chosen(s)), Facts(Chosen(s)))
  BY <1>0 DEF Adding
<1> DEFINE With(s) == K \cup {[turn |-> i, asset |-> a] : a \in s}
           Right(s) == InventoryOK(f[s]) /\ InventoryTells(f[s], With(s))
           Good == {s \in SUBSET S : Right(s)}
<1>2. {} \in Good
  <2>1. With({}) = K
    OBVIOUS
  <2> HIDE DEF With
  <2> QED BY <2>1, <1>1
<1>3. ASSUME NEW s \in SUBSET S, s # {}, s \ {Chosen(s)} \in Good PROVE s \in Good
  <2> DEFINE a == Chosen(s)
             one == [k \in {MergeKey(a)} |-> Facts(a)]
             it == [turn |-> i, asset |-> a]
             rest == s \ {a}
  <2>1. a \in s /\ a \in Discoverable
    BY <1>3 DEF Chosen
  <2>2. InventoryOK(one) /\ InventoryTells(one, {it})
    BY <2>1, OneAsset
  <2>3. f[s] = AddInventory(f[rest], one)
    BY <1>1, <1>3, AddAssetMerges
  <2>4. With(s) = With(rest) \cup {it}
    BY <2>1
  <2>5. /\ With(rest) \in SUBSET Tellings /\ {it} \in SUBSET Tellings /\ Before(With(rest), {it})
    BY <2>1 DEF Tellings, Before
  <2>6. InventoryOK(f[rest]) /\ InventoryTells(f[rest], With(rest))
    BY <1>3
  <2> HIDE DEF With, one, it, rest, a
  <2>7. InventoryOK(f[s])
    BY <2>2, <2>3, <2>6, InventoriesOK
  <2>8. InventoryTells(f[s], With(s))
    BY <2>2, <2>3, <2>4, <2>5, <2>6, InventoriesMerge
  <2> QED BY <2>7, <2>8
<1>4. S \in Good
  <2> HIDE DEF Good
  <2> QED BY <1>2, <1>3, FoldInduction DEF Chosen
<1> QED BY <1>1, <1>4
-----------------------------------------------------------------------------
(* What is told of a weakness, as a set of [turn, tool, about, severity],    *)
(* and what a ledger makes of it.                                            *)

Reports == [turn : Nat, tool : Tools, about : Weaknesses, severity : Severities]
Of(T, w) == {t \in T : t.about = w}
ToolsIn(T) == {t.tool : t \in T}

Scoring(T) == {t \in T : CvssOf[t.tool][t.about] # NoScore}

ScoreTells(cvss, T) ==
  /\ cvss = NoScore <=> Scoring(T) = {}
  /\ Scoring(T) # {} => \E t \in Scoring(T) : /\ cvss = CvssOf[t.tool][t.about]
                                              /\ \A u \in Scoring(T) : t.turn <= u.turn

RowTells(row, T) ==
  /\ \E t \in T : t.severity = row.severity
  /\ \A t \in T : t.severity <= row.severity
  /\ \E t \in T : t.tool = row.first /\ \A u \in T : t.turn <= u.turn
  /\ row.sources \subseteq ToolsIn(T)
  /\ row.cves = UNION {CvesOf[t.tool][t.about] : t \in T}
  /\ ScoreTells(row.cvss, T)

LedgerTells(lg, T) ==
  /\ DOMAIN lg = {t.about : t \in T}
  /\ \A w \in DOMAIN lg : RowTells(lg[w], Of(T, w))

AllSources(lg, T) == \A w \in DOMAIN lg : lg[w].sources = ToolsIn(Of(T, w))

LEMMA ScoresMerge ==
  ASSUME NEW T \in SUBSET Reports, NEW U \in SUBSET Reports, Before(T, U),
         NEW cvss, NEW other, ScoreTells(cvss, T), ScoreTells(other, U)
  PROVE  ScoreTells(IF cvss = NoScore THEN other ELSE cvss, T \cup U)
<1>1. Scoring(T \cup U) = Scoring(T) \cup Scoring(U) /\ Scoring(T) \subseteq T /\ Scoring(U) \subseteq U
  BY DEF Scoring
<1>2. CASE cvss = NoScore
  <2>1. Scoring(T \cup U) = Scoring(U)
    BY <1>1, <1>2 DEF ScoreTells
  <2> QED BY <2>1, <1>2 DEF ScoreTells
<1>3. CASE cvss # NoScore
  <2>1. PICK t \in Scoring(T) : cvss = CvssOf[t.tool][t.about] /\ \A u \in Scoring(T) : t.turn <= u.turn
    BY <1>3 DEF ScoreTells
  <2>2. \A u \in Scoring(U) : t.turn <= u.turn
    BY <1>1 DEF Before
  <2> QED BY <1>1, <1>3, <2>1, <2>2 DEF ScoreTells
<1> QED BY <1>2, <1>3

LEMMA RowsMerge ==
  ASSUME NEW row \in Rows, NEW other \in Rows, NEW T \in SUBSET Reports, NEW U \in SUBSET Reports,
         RowTells(row, T), RowTells(other, U), Before(T, U)
  PROVE  /\ MergeInto(row, other) \in Rows
         /\ RowTells(MergeInto(row, other), T \cup U)
<1> DEFINE m == MergeInto(row, other)
<1>1. /\ m.severity = IF other.severity > row.severity THEN other.severity ELSE row.severity
      /\ m.first = row.first /\ m.sources = row.sources \cup {other.first}
      /\ m.cves = row.cves \cup other.cves
      /\ m.cvss = IF row.cvss = NoScore THEN other.cvss ELSE row.cvss
      /\ m \in Rows
  BY DEF MergeInto, Rows
<1>2. \A t \in T \cup U : t.severity \in Int
  BY DEF Reports, Severities
<1>3. row.severity \in Int /\ other.severity \in Int
  BY DEF Rows, Severities
<1> HIDE DEF m
<1>4. \E t \in T \cup U : t.severity = m.severity
  BY <1>1 DEF RowTells
<1>5. \A t \in T \cup U : t.severity <= m.severity
  BY <1>1, <1>2, <1>3 DEF RowTells
<1>6. \E t \in T \cup U : t.tool = m.first /\ \A u \in T \cup U : t.turn <= u.turn
  <2>1. PICK t \in T : t.tool = row.first /\ \A u \in T : t.turn <= u.turn
    BY DEF RowTells
  <2> QED BY <2>1, <1>1 DEF Before
<1>7. m.sources \subseteq ToolsIn(T \cup U)
  BY <1>1 DEF RowTells, ToolsIn
<1>8. ScoreTells(m.cvss, T \cup U)
  BY <1>1, ScoresMerge DEF RowTells
<1>9. m.cves = UNION {CvesOf[t.tool][t.about] : t \in T \cup U}
  BY <1>1 DEF RowTells
<1>10. RowTells(m, T \cup U)
  BY <1>4, <1>5, <1>6, <1>7, <1>8, <1>9 DEF RowTells
<1> QED BY <1>1, <1>10 DEF m

LEMMA LedgersMerge ==
  ASSUME NEW lg, NEW rows, NEW T \in SUBSET Reports, NEW U \in SUBSET Reports,
         LedgerOK(lg), LedgerOK(rows), LedgerTells(lg, T), LedgerTells(rows, U), Before(T, U)
  PROVE  /\ LedgerOK(AddRows(lg, rows))
         /\ LedgerTells(AddRows(lg, rows), T \cup U)
<1> DEFINE sum == AddRows(lg, rows)
<1>1. DOMAIN sum = DOMAIN lg \cup DOMAIN rows /\ sum = [w \in DOMAIN sum |-> sum[w]]
  BY DEF AddRows
<1>2. DOMAIN sum = {t.about : t \in T \cup U}
  BY <1>1 DEF LedgerTells
<1>3. ASSUME NEW w \in DOMAIN sum PROVE sum[w] \in Rows /\ RowTells(sum[w], Of(T \cup U, w))
  <2>1. Of(T \cup U, w) = Of(T, w) \cup Of(U, w)
    BY DEF Of
  <2>2. CASE w \notin DOMAIN rows
    <3>1. w \in DOMAIN lg /\ sum[w] = lg[w]
      BY <2>2, <1>1, <1>3 DEF AddRows
    <3>2. Of(U, w) = {}
      BY <2>2 DEF LedgerTells, Of
    <3> QED BY <3>1, <3>2, <2>1 DEF LedgerTells, LedgerOK
  <2>3. CASE w \in DOMAIN rows /\ w \notin DOMAIN lg
    <3>1. sum[w] = rows[w]
      BY <2>3, <1>1, <1>3 DEF AddRows
    <3>2. Of(T, w) = {}
      BY <2>3 DEF LedgerTells, Of
    <3> QED BY <3>1, <3>2, <2>1, <2>3 DEF LedgerTells, LedgerOK
  <2>4. CASE w \in DOMAIN rows /\ w \in DOMAIN lg
    <3>1. sum[w] = MergeInto(lg[w], rows[w])
      BY <2>4, <1>1, <1>3 DEF AddRows
    <3>2. /\ RowTells(lg[w], Of(T, w)) /\ RowTells(rows[w], Of(U, w)) /\ Before(Of(T, w), Of(U, w))
          /\ Of(T, w) \in SUBSET Reports /\ Of(U, w) \in SUBSET Reports
          /\ lg[w] \in Rows /\ rows[w] \in Rows
      BY <2>4 DEF LedgerTells, LedgerOK, Of, Before
    <3> QED BY <3>1, <3>2, <2>1, RowsMerge
  <2> QED BY <2>2, <2>3, <2>4
<1>4. DOMAIN sum \subseteq Weaknesses
  BY <1>1 DEF LedgerOK
<1> HIDE DEF sum
<1>5. LedgerOK(sum) /\ LedgerTells(sum, T \cup U)
  BY <1>1, <1>2, <1>3, <1>4 DEF LedgerOK, LedgerTells
<1> QED BY <1>5 DEF sum

LEMMA RowsOfTells ==
  ASSUME NEW tool \in Tools, NEW found \in SUBSET [weakness : Weaknesses, severity : Severities],
         NEW i \in Nat
  PROVE  LET U == {[turn |-> i, tool |-> tool, about |-> f.weakness, severity |-> f.severity] : f \in found}
         IN  /\ U \in SUBSET Reports
             /\ LedgerOK(RowsOf(tool, found)) /\ LedgerTells(RowsOf(tool, found), U)
             /\ AllSources(RowsOf(tool, found), U)
<1> DEFINE U == {[turn |-> i, tool |-> tool, about |-> f.weakness, severity |-> f.severity] : f \in found}
           rows == RowsOf(tool, found)
           levels(w) == {f.severity : f \in {g \in found : g.weakness = w}}
<1>1. U \in SUBSET Reports
  BY DEF Reports
<1>2. DOMAIN rows = {f.weakness : f \in found} /\ rows = [w \in DOMAIN rows |-> rows[w]]
  BY DEF RowsOf
<1>3. DOMAIN rows = {t.about : t \in U} /\ DOMAIN rows \subseteq Weaknesses
  <2>1. {t.about : t \in U} = {f.weakness : f \in found}
    <3>1. \A f \in found : \E t \in U : t.about = f.weakness
      <4> TAKE f \in found
      <4> DEFINE t == [turn |-> i, tool |-> tool, about |-> f.weakness, severity |-> f.severity]
      <4>1. t \in U /\ t.about = f.weakness
        OBVIOUS
      <4> HIDE DEF t, U
      <4> QED BY <4>1
    <3>2. \A t \in U : \E f \in found : t.about = f.weakness
      OBVIOUS
    <3> HIDE DEF U
    <3> QED BY <3>1, <3>2
  <2>2. \A f \in found : f.weakness \in Weaknesses
    OBVIOUS
  <2> HIDE DEF U, rows
  <2> QED BY <2>1, <2>2, <1>2
<1>4. ASSUME NEW w \in DOMAIN rows
      PROVE  /\ rows[w] \in Rows /\ RowTells(rows[w], Of(U, w))
             /\ rows[w].sources = ToolsIn(Of(U, w))
  <2>1. rows[w] = NewRow(tool, w, Max(levels(w)))
    BY <1>2, <1>4 DEF RowsOf
  <2>2. levels(w) \in SUBSET (0 .. 4) /\ levels(w) # {}
    BY <1>2, <1>4 DEF Severities
  <2>3. Max(levels(w)) \in levels(w) /\ \A l \in levels(w) : l <= Max(levels(w))
    <3> HIDE DEF levels
    <3> QED BY <2>2, GreatestNumber
  <2>4. \A t \in Of(U, w) : /\ t.turn = i /\ t.tool = tool /\ t.about = w
                            /\ t.severity \in levels(w)
    BY DEF Of
  <2>5. \A l \in levels(w) : \E t \in Of(U, w) : t.severity = l
    <3> SUFFICES ASSUME NEW f \in found, f.weakness = w
                 PROVE  \E t \in Of(U, w) : t.severity = f.severity
      OBVIOUS
    <3> DEFINE t == [turn |-> i, tool |-> tool, about |-> f.weakness, severity |-> f.severity]
    <3>1. t \in U /\ t.about = w /\ t.severity = f.severity
      OBVIOUS
    <3> HIDE DEF t, U
    <3> QED BY <3>1 DEF Of
  <2> HIDE DEF levels, U, rows
  <2>6. /\ rows[w].severity = Max(levels(w)) /\ rows[w].first = tool /\ rows[w].sources = {tool}
        /\ rows[w].cvss = CvssOf[tool][w] /\ rows[w].cves = CvesOf[tool][w]
        /\ rows[w] \in Rows
    BY <1>3, <1>4, <2>1, <2>2, <2>3, LedgerAssumption DEF NewRow, Rows, Severities
  <2>7. ToolsIn(Of(U, w)) = {tool}
    BY <2>2, <2>4, <2>5 DEF ToolsIn
  <2>8. \E t \in Of(U, w) : t.severity = rows[w].severity
    BY <2>3, <2>5, <2>6
  <2>9. PICK t \in Of(U, w) : TRUE
    BY <2>8
  <2>10. rows[w].cves = UNION {CvesOf[u.tool][u.about] : u \in Of(U, w)}
    BY <2>4, <2>6, <2>9
  <2>11. ScoreTells(rows[w].cvss, Of(U, w))
    BY <2>4, <2>6, <2>9 DEF ScoreTells, Scoring
  <2> QED BY <2>3, <2>4, <2>6, <2>7, <2>8, <2>10, <2>11 DEF RowTells
<1> HIDE DEF U, rows
<1>5. LedgerOK(rows) /\ LedgerTells(rows, U) /\ AllSources(rows, U)
  BY <1>2, <1>3, <1>4 DEF LedgerOK, LedgerTells, AllSources
<1> QED BY <1>1, <1>5 DEF U, rows

LEMMA AddAllTells ==
  ASSUME NEW lg, NEW T \in SUBSET Reports, NEW tool \in Tools,
         NEW found \in SUBSET [weakness : Weaknesses, severity : Severities], NEW i \in Nat,
         LedgerOK(lg), LedgerTells(lg, T), AllSources(lg, T), \A t \in T : t.turn <= i
  PROVE  LET U == {[turn |-> i, tool |-> tool, about |-> f.weakness, severity |-> f.severity] : f \in found}
         IN  /\ U \in SUBSET Reports
             /\ LedgerOK(AddAll(lg, tool, found)) /\ LedgerTells(AddAll(lg, tool, found), T \cup U)
             /\ AllSources(AddAll(lg, tool, found), T \cup U)
<1> DEFINE U == {[turn |-> i, tool |-> tool, about |-> f.weakness, severity |-> f.severity] : f \in found}
           rows == RowsOf(tool, found)
           sum == AddRows(lg, rows)
<1>1. /\ U \in SUBSET Reports
      /\ LedgerOK(rows) /\ LedgerTells(rows, U) /\ AllSources(rows, U)
  BY RowsOfTells
<1>2. Before(T, U) /\ \A t \in U : t.tool = tool
  BY DEF Before
<1>3. AddAll(lg, tool, found) = sum
  BY DEF AddAll
<1> HIDE DEF U, rows
<1>4. LedgerOK(sum) /\ LedgerTells(sum, T \cup U)
  BY <1>1, <1>2, LedgersMerge
<1>5. \A w \in DOMAIN rows : rows[w].first = tool
  BY <1>1, <1>2 DEF LedgerTells, RowTells, Of
<1>6. ASSUME NEW w \in DOMAIN sum PROVE sum[w].sources = ToolsIn(Of(T \cup U, w))
  <2>1. DOMAIN sum = DOMAIN lg \cup DOMAIN rows
    BY DEF AddRows
  <2>2. ToolsIn(Of(T \cup U, w)) = ToolsIn(Of(T, w)) \cup ToolsIn(Of(U, w))
    BY DEF ToolsIn, Of
  <2>3. CASE w \notin DOMAIN rows
    <3>1. w \in DOMAIN lg /\ sum[w] = lg[w]
      BY <2>1, <2>3, <1>6 DEF AddRows
    <3>2. ToolsIn(Of(U, w)) = {}
      BY <2>3, <1>1 DEF LedgerTells, Of, ToolsIn
    <3> QED BY <3>1, <3>2, <2>2 DEF AllSources
  <2>4. CASE w \in DOMAIN rows /\ w \notin DOMAIN lg
    <3>1. sum[w] = rows[w]
      BY <2>1, <2>4, <1>6 DEF AddRows
    <3>2. ToolsIn(Of(T, w)) = {}
      BY <2>4 DEF LedgerTells, Of, ToolsIn
    <3> QED BY <3>1, <3>2, <2>2, <2>4, <1>1 DEF AllSources
  <2>5. CASE w \in DOMAIN rows /\ w \in DOMAIN lg
    <3>1. sum[w] = MergeInto(lg[w], rows[w])
      BY <2>1, <2>5, <1>6 DEF AddRows
    <3>2. sum[w].sources = lg[w].sources \cup {tool}
      BY <3>1, <2>5, <1>5 DEF MergeInto, LedgerOK, Rows
    <3>3. ToolsIn(Of(U, w)) = {tool}
      <4>1. ToolsIn(Of(U, w)) \subseteq {tool}
        BY <1>2 DEF ToolsIn, Of
      <4>2. Of(U, w) # {}
        BY <2>5, <1>1 DEF LedgerTells, Of
      <4> QED BY <4>1, <4>2 DEF ToolsIn
    <3> QED BY <3>2, <3>3, <2>2, <2>5 DEF AllSources
  <2> QED BY <2>3, <2>4, <2>5
<1>7. AllSources(sum, T \cup U)
  BY <1>6 DEF AllSources
<1> QED BY <1>1, <1>3, <1>4, <1>7 DEF U
-----------------------------------------------------------------------------
(* The types are kept.                                                     *)

LEMMA AddAssetsOK ==
  ASSUME NEW inv, NEW S \in SUBSET Discoverable, IsFiniteSet(S), InventoryOK(inv)
  PROVE  InventoryOK(AddAssets(inv, S))
<1>0. PICK f : Adding(f, inv, S)
  BY AddAssetsFolds
<1> DEFINE Good == {s \in SUBSET S : InventoryOK(f[s])}
<1>1. ASSUME NEW s \in SUBSET S, s # {}, s \ {Chosen(s)} \in Good PROVE s \in Good
  <2> DEFINE a == Chosen(s)
             one == [k \in {MergeKey(a)} |-> Facts(a)]
  <2>1. a \in Discoverable
    BY <1>1 DEF Chosen
  <2>2. InventoryOK(one)
    BY <2>1, OneAsset
  <2>3. f[s] = AddInventory(f[s \ {a}], one)
    BY <1>0, <1>1, AddAssetMerges DEF Adding
  <2>4. InventoryOK(f[s \ {a}])
    BY <1>1
  <2> HIDE DEF a, one
  <2> QED BY <2>2, <2>3, <2>4, InventoriesOK
<1>2. {} \in Good
  BY <1>0 DEF Adding
<1>3. S \in Good
  <2> HIDE DEF Good
  <2> QED BY <1>1, <1>2, FoldInduction DEF Chosen
<1> QED BY <1>0, <1>3 DEF Adding

LEMMA AddRowsOK ==
  ASSUME NEW lg, NEW rows, LedgerOK(lg), LedgerOK(rows)
  PROVE  LedgerOK(AddRows(lg, rows))
<1>1. ASSUME NEW r \in Rows, NEW s \in Rows
      PROVE  MergeInto(r, s) \in Rows
  <2> DEFINE cvss == IF r.cvss = NoScore THEN s.cvss ELSE r.cvss
             severity == IF s.severity > r.severity THEN s.severity ELSE r.severity
  <2>1. severity \in Severities /\ cvss \in Scores
    BY DEF Rows
  <2>2. r.cves \cup s.cves \in SUBSET Cves /\ r.sources \cup {s.first} \in SUBSET Tools /\ r.first \in Tools
    BY DEF Rows
  <2>3. MergeInto(r, s) = [r EXCEPT !.severity = severity, !.cvss = cvss, !.cves = r.cves \cup s.cves,
                                    !.sources = r.sources \cup {s.first}]
    BY DEF MergeInto
  <2> HIDE DEF cvss, severity
  <2> QED BY <2>1, <2>2, <2>3 DEF Rows
<1> QED BY <1>1 DEF LedgerOK, AddRows

LEMMA AddAllOK ==
  ASSUME NEW lg, NEW tool \in Tools,
         NEW found \in SUBSET [weakness : Weaknesses, severity : Severities], LedgerOK(lg)
  PROVE  LedgerOK(AddAll(lg, tool, found))
<1>1. LedgerOK(RowsOf(tool, found))
  BY RowsOfTells
<1> QED BY <1>1, AddRowsOK DEF AddAll

LEMMA EmptyOK ==
  /\ InventoryOK(Empty) /\ LedgerOK(EmptyLedger)
  /\ InventoryOK(NoFlow.inventory) /\ LedgerOK(NoFlow.ledger) /\ NoFlow.allowed \in Nat
<1>1. InventoryOK(Empty)
  BY FS_EmptySet DEF InventoryOK, Empty
<1>2. LedgerOK(EmptyLedger)
  BY DEF LedgerOK, EmptyLedger
<1> QED BY <1>1, <1>2 DEF NoFlow

LEMMA SetupTyped ==
  ASSUME setup \in Setups
  PROVE  /\ setup.mode \in {"black_box", "gray_box", "white_box"}
         /\ setup.recon \in Seq(ReconTools) /\ setup.validator \in Validators
         /\ setup.targets \in Seq(Refs) /\ setup.items \in Seq(Refs)
         /\ setup.oracle \in BOOLEAN /\ setup.resumes \in Nat /\ setup.budget \in Nat
BY SetupsAssumption

LEMMA ScanTargetsTyped ==
  ASSUME TypeOK
  PROVE  ScanTargets \in Seq(Refs) /\ ScanPlan \in Seq(Scanners)
<1>1. setup \in Setups /\ Endpoints \in Seq(Refs)
  BY EndpointsTyped DEF TypeOK
<1>2. ScanTargets \in Seq(Refs)
  BY <1>1, SetupTyped, Zenon DEF ScanTargets
<1>3. /\ <<"nuclei", "nikto">> \in Seq(Scanners) /\ <<"prowler", "trivy">> \in Seq(Scanners)
      /\ <<"semgrep", "gitleaks", "checkov", "trivy">> \in Seq(Scanners)
  BY DEF Scanners
<1>4. ScanPlan \in Seq(Scanners)
  BY <1>1, <1>3, SetupTyped DEF ScanPlan
<1> QED BY <1>2, <1>4

LEMMA CallsOfTyped ==
  ASSUME TypeOK, NEW n \in {"recon", "scan", "correlate", "validate", "report"},
         n = "validate" => Hot # {}
  PROVE  CallsOf(n) \in Seq(Invocations(n))
<1>1. setup.recon \in Seq(ReconTools) /\ setup.validator \in Validators /\ setup.targets \in Seq(Refs)
  BY SetupTyped DEF TypeOK
<1>2. CASE n = "recon"
  <2>1. Calls(setup.recon, setup.targets) \in Seq([tool : ReconTools, target : Refs])
    BY <1>1, CallsTyped
  <2> QED BY <2>1, <1>2 DEF CallsOf, Invocations, ToolsOf
<1>3. CASE n = "scan"
  <2>1. Calls(ScanPlan, ScanTargets) \in Seq([tool : Scanners, target : Refs])
    BY ScanTargetsTyped, CallsTyped
  <2> QED BY <2>1, <1>3 DEF CallsOf, Invocations, ToolsOf
<1>4. CASE n = "validate"
  <2>1. RefOf[Hottest] \in Refs
    BY <1>4, HottestExists, ReportAssumption DEF TypeOK, LedgerOK, Hot
  <2>2. <<setup.validator>> \in Seq(Validators) /\ <<RefOf[Hottest]>> \in Seq(Refs)
    BY <2>1, <1>1
  <2>3. Calls(<<setup.validator>>, <<RefOf[Hottest]>>) \in Seq([tool : Validators, target : Refs])
    BY <2>2, CallsTyped
  <2> QED BY <2>3, <1>4 DEF CallsOf, Invocations, ToolsOf
<1>5. CASE n \in {"correlate", "report"}
  BY <1>5 DEF CallsOf
<1> QED BY <1>2, <1>3, <1>4, <1>5

LEMMA DecisionRight ==
  /\ Decision \in {"recon", "scan", "correlate", "validate", "report"}
  /\ Decision = "recon" => setup.mode # "white_box" /\ DOMAIN inventory = {} /\ "recon" \notin did
  /\ Decision = "scan" => DOMAIN ledger = {} /\ "scan" \notin did
                          /\ (setup.mode = "white_box" \/ DOMAIN inventory # {} \/ "recon" \in did)
  /\ Decision = "correlate" => DOMAIN ledger # {} /\ "correlate" \notin did
  /\ Decision = "validate" => DOMAIN ledger # {} /\ "correlate" \in did /\ Hot # {}
  /\ Decision = "report" => DOMAIN ledger = {} \/ "correlate" \in did \/ spent >= setup.budget
<1>0. CASE spent >= setup.budget
  <2> Decision = "report"
    BY <1>0 DEF Decision
  <2> QED BY <1>0
<1>1. CASE /\ ~(spent >= setup.budget)
           /\ setup.mode # "white_box" /\ DOMAIN inventory = {} /\ "recon" \notin did
  <2> Decision = "recon"
    BY <1>1 DEF Decision
  <2> QED BY <1>1
<1> DEFINE later == /\ ~(spent >= setup.budget)
                    /\ ~(setup.mode # "white_box" /\ DOMAIN inventory = {} /\ "recon" \notin did)
<1>2. CASE later /\ DOMAIN ledger = {} /\ "scan" \notin did
  <2> Decision = "scan"
    BY <1>2 DEF Decision
  <2> QED BY <1>2
<1>3. CASE later /\ DOMAIN ledger # {} /\ "correlate" \notin did
  <2> Decision = "correlate"
    BY <1>3 DEF Decision
  <2> QED BY <1>3
<1>4. CASE later /\ DOMAIN ledger # {} /\ "correlate" \in did /\ Hot # {} /\ "validate" \notin did
           /\ setup.mode # "white_box"
  <2> Decision = "validate"
    BY <1>4 DEF Decision
  <2> QED BY <1>4
<1>5. CASE /\ later /\ ~(DOMAIN ledger = {} /\ "scan" \notin did)
           /\ ~(DOMAIN ledger # {} /\ "correlate" \notin did)
           /\ ~(DOMAIN ledger # {} /\ "correlate" \in did /\ Hot # {} /\ "validate" \notin did
                /\ setup.mode # "white_box")
  <2> Decision = "report"
    BY <1>5 DEF Decision
  <2> QED BY <1>5
<1> QED BY <1>0, <1>1, <1>2, <1>3, <1>4, <1>5

LEMMA TypeInit == Init => TypeOK
<1> SUFFICES ASSUME Init PROVE TypeOK
  OBVIOUS
<1>1. status \in [DOMAIN status -> Verdicts]
  BY DEF Init, Empty
<1>2. /\ InventoryOK(inventory) /\ LedgerOK(ledger)
      /\ InventoryOK(flow.inventory) /\ LedgerOK(flow.ledger) /\ flow.allowed \in Nat
  BY EmptyOK DEF Init
<1>3. /\ setup \in Setups /\ resumed \in Nat /\ clock \in Nat /\ node = "planner" /\ at = "left"
      /\ calls \in Seq(Invocations(node)) /\ todo \in Seq(Observation) /\ spent \in Nat
      /\ detections \in Seq(Detection) /\ telemetry \subseteq Events /\ wrote \in Seq(Entry)
  BY DEF Init
<1> QED BY <1>1, <1>2, <1>3 DEF TypeOK

\* The call a node makes, and what its adapter makes of it.
LEMMA CallTyped ==
  ASSUME TypeOK, calls # <<>>, NEW out \in Outputs[Head(calls).tool]
  PROVE  LET c == Head(calls)
             r == Parse(c.tool, c.target, out)
         IN  /\ c \in Invocations(node) /\ Tail(calls) \in Seq(Invocations(node))
             /\ node \in {"recon", "scan", "validate"} /\ c.tool \in ToolsOf(node)
             /\ c.tool \in Tools /\ c.target \in Refs
             /\ [call |-> c, out |-> out] \in Entry
             /\ r.assets \in SUBSET Discoverable /\ IsFiniteSet(r.assets)
             /\ r.findings \in SUBSET [weakness : Weaknesses, severity : Severities]
<1> DEFINE c == Head(calls)
<1>1. c \in Invocations(node) /\ Tail(calls) \in Seq(Invocations(node))
  BY HeadTailProperties DEF TypeOK
<1>2. c.tool \in ToolsOf(node) /\ c.target \in Refs /\ c = [tool |-> c.tool, target |-> c.target]
  BY <1>1 DEF Invocations
<1>3. node \in {"recon", "scan", "validate"} /\ c.tool \in ReconTools \cup Scanners \cup Validators
  BY <1>2 DEF ToolsOf, TypeOK
<1>4. c.tool \in Tools
  BY <1>3, ReportAssumption
<1> HIDE DEF c
<1>5. [call |-> c, out |-> out] \in Entry
  <2>1. [call |-> c, out |-> out] \in [call : [tool : {c.tool}, target : Refs], out : Outputs[c.tool]]
    BY <1>2 DEF c
  <2> QED BY <2>1, <1>3 DEF Entry
<1> DEFINE r == Parse(c.tool, c.target, out)
<1>6. /\ r.assets \in SUBSET Discoverable /\ IsFiniteSet(r.assets)
      /\ r.findings \in SUBSET [weakness : Weaknesses, severity : Severities]
  <2>1. out \in Outputs[c.tool]
    BY DEF c
  <2>2. CASE c.tool \in ReconTools
    <3>1. r.findings = {} /\ IsFiniteSet(r.assets) /\ r.assets \subseteq Discoverable
      BY <2>1, <2>2, <1>2, ParseRecon
    <3> QED BY <3>1
  <2>3. CASE c.tool \in Scanners
    <3>1. r.assets = {} /\ r.findings \in SUBSET [weakness : Weaknesses, severity : Severities]
      BY <2>1, <2>3, ParseScan
    <3> QED BY <3>1, FS_EmptySet
  <2>4. CASE c.tool \in Validators
    <3>1. r.assets = {} /\ r.findings = {}
      BY <2>1, <2>4, ParseValidate
    <3> QED BY <3>1, FS_EmptySet
  <2> QED BY <2>2, <2>3, <2>4, <1>3
<1> QED BY <1>1, <1>2, <1>3, <1>4, <1>5, <1>6 DEF c

LEMMA ObserveTyped ==
  ASSUME TypeOK, NEW action \in {"recon", "scan", "validate"},
         NEW technique \in {"T1046", "T1595", "xss"}, NEW refs \in Seq(Refs),
         Observe(action, technique, refs)
  PROVE  /\ todo' \in Seq(Observation) /\ at' \in {"left", "observes"}
         /\ at' = "observes" => todo' # <<>>
<1> DEFINE os == [i \in DOMAIN refs |-> [action |-> action, technique |-> technique, ref |-> refs[i]]]
<1>1. os \in [1 .. Len(refs) -> Observation] /\ Len(refs) \in Nat
  BY DEF Observation
<1>2. os \in Seq(Observation)
  <2> HIDE DEF os
  <2> QED BY <1>1, FunctionIsSeq
<1>3. todo' \in Seq(Observation)
  BY <1>2 DEF Observe
<1> QED BY <1>3, Zenon DEF Observe

LEMMA TypeStep == TypeOK /\ [Next]_vars => TypeOK'
<1> SUFFICES ASSUME TypeOK, [Next]_vars PROVE TypeOK'
  OBVIOUS
<1> USE DEF merged, seen, output, world
<1>1. CASE Planner
  <2>1. CallsOf(Decision) \in Seq(Invocations(Decision))
    BY CallsOfTyped, DecisionRight
  <2>2. /\ node' = Decision /\ at' = "works" /\ calls' = CallsOf(Decision) /\ flow' = NoFlow
        /\ UNCHANGED <<setup, todo, inventory, ledger, spent, detections, status, telemetry, clock,
                       wrote, resumed>>
    BY <1>1 DEF Planner, Enter
  <2>3. node' \in {"recon", "scan", "correlate", "validate", "report"}
    BY <2>2, DecisionRight
  <2>4. calls' \in Seq(Invocations(node'))
    BY <2>1, <2>2
  <2> QED BY <2>2, <2>3, <2>4, EmptyOK DEF TypeOK
<1>2. CASE Resume
  <2>1. CASE node = "validate"
    <3>1. UNCHANGED <<setup, node, at, calls, flow, todo, inventory, ledger, spent, detections,
                      status, telemetry, clock, wrote>> /\ resumed' = resumed + 1
      BY <1>2, <2>1 DEF Resume
    <3> QED BY <3>1 DEF TypeOK
  <2>2. CASE node # "validate"
    <3>1. node \in {"recon", "scan", "correlate"}
      BY <1>2, <2>2 DEF Resume
    <3>2. CallsOf(node) \in Seq(Invocations(node))
      BY <3>1, CallsOfTyped
    <3>3. /\ node' = node /\ at' = "works" /\ calls' = CallsOf(node) /\ flow' = NoFlow
          /\ UNCHANGED <<setup, todo, inventory, ledger, spent, detections, status, telemetry, clock,
                         wrote>>
          /\ resumed' = resumed + 1
      BY <1>2, <2>2 DEF Resume, Enter
    <3> QED BY <3>2, <3>3, EmptyOK DEF TypeOK
  <2> QED BY <2>1, <2>2
<1>3. CASE Deny
  BY <1>3 DEF Deny, TypeOK
<1>4. ASSUME calls # <<>>, NEW allowed \in BOOLEAN, NEW out \in Outputs[Head(calls).tool],
             ToolCall(allowed, out)
      PROVE  TypeOK'
  <2> DEFINE c == Head(calls)
             r == Parse(c.tool, c.target, out)
  <2>1. /\ Tail(calls) \in Seq(Invocations(node)) /\ c.tool \in Tools /\ c.target \in Refs
        /\ [call |-> c, out |-> out] \in Entry
        /\ r.assets \in SUBSET Discoverable /\ IsFiniteSet(r.assets)
        /\ r.findings \in SUBSET [weakness : Weaknesses, severity : Severities]
    BY <1>4, CallTyped
  <2>2. InventoryOK(flow.inventory) /\ LedgerOK(flow.ledger) /\ flow.allowed \in Nat
    BY DEF TypeOK
  <2>3. InventoryOK(AddAssets(flow.inventory, r.assets))
    <3> HIDE DEF r
    <3> QED BY <2>1, <2>2, AddAssetsOK
  <2>4. LedgerOK(AddAll(flow.ledger, c.tool, r.findings))
    <3> HIDE DEF r, c
    <3> QED BY <2>1, <2>2, AddAllOK
  <2>5. /\ calls' = Tail(calls) /\ UNCHANGED <<setup, node, inventory, ledger, detections, status,
                                               resumed, clock, telemetry>>
    BY <1>4 DEF ToolCall
  <2>6. /\ InventoryOK(flow'.inventory) /\ LedgerOK(flow'.ledger) /\ flow'.allowed \in Nat
        /\ wrote' \in Seq(Entry)
    <3>1. CASE allowed
      <4>1. /\ flow' = [inventory |-> AddAssets(flow.inventory, r.assets),
                        ledger |-> AddAll(flow.ledger, c.tool, r.findings),
                        allowed |-> flow.allowed + 1]
            /\ wrote' = Append(wrote, [call |-> c, out |-> out])
        BY <1>4, <3>1 DEF ToolCall
      <4> HIDE DEF r, c
      <4>2. wrote' \in Seq(Entry)
        BY <4>1, <2>1, AppendProperties DEF TypeOK
      <4> QED BY <4>1, <4>2, <2>2, <2>3, <2>4
    <3>2. CASE ~allowed
      <4>1. flow' = flow /\ wrote' = wrote
        BY <1>4, <3>2 DEF ToolCall
      <4> QED BY <4>1 DEF TypeOK
    <3> QED BY <3>1, <3>2
  <2>7. /\ todo' \in Seq(Observation) /\ at' \in {"left", "works", "observes"}
        /\ at' = "observes" => todo' # <<>> /\ node \in {"recon", "scan", "validate"}
    <3>1. CASE node = "validate"
      <4>1. [action |-> "validate", technique |-> "xss", ref |-> c.target] \in Observation
        BY <2>1 DEF Observation
      <4>2. todo' = IF setup.oracle THEN <<[action |-> "validate", technique |-> "xss", ref |-> c.target]>>
                    ELSE <<>>
        BY <1>4, <3>1 DEF ToolCall
      <4>3. at' = IF setup.oracle THEN "observes" ELSE "left"
        BY <1>4, <3>1 DEF ToolCall
      <4> HIDE DEF c
      <4> QED BY <3>1, <4>1, <4>2, <4>3
    <3>2. CASE node # "validate"
      BY <1>4, <3>2 DEF ToolCall, TypeOK
    <3> QED BY <3>1, <3>2
  <2>9. spent' \in Nat
    BY <1>4 DEF ToolCall, TypeOK
  <2> HIDE DEF r, c
  <2>8. calls' \in Seq(Invocations(node'))
    BY <2>1, <2>5
  <2> QED BY <2>5, <2>6, <2>7, <2>8, <2>9 DEF TypeOK
<1>5. CASE ReconEnds
  <2>1. /\ inventory' = AddInventory(inventory, flow.inventory) /\ spent' = spent + flow.allowed
        /\ Observe("recon", "T1046", setup.targets)
        /\ UNCHANGED <<setup, node, calls, flow, ledger, detections, status, resumed, clock,
                       telemetry, wrote>>
    BY <1>5 DEF ReconEnds
  <2>0. node = "recon"
    BY <1>5 DEF ReconEnds
  <2>2. InventoryOK(inventory')
    BY <2>1, InventoriesOK DEF TypeOK
  <2>3. /\ todo' \in Seq(Observation) /\ at' \in {"left", "observes"}
        /\ at' = "observes" => todo' # <<>>
    <3> setup.targets \in Seq(Refs)
      BY SetupTyped DEF TypeOK
    <3> QED BY <2>1, ObserveTyped
  <2> QED BY <2>0, <2>1, <2>2, <2>3 DEF TypeOK
<1>6. CASE ScanEnds
  <2> DEFINE refs == IF FindingRefs(ledger') = <<>> THEN ScanTargets ELSE FindingRefs(ledger')
  <2>1. /\ ledger' = AddRows(ledger, flow.ledger) /\ Observe("scan", "T1595", refs)
        /\ spent' = spent + flow.allowed
        /\ UNCHANGED <<setup, node, calls, flow, inventory, detections, status, resumed, clock,
                       telemetry, wrote>>
    BY <1>6 DEF ScanEnds
  <2>0. node = "scan"
    BY <1>6 DEF ScanEnds
  <2>2. LedgerOK(ledger')
    BY <2>1, AddRowsOK DEF TypeOK
  <2>3. refs \in Seq(Refs)
    BY ScanTargetsTyped, FindingRefsTyped
  <2> HIDE DEF refs
  <2>4. /\ todo' \in Seq(Observation) /\ at' \in {"left", "observes"}
        /\ at' = "observes" => todo' # <<>>
    BY <2>1, <2>3, ObserveTyped
  <2> QED BY <2>0, <2>1, <2>2, <2>4 DEF TypeOK
<1>7. CASE ObserveNext
  <2> DEFINE o == Head(todo)
             v == Verdict(telemetry, o.ref, 0)
             t == TimeToDetect(telemetry, o.ref, 0)
             d == [action |-> o.action, technique |-> o.technique, ref |-> o.ref, verdict |-> v, ttd |-> t]
  <2>1. /\ detections' = Append(detections, d)
        /\ status' = [r \in DOMAIN status \cup {RootOf[o.ref]} |->
                        IF r = RootOf[o.ref] THEN v ELSE status[r]]
        /\ todo' = Tail(todo) /\ at' = IF todo' = <<>> THEN "left" ELSE "observes"
        /\ UNCHANGED <<setup, node, calls, flow, inventory, ledger, spent, resumed, clock, telemetry,
                       wrote>>
    BY <1>7 DEF ObserveNext
  <2>2. o \in Observation /\ Tail(todo) \in Seq(Observation)
    BY <1>7, HeadTailProperties DEF ObserveNext, TypeOK
  <2>3. v \in Verdicts /\ t \in Int \cup {NoTime}
    <3>1. d.verdict = Verdict(telemetry, d.ref, 0) /\ d.ttd = TimeToDetect(telemetry, d.ref, 0)
      OBVIOUS
    <3>2. d.verdict = v /\ d.ttd = t /\ telemetry \in SUBSET Events
      BY DEF TypeOK
    <3> HIDE DEF d, v, t
    <3> QED BY <3>1, <3>2, ObservationCredited
  <2>4. d \in Detection
    BY <2>2, <2>3 DEF Observation, Detection
  <2>5. detections' \in Seq(Detection)
    <3> HIDE DEF d
    <3> QED BY <2>1, <2>4, AppendProperties DEF TypeOK
  <2>6. status' \in [DOMAIN status' -> Verdicts]
    <3> HIDE DEF v, o
    <3> QED BY <2>1, <2>3 DEF TypeOK
  <2> HIDE DEF d, v, o, t
  <2>7. at = "observes"
    BY <1>7 DEF ObserveNext
  <2> QED BY <2>7, <2>1, <2>2, <2>5, <2>6 DEF TypeOK
<1>8. CASE Correlate
  BY <1>8 DEF Correlate, TypeOK
<1>9. CASE Report
  <2> /\ at' = "left" /\ UNCHANGED <<setup, node, calls, flow, todo, inventory, ledger, spent,
                                     detections, status, resumed, clock, telemetry, wrote>>
    BY <1>9 DEF Report
  <2> QED BY DEF TypeOK
<1>10. ASSUME NEW e \in Events, Log(e) PROVE TypeOK'
  BY <1>10 DEF Log, TypeOK
<1>11. CASE Tick
  BY <1>11 DEF Tick, TypeOK
<1>12. CASE UNCHANGED vars
  BY <1>12 DEF vars, TypeOK
<1> QED BY <1>1, <1>2, <1>3, <1>4, <1>5, <1>6, <1>7, <1>8, <1>9, <1>10, <1>11, <1>12 DEF Next

\* The types, as an invariant.
THEOREM ReportTypes == Spec => []TypeOK
<1>1. Init => TypeOK
  BY TypeInit
<1>2. TypeOK /\ [Next]_vars => TypeOK'
  BY TypeStep
<1> QED BY <1>1, <1>2, PTL DEF Spec

-----------------------------------------------------------------------------
(* How the detections and the telemetry change.                            *)

Observed ==
  LET o == Head(todo)
  IN  [action |-> o.action, technique |-> o.technique, ref |-> o.ref,
       verdict |-> Verdict(telemetry, o.ref, 0), ttd |-> TimeToDetect(telemetry, o.ref, 0)]

LEMMA DetectionsGrow ==
  ASSUME TypeOK, [Next]_vars
  PROVE  /\ telemetry \subseteq telemetry'
         /\ \/ UNCHANGED <<detections, status>>
            \/ /\ ObserveNext /\ Observed \in Detection /\ telemetry' = telemetry
               /\ Head(todo) \in Observation /\ Observed.ref = Head(todo).ref
               /\ Observed.action = Head(todo).action /\ Observed.technique = Head(todo).technique
               /\ Observed.verdict = Verdict(telemetry, Observed.ref, 0)
               /\ Credited(Observed, telemetry)
               /\ detections' = Append(detections, Observed)
               /\ Len(detections') = Len(detections) + 1
               /\ \A i \in 1 .. Len(detections) : detections'[i] = detections[i]
               /\ detections'[Len(detections) + 1] = Observed
               /\ status' = [r \in DOMAIN status \cup {RootOf[Observed.ref]} |->
                               IF r = RootOf[Observed.ref] THEN Observed.verdict ELSE status[r]]
<1> USE DEF merged, seen, output, world
<1>1. CASE ObserveNext
  <2>1. /\ detections' = Append(detections, Observed) /\ telemetry' = telemetry
        /\ status' = [r \in DOMAIN status \cup {RootOf[Head(todo).ref]} |->
                        IF r = RootOf[Head(todo).ref] THEN Verdict(telemetry, Head(todo).ref, 0)
                        ELSE status[r]]
    BY <1>1 DEF ObserveNext, Observed
  <2>2. /\ Observed.ref = Head(todo).ref /\ Observed.verdict = Verdict(telemetry, Observed.ref, 0)
        /\ Observed.ttd = TimeToDetect(telemetry, Observed.ref, 0)
        /\ Observed.action = Head(todo).action /\ Observed.technique = Head(todo).technique
    BY DEF Observed
  <2>3. Head(todo) \in Observation
    BY <1>1, HeadTailProperties DEF ObserveNext, TypeOK
  <2>4. /\ Credited(Observed, telemetry) /\ Observed.verdict \in Verdicts
        /\ Observed.ttd \in Int \cup {NoTime}
    BY <2>2, ObservationCredited DEF TypeOK
  <2>5. Observed = [action |-> Observed.action, technique |-> Observed.technique, ref |-> Observed.ref,
                    verdict |-> Observed.verdict, ttd |-> Observed.ttd]
    BY DEF Observed
  <2>6. Observed \in Detection
    BY <2>2, <2>3, <2>4, <2>5 DEF Observation, Detection
  <2>7. /\ Len(detections') = Len(detections) + 1
        /\ \A i \in 1 .. Len(detections) : detections'[i] = detections[i]
        /\ detections'[Len(detections) + 1] = Observed
    BY <2>1, <2>6, AppendProperties DEF TypeOK
  <2> QED BY <1>1, <2>1, <2>2, <2>3, <2>4, <2>6, <2>7
<1>2. ASSUME NEW e \in Events, Log(e) PROVE telemetry \subseteq telemetry' /\ UNCHANGED <<detections, status>>
  BY <1>2 DEF Log
<1>3. ASSUME NEW allowed \in BOOLEAN, NEW out, ToolCall(allowed, out)
      PROVE  UNCHANGED <<telemetry, detections, status>>
  BY <1>3 DEF ToolCall
<1>4. CASE Planner \/ Resume
  BY <1>4 DEF Planner, Resume, Enter
<1>5. CASE Deny \/ ReconEnds \/ ScanEnds \/ Correlate \/ Tick
  BY <1>5 DEF Deny, ReconEnds, ScanEnds, Correlate, Tick
<1>6. CASE Report
  BY <1>6 DEF Report
<1>7. CASE UNCHANGED vars
  BY <1>7 DEF vars
<1> QED BY <1>1, <1>2, <1>3, <1>4, <1>5, <1>6, <1>7 DEF Next

LEMMA CreditedTogether == VerdictsCredited <=> \A i \in DOMAIN detections : Credited(detections[i], telemetry)
BY DEF VerdictsCredited, Credited

\* Every verdict and every time to detection is that of an event about the host, in the
\* window after the graph was built, by a source that can have seen it so.
THEOREM VerdictsFollowTelemetry == Spec => []VerdictsCredited
<1>1. Init => VerdictsCredited
  BY DEF Init, VerdictsCredited
<1>2. TypeOK /\ VerdictsCredited /\ [Next]_vars => VerdictsCredited'
  <2> SUFFICES ASSUME TypeOK, VerdictsCredited, [Next]_vars PROVE VerdictsCredited'
    OBVIOUS
  <2>1. \A i \in DOMAIN detections : Credited(detections[i], telemetry)
    BY CreditedTogether
  <2>2. telemetry \subseteq telemetry'
    BY DetectionsGrow
  <2>3. \A i \in DOMAIN detections : Credited(detections[i], telemetry')
    BY <2>1, <2>2, CreditStays
  <2>4. \A i \in DOMAIN detections' : Credited(detections'[i], telemetry')
    <3>1. CASE UNCHANGED detections
      BY <2>3, <3>1
    <3>2. CASE ~UNCHANGED detections
      <4>1. /\ Credited(Observed, telemetry') /\ Len(detections') = Len(detections) + 1
            /\ \A i \in 1 .. Len(detections) : detections'[i] = detections[i]
            /\ detections'[Len(detections) + 1] = Observed /\ Observed \in Detection
            /\ detections' = Append(detections, Observed)
        BY <3>2, DetectionsGrow
      <4>2. DOMAIN detections = 1 .. Len(detections) /\ DOMAIN detections' = 1 .. Len(detections) + 1
        BY <4>1, AppendProperties DEF TypeOK
      <4> QED BY <2>3, <4>1, <4>2
    <3> QED BY <3>1, <3>2
  <2> QED BY <2>4 DEF VerdictsCredited, Credited
<1> QED BY <1>1, <1>2, ReportTypes, PTL DEF Spec
-----------------------------------------------------------------------------
(* What is handed off (HandoffTellsGaps).                                  *)

\* More telemetry makes no verdict worse.
LEMMA VerdictGrows ==
  ASSUME NEW T \in SUBSET Events, NEW U \in SUBSET Events, T \subseteq U, NEW r
  PROVE  Rank(Verdict(T, r, 0)) <= Rank(Verdict(U, r, 0))
<1> DEFINE CV(X, s) == ConnectorVerdict(s, Query(X, s, r, 0))
<1>1. ASSUME NEW s \in Sources PROVE Rank(CV(T, s)) <= Rank(CV(U, s))
  <2> DEFINE E == Query(T, s, r, 0)
             F == Query(U, s, r, 0)
  <2>1. E \subseteq F
    BY DEF Query
  <2> HIDE DEF E, F
  <2>2. CASE E = {}
    BY <2>2, ConnectorReads, RankOrders DEF E, F
  <2>3. CASE E # {} /\ s \in Blockers /\ \E e \in F : e.blocked
    <3> ConnectorVerdict(s, F) = "BLOCKED"
      BY <2>1, <2>3, ConnectorReads
    <3> QED BY ConnectorReads, RankOrders DEF E, F
  <2>4. CASE E # {} /\ ~(s \in Blockers /\ \E e \in F : e.blocked) /\ \E e \in F : e.alerted
    <3>1. ConnectorVerdict(s, F) = "DETECTED"
      BY <2>1, <2>4 DEF ConnectorVerdict, Blocks
    <3>2. ConnectorVerdict(s, E) # "BLOCKED"
      BY <2>1, <2>4, ConnectorReads
    <3>3. ConnectorVerdict(s, E) \in Verdicts
      BY ConnectorReads
    <3> QED BY <3>1, <3>2, <3>3, RankOrders DEF E, F, Verdicts
  <2>5. CASE E # {} /\ ~(s \in Blockers /\ \E e \in F : e.blocked) /\ ~\E e \in F : e.alerted
    <3>1. ConnectorVerdict(s, F) = "PARTIAL" /\ ConnectorVerdict(s, E) = "PARTIAL"
      BY <2>1, <2>5 DEF ConnectorVerdict, Blocks
    <3> QED BY <3>1, RankOrders DEF E, F
  <2> QED BY <2>2, <2>3, <2>4, <2>5
<1>2. CASE Verdict(T, r, 0) = "MISSED"
  BY <1>2, VerdictRanks, RankOrders
<1>3. CASE Verdict(T, r, 0) # "MISSED"
  <2>1. PICK s \in Sources : CV(T, s) = Verdict(T, r, 0)
    BY <1>3, VerdictRanks
  <2>2. Rank(CV(U, s)) <= Rank(Verdict(U, r, 0))
    BY VerdictRanks
  <2>3. /\ CV(T, s) \in Verdicts /\ CV(U, s) \in Verdicts /\ Verdict(U, r, 0) \in Verdicts
    BY ConnectorReads, VerdictRanks
  <2>4. Rank(CV(T, s)) <= Rank(CV(U, s))
    BY <1>1
  <2> HIDE DEF CV
  <2>5. Rank(CV(T, s)) \in Int /\ Rank(CV(U, s)) \in Int /\ Rank(Verdict(U, r, 0)) \in Int
    BY <2>3, RankOrders
  <2> QED BY <2>1, <2>2, <2>4, <2>5
<1> QED BY <1>2, <1>3

LEMMA VerdictByHost ==
  ASSUME NEW T, NEW r, NEW s, HostOf[r] = HostOf[s]
  PROVE  Verdict(T, r, 0) = Verdict(T, s, 0)
<1>1. \A x : Query(T, x, r, 0) = Query(T, x, s, 0)
  BY DEF Query, About
<1>2. PerConnector(T, r, 0) = PerConnector(T, s, 0)
  BY <1>1 DEF PerConnector
<1> QED BY <1>2 DEF Verdict

\* A verdict is no better than the telemetry of now allows, a key's verdicts never get
\* worse, and a status is that of an observation of its root.
ObservationsInv ==
  /\ \A i \in DOMAIN detections :
       Rank(detections[i].verdict) <= Rank(Verdict(telemetry, detections[i].ref, 0))
  /\ \A i, j \in DOMAIN detections :
       i < j /\ RootOf[detections[i].ref] = RootOf[detections[j].ref] =>
         Rank(detections[i].verdict) <= Rank(detections[j].verdict)
  /\ \A root \in DOMAIN status : \E i \in DOMAIN detections :
       RootOf[detections[i].ref] = root /\ detections[i].verdict = status[root]

LEMMA ObservationsStep == TypeOK /\ ObservationsInv /\ [Next]_vars => ObservationsInv'
<1> SUFFICES ASSUME TypeOK, ObservationsInv, [Next]_vars PROVE ObservationsInv'
  OBVIOUS
<1>1. telemetry \in SUBSET Events /\ telemetry' \in SUBSET Events /\ telemetry \subseteq telemetry'
  BY TypeStep, DetectionsGrow DEF TypeOK
<1>2. \A i \in DOMAIN detections : detections[i] \in Detection
  BY DEF TypeOK
<1>3. ASSUME NEW i \in DOMAIN detections
      PROVE  Rank(detections[i].verdict) <= Rank(Verdict(telemetry', detections[i].ref, 0))
  <2>1. Rank(detections[i].verdict) <= Rank(Verdict(telemetry, detections[i].ref, 0))
    BY DEF ObservationsInv
  <2>2. Rank(Verdict(telemetry, detections[i].ref, 0)) <= Rank(Verdict(telemetry', detections[i].ref, 0))
    BY <1>1, VerdictGrows
  <2>3. /\ detections[i].verdict \in Verdicts /\ Verdict(telemetry, detections[i].ref, 0) \in Verdicts
        /\ Verdict(telemetry', detections[i].ref, 0) \in Verdicts
    BY <1>2, VerdictRanks DEF Detection
  <2>4. /\ Rank(detections[i].verdict) \in Int /\ Rank(Verdict(telemetry, detections[i].ref, 0)) \in Int
        /\ Rank(Verdict(telemetry', detections[i].ref, 0)) \in Int
    BY <2>3, RankOrders
  <2> QED BY <2>1, <2>2, <2>4
<1>4. CASE UNCHANGED <<detections, status>>
  BY <1>3, <1>4 DEF ObservationsInv
<1>5. CASE ~UNCHANGED <<detections, status>>
  <2> DEFINE n == Len(detections)
  <2>1. /\ Observed \in Detection /\ telemetry' = telemetry
        /\ Observed.verdict = Verdict(telemetry, Observed.ref, 0)
        /\ detections' = Append(detections, Observed) /\ Len(detections') = n + 1
        /\ \A i \in 1 .. n : detections'[i] = detections[i]
        /\ detections'[n + 1] = Observed
        /\ status' = [r \in DOMAIN status \cup {RootOf[Observed.ref]} |->
                        IF r = RootOf[Observed.ref] THEN Observed.verdict ELSE status[r]]
    BY <1>5, DetectionsGrow
  <2>2. n \in Nat /\ DOMAIN detections = 1 .. n /\ DOMAIN detections' = 1 .. n + 1
    BY <2>1, AppendProperties DEF TypeOK
  <2>3. Observed.verdict \in Verdicts /\ Observed.ref \in Refs /\ Rank(Observed.verdict) \in Int
    BY <2>1, RankOrders DEF Detection
  <2> HIDE DEF n
  <2>4. ASSUME NEW i \in 1 .. n, RootOf[detections[i].ref] = RootOf[Observed.ref]
        PROVE  Rank(detections[i].verdict) <= Rank(Observed.verdict)
    <3>1. detections[i].ref \in Refs
      BY <1>2, <2>2 DEF Detection
    <3>2. HostOf[detections[i].ref] = HostOf[Observed.ref]
      BY <3>1, <2>3, <2>4, OracleAssumption
    <3> QED BY <3>2, <2>1, <2>2, VerdictByHost DEF ObservationsInv
  <2>5. \A i \in DOMAIN detections' :
          Rank(detections'[i].verdict) <= Rank(Verdict(telemetry', detections'[i].ref, 0))
    BY <1>3, <2>1, <2>2, <2>3
  <2>6. ASSUME NEW i \in DOMAIN detections', NEW j \in DOMAIN detections',
               i < j, RootOf[detections'[i].ref] = RootOf[detections'[j].ref]
        PROVE  Rank(detections'[i].verdict) <= Rank(detections'[j].verdict)
    <3>1. CASE j \in 1 .. n
      <4> i \in 1 .. n
        BY <2>2, <2>6, <3>1
      <4> QED BY <2>1, <2>2, <2>6, <3>1 DEF ObservationsInv
    <3>2. CASE j = n + 1
      <4> i \in 1 .. n
        BY <2>2, <2>6, <3>2
      <4> QED BY <2>1, <2>4, <2>6, <3>2
    <3> QED BY <2>2, <3>1, <3>2
  <2>7. ASSUME NEW root \in DOMAIN status'
        PROVE  \E i \in DOMAIN detections' :
                 RootOf[detections'[i].ref] = root /\ detections'[i].verdict = status'[root]
    <3>1. CASE root = RootOf[Observed.ref]
      <4> status'[root] = Observed.verdict /\ n + 1 \in DOMAIN detections'
        BY <2>1, <2>2, <2>7, <3>1
      <4> QED BY <2>1, <3>1
    <3>2. CASE root # RootOf[Observed.ref]
      <4>1. root \in DOMAIN status /\ status'[root] = status[root]
        BY <2>1, <2>7, <3>2
      <4>2. PICK i \in DOMAIN detections : RootOf[detections[i].ref] = root /\ detections[i].verdict = status[root]
        BY <4>1 DEF ObservationsInv
      <4> QED BY <4>1, <4>2, <2>1, <2>2
    <3> QED BY <3>1, <3>2
  <2> QED BY <2>5, <2>6, <2>7 DEF ObservationsInv
<1> QED BY <1>4, <1>5

\* The report is of the last state: nothing comes after it.
Bundle ==
  LET rows == [w \in DOMAIN ledger |-> Row(w)]
  IN  [rows |-> rows,
       topRisk |-> IF rows = <<>> THEN 0 ELSE Max({rows[w].risk : w \in DOMAIN rows}),
       index |-> DetectionIndex(detections),
       coverage |-> Coverage(detections),
       heatmap |-> Heatmap(detections),
       candidates |-> Candidates(detections),
       tickets |-> Tickets(rows)]
ReportBuilt == Done => report = Bundle

LEMMA ReportStep == TypeOK /\ ReportBuilt /\ [Next]_vars => ReportBuilt'
<1> SUFFICES ASSUME TypeOK, ReportBuilt, [Next]_vars PROVE ReportBuilt'
  OBVIOUS
<1> USE DEF merged, seen, output, world
<1>1. ASSUME UNCHANGED <<ledger, detections, status, scored>> PROVE Bundle' = Bundle
  BY <1>1 DEF Bundle, Row, RiskOf, DetectionOf
<1>2. CASE Report
  <2>1. report' = Bundle /\ UNCHANGED <<ledger, detections, status, scored>>
    BY <1>2 DEF Report, Bundle
  <2> QED BY <2>1, <1>1 DEF ReportBuilt
<1>3. CASE Done
  <2>1. UNCHANGED <<report, ledger, detections, status, scored>>
    <3>1. ~ObserveNext /\ ~Planner /\ ~Resume /\ ~Deny /\ ~ReconEnds /\ ~ScanEnds /\ ~Correlate /\ ~Tick /\ ~Report
      BY <1>3 DEF Done, ObserveNext, Planner, Resume, Deny, ReconEnds, ScanEnds, Correlate, Tick, Report
    <3>2. ASSUME NEW allowed, NEW out PROVE ~ToolCall(allowed, out)
      BY <1>3 DEF Done, ToolCall
    <3>3. ASSUME NEW e PROVE ~Log(e)
      BY <1>3 DEF Done, Log
    <3> QED BY <3>1, <3>2, <3>3 DEF Next, vars
  <2> QED BY <2>1, <1>1, <1>3 DEF ReportBuilt
<1>4. ASSUME ~Report, ~Done PROVE ~Done'
  <2>1. CASE Planner
    BY <2>1 DEF Planner, Enter, Done
  <2>2. CASE Resume
    BY <2>2, <1>4 DEF Resume, Enter, Done
  <2>3. CASE Deny
    BY <2>3 DEF Deny, Done
  <2>4. ASSUME calls # <<>>, NEW allowed \in BOOLEAN, NEW out \in Outputs[Head(calls).tool], ToolCall(allowed, out)
        PROVE  ~Done'
    <3>1. node \in {"recon", "scan", "validate"}
      BY <2>4, CallTyped
    <3> QED BY <2>4, <3>1 DEF ToolCall, Done
  <2>5. CASE ReconEnds \/ ScanEnds \/ Correlate
    BY <2>5 DEF ReconEnds, ScanEnds, Correlate, Done
  <2>6. CASE ObserveNext
    BY <2>6 DEF ObserveNext, TypeOK, Done
  <2>7. ASSUME NEW e \in Events, Log(e) PROVE ~Done'
    BY <2>7, <1>4 DEF Log, Done
  <2>8. CASE Tick
    BY <2>8, <1>4 DEF Tick, Done
  <2>9. CASE UNCHANGED vars
    BY <2>9, <1>4 DEF vars, Done
  <2> QED BY <1>4, <2>1, <2>2, <2>3, <2>4, <2>5, <2>6, <2>7, <2>8, <2>9 DEF Next
<1> QED BY <1>2, <1>3, <1>4 DEF ReportBuilt

\* Counts of the parts add up to the count of the whole.
Total(h, v, S) == MapThenSumSet(LAMBDA t : h[t][v], S)
Counting(G, h, v, S) ==
  G = [s \in SUBSET S |-> IF s = {} THEN 0 ELSE h[Chosen(s)][v] + G[s \ {Chosen(s)}]]

LEMMA SumOfParts ==
  ASSUME NEW h, NEW v, NEW S, IsFiniteSet(S), NEW G, Counting(G, h, v, S)
  PROVE  Total(h, v, S) = G[S]
<1> DEFINE Turn(g, s) == IF s = {} THEN 0 ELSE h[Chosen(s)][v] + g[s \ {Chosen(s)}]
           Sol(g) == g = [s \in SUBSET S |-> Turn(g, s)]
           f == CHOOSE g : Sol(g)
<1>1. Total(h, v, S) = f[S]
  BY Zenon DEF Total, MapThenSumSet, MapThenFoldSet, Chosen
<1>2. Sol(G)
  BY DEF Counting
<1>3. Sol(f)
  <2> HIDE DEF Sol
  <2> QED BY <1>2, Zenon
<1> DEFINE Good == {s \in SUBSET S : f[s] = G[s]}
<1> HIDE DEF f
<1>4. \A s \in SUBSET S : f[s] = Turn(f, s) /\ G[s] = Turn(G, s)
  <2> HIDE DEF Turn
  <2> QED BY <1>2, <1>3
<1>5. {} \in Good
  BY <1>4
<1>6. ASSUME NEW s \in SUBSET S, s # {}, s \ {Chosen(s)} \in Good PROVE s \in Good
  <2>1. f[s \ {Chosen(s)}] = G[s \ {Chosen(s)}]
    BY <1>6
  <2> QED BY <1>4, <1>6, <2>1
<1>7. S \in Good
  <2> HIDE DEF Good
  <2> QED BY <1>5, <1>6, FoldInduction DEF Chosen
<1> QED BY <1>1, <1>7

\* The heat map counts what the coverage matrix counts.
LEMMA HeatmapCounts ==
  ASSUME NEW results, NEW N \in Nat, DOMAIN results = 1 .. N, NEW v \in Verdicts
  PROVE  Coverage(results)[v] = Total(Heatmap(results), v, DOMAIN Heatmap(results))
<1> DEFINE h == Heatmap(results)
           S == DOMAIN h
           Those(s) == {i \in 1 .. N : results[i].technique \in s /\ results[i].verdict = v}
           G == [s \in SUBSET S |-> Cardinality(Those(s))]
<1>1. /\ S = {results[i].technique : i \in 1 .. N}
      /\ \A t \in S : h[t][v] = Cardinality({i \in 1 .. N : results[i].technique = t /\ results[i].verdict = v})
  BY DEF Heatmap
<1>2. IsFiniteSet(S)
  <2>1. IsFiniteSet(1 .. N)
    BY FS_Interval
  <2>2. IsFiniteSet({results[i].technique : i \in 1 .. N})
    <3> DEFINE T == [i \in 1 .. N |-> results[i].technique]
    <3>1. DOMAIN T = 1 .. N /\ {results[i].technique : i \in 1 .. N} = {T[i] : i \in 1 .. N}
      OBVIOUS
    <3> HIDE DEF T
    <3> QED BY <2>1, <3>1, ImageFinite
  <2> HIDE DEF h
  <2> QED BY <1>1, <2>2
<1> HIDE DEF h
<1>3. Coverage(results)[v] = Cardinality(Those(S))
  <2>1. {i \in DOMAIN results : results[i].verdict = v} = Those(S)
    BY <1>1
  <2> QED BY <2>1 DEF Coverage
<1>4. \A s : IsFiniteSet(Those(s)) /\ Cardinality(Those(s)) \in Nat
  BY PlacesFinite
<1>5. ASSUME NEW s \in SUBSET S
      PROVE  Cardinality(Those(s)) =
               IF s = {} THEN 0 ELSE h[Chosen(s)][v] + Cardinality(Those(s \ {Chosen(s)}))
  <2>1. CASE s = {}
    <3>1. Those(s) = {}
      BY <2>1
    <3> QED BY <2>1, <3>1, FS_EmptySet
  <2>2. CASE s # {}
    <3> DEFINE t == Chosen(s)
               A == {i \in 1 .. N : results[i].technique = t /\ results[i].verdict = v}
    <3>1. t \in s
      BY <2>2 DEF Chosen
    <3>2. h[t][v] = Cardinality(A)
      BY <1>1, <3>1
    <3>3. IsFiniteSet(A) /\ Cardinality(A) \in Nat
      BY PlacesFinite
    <3> HIDE DEF t
    <3>4. Those(s) = A \cup Those(s \ {t}) /\ A \cap Those(s \ {t}) = {}
      BY <3>1
    <3>5. Cardinality(A \cap Those(s \ {t})) = 0
      BY <3>4, FS_EmptySet
    <3> HIDE DEF A, Those
    <3>6. Cardinality(Those(s)) = Cardinality(A) + Cardinality(Those(s \ {t})) - 0
      BY <3>3, <3>4, <3>5, <1>4, FS_Union
    <3>7. Cardinality(Those(s)) = Cardinality(A) + Cardinality(Those(s \ {t}))
      BY <3>6, <3>3, <1>4
    <3> QED BY <3>7, <3>2, <2>2 DEF t
  <2> QED BY <2>1, <2>2
<1>6. Counting(G, h, v, S)
  <2>1. \A s \in SUBSET S : s \ {Chosen(s)} \in SUBSET S
    OBVIOUS
  <2> HIDE DEF Those
  <2> QED BY <1>5, <2>1 DEF Counting
<1> HIDE DEF G
<1>7. Total(h, v, S) = G[S]
  <2> HIDE DEF S
  <2> QED BY <1>2, <1>6, SumOfParts
<1>8. G[S] = Cardinality(Those(S))
  BY DEF G
<1> QED BY <1>3, <1>7, <1>8 DEF h

\* The index has the last result of each key.
LEMMA IndexLast ==
  ASSUME NEW results, NEW N \in Nat, DOMAIN results = 1 .. N, NEW k \in DOMAIN DetectionIndex(results)
  PROVE  \E m \in 1 .. N : /\ Key(results[m]) = k /\ DetectionIndex(results)[k] = results[m].verdict
                           /\ \A j \in 1 .. N : Key(results[j]) = k => j <= m
<1> DEFINE S == {i \in 1 .. N : Key(results[i]) = k}
           Latest(i) == /\ Key(results[i]) = k
                        /\ \A j \in DOMAIN results : Key(results[j]) = k => j <= i
           m == CHOOSE i \in DOMAIN results : Latest(i)
<1>1. S # {} /\ S \in SUBSET (0 .. N)
  BY DEF DetectionIndex
<1>2. Max(S) \in S /\ \A j \in S : j <= Max(S)
  <2> HIDE DEF S
  <2> QED BY <1>1, GreatestNumber
<1>3. \E i \in DOMAIN results : Latest(i)
  <2> HIDE DEF Latest
  <2>1. Latest(Max(S)) /\ Max(S) \in DOMAIN results
    BY <1>2 DEF Latest
  <2> QED BY <2>1
<1>4. m \in DOMAIN results /\ Latest(m)
  <2> HIDE DEF Latest
  <2> QED BY <1>3, Zenon
<1>5. DetectionIndex(results)[k] = results[m].verdict
  BY DEF DetectionIndex
<1> HIDE DEF m
<1> QED BY <1>4, <1>5

\* What the report hands off says what was observed: a key of the index is the best of
\* its observations, every gap and every ticket that says undetected has its candidate,
\* and the heat map counts what the coverage matrix counts.
THEOREM HandoffTellsTheGaps == Spec => []HandoffTellsGaps
<1> DEFINE Inv == TypeOK /\ ObservationsInv /\ ReportBuilt
<1>1. Init => Inv
  BY TypeInit DEF Init, ObservationsInv, ReportBuilt, Done, Empty
<1>2. Inv /\ [Next]_vars => Inv'
  BY TypeStep, ObservationsStep, ReportStep
<1>3. Inv => HandoffTellsGaps
  <2> SUFFICES ASSUME TypeOK, ObservationsInv, Done, report = Bundle PROVE HandoffTellsGaps
    BY DEF ReportBuilt, HandoffTellsGaps
  <2> DEFINE N == Len(detections)
             index == DetectionIndex(detections)
             candidates == Candidates(detections)
  <2>1. /\ N \in Nat /\ DOMAIN detections = 1 .. N
        /\ \A i \in 1 .. N : /\ detections[i] \in Detection
                             /\ detections[i].verdict \in Verdicts /\ detections[i].ref \in Refs
    <3>1. N \in Nat /\ DOMAIN detections = 1 .. N /\ \A i \in 1 .. N : detections[i] \in Detection
      BY DEF TypeOK
    <3>2. \A d \in Detection : d.verdict \in Verdicts /\ d.ref \in Refs
      BY DEF Detection
    <3> QED BY <3>1, <3>2
  <2>2. /\ report.index = index /\ report.candidates = candidates
        /\ report.coverage = Coverage(detections) /\ report.heatmap = Heatmap(detections)
        /\ report.tickets = Tickets([w \in DOMAIN ledger |-> Row(w)])
    BY DEF Bundle
  <2> HIDE DEF N
  <2>3. ASSUME NEW i \in 1 .. N, ~Covered(detections[i].verdict)
        PROVE  \E c \in candidates : /\ RootOf[c.ref] = RootOf[detections[i].ref]
                                     /\ c.technique = detections[i].technique
    <3> DEFINE c == [technique |-> detections[i].technique, ref |-> detections[i].ref,
                     priority |-> IF detections[i].verdict = "MISSED" THEN "high" ELSE "medium"]
    <3>1. i \in Gaps(detections)
      BY <2>1, <2>3 DEF Gaps, Covered, Verdicts
    <3>2. c \in candidates
      BY <3>1 DEF Candidates
    <3>3. c.ref = detections[i].ref /\ c.technique = detections[i].technique
      OBVIOUS
    <3> QED BY <3>2, <3>3
  <2> HIDE DEF candidates
  <2>4. ASSUME NEW k \in DOMAIN index
        PROVE  /\ \A i \in DOMAIN detections : Key(detections[i]) = k => Rank(detections[i].verdict) <= Rank(index[k])
               /\ ~Covered(index[k]) => \E c \in candidates : RootOf[c.ref] = k[2] /\ c.technique = k[1]
    <3>1. PICK m \in 1 .. N : /\ Key(detections[m]) = k /\ index[k] = detections[m].verdict
                              /\ \A j \in 1 .. N : Key(detections[j]) = k => j <= m
      BY <2>1, IndexLast
    <3> HIDE DEF index
    <3>2. ASSUME NEW i \in 1 .. N, Key(detections[i]) = k PROVE Rank(detections[i].verdict) <= Rank(index[k])
      <4>1. RootOf[detections[i].ref] = RootOf[detections[m].ref] /\ i <= m
        BY <3>1, <3>2 DEF Key
      <4>2. CASE i < m
        BY <4>1, <4>2, <3>1, <2>1 DEF ObservationsInv
      <4>3. CASE i = m
        <5> Rank(detections[m].verdict) \in Int
          BY <2>1, RankOrders
        <5> QED BY <4>3, <3>1
      <4> QED BY <4>1, <4>2, <4>3, <2>1
    <3>3. k[1] = detections[m].technique /\ k[2] = RootOf[detections[m].ref]
      BY <3>1 DEF Key
    <3>4. ASSUME ~Covered(index[k]) PROVE \E c \in candidates : RootOf[c.ref] = k[2] /\ c.technique = k[1]
      <4>1. \E c \in candidates : RootOf[c.ref] = RootOf[detections[m].ref] /\ c.technique = detections[m].technique
        BY <3>1, <3>4, <2>3
      <4> QED BY <3>3, <4>1
    <3> QED BY <3>2, <3>4, <2>1
  <2>5. ASSUME NEW t \in report.tickets, t.undetected
        PROVE  \E c \in candidates : RootOf[c.ref] = RootOf[RefOf[t.of]]
    <3> DEFINE rows == [w \in DOMAIN ledger |-> Row(w)]
               w == t.of
    <3>1. w \in DOMAIN ledger /\ t.undetected = (rows[w].detection \in {"MISSED", "PARTIAL"})
      BY <2>2 DEF Tickets
    <3>2. DetectionOf(w) \in {"MISSED", "PARTIAL"}
      BY <3>1, <2>5 DEF Row
    <3> HIDE DEF rows, w
    <3>3. RootOf[RefOf[w]] \in DOMAIN status /\ status[RootOf[RefOf[w]]] \in {"MISSED", "PARTIAL"}
      BY <3>2 DEF DetectionOf
    <3>4. PICK i \in 1 .. N : RootOf[detections[i].ref] = RootOf[RefOf[w]] /\ detections[i].verdict = status[RootOf[RefOf[w]]]
      BY <3>3, <2>1 DEF ObservationsInv
    <3>5. ~Covered(detections[i].verdict)
      BY <3>3, <3>4 DEF Covered
    <3> QED BY <2>3, <3>4, <3>5 DEF w
  <2>6. ASSUME NEW v \in Verdicts
        PROVE  report.coverage[v] = MapThenSumSet(LAMBDA t : report.heatmap[t][v], DOMAIN report.heatmap)
    <3>1. Coverage(detections)[v] = Total(Heatmap(detections), v, DOMAIN Heatmap(detections))
      BY <2>1, HeatmapCounts
    <3>2. report.coverage[v] = Total(report.heatmap, v, DOMAIN report.heatmap)
      BY <2>2, <3>1
    <3> QED BY <3>2, Zenon DEF Total
  <2> HIDE DEF index
  <2>7. \A k \in DOMAIN report.index :
          /\ \A i \in DOMAIN detections : Key(detections[i]) = k => Rank(detections[i].verdict) <= Rank(report.index[k])
          /\ ~Covered(report.index[k]) => \E c \in {d \in report.candidates : RootOf[d.ref] = k[2]} : c.technique = k[1]
    BY <2>2, <2>4
  <2>8. \A t \in report.tickets : t.undetected => {d \in report.candidates : RootOf[d.ref] = RootOf[RefOf[t.of]]} # {}
    BY <2>2, <2>5
  <2> QED BY <2>6, <2>7, <2>8, Zenon DEF HandoffTellsGaps
<1> QED BY <1>1, <1>2, <1>3, PTL DEF Spec
-----------------------------------------------------------------------------
(* Risk (RiskFollowsDetection).                                            *)

Statuses == Verdicts \cup {"UNKNOWN"}

MaxRisk == 100 * Point

LEMMA NatTimes == \A m, n \in Nat : m * n \in Nat
OBVIOUS

LEMMA TimesOrders ==
  ASSUME NEW a \in Nat, NEW b \in Nat, NEW c \in Nat, NEW d \in Nat, a >= b, c >= d
  PROVE  a * c >= b * d
<1>1. PICK k \in Nat : a = b + k
  <2> a - b \in Nat /\ a = b + (a - b)
    OBVIOUS
  <2> QED OBVIOUS
<1>2. PICK l \in Nat : c = d + l
  <2> c - d \in Nat /\ c = d + (c - d)
    OBVIOUS
  <2> QED OBVIOUS
<1>3. (b + k) * (d + l) = b * d + (b * l + (k * d + k * l))
  OBVIOUS
<1>4. b * d \in Nat /\ b * l \in Nat /\ k * d \in Nat /\ k * l \in Nat
  BY NatTimes
<1>5. PICK x \in Nat, y \in Nat : x = b * d /\ y = b * l + (k * d + k * l)
  BY <1>4
<1> QED BY <1>1, <1>2, <1>3, <1>5

LEMMA ScoresTyped ==
  /\ \A s \in Severities, c \in Scores : Base(s, c) \in Nat
  /\ \A e \in Scores : Likelihood(e) \in Nat
<1>1. \A s \in Severities : SeverityBase[s] \in Nat
  BY DEF SeverityBase, Severities
<1> QED BY <1>1 DEF Base, Likelihood, Scores

LEMMA RiskOrders ==
  /\ MaxRisk \in Nat
  /\ \A s \in Severities, c, e \in Scores, d \in Statuses : Risk(s, c, e, d) \in 0 .. MaxRisk
  /\ \A s, t \in Severities, c, b \in Scores, e, f \in Scores, u, v \in Verdicts :
       Base(s, c) >= Base(t, b) /\ Likelihood(e) >= Likelihood(f) /\ Rank(u) < Rank(v)
       => Risk(s, c, e, u) >= Risk(t, b, f, v)
  /\ \A r \in 0 .. MaxRisk : Priority(r) \in {"high", "critical"} <=> r >= 60 * Point
<1>6. MaxRisk \in Nat
  BY DEF MaxRisk, Point
<1>2. /\ DetectionFactor("MISSED") = 140 /\ DetectionFactor("PARTIAL") = 115
      /\ DetectionFactor("DETECTED") = 80 /\ DetectionFactor("BLOCKED") = 60
      /\ DetectionFactor("UNKNOWN") = 100
  BY DEF DetectionFactor
<1>1. \A d \in Statuses : DetectionFactor(d) \in Nat
  BY <1>2 DEF Statuses, Verdicts
<1> DEFINE Raw(s, c, e, d) == Base(s, c) * Likelihood(e) * DetectionFactor(d)
<1>7. \A s \in Severities, c, e \in Scores, d \in Statuses :
        /\ Base(s, c) * Likelihood(e) \in Nat /\ Raw(s, c, e, d) \in Nat
        /\ Risk(s, c, e, d) = IF Raw(s, c, e, d) > MaxRisk THEN MaxRisk ELSE Raw(s, c, e, d)
  <2> TAKE s \in Severities, c, e \in Scores, d \in Statuses
  <2>1. Base(s, c) \in Nat /\ Likelihood(e) \in Nat
    BY ScoresTyped
  <2>2. DetectionFactor(d) \in Nat
    BY <1>1
  <2>3. Base(s, c) * Likelihood(e) \in Nat
    BY <2>1, NatTimes
  <2>4. Raw(s, c, e, d) \in Nat
    BY <2>2, <2>3, NatTimes
  <2>5. Risk(s, c, e, d) = IF Raw(s, c, e, d) > MaxRisk THEN MaxRisk ELSE Raw(s, c, e, d)
    BY DEF Risk, MaxRisk
  <2> QED BY <2>3, <2>4, <2>5
<1>3. ASSUME NEW s \in Severities, NEW c \in Scores, NEW e \in Scores, NEW d \in Statuses
      PROVE  Risk(s, c, e, d) \in 0 .. MaxRisk
  <2> HIDE DEF Raw
  <2>1. PICK raw \in Nat : raw = Raw(s, c, e, d)
    BY <1>7
  <2>2. Risk(s, c, e, d) = IF raw > MaxRisk THEN MaxRisk ELSE raw
    BY <1>7, <2>1
  <2> QED BY <2>2, <1>6
<1>4. ASSUME NEW s \in Severities, NEW t \in Severities, NEW c \in Scores, NEW b \in Scores,
             NEW e \in Scores, NEW f \in Scores, NEW u \in Verdicts, NEW v \in Verdicts,
             Base(s, c) >= Base(t, b), Likelihood(e) >= Likelihood(f), Rank(u) < Rank(v)
      PROVE  Risk(s, c, e, u) >= Risk(t, b, f, v)
  <2>1. /\ DetectionFactor(u) \in Nat /\ DetectionFactor(v) \in Nat
        /\ DetectionFactor(u) >= DetectionFactor(v)
    BY <1>2, <1>4, RankOrders DEF Verdicts
  <2>2. u \in Statuses /\ v \in Statuses
    BY DEF Statuses
  <2>3. /\ Base(s, c) \in Nat /\ Likelihood(e) \in Nat /\ Base(t, b) \in Nat /\ Likelihood(f) \in Nat
        /\ Base(s, c) * Likelihood(e) \in Nat /\ Base(t, b) * Likelihood(f) \in Nat
    BY ScoresTyped, NatTimes
  <2>4. Base(s, c) * Likelihood(e) >= Base(t, b) * Likelihood(f)
    BY <2>3, <1>4, TimesOrders
  <2>5. Raw(s, c, e, u) >= Raw(t, b, f, v)
    BY <2>1, <2>3, <2>4, TimesOrders
  <2> HIDE DEF Raw
  <2>6. PICK r1 \in Nat, r2 \in Nat : r1 = Raw(s, c, e, u) /\ r2 = Raw(t, b, f, v)
    BY <1>7, <2>2
  <2>7. /\ Risk(s, c, e, u) = IF r1 > MaxRisk THEN MaxRisk ELSE r1
        /\ Risk(t, b, f, v) = IF r2 > MaxRisk THEN MaxRisk ELSE r2
    BY <1>7, <2>2, <2>6
  <2> QED BY <2>5, <2>6, <2>7, <1>6
<1>5. ASSUME NEW r \in 0 .. MaxRisk PROVE Priority(r) \in {"high", "critical"} <=> r >= 60 * Point
  <2>1. r \in Int
    BY <1>6
  <2>2. PICK p \in Nat : p = Point
    BY DEF Point
  <2> QED BY <2>1, <2>2 DEF Priority
<1> QED BY <1>3, <1>4, <1>5, <1>6

\* The best of a finding's scores is one of them: they are finitely many.
LEMMA HighestTyped ==
  ASSUME NEW S \in SUBSET Scores, IsFiniteSet(S)
  PROVE  Highest(S) \in Scores
<1> DEFINE known == S \ {NoScore}
           Bounded == {s \in SUBSET known : \E n \in Nat : s \subseteq 0 .. n}
<1>1. known \in SUBSET Nat /\ IsFiniteSet(known)
  BY FS_Subset DEF Scores
<1>2. known \in Bounded
  <2>1. {} \in Bounded
    <3> {} \subseteq 0 .. 0 /\ 0 \in Nat
      OBVIOUS
    <3> QED OBVIOUS
  <2>2. ASSUME NEW s \in SUBSET known, s # {}, s \ {Chosen(s)} \in Bounded PROVE s \in Bounded
    <3> DEFINE x == Chosen(s)
    <3>1. PICK n \in Nat : s \ {x} \subseteq 0 .. n
      BY <2>2
    <3>2. x \in Nat
      BY <1>1, <2>2 DEF Chosen
    <3> HIDE DEF x
    <3>3. n + x \in Nat /\ s \subseteq 0 .. (n + x)
      BY <3>1, <3>2, <1>1
    <3> QED BY <3>3
  <2> HIDE DEF Bounded, known
  <2> QED BY <1>1, <2>1, <2>2, FoldInduction DEF Chosen
<1>3. CASE known = {}
  BY <1>3 DEF Highest, Scores
<1>4. CASE known # {}
  <2>1. PICK n \in Nat : known \in SUBSET (0 .. n)
    BY <1>2
  <2>2. Highest(S) = Max(known)
    BY <1>4 DEF Highest
  <2> HIDE DEF known
  <2>3. Max(known) \in known
    BY <1>4, <2>1, GreatestNumber
  <2> QED BY <1>1, <2>2, <2>3 DEF Scores
<1> QED BY <1>3, <1>4

LEMMA BestTyped ==
  ASSUME NEW row \in Rows
  PROVE  BestCvss(row) \in Scores /\ BestEpss(row) \in Scores
<1> DEFINE C == row.cves \cap DOMAIN Mirror
           own == {row.cvss}
           cvsses == {Mirror[c].cvss : c \in C}
           epsses == {Mirror[c].epss : c \in C}
<1>1. IsFiniteSet(C) /\ C \subseteq DOMAIN Mirror
  BY LedgerAssumption, FS_Subset
<1> HIDE DEF C
<1>2. IsFiniteSet(cvsses) /\ IsFiniteSet(epsses)
  <2> DEFINE f == [c \in C |-> Mirror[c].cvss]
             g == [c \in C |-> Mirror[c].epss]
  <2>1. cvsses = {f[c] : c \in C} /\ epsses = {g[c] : c \in C}
    OBVIOUS
  <2>2. DOMAIN f = C /\ DOMAIN g = C
    OBVIOUS
  <2> HIDE DEF f, g, cvsses, epsses
  <2>3. IsFiniteSet(cvsses)
    BY <1>1, <2>1, <2>2, ImageFinite
  <2>4. IsFiniteSet(epsses)
    BY <1>1, <2>1, <2>2, ImageFinite
  <2> QED BY <2>3, <2>4
<1>3. cvsses \in SUBSET Scores /\ epsses \in SUBSET Scores /\ own \in SUBSET Scores
  BY <1>1, LedgerAssumption DEF Rows
<1>4. IsFiniteSet(own)
  BY FS_Singleton
<1> HIDE DEF cvsses, epsses, own
<1>5. IsFiniteSet(own \cup cvsses)
  BY <1>2, <1>4, FS_Union
<1>6. Highest(own \cup cvsses) \in Scores /\ Highest(epsses) \in Scores
  BY <1>2, <1>3, <1>5, HighestTyped
<1> QED BY <1>6 DEF BestCvss, BestEpss, own, cvsses, epsses, C

\* The paths are over every finding, and the worst of them is as bad as the worst finding.
LEMMA PathsCover ==
  ASSUME NEW D, NEW risk \in [D -> 0 .. MaxRisk]
  PROVE  /\ UNION {p.steps : p \in AttackPaths(risk)} = D
         /\ Max({0} \cup {p.risk : p \in AttackPaths(risk)}) =
              IF D = {} THEN 0 ELSE Max({risk[w] : w \in D})
<1> DEFINE Host(w) == RootOf[RefOf[w]]
           On(r) == {w \in D : Host(w) = r}
           Risks(r) == {risk[w] : w \in On(r)}
           Path(r) == [root |-> r, steps |-> On(r), risk |-> Max(Risks(r))]
           paths0 == AttackPaths(risk)
           tops == {0} \cup {p.risk : p \in paths0}
           all == {risk[w] : w \in D}
<1>1. paths0 = {Path(r) : r \in {Host(w) : w \in D}}
  BY DEF AttackPaths
<1>0. \A w \in D : Path(Host(w)).risk = Max(Risks(Host(w))) /\ Path(Host(w)).steps = On(Host(w))
  OBVIOUS
<1> HIDE DEF paths0, Path, Host
<1>2. \A w \in D : Path(Host(w)) \in paths0
  BY <1>1
<1>3. ASSUME NEW p \in paths0 PROVE \E w \in D : p = Path(Host(w))
  BY <1>1
<1>11. MaxRisk \in Nat
  BY RiskOrders
<1>4. UNION {p.steps : p \in paths0} = D
  <2>2. \A w \in D : w \in On(Host(w)) /\ On(Host(w)) \subseteq D
    OBVIOUS
  <2> HIDE DEF On
  <2>3. \A w \in D : \E p \in paths0 : w \in p.steps
    BY <1>0, <1>2, <2>2
  <2>4. \A p \in paths0 : p.steps \subseteq D
    BY ZenonT(40), <1>0, <1>3, <2>2
  <2> QED BY <2>3, <2>4
<1>5. ASSUME NEW w \in D
      PROVE  /\ Path(Host(w)).risk \in all /\ risk[w] <= Path(Host(w)).risk
  <2>1. Risks(Host(w)) \in SUBSET (0 .. MaxRisk) /\ risk[w] \in Risks(Host(w)) /\ Risks(Host(w)) \subseteq all
    OBVIOUS
  <2>2. Path(Host(w)).risk = Max(Risks(Host(w)))
    BY <1>0
  <2> HIDE DEF Risks, all
  <2>3. Max(Risks(Host(w))) \in Risks(Host(w)) /\ \A k \in Risks(Host(w)) : k <= Max(Risks(Host(w)))
    BY <2>1, <1>11, GreatestNumber
  <2> QED BY <2>1, <2>2, <2>3
<1>6. all \in SUBSET (0 .. MaxRisk) /\ \A w \in D : risk[w] \in all
  OBVIOUS
<1>7. \A x \in all : \E w \in D : x = risk[w]
  OBVIOUS
<1>12. \A x \in all : x \in Nat
  <2> HIDE DEF all
  <2> QED BY <1>6, <1>11
<1> HIDE DEF all
<1>8. tops \in SUBSET (0 .. MaxRisk) /\ 0 \in tops
  <2>1. \A p \in paths0 : p.risk \in 0 .. MaxRisk
    BY <1>3, <1>5, <1>6
  <2>2. 0 \in 0 .. MaxRisk
    BY <1>11
  <2> QED BY <2>1, <2>2
<1>9. CASE D = {}
  <2>1. tops = {0}
    BY <1>3, <1>9
  <2> HIDE DEF tops
  <2>2. Max(tops) = 0
    BY <1>8, <2>1, <1>11, GreatestNumber
  <2> QED BY <2>2, <1>4, <1>9 DEF tops, paths0
<1>10. CASE D # {}
  <2>1. all # {}
    BY <1>6, <1>10
  <2>2. Max(all) \in all /\ \A k \in all : k <= Max(all)
    BY <1>6, <2>1, <1>11, GreatestNumber
  <2>3. PICK w \in D : Max(all) = risk[w]
    BY <2>2, <1>7
  <2>4. Path(Host(w)).risk \in all /\ risk[w] <= Path(Host(w)).risk
    BY <1>5
  <2>5. Max(all) = Path(Host(w)).risk
    <3>1. Path(Host(w)).risk <= risk[w]
      BY <2>2, <2>3, <2>4
    <3>2. Path(Host(w)).risk \in Int /\ risk[w] \in Int
      <4>1. Path(Host(w)).risk \in all /\ risk[w] \in all
        BY <2>4, <1>6, Zenon
      <4>2. Path(Host(w)).risk \in Nat /\ risk[w] \in Nat
        BY <4>1, <1>12, Zenon
      <4> QED BY <4>2
    <3> QED BY <3>1, <3>2, <2>3, <2>4
  <2>6. Max(all) \in tops
    BY <1>2, <2>5
  <2>7. \A k \in tops : k <= Max(all)
    <3>1. \A p \in paths0 : p.risk <= Max(all)
      BY <1>3, <1>5, <2>2
    <3>2. 0 <= Max(all)
      BY <1>12, <2>2
    <3> QED BY <3>1, <3>2
  <2> HIDE DEF tops
  <2>8. Max(tops) = Max(all)
    BY <1>8, <2>6, <2>7, <1>11, GreatestNumber
  <2> QED BY <2>8, <1>4, <1>10 DEF tops, paths0, all
<1> QED BY <1>9, <1>10

Checked(w) ==
  \E i \in DOMAIN detections : /\ detections[i].action = "validate"
                               /\ RootOf[detections[i].ref] = RootOf[RefOf[w]]

ScoredRisk == RiskOf(scored)

\* Once the findings are correlated no finding comes any more and only the validation
\* is observed, so a score is still that of its root's verdict unless the root was checked.
RiskInv ==
  /\ did = {} => node = "planner" /\ DOMAIN inventory = {}
  /\ did # {} => setup.mode = "white_box" \/ "recon" \in did \/ spent >= setup.budget
  /\ node \in {"correlate", "validate", "approval_gate"} => "correlate" \in did
  /\ node = "report" => DOMAIN ledger = {} \/ "correlate" \in did \/ spent >= setup.budget
  /\ "correlate" \in did =>
       node \in {"correlate", "validate", "approval_gate", "report"} /\ DOMAIN ledger # {}
  /\ "correlate" \notin did => paths = {} /\ DOMAIN scored = {}
  /\ at = "observes" /\ node = "validate" => \A i \in DOMAIN todo : todo[i].action = "validate"
  /\ "correlate" \in did /\ ~(node = "correlate" /\ at = "works") =>
       /\ DOMAIN scored = DOMAIN ledger
       /\ \A w \in DOMAIN ledger :
            /\ scored[w].status \in Statuses
            /\ scored[w].cvss \in Scores /\ scored[w].epss \in Scores
            /\ Checked(w) \/ scored[w].status = DetectionOf(w)
       /\ paths = AttackPaths(ScoredRisk)

LEMMA DetectionTyped ==
  ASSUME TypeOK, NEW w
  PROVE  DetectionOf(w) \in Statuses
BY DEF TypeOK, DetectionOf, Statuses

\* The planner starts with recon where there is anything to find, if it may act at all.
LEMMA FirstDecision ==
  ASSUME DOMAIN inventory = {}, "recon" \notin did, setup.mode # "white_box",
         ~(spent >= setup.budget)
  PROVE  Decision = "recon"
BY DEF Decision

\* What is spent is never given back.
LEMMA SpentGrows ==
  ASSUME TypeOK, [Next]_vars
  PROVE  setup' = setup /\ (spent >= setup.budget => spent' >= setup.budget)
<1> USE DEF merged, seen, output, world
<1>1. spent \in Nat /\ flow.allowed \in Nat /\ setup.budget \in Nat
  BY SetupTyped DEF TypeOK
<1>2. CASE Planner \/ Resume \/ Deny
  BY <1>2 DEF Planner, Resume, Deny, Enter
<1>3. ASSUME NEW allowed \in BOOLEAN, NEW out, ToolCall(allowed, out)
      PROVE  setup' = setup /\ (spent' = spent \/ spent' = spent + 1)
  BY <1>3 DEF ToolCall
<1>4. CASE ReconEnds \/ ScanEnds
  <2>1. setup' = setup /\ spent' = spent + flow.allowed
    BY <1>4 DEF ReconEnds, ScanEnds
  <2> QED BY <1>1, <2>1
<1>5. CASE ObserveNext \/ Correlate \/ Report \/ Tick \/ UNCHANGED vars
  BY <1>5 DEF ObserveNext, Correlate, Report, Tick, vars
<1>6. CASE \E e \in Events : Log(e)
  BY <1>6 DEF Log
<1> QED BY <1>1, <1>2, <1>3, <1>4, <1>5, <1>6 DEF Next

LEMMA RiskInit == Init => RiskInv
BY DEF Init, RiskInv, Empty

LEMMA RiskStep == TypeOK /\ RiskInv /\ [Next]_vars => RiskInv'
<1> SUFFICES ASSUME TypeOK, RiskInv, [Next]_vars PROVE RiskInv'
  OBVIOUS
<1> USE DEF merged, seen, output, world
<1> DEFINE Scored == /\ DOMAIN scored = DOMAIN ledger
                     /\ \A w \in DOMAIN ledger :
                          /\ scored[w].status \in Statuses
                          /\ scored[w].cvss \in Scores /\ scored[w].epss \in Scores
                          /\ Checked(w) \/ scored[w].status = DetectionOf(w)
                     /\ paths = AttackPaths(ScoredRisk)
<1>1. ASSUME UNCHANGED <<ledger, detections, status, scored, paths>> PROVE Scored' <=> Scored
  BY <1>1 DEF Checked, DetectionOf, ScoredRisk, RiskOf
<1>11. setup' = setup /\ (spent >= setup.budget => spent' >= setup.budget)
  BY SpentGrows
<1>2. CASE Planner
  <2>1. /\ node' = Decision /\ at = "left" /\ at' = "works" /\ did' = did \cup {Decision} /\ ~Done
        /\ UNCHANGED <<setup, todo, inventory, ledger, spent, detections, status, scored, paths>>
    BY <1>2 DEF Planner, Enter
  <2>2. Scored' <=> Scored
    BY <2>1, <1>1
  <2> HIDE DEF Scored
  <2>3. /\ "correlate" \in did => /\ node \in {"correlate", "validate", "approval_gate", "report"}
                                  /\ DOMAIN ledger # {} /\ Scored
        /\ did = {} => DOMAIN inventory = {}
        /\ did # {} => setup.mode = "white_box" \/ "recon" \in did \/ spent >= setup.budget
        /\ "correlate" \notin did => paths = {} /\ DOMAIN scored = {}
    BY <2>1 DEF RiskInv, Scored
  <2>4. did' # {} /\ (setup'.mode = "white_box" \/ "recon" \in did' \/ spent' >= setup'.budget)
    BY <2>1, <2>3, FirstDecision
  <2>10. spent >= setup.budget => Decision = "report"
    BY DEF Decision
  <2>5. "correlate" \in did => Decision \in {"validate", "report"}
    BY <2>3, <2>10, DecisionRight
  <2>6. "correlate" \notin did => Decision = "correlate" \/ "correlate" \notin did'
    BY <2>1
  <2>7. /\ Decision \in {"recon", "scan", "correlate", "validate", "report"}
        /\ Decision = "correlate" => DOMAIN ledger # {} /\ "correlate" \notin did
        /\ Decision = "validate" => "correlate" \in did
        /\ Decision = "report" => DOMAIN ledger = {} \/ "correlate" \in did \/ spent >= setup.budget
    BY DecisionRight
  <2> HIDE DEF Decision
  <2>8. /\ node' \in {"correlate", "validate", "approval_gate"} => "correlate" \in did'
        /\ node' = "report" => DOMAIN ledger' = {} \/ "correlate" \in did' \/ spent' >= setup'.budget
        /\ "correlate" \in did' => node' \in {"correlate", "validate", "approval_gate", "report"} /\ DOMAIN ledger' # {}
        /\ "correlate" \notin did' => paths' = {} /\ DOMAIN scored' = {}
    BY <2>1, <2>3, <2>5, <2>6, <2>7
  <2>9. "correlate" \in did' /\ ~(node' = "correlate" /\ at' = "works") => Scored'
    BY <2>1, <2>2, <2>3, <2>7
  <2> QED BY <2>1, <2>4, <2>8, <2>9 DEF RiskInv, Scored
<1>3. CASE Resume
  <2>1. /\ at = "left" /\ node \in {"recon", "scan", "correlate", "validate"} /\ node' = node
        /\ at' \in {"left", "works"} /\ (at' = "works" => node # "validate")
        /\ UNCHANGED <<setup, did, inventory, ledger, detections, status, scored, paths>>
    BY <1>3 DEF Resume, Enter
  <2>2. Scored' <=> Scored
    BY <2>1, <1>1
  <2>3. "correlate" \in did /\ ~(node = "correlate" /\ at = "works") => Scored
    BY DEF RiskInv
  <2>4. "correlate" \in did' /\ ~(node' = "correlate" /\ at' = "works") => Scored'
    <3> HIDE DEF Scored
    <3> QED BY <2>1, <2>2, <2>3
  <2> QED BY <2>1, <2>4, <1>11 DEF RiskInv
<1>4. CASE Deny
  <2>1. /\ node = "validate" /\ node' = "approval_gate" /\ at' = "left"
        /\ UNCHANGED <<setup, did, inventory, ledger, detections, status, scored, paths>>
    BY <1>4 DEF Deny
  <2>2. Scored' <=> Scored
    BY <2>1, <1>1
  <2>3. "correlate" \in did /\ Scored
    BY <2>1 DEF RiskInv
  <2>4. Scored'
    <3> HIDE DEF Scored
    <3> QED BY <2>2, <2>3
  <2> QED BY <2>1, <2>4, <1>11 DEF RiskInv
<1>5. ASSUME calls # <<>>, NEW allowed \in BOOLEAN, NEW out \in Outputs[Head(calls).tool], ToolCall(allowed, out)
      PROVE  RiskInv'
  <2>1. /\ at = "works" /\ node \in {"recon", "scan", "validate"}
        /\ UNCHANGED <<setup, node, did, inventory, ledger, detections, status, scored, paths>>
    BY <1>5, CallTyped DEF ToolCall
  <2>2. Scored' <=> Scored
    BY <2>1, <1>1
  <2>3. at' = "observes" => \A i \in DOMAIN todo' : todo'[i].action = "validate"
    <3>1. CASE node = "validate"
      <4> DEFINE o == [action |-> "validate", technique |-> "xss", ref |-> Head(calls).target]
      <4>1. (todo' = <<o>> \/ todo' = <<>>) /\ o.action = "validate"
        BY <1>5, <3>1 DEF ToolCall
      <4> HIDE DEF o
      <4> QED BY <4>1
    <3>2. CASE node # "validate"
      BY <1>5, <3>2 DEF ToolCall
    <3> QED BY <3>1, <3>2
  <2>4. "correlate" \in did => Scored
    BY <2>1 DEF RiskInv
  <2>5. "correlate" \in did' => Scored'
    <3> HIDE DEF Scored
    <3> QED BY <2>1, <2>2, <2>4
  <2> QED BY <2>1, <2>3, <2>5, <1>11 DEF RiskInv
<1>6. CASE ReconEnds
  <2>1. /\ node = "recon" /\ node' = node /\ UNCHANGED <<setup, did, ledger, scored, paths>>
    BY <1>6 DEF ReconEnds
  <2>2. "correlate" \notin did /\ did # {}
    BY <2>1 DEF RiskInv
  <2> QED BY <2>1, <2>2, <1>11 DEF RiskInv
<1>7. CASE ScanEnds
  <2>1. /\ node = "scan" /\ node' = node /\ UNCHANGED <<setup, did, inventory, scored, paths>>
    BY <1>7 DEF ScanEnds
  <2>2. "correlate" \notin did /\ did # {}
    BY <2>1 DEF RiskInv
  <2> QED BY <2>1, <2>2, <1>11 DEF RiskInv
<1>8. CASE ObserveNext
  <2>1. /\ at = "observes" /\ todo' = Tail(todo) /\ at' \in {"left", "observes"}
        /\ UNCHANGED <<setup, node, did, inventory, ledger, scored, paths>>
    BY <1>8 DEF ObserveNext
  <2>2. todo # <<>> /\ todo \in Seq(Observation) /\ node \in {"recon", "scan", "validate"}
    BY <2>1 DEF TypeOK
  <2>3. node = "validate" => Head(todo).action = "validate" /\ \A i \in DOMAIN todo' : todo'[i].action = "validate"
    <3>1. /\ Head(todo) = todo[1] /\ 1 \in DOMAIN todo
          /\ \A i \in DOMAIN Tail(todo) : i + 1 \in DOMAIN todo /\ Tail(todo)[i] = todo[i + 1]
      BY <2>2
    <3> QED BY <2>1, <3>1 DEF RiskInv
  <2>4. ASSUME "correlate" \in did PROVE Scored'
    <3>1. node = "validate" /\ Scored
      BY <2>1, <2>2, <2>4 DEF RiskInv
    <3>2. CASE UNCHANGED <<detections, status>>
      <4>1. Scored' <=> Scored
        BY <2>1, <3>2, <1>1
      <4> HIDE DEF Scored
      <4> QED BY <3>1, <4>1
    <3>3. CASE ~UNCHANGED <<detections, status>>
      <4> DEFINE n == Len(detections)
      <4>1. /\ Observed.action = "validate" /\ detections' = Append(detections, Observed)
            /\ Len(detections') = n + 1 /\ Observed \in Detection
            /\ \A i \in 1 .. n : detections'[i] = detections[i]
            /\ detections'[n + 1] = Observed
            /\ status' = [r \in DOMAIN status \cup {RootOf[Observed.ref]} |->
                            IF r = RootOf[Observed.ref] THEN Observed.verdict ELSE status[r]]
        BY <3>1, <3>3, <2>3, DetectionsGrow
      <4>2. n \in Nat /\ DOMAIN detections = 1 .. n /\ DOMAIN detections' = 1 .. n + 1
        BY <4>1, AppendProperties DEF TypeOK
      <4> HIDE DEF n
      <4>3. ASSUME NEW w \in DOMAIN ledger
            PROVE  Checked(w)' \/ scored[w].status = DetectionOf(w)'
        <5>1. CASE Checked(w)
          <6>1. PICK i \in 1 .. n : detections[i].action = "validate" /\ RootOf[detections[i].ref] = RootOf[RefOf[w]]
            BY <5>1, <4>2 DEF Checked
          <6>2. i \in DOMAIN detections' /\ detections'[i] = detections[i]
            BY <4>1, <4>2
          <6> QED BY <6>1, <6>2 DEF Checked
        <5>2. CASE RootOf[RefOf[w]] = RootOf[Observed.ref]
          <6>1. n + 1 \in DOMAIN detections'
            BY <4>2
          <6> QED BY <4>1, <5>2, <6>1 DEF Checked
        <5>3. CASE ~Checked(w) /\ RootOf[RefOf[w]] # RootOf[Observed.ref]
          <6>1. DetectionOf(w)' = DetectionOf(w)
            BY <4>1, <5>3 DEF DetectionOf
          <6> QED BY <3>1, <5>3, <6>1
        <5> QED BY <5>1, <5>2, <5>3
      <4>4. ScoredRisk' = ScoredRisk
        BY <2>1 DEF ScoredRisk, RiskOf
      <4> QED BY <2>1, <3>1, <4>3, <4>4 DEF AttackPaths
    <3> QED BY <3>2, <3>3
  <2> QED BY <2>1, <2>2, <2>3, <2>4, <1>11 DEF RiskInv
<1>9. CASE Correlate
  <2>1. /\ node = "correlate" /\ at' = "left"
        /\ scored' = Enrich /\ paths' = AttackPaths(RiskOf(Enrich))
        /\ UNCHANGED <<setup, node, did, todo, inventory, ledger, detections, status>>
    BY <1>9 DEF Correlate
  <2>2. \A w : DetectionOf(w)' = DetectionOf(w)
    BY <2>1 DEF DetectionOf
  <2>3. ScoredRisk' = RiskOf(Enrich)
    BY <2>1 DEF ScoredRisk, RiskOf
  <2>5. \A w \in DOMAIN ledger : ledger[w] \in Rows
    BY DEF TypeOK, LedgerOK
  <2>6. ASSUME NEW w \in DOMAIN ledger
        PROVE  /\ scored'[w].status = DetectionOf(w) /\ scored'[w].status \in Statuses
               /\ scored'[w].cvss \in Scores /\ scored'[w].epss \in Scores
    BY <2>1, <2>5, DetectionTyped, BestTyped DEF Enrich
  <2>7. DOMAIN scored' = DOMAIN ledger'
    BY <2>1 DEF Enrich
  <2>8. paths' = AttackPaths(ScoredRisk)'
    BY <2>1, <2>3 DEF AttackPaths
  <2>4. Scored'
    BY <2>1, <2>2, <2>6, <2>7, <2>8
  <2> QED BY <2>1, <2>4, <1>11 DEF RiskInv
<1>10. ASSUME \/ Report \/ Tick \/ UNCHANGED vars \/ \E e \in Events : Log(e)
       PROVE  RiskInv'
  <2>1. /\ UNCHANGED <<setup, node, did, todo, inventory, ledger, detections, status, scored, paths>>
        /\ at' = at \/ (node = "report" /\ at' = "left")
    BY <1>10 DEF Report, Tick, vars, Log
  <2>2. Scored' <=> Scored
    BY <2>1, <1>1
  <2>3. "correlate" \in did /\ ~(node = "correlate" /\ at = "works") => Scored
    BY DEF RiskInv
  <2>4. "correlate" \in did' /\ ~(node' = "correlate" /\ at' = "works") => Scored'
    <3> HIDE DEF Scored
    <3> QED BY <2>1, <2>2, <2>3
  <2> QED BY <2>1, <2>4, <1>11 DEF RiskInv
<1> QED BY <1>2, <1>3, <1>4, <1>5, <1>6, <1>7, <1>8, <1>9, <1>10 DEF Next

\* The risk of a finding follows its detection: of two findings, the first of no lower base
\* score and EPSS, the first has no lower risk if it is detected worse, and gets a ticket if
\* the other does; the top risk and the steps of the attack paths are those of the report's
\* findings, or there are none because the budget was used up before they were correlated.
THEOREM RiskFollows == Spec => []RiskFollowsDetection
<1> DEFINE Inv == TypeOK /\ RiskInv /\ ReportBuilt
<1>1. Init => Inv
  BY TypeInit, RiskInit DEF Init, ReportBuilt, Done
<1>2. Inv /\ [Next]_vars => Inv'
  BY TypeStep, RiskStep, ReportStep
<1>3. Inv => RiskFollowsDetection
  <2> SUFFICES ASSUME TypeOK, RiskInv, Done, report = Bundle PROVE RiskFollowsDetection
    BY DEF ReportBuilt, RiskFollowsDetection
  <2> DEFINE rows == [w \in DOMAIN ledger |-> Row(w)]
             tickets == Tickets(rows)
  <2>1. /\ report.rows = rows /\ report.tickets = tickets
        /\ report.topRisk = IF rows = <<>> THEN 0 ELSE Max({rows[w].risk : w \in DOMAIN rows})
    BY DEF Bundle
  <2>2. "correlate" \notin did =>
          /\ DOMAIN ledger # {} => spent >= setup.budget
          /\ paths = {} /\ DOMAIN scored = {}
    BY DEF RiskInv, Done
  <2>3. "correlate" \in did =>
          /\ DOMAIN ledger # {} /\ DOMAIN scored = DOMAIN ledger
          /\ \A w \in DOMAIN ledger :
               /\ scored[w].status \in Statuses
               /\ scored[w].cvss \in Scores /\ scored[w].epss \in Scores
               /\ Checked(w) \/ scored[w].status = DetectionOf(w)
          /\ paths = AttackPaths(ScoredRisk)
    BY DEF RiskInv, Done
  <2>5. \A w \in DOMAIN ledger : ledger[w].severity \in Severities /\ ledger[w].cvss \in Scores
    BY DEF TypeOK, LedgerOK, Rows
  <2>6. ASSUME NEW w \in DOMAIN ledger
        PROVE  /\ rows[w].severity \in Severities
               /\ rows[w].risk \in 0 .. MaxRisk /\ rows[w].detection = DetectionOf(w)
               /\ rows[w].priority = Priority(rows[w].risk)
               /\ "correlate" \in did =>
                    /\ rows[w].cvss \in Scores /\ rows[w].epss \in Scores
                    /\ rows[w].risk = Risk(rows[w].severity, rows[w].cvss, rows[w].epss, scored[w].status)
                    /\ rows[w].risk = ScoredRisk[w]
               /\ "correlate" \notin did => rows[w].risk = 0
    <3>1. /\ rows[w].detection = DetectionOf(w) /\ rows[w].priority = Priority(rows[w].risk)
          /\ rows[w].severity = ledger[w].severity
      BY DEF Row
    <3>2. CASE "correlate" \in did
      <4>1. w \in DOMAIN scored
        BY <2>3, <3>2
      <4>2. /\ rows[w].cvss = scored[w].cvss /\ rows[w].epss = scored[w].epss
            /\ rows[w].risk = RiskOf(scored)[w]
        BY <4>1 DEF Row
      <4>3. RiskOf(scored)[w] = Risk(ledger[w].severity, scored[w].cvss, scored[w].epss, scored[w].status)
        BY <4>1 DEF RiskOf
      <4>4. /\ ledger[w].severity \in Severities /\ scored[w].status \in Statuses
            /\ scored[w].cvss \in Scores /\ scored[w].epss \in Scores
        BY <2>3, <2>5, <3>2
      <4>5. Risk(ledger[w].severity, scored[w].cvss, scored[w].epss, scored[w].status) \in 0 .. MaxRisk
        BY <4>4, RiskOrders
      <4> HIDE DEF rows
      <4> QED BY <3>1, <3>2, <4>2, <4>3, <4>4, <4>5 DEF ScoredRisk
    <3>3. CASE "correlate" \notin did
      <4>1. w \notin DOMAIN scored
        BY <2>2, <3>3
      <4>2. rows[w].risk = 0
        BY <4>1 DEF Row
      <4>3. 0 \in 0 .. MaxRisk
        BY RiskOrders
      <4> HIDE DEF rows
      <4> QED BY <2>5, <3>1, <3>3, <4>2, <4>3
    <3> QED BY <3>2, <3>3
  <2>7. DOMAIN rows = DOMAIN ledger
    OBVIOUS
  <2>8. /\ \A w \in DOMAIN ledger : rows[w].priority \in {"high", "critical"} =>
             \E t \in tickets : t.of = w
        /\ \A t \in tickets : t.of \in DOMAIN ledger /\ rows[t.of].priority \in {"high", "critical"}
    <3> DEFINE Pushed == {v \in DOMAIN rows : rows[v].priority \in {"high", "critical"}}
               T(w) == [of |-> w, undetected |-> rows[w].detection \in {"MISSED", "PARTIAL"}]
    <3>1. tickets = {T(w) : w \in Pushed}
      BY DEF Tickets
    <3>2. \A w : T(w).of = w
      OBVIOUS
    <3> HIDE DEF rows, T, tickets
    <3>3. \A w \in Pushed : T(w) \in tickets
      BY <3>1
    <3>4. \A t \in tickets : \E w \in Pushed : t = T(w)
      BY <3>1
    <3>5. \A w : w \in Pushed <=> w \in DOMAIN ledger /\ rows[w].priority \in {"high", "critical"}
      BY <2>7
    <3> HIDE DEF Pushed
    <3> QED BY <3>2, <3>3, <3>4, <3>5
  <2> HIDE DEF rows, tickets
  <2>9. ASSUME NEW v \in DOMAIN ledger, NEW w \in DOMAIN ledger, ~Checked(v), ~Checked(w),
               rows[v].detection \in Verdicts, rows[w].detection \in Verdicts,
               Base(rows[v].severity, rows[v].cvss) >= Base(rows[w].severity, rows[w].cvss),
               Likelihood(rows[v].epss) >= Likelihood(rows[w].epss),
               Rank(rows[v].detection) < Rank(rows[w].detection)
        PROVE  /\ rows[v].risk >= rows[w].risk
               /\ (\E t \in tickets : t.of = w) => \E t \in tickets : t.of = v
    <3>1. ASSUME "correlate" \in did PROVE rows[v].risk >= rows[w].risk
      <4>1. scored[v].status = rows[v].detection /\ scored[w].status = rows[w].detection
        BY <2>3, <2>6, <2>9, <3>1
      <4>2. /\ rows[v].severity \in Severities /\ rows[v].cvss \in Scores /\ rows[v].epss \in Scores
            /\ rows[w].severity \in Severities /\ rows[w].cvss \in Scores /\ rows[w].epss \in Scores
        BY <2>6, <3>1
      <4>3. Risk(rows[v].severity, rows[v].cvss, rows[v].epss, rows[v].detection) >=
              Risk(rows[w].severity, rows[w].cvss, rows[w].epss, rows[w].detection)
        BY <4>2, <2>9, RiskOrders
      <4> QED BY <4>1, <4>3, <2>6, <3>1
    <3>2. ASSUME "correlate" \notin did PROVE rows[v].risk >= rows[w].risk
      <4>1. rows[v].risk = 0 /\ rows[w].risk = 0
        BY <2>6, <3>2
      <4> QED BY <4>1
    <3>4. rows[v].risk >= rows[w].risk
      BY <3>1, <3>2
    <3>5. ASSUME NEW t \in tickets, t.of = w PROVE \E u \in tickets : u.of = v
      <4>1. Priority(rows[w].risk) \in {"high", "critical"}
        BY <2>6, <2>8, <3>5
      <4>2. rows[w].risk \in 0 .. MaxRisk /\ rows[v].risk \in 0 .. MaxRisk
        BY <2>6
      <4>3. rows[w].risk >= 60 * Point
        BY <4>1, <4>2, RiskOrders
      <4>6. PICK p \in Nat : p = Point
        BY DEF Point
      <4>4. rows[v].risk >= 60 * Point
        <5>1. rows[w].risk \in Int /\ rows[v].risk \in Int
          BY <4>2, RiskOrders
        <5> QED BY <5>1, <4>3, <4>6, <3>4
      <4>5. Priority(rows[v].risk) \in {"high", "critical"}
        BY <4>2, <4>4, RiskOrders
      <4> QED BY <4>5, <2>6, <2>8
    <3> QED BY <3>4, <3>5
  <2>10. report.topRisk = Max({0} \cup {p.risk : p \in paths})
    <3> DEFINE risks == {rows[w].risk : w \in DOMAIN rows}
    <3>0. Max({0}) = 0
      <4>1. {0} \in SUBSET (0 .. 0) /\ 0 \in {0}
        OBVIOUS
      <4>2. Max({0}) \in {0}
        BY <4>1, GreatestNumber
      <4> QED BY <4>2
    <3>1. CASE "correlate" \notin did
      <4>1. {0} \cup {p.risk : p \in paths} = {0}
        BY <2>2, <3>1
      <4>2. CASE rows = <<>>
        BY <2>1, <3>0, <4>1, <4>2
      <4>3. CASE rows # <<>>
        <5>1. DOMAIN ledger # {}
          <6> SUFFICES ASSUME DOMAIN ledger = {} PROVE rows = <<>>
            BY <4>3
          <6> QED BY DEF rows
        <5>2. risks = {0}
          BY <2>6, <2>7, <3>1, <5>1
        <5> QED BY <2>1, <3>0, <4>1, <4>3, <5>2
      <4> QED BY <4>2, <4>3
    <3>2. CASE "correlate" \in did
      <4>1. ScoredRisk \in [DOMAIN ledger -> 0 .. MaxRisk]
        <5>1. \A w \in DOMAIN ledger : ScoredRisk[w] \in 0 .. MaxRisk
          BY <2>6, <3>2
        <5>2. ScoredRisk = [w \in DOMAIN ledger |-> ScoredRisk[w]]
          BY <2>3, <3>2 DEF ScoredRisk, RiskOf
        <5> QED BY <5>1, <5>2
      <4>2. Max({0} \cup {p.risk : p \in paths}) = Max({ScoredRisk[w] : w \in DOMAIN ledger})
        BY <2>3, <3>2, <4>1, PathsCover
      <4>3. rows # <<>>
        BY <2>3, <2>7, <3>2
      <4>4. {ScoredRisk[w] : w \in DOMAIN ledger} = risks
        BY <2>6, <2>7, <3>2
      <4> QED BY <2>1, <4>2, <4>3, <4>4
    <3> QED BY <3>1, <3>2
  <2>11. \A v, w \in {u \in DOMAIN ledger : ~Checked(u) /\ report.rows[u].detection \in Verdicts} :
           /\ Base(report.rows[v].severity, report.rows[v].cvss)
                >= Base(report.rows[w].severity, report.rows[w].cvss)
           /\ Likelihood(report.rows[v].epss) >= Likelihood(report.rows[w].epss)
           /\ Rank(report.rows[v].detection) < Rank(report.rows[w].detection)
           => /\ report.rows[v].risk >= report.rows[w].risk
              /\ (\E t \in report.tickets : t.of = w) => \E t \in report.tickets : t.of = v
    BY <2>1, <2>9
  <2>12. CASE "correlate" \in did
    <3>1. ScoredRisk \in [DOMAIN ledger -> 0 .. MaxRisk]
      <4>1. \A w \in DOMAIN ledger : ScoredRisk[w] \in 0 .. MaxRisk
        BY <2>6, <2>12
      <4>2. ScoredRisk = [w \in DOMAIN ledger |-> ScoredRisk[w]]
        BY <2>3, <2>12 DEF ScoredRisk, RiskOf
      <4> QED BY <4>1, <4>2
    <3>2. UNION {p.steps : p \in paths} = DOMAIN ledger
      BY <2>3, <2>12, <3>1, PathsCover
    <3> QED BY <2>10, <2>11, <2>12, <3>2, Zenon DEF RiskFollowsDetection, Checked
  <2>13. CASE "correlate" \notin did
    <3>1. tickets = {}
      <4> SUFFICES ASSUME NEW t \in tickets PROVE FALSE
        OBVIOUS
      <4>1. t.of \in DOMAIN ledger /\ Priority(rows[t.of].risk) \in {"high", "critical"}
        BY <2>6, <2>8
      <4>2. rows[t.of].risk = 0 /\ 0 \in 0 .. MaxRisk
        BY <2>6, <2>13, <4>1, RiskOrders
      <4>3. 0 >= 60 * Point
        BY <4>1, <4>2, RiskOrders
      <4>4. PICK p \in Nat : p = Point /\ p > 0
        BY DEF Point
      <4> QED BY <4>3, <4>4
    <3>2. \A w \in DOMAIN ledger : report.rows[w].risk = 0
      BY <2>1, <2>6, <2>13
    <3> QED BY <2>1, <2>2, <2>10, <2>11, <2>13, <3>1, <3>2, Zenon DEF RiskFollowsDetection, Checked
  <2> QED BY <2>12, <2>13
<1> QED BY <1>1, <1>2, <1>3, PTL DEF Spec
-----------------------------------------------------------------------------
(* What the state holds of the tools' results (ResultsMerged).             *)

\* What a written call told and what it found, of the calls of some turns.
ResultOf(e) == Parse(e.call.tool, e.call.target, e.out)
ToldAt(w, i) ==
  {[turn |-> i, tool |-> w[i].call.tool, about |-> f.weakness, severity |-> f.severity] :
     f \in ResultOf(w[i]).findings}
KeptAt(w, i) == {[turn |-> i, asset |-> a] : a \in ResultOf(w[i]).assets}
Told(w, I) == UNION {ToldAt(w, i) : i \in I}
Kept(w, I) == UNION {KeptAt(w, i) : i \in I}

\* The state holds what was told up to some turn, and the flow of a node that works
\* what was told since, by the tools of that node.
FlowTells(m) ==
  /\ InventoryTells(flow.inventory, Kept(wrote, m + 1 .. Len(wrote)))
  /\ LedgerTells(flow.ledger, Told(wrote, m + 1 .. Len(wrote)))
  /\ AllSources(flow.ledger, Told(wrote, m + 1 .. Len(wrote)))
  /\ \A i \in m + 1 .. Len(wrote) : wrote[i].call.tool \in ToolsOf(node)
StateTells(m) ==
  /\ InventoryTells(inventory, Kept(wrote, 1 .. m))
  /\ LedgerTells(ledger, Told(wrote, 1 .. m))
  /\ resumed = 0 => AllSources(ledger, Told(wrote, 1 .. m))
Flowing == at = "works" /\ node \in {"recon", "scan"}
MergedInv ==
  /\ \A v \in validations : v.result = "confirmed" =>
       \E i \in 1 .. Len(wrote) : /\ wrote[i].call = [tool |-> v.tool, target |-> v.target]
                                  /\ ~wrote[i].out.timedOut /\ wrote[i].out.records # {}
  /\ resumed = 0 /\ node = "scan" /\ at = "works" => DOMAIN ledger = {}
  /\ \E m \in 0 .. Len(wrote) :
       StateTells(m) /\ IF Flowing THEN FlowTells(m) ELSE m = Len(wrote)

LEMMA EntryTells ==
  ASSUME NEW e \in Entry
  PROVE  /\ e.call.tool \in ReconTools \cup Scanners \cup Validators
         /\ e.call.tool \in Tools
         /\ ResultOf(e).findings \in SUBSET [weakness : Weaknesses, severity : Severities]
         /\ ResultOf(e).assets \in SUBSET Discoverable /\ IsFiniteSet(ResultOf(e).assets)
         /\ e.out.timedOut => ResultOf(e).findings = {} /\ ResultOf(e).assets = {}
         /\ e.call.tool \in ReconTools \cup Validators => ResultOf(e).findings = {}
         /\ e.call.tool \in Scanners \cup Validators => ResultOf(e).assets = {}
         /\ \A v \in ResultOf(e).validations : v.result = "confirmed" =>
              /\ e.call = [tool |-> v.tool, target |-> v.target]
              /\ ~e.out.timedOut /\ e.out.records # {}
<1>1. PICK t \in ReconTools \cup Scanners \cup Validators :
        e \in [call : [tool : {t}, target : Refs], out : Outputs[t]]
  BY DEF Entry
<1>2. /\ e.call = [tool |-> t, target |-> e.call.target] /\ e.call.tool = t
      /\ e.call.target \in Refs /\ e.out \in Outputs[t]
  BY <1>1
<1> DEFINE r == e.call.target
           p == Parse(t, r, e.out)
<1>3. ResultOf(e) = p
  BY <1>2 DEF ResultOf
<1>4. t \in Tools
  BY <1>1, ReportAssumption
<1>5. ReconTools \cap Scanners = {} /\ ReconTools \cap Validators = {} /\ Scanners \cap Validators = {}
  BY DEF ReconTools, Scanners, Validators
<1>6. CASE t \in ReconTools
  <2>1. /\ p.findings = {} /\ p.validations = {}
        /\ IsFiniteSet(p.assets) /\ p.assets \subseteq Discoverable
        /\ e.out.timedOut => p.assets = {}
    BY <1>2, <1>6, ParseRecon
  <2> HIDE DEF p
  <2> QED BY <1>2, <1>3, <1>4, <1>5, <1>6, <2>1
<1>7. CASE t \in Scanners
  <2>1. /\ p.assets = {} /\ p.validations = {}
        /\ p.findings \in SUBSET [weakness : Weaknesses, severity : Severities]
        /\ e.out.timedOut => p.findings = {}
    BY <1>2, <1>7, ParseScan
  <2> HIDE DEF p
  <2> QED BY <1>2, <1>3, <1>4, <1>5, <1>7, <2>1, FS_EmptySet
<1>8. CASE t \in Validators
  <2>1. /\ p.assets = {} /\ p.findings = {}
        /\ \A v \in p.validations :
             v.result = "confirmed" => /\ v.tool = t /\ v.target = r
                                       /\ ~e.out.timedOut /\ e.out.records # {}
    BY <1>2, <1>8, ParseValidate
  <2> HIDE DEF p
  <2> QED BY <1>2, <1>3, <1>4, <1>5, <1>8, <2>1, FS_EmptySet
<1> QED BY <1>1, <1>6, <1>7, <1>8

LEMMA TurnsTold ==
  ASSUME NEW w \in Seq(Entry), NEW i \in 1 .. Len(w)
  PROVE  /\ ToldAt(w, i) \in SUBSET Reports /\ KeptAt(w, i) \in SUBSET Tellings
         /\ \A t \in ToldAt(w, i) \cup KeptAt(w, i) : t.turn = i /\ ~w[i].out.timedOut
         /\ w[i].call.tool \in ReconTools \cup Validators => ToldAt(w, i) = {}
         /\ w[i].call.tool \in Scanners \cup Validators => KeptAt(w, i) = {}
<1>1. w[i] \in Entry /\ i \in Nat
  OBVIOUS
<1> DEFINE e == w[i]
<1>2. /\ e.call.tool \in Tools
      /\ ResultOf(e).findings \in SUBSET [weakness : Weaknesses, severity : Severities]
      /\ ResultOf(e).assets \in SUBSET Discoverable
      /\ e.out.timedOut => ResultOf(e).findings = {} /\ ResultOf(e).assets = {}
      /\ e.call.tool \in ReconTools \cup Validators => ResultOf(e).findings = {}
      /\ e.call.tool \in Scanners \cup Validators => ResultOf(e).assets = {}
  BY <1>1, EntryTells
<1>3. ASSUME NEW t \in ToldAt(w, i)
      PROVE  t \in Reports /\ t.turn = i /\ ResultOf(e).findings # {}
  <2>1. PICK f \in ResultOf(e).findings :
          t = [turn |-> i, tool |-> e.call.tool, about |-> f.weakness, severity |-> f.severity]
    BY DEF ToldAt
  <2>2. f.weakness \in Weaknesses /\ f.severity \in Severities
    BY <2>1, <1>2
  <2> QED BY <1>1, <1>2, <2>1, <2>2 DEF Reports
<1>4. ASSUME NEW t \in KeptAt(w, i)
      PROVE  t \in Tellings /\ t.turn = i /\ ResultOf(e).assets # {}
  <2>1. PICK a \in ResultOf(e).assets : t = [turn |-> i, asset |-> a]
    BY DEF KeptAt
  <2> QED BY <1>1, <1>2, <2>1 DEF Tellings
<1> QED BY <1>2, <1>3, <1>4

LEMMA RangesTold ==
  ASSUME NEW w \in Seq(Entry), NEW I \in SUBSET (1 .. Len(w))
  PROVE  /\ Told(w, I) \in SUBSET Reports /\ Kept(w, I) \in SUBSET Tellings
         /\ \A t \in Told(w, I) \cup Kept(w, I) : t.turn \in I /\ ~w[t.turn].out.timedOut
         /\ (\A i \in I : w[i].call.tool \in ReconTools \cup Validators) => Told(w, I) = {}
         /\ (\A i \in I : w[i].call.tool \in Scanners \cup Validators) => Kept(w, I) = {}
<1>1. \A i \in I : /\ ToldAt(w, i) \in SUBSET Reports /\ KeptAt(w, i) \in SUBSET Tellings
                   /\ \A t \in ToldAt(w, i) \cup KeptAt(w, i) : t.turn = i /\ ~w[i].out.timedOut
                   /\ w[i].call.tool \in ReconTools \cup Validators => ToldAt(w, i) = {}
                   /\ w[i].call.tool \in Scanners \cup Validators => KeptAt(w, i) = {}
  BY TurnsTold
<1>2. /\ \A t \in Told(w, I) : \E i \in I : t \in ToldAt(w, i)
      /\ \A t \in Kept(w, I) : \E i \in I : t \in KeptAt(w, i)
  BY DEF Told, Kept
<1>3. \A t \in Told(w, I) \cup Kept(w, I) : t.turn \in I /\ ~w[t.turn].out.timedOut
  BY <1>1, <1>2
<1>4. Told(w, I) \in SUBSET Reports /\ Kept(w, I) \in SUBSET Tellings
  BY <1>1, <1>2
<1>5. (\A i \in I : w[i].call.tool \in ReconTools \cup Validators) => Told(w, I) = {}
  BY <1>1, <1>2
<1>6. (\A i \in I : w[i].call.tool \in Scanners \cup Validators) => Kept(w, I) = {}
  BY <1>1, <1>2
<1> QED BY <1>3, <1>4, <1>5, <1>6

LEMMA RangesJoin ==
  ASSUME NEW w \in Seq(Entry), NEW m \in 0 .. Len(w)
  PROVE  LET A == 1 .. m
             B == m + 1 .. Len(w)
             C == 1 .. Len(w)
         IN  /\ A \in SUBSET C /\ B \in SUBSET C
             /\ Told(w, C) = Told(w, A) \cup Told(w, B) /\ Before(Told(w, A), Told(w, B))
             /\ Kept(w, C) = Kept(w, A) \cup Kept(w, B) /\ Before(Kept(w, A), Kept(w, B))
<1> DEFINE A == 1 .. m
           B == m + 1 .. Len(w)
           C == 1 .. Len(w)
<1>1. A \in SUBSET C /\ B \in SUBSET C /\ C = A \cup B
  OBVIOUS
<1>2. \A i \in A, j \in B : i <= j
  OBVIOUS
<1> HIDE DEF A, B, C
<1>3. /\ \A t \in Told(w, A) \cup Kept(w, A) : t.turn \in A
      /\ \A t \in Told(w, B) \cup Kept(w, B) : t.turn \in B
  BY <1>1, RangesTold DEF C
<1>4. Before(Told(w, A), Told(w, B)) /\ Before(Kept(w, A), Kept(w, B))
  BY <1>2, <1>3 DEF Before
<1>5. Told(w, C) = Told(w, A) \cup Told(w, B) /\ Kept(w, C) = Kept(w, A) \cup Kept(w, B)
  BY <1>1 DEF Told, Kept
<1> QED BY <1>1, <1>4, <1>5 DEF A, B, C

LEMMA RangesGrow ==
  ASSUME NEW w \in Seq(Entry), NEW e \in Entry, NEW m \in 0 .. Len(w)
  PROVE  LET v == Append(w, e)
             n == Len(w) + 1
         IN  /\ Told(v, 1 .. m) = Told(w, 1 .. m) /\ Kept(v, 1 .. m) = Kept(w, 1 .. m)
             /\ Told(v, m + 1 .. n) = Told(w, m + 1 .. Len(w)) \cup ToldAt(v, n)
             /\ Kept(v, m + 1 .. n) = Kept(w, m + 1 .. Len(w)) \cup KeptAt(v, n)
<1> DEFINE v == Append(w, e)
           n == Len(w) + 1
<1>1. \A i \in 1 .. Len(w) : v[i] = w[i]
  BY AppendProperties
<1>2. \A i \in 1 .. Len(w) : ToldAt(v, i) = ToldAt(w, i) /\ KeptAt(v, i) = KeptAt(w, i)
  BY <1>1 DEF ToldAt, KeptAt
<1>3. /\ 1 .. m \subseteq 1 .. Len(w) /\ m + 1 .. Len(w) \subseteq 1 .. Len(w)
      /\ m + 1 .. n = (m + 1 .. Len(w)) \cup {n}
  OBVIOUS
<1> HIDE DEF v, n
<1> DEFINE A == 1 .. m
           B == m + 1 .. Len(w)
           C == m + 1 .. n
<1>4. \A i \in A \cup B : ToldAt(v, i) = ToldAt(w, i) /\ KeptAt(v, i) = KeptAt(w, i)
  BY <1>2, <1>3
<1>5. C = B \cup {n}
  BY <1>3
<1> HIDE DEF A, B, C
<1>6. Told(v, A) = Told(w, A) /\ Kept(v, A) = Kept(w, A)
  BY <1>4 DEF Told, Kept
<1>7. Told(v, C) = Told(w, B) \cup ToldAt(v, n) /\ Kept(v, C) = Kept(w, B) \cup KeptAt(v, n)
  BY <1>4, <1>5 DEF Told, Kept
<1> QED BY <1>6, <1>7 DEF A, B, C, v, n

LEMMA NothingTold ==
  ASSUME NEW w
  PROVE  /\ \A I : I = {} => Told(w, I) = {} /\ Kept(w, I) = {}
         /\ InventoryTells(Empty, {}) /\ LedgerTells(EmptyLedger, {}) /\ AllSources(EmptyLedger, {})
         /\ InventoryTells(NoFlow.inventory, {})
         /\ LedgerTells(NoFlow.ledger, {}) /\ AllSources(NoFlow.ledger, {})
<1>1. \A I : I = {} => Told(w, I) = {} /\ Kept(w, I) = {}
  BY DEF Told, Kept
<1>2. InventoryTells(Empty, {}) /\ LedgerTells(EmptyLedger, {}) /\ AllSources(EmptyLedger, {})
  BY DEF InventoryTells, LedgerTells, AllSources, Empty, EmptyLedger
<1> QED BY <1>1, <1>2 DEF NoFlow

LEMMA MergedInit == Init => MergedInv
<1> SUFFICES ASSUME Init PROVE MergedInv
  OBVIOUS
<1>1. /\ inventory = Empty /\ ledger = EmptyLedger /\ validations = {} /\ wrote = <<>>
      /\ at = "left" /\ node = "planner"
  BY DEF Init
<1>2. Len(wrote) = 0 /\ 1 .. 0 = {}
  BY <1>1
<1>3. StateTells(0)
  BY <1>1, <1>2, NothingTold DEF StateTells
<1>4. 0 \in 0 .. Len(wrote) /\ ~Flowing
  BY <1>1, <1>2 DEF Flowing
<1> QED BY <1>1, <1>2, <1>3, <1>4 DEF MergedInv

\* What is done when no call is made and nothing is merged.
LEMMA MergedIdle ==
  ASSUME MergedInv, TypeOK,
         UNCHANGED <<inventory, ledger, wrote>>, resumed' = resumed \/ resumed' > 0,
         \A v \in validations' : v.result = "confirmed" => v \in validations,
         resumed' = 0 /\ node' = "scan" /\ at' = "works" => DOMAIN ledger = {},
         ~Flowing => (Flowing' => flow' = NoFlow),
         Flowing => Flowing' /\ UNCHANGED <<flow, node>>
  PROVE  MergedInv'
<1>1. PICK m \in 0 .. Len(wrote) : StateTells(m) /\ IF Flowing THEN FlowTells(m) ELSE m = Len(wrote)
  BY DEF MergedInv
<1>2. StateTells(m)'
  BY <1>1 DEF StateTells
<1>3. CASE Flowing
  <2>1. FlowTells(m)' /\ Flowing'
    BY <1>1, <1>3 DEF FlowTells
  <2> QED BY <1>1, <1>2, <2>1 DEF MergedInv
<1>4. CASE ~Flowing /\ Flowing'
  <2>1. m = Len(wrote) /\ flow' = NoFlow /\ wrote' = wrote /\ Len(wrote) \in Nat
    BY <1>1, <1>4 DEF TypeOK
  <2> DEFINE I == m + 1 .. Len(wrote)
  <2>2. I = {}
    BY <2>1
  <2>3. Told(wrote, I) = {} /\ Kept(wrote, I) = {}
    BY <2>2, NothingTold
  <2>4. InventoryTells(NoFlow.inventory, Kept(wrote, I)) /\ LedgerTells(NoFlow.ledger, Told(wrote, I))
        /\ AllSources(NoFlow.ledger, Told(wrote, I))
    BY <2>3, NothingTold
  <2>5. FlowTells(m)'
    BY <2>1, <2>2, <2>4 DEF FlowTells
  <2> QED BY <1>1, <1>2, <1>4, <2>5 DEF MergedInv
<1>5. CASE ~Flowing /\ ~Flowing'
  BY <1>1, <1>2, <1>5 DEF MergedInv
<1> QED BY <1>3, <1>4, <1>5

\* A call that is made: the flow of recon and scan takes what it told; a validator tells nothing.
LEMMA MergedCall ==
  ASSUME MergedInv, TypeOK, calls # <<>>, NEW out \in Outputs[Head(calls).tool], ToolCall(TRUE, out)
  PROVE  MergedInv'
<1> USE DEF merged, seen, output, world
<1> DEFINE c == Head(calls)
           e == [call |-> c, out |-> out]
           r == Parse(c.tool, c.target, out)
<1>0. PICK n \in Nat : n = Len(wrote)
  <2>1. wrote \in Seq(Entry)
    BY DEF TypeOK
  <2> QED BY <2>1
<1>1. /\ at = "works" /\ wrote' = Append(wrote, e)
      /\ flow' = [inventory |-> AddAssets(flow.inventory, r.assets),
                  ledger |-> AddAll(flow.ledger, c.tool, r.findings),
                  allowed |-> flow.allowed + 1]
      /\ validations' = validations \cup r.validations
      /\ UNCHANGED <<node, inventory, ledger, resumed>>
  BY DEF ToolCall
<1>2. /\ node \in {"recon", "scan", "validate"} /\ e \in Entry /\ c.tool \in ToolsOf(node) /\ c.tool \in Tools
      /\ r.assets \in SUBSET Discoverable /\ IsFiniteSet(r.assets)
      /\ r.findings \in SUBSET [weakness : Weaknesses, severity : Severities]
  BY CallTyped
<1>3. at' = IF node = "validate" THEN IF setup.oracle THEN "observes" ELSE "left" ELSE at
  BY DEF ToolCall
<1>4. e.call = c /\ e.out = out /\ ResultOf(e) = r
  BY DEF ResultOf
<1> HIDE DEF e, r, c
<1>5. /\ wrote \in Seq(Entry) /\ n \in Nat /\ wrote' \in Seq(Entry) /\ Len(wrote') = n + 1
      /\ wrote'[n + 1] = e /\ \A i \in 1 .. n : wrote'[i] = wrote[i]
  BY <1>0, <1>1, <1>2, AppendProperties DEF TypeOK
<1>6. PICK m \in 0 .. n : StateTells(m) /\ IF Flowing THEN FlowTells(m) ELSE m = n
  BY <1>0 DEF MergedInv
<1>7. /\ Told(wrote', 1 .. m) = Told(wrote, 1 .. m) /\ Kept(wrote', 1 .. m) = Kept(wrote, 1 .. m)
      /\ Told(wrote', m + 1 .. n + 1) = Told(wrote, m + 1 .. n) \cup ToldAt(wrote', n + 1)
      /\ Kept(wrote', m + 1 .. n + 1) = Kept(wrote, m + 1 .. n) \cup KeptAt(wrote', n + 1)
  BY <1>0, <1>1, <1>2, <1>5, RangesGrow
<1>8. StateTells(m)'
  BY <1>1, <1>6, <1>7 DEF StateTells
<1>9. \A v \in validations' : v.result = "confirmed" =>
        \E i \in 1 .. Len(wrote') : /\ wrote'[i].call = [tool |-> v.tool, target |-> v.target]
                                    /\ ~wrote'[i].out.timedOut /\ wrote'[i].out.records # {}
  <2> SUFFICES ASSUME NEW v \in validations', v.result = "confirmed"
               PROVE  \E i \in 1 .. n + 1 : /\ wrote'[i].call = [tool |-> v.tool, target |-> v.target]
                                            /\ ~wrote'[i].out.timedOut /\ wrote'[i].out.records # {}
    BY <1>5
  <2>1. CASE v \in validations
    <3>1. PICK i \in 1 .. n : /\ wrote[i].call = [tool |-> v.tool, target |-> v.target]
                              /\ ~wrote[i].out.timedOut /\ wrote[i].out.records # {}
      BY <1>0, <2>1 DEF MergedInv
    <3> QED BY <3>1, <1>5
  <2>2. CASE v \in r.validations
    <3>1. e.call = [tool |-> v.tool, target |-> v.target] /\ ~e.out.timedOut /\ e.out.records # {}
      BY <2>2, <1>2, <1>4, EntryTells
    <3>2. n + 1 \in 1 .. n + 1
      BY <1>5
    <3> QED BY <3>1, <3>2, <1>5
  <2> QED BY <2>1, <2>2, <1>1
<1>10. resumed' = 0 /\ node' = "scan" /\ at' = "works" => DOMAIN ledger' = {}
  BY <1>1 DEF MergedInv
<1>11. CASE node = "validate"
  <2>1. ~Flowing /\ ~Flowing' /\ m = n
    BY <1>1, <1>6, <1>11 DEF Flowing
  <2>2. e.call.tool \in Validators
    BY <1>2, <1>4, <1>11 DEF ToolsOf
  <2>3. ToldAt(wrote', n + 1) = {} /\ KeptAt(wrote', n + 1) = {}
    <3>1. n + 1 \in 1 .. Len(wrote') /\ wrote'[n + 1].call.tool \in Validators
      BY <1>5, <2>2
    <3> QED BY <3>1, <1>5, TurnsTold
  <2>4. Told(wrote', 1 .. n + 1) = Told(wrote', 1 .. n) /\ Kept(wrote', 1 .. n + 1) = Kept(wrote', 1 .. n)
    <3>1. 1 .. n + 1 = (1 .. n) \cup {n + 1}
      BY <1>5
    <3>2. \A I : /\ Told(wrote', I \cup {n + 1}) = Told(wrote', I) \cup ToldAt(wrote', n + 1)
                 /\ Kept(wrote', I \cup {n + 1}) = Kept(wrote', I) \cup KeptAt(wrote', n + 1)
      BY DEF Told, Kept
    <3> QED BY <3>1, <3>2, <2>3
  <2>5. StateTells(n + 1)'
    BY <1>8, <2>1, <2>4 DEF StateTells
  <2>6. n + 1 \in 0 .. Len(wrote') /\ n + 1 = Len(wrote')
    BY <1>5
  <2> QED BY <1>9, <1>10, <2>1, <2>5, <2>6 DEF MergedInv
<1>12. CASE node # "validate"
  <2>1. Flowing /\ Flowing' /\ FlowTells(m)
    BY <1>1, <1>2, <1>3, <1>6, <1>12 DEF Flowing
  <2> DEFINE K == Kept(wrote, m + 1 .. n)
             T == Told(wrote, m + 1 .. n)
  <2>2. /\ InventoryTells(flow.inventory, K) /\ LedgerTells(flow.ledger, T) /\ AllSources(flow.ledger, T)
        /\ \A i \in m + 1 .. n : wrote[i].call.tool \in ToolsOf(node)
    BY <1>0, <2>1 DEF FlowTells
  <2>3. /\ K \in SUBSET Tellings /\ T \in SUBSET Reports
        /\ \A t \in K \cup T : t.turn <= n + 1
    <3>1. m + 1 .. n \in SUBSET (1 .. Len(wrote))
      BY <1>0, <1>5
    <3>2. K \in SUBSET Tellings /\ T \in SUBSET Reports /\ \A t \in T \cup K : t.turn \in m + 1 .. n
      BY <3>1, <1>5, RangesTold
    <3> HIDE DEF K, T
    <3> QED BY <3>2, <1>5
  <2>4. KeptAt(wrote', n + 1) = {[turn |-> n + 1, asset |-> a] : a \in r.assets}
    BY <1>4, <1>5 DEF KeptAt
  <2>5. ToldAt(wrote', n + 1) = {[turn |-> n + 1, tool |-> c.tool, about |-> f.weakness,
                                  severity |-> f.severity] : f \in r.findings}
    BY <1>4, <1>5 DEF ToldAt
  <2>6. InventoryOK(flow.inventory) /\ LedgerOK(flow.ledger)
    BY DEF TypeOK
  <2> HIDE DEF K, T
  <2>7. n + 1 \in Nat
    BY <1>5
  <2>8. InventoryTells(AddAssets(flow.inventory, r.assets), K \cup KeptAt(wrote', n + 1))
    BY <1>2, <2>2, <2>3, <2>4, <2>6, <2>7, AddAssetsTells
  <2>9. /\ LedgerTells(AddAll(flow.ledger, c.tool, r.findings), T \cup ToldAt(wrote', n + 1))
        /\ AllSources(AddAll(flow.ledger, c.tool, r.findings), T \cup ToldAt(wrote', n + 1))
    <3>1. PICK i \in Nat : i = n + 1
      BY <2>7
    <3>2. (\A t \in T : t.turn <= i) /\ T \in SUBSET Reports
      BY <2>3, <3>1
    <3>3. PICK tool \in Tools, found \in SUBSET [weakness : Weaknesses, severity : Severities] :
            tool = c.tool /\ found = r.findings
      BY <1>2
    <3>7. PICK lg : lg = flow.ledger
      OBVIOUS
    <3>4. LedgerOK(lg) /\ LedgerTells(lg, T) /\ AllSources(lg, T)
      BY <2>2, <2>6, <3>7
    <3> DEFINE U == {[turn |-> i, tool |-> tool, about |-> f.weakness, severity |-> f.severity] :
                       f \in found}
    <3>5. /\ LedgerTells(AddAll(lg, tool, found), T \cup U)
          /\ AllSources(AddAll(lg, tool, found), T \cup U)
      BY <3>2, <3>4, AddAllTells
    <3>6. U = ToldAt(wrote', n + 1)
      BY <2>5, <3>1, <3>3
    <3> HIDE DEF U
    <3> QED BY <3>3, <3>5, <3>6, <3>7
  <2>10. \A i \in m + 1 .. n + 1 : wrote'[i].call.tool \in ToolsOf(node')
    <3>1. \A i \in m + 1 .. n + 1 : (i \in 1 .. n /\ i \in m + 1 .. n) \/ i = n + 1
      BY <1>5
    <3> QED BY <3>1, <1>1, <1>2, <1>4, <1>5, <2>2
  <2>11. FlowTells(m)'
    BY <1>1, <1>5, <1>7, <2>8, <2>9, <2>10 DEF FlowTells, K, T
  <2>12. m \in 0 .. Len(wrote')
    BY <1>5
  <2> QED BY <1>8, <1>9, <1>10, <2>1, <2>11, <2>12 DEF MergedInv
<1> QED BY <1>11, <1>12

\* When a flow ends, what it told joins what the state holds.
LEMMA MergedAll ==
  ASSUME MergedInv, TypeOK, Flowing
  PROVE  \E K1, K2 \in SUBSET Tellings : \E T1, T2 \in SUBSET Reports :
           /\ Kept(wrote, 1 .. Len(wrote)) = K1 \cup K2 /\ Before(K1, K2)
           /\ Told(wrote, 1 .. Len(wrote)) = T1 \cup T2 /\ Before(T1, T2)
           /\ InventoryTells(inventory, K1) /\ InventoryTells(flow.inventory, K2)
           /\ LedgerTells(ledger, T1) /\ LedgerTells(flow.ledger, T2)
           /\ resumed = 0 => AllSources(ledger, T1)
           /\ AllSources(flow.ledger, T2)
           /\ node = "recon" => T2 = {}
           /\ node = "scan" => K2 = {}
<1>1. PICK m \in 0 .. Len(wrote) : StateTells(m) /\ FlowTells(m)
  BY DEF MergedInv
<1>2. wrote \in Seq(Entry)
  BY DEF TypeOK
<1> DEFINE A == 1 .. m
           B == m + 1 .. Len(wrote)
           C == 1 .. Len(wrote)
<1>3. /\ A \in SUBSET C /\ B \in SUBSET C
      /\ Told(wrote, C) = Told(wrote, A) \cup Told(wrote, B) /\ Before(Told(wrote, A), Told(wrote, B))
      /\ Kept(wrote, C) = Kept(wrote, A) \cup Kept(wrote, B) /\ Before(Kept(wrote, A), Kept(wrote, B))
  BY <1>1, <1>2, RangesJoin
<1>4. /\ InventoryTells(inventory, Kept(wrote, A)) /\ InventoryTells(flow.inventory, Kept(wrote, B))
      /\ LedgerTells(ledger, Told(wrote, A)) /\ LedgerTells(flow.ledger, Told(wrote, B))
      /\ resumed = 0 => AllSources(ledger, Told(wrote, A))
      /\ AllSources(flow.ledger, Told(wrote, B))
      /\ \A i \in B : wrote[i].call.tool \in ToolsOf(node)
  BY <1>1 DEF StateTells, FlowTells
<1> HIDE DEF A, B
<1>5. /\ Kept(wrote, A) \in SUBSET Tellings /\ Kept(wrote, B) \in SUBSET Tellings
      /\ Told(wrote, A) \in SUBSET Reports /\ Told(wrote, B) \in SUBSET Reports
  BY <1>2, <1>3, RangesTold
<1>6. node = "recon" => Told(wrote, B) = {}
  <2> SUFFICES ASSUME node = "recon" PROVE Told(wrote, B) = {}
    OBVIOUS
  <2>1. \A i \in B : wrote[i].call.tool \in ReconTools \cup Validators
    BY <1>4 DEF ToolsOf
  <2> QED BY <1>2, <1>3, <2>1, RangesTold
<1>7. node = "scan" => Kept(wrote, B) = {}
  <2> SUFFICES ASSUME node = "scan" PROVE Kept(wrote, B) = {}
    OBVIOUS
  <2>1. \A i \in B : wrote[i].call.tool \in Scanners \cup Validators
    BY <1>4 DEF ToolsOf
  <2> QED BY <1>2, <1>3, <2>1, RangesTold
<1> HIDE DEF C
<1> QED BY <1>3, <1>4, <1>5, <1>6, <1>7 DEF C

LEMMA MergedEnds ==
  ASSUME MergedInv, TypeOK, ReconEnds \/ ScanEnds
  PROVE  MergedInv'
<1>1. /\ Flowing /\ UNCHANGED <<node, validations, resumed, wrote>> /\ at' \in {"left", "observes"}
      /\ node = "recon" \/ node = "scan"
  BY DEF ReconEnds, ScanEnds, Flowing, Observe, merged, seen, output, world
<1> DEFINE K == Kept(wrote, 1 .. Len(wrote))
           T == Told(wrote, 1 .. Len(wrote))
<1>2. PICK K1, K2 \in SUBSET Tellings : \E T1, T2 \in SUBSET Reports :
           /\ K = K1 \cup K2 /\ Before(K1, K2)
           /\ T = T1 \cup T2 /\ Before(T1, T2)
           /\ InventoryTells(inventory, K1) /\ InventoryTells(flow.inventory, K2)
           /\ LedgerTells(ledger, T1) /\ LedgerTells(flow.ledger, T2)
           /\ resumed = 0 => AllSources(ledger, T1)
           /\ AllSources(flow.ledger, T2)
           /\ node = "recon" => T2 = {}
           /\ node = "scan" => K2 = {}
  BY <1>1, MergedAll
<1>3. PICK T1, T2 \in SUBSET Reports :
           /\ K = K1 \cup K2 /\ Before(K1, K2)
           /\ T = T1 \cup T2 /\ Before(T1, T2)
           /\ InventoryTells(inventory, K1) /\ InventoryTells(flow.inventory, K2)
           /\ LedgerTells(ledger, T1) /\ LedgerTells(flow.ledger, T2)
           /\ resumed = 0 => AllSources(ledger, T1)
           /\ AllSources(flow.ledger, T2)
           /\ node = "recon" => T2 = {}
           /\ node = "scan" => K2 = {}
  BY <1>2
<1> HIDE DEF K, T
<1>4. InventoryOK(inventory) /\ InventoryOK(flow.inventory) /\ LedgerOK(ledger) /\ LedgerOK(flow.ledger)
  BY DEF TypeOK
<1>5. InventoryTells(inventory', K) /\ LedgerTells(ledger', T) /\ (resumed' = 0 => AllSources(ledger', T))
  <2>1. CASE ReconEnds
    <3>1. inventory' = AddInventory(inventory, flow.inventory) /\ ledger' = ledger /\ node = "recon"
      BY <2>1 DEF ReconEnds
    <3>2. InventoryTells(inventory', K1 \cup K2)
      BY <3>1, <1>3, InventoriesMerge
    <3>3. T = T1
      BY <3>1, <1>3
    <3> QED BY <3>1, <3>2, <3>3, <1>1, <1>3
  <2>2. CASE ScanEnds
    <3>1. inventory' = inventory /\ ledger' = AddRows(ledger, flow.ledger) /\ node = "scan" /\ at = "works"
      BY <2>2 DEF ScanEnds, merged, seen, output, world
    <3>2. LedgerTells(ledger', T1 \cup T2)
      BY <3>1, <1>3, <1>4, LedgersMerge
    <3>3. K = K1
      BY <3>1, <1>3
    <3>4. ASSUME resumed' = 0 PROVE AllSources(ledger', T)
      <4>1. DOMAIN ledger = {}
        BY <3>1, <3>4, <1>1 DEF MergedInv
      <4>2. T1 = {}
        <5>1. {t.about : t \in T1} = {}
          BY <4>1, <1>3 DEF LedgerTells
        <5> QED BY <5>1
      <4>3. T = T2
        BY <4>2, <1>3
      <4>4. DOMAIN ledger' = DOMAIN flow.ledger /\ \A w \in DOMAIN flow.ledger : ledger'[w] = flow.ledger[w]
        BY <3>1, <4>1 DEF AddRows
      <4> QED BY <4>3, <4>4, <1>3 DEF AllSources
    <3> QED BY <3>1, <3>2, <3>3, <3>4, <1>3
  <2> QED BY <2>1, <2>2
<1>6. PICK n \in Nat : n = Len(wrote)
  <2>1. wrote \in Seq(Entry)
    BY DEF TypeOK
  <2> QED BY <2>1
<1>7. StateTells(n)'
  BY <1>1, <1>5, <1>6 DEF StateTells, K, T
<1>8. ~Flowing' /\ n \in 0 .. Len(wrote') /\ n = Len(wrote')
  BY <1>1, <1>6 DEF Flowing
<1> QED BY <1>1, <1>7, <1>8 DEF MergedInv

LEMMA MergedStep == TypeOK /\ MergedInv /\ [Next]_vars => MergedInv'
<1> SUFFICES ASSUME TypeOK, MergedInv, [Next]_vars PROVE MergedInv'
  OBVIOUS
<1> USE DEF merged, seen, output, world
<1>1. CASE Planner
  <2>1. /\ at = "left" /\ node' = Decision /\ flow' = NoFlow
        /\ UNCHANGED <<inventory, ledger, validations, resumed, wrote>>
    BY <1>1 DEF Planner, Enter
  <2>2. node' = "scan" => DOMAIN ledger = {}
    BY <2>1, DecisionRight
  <2>3. ~Flowing
    BY <2>1 DEF Flowing
  <2> QED BY <2>1, <2>2, <2>3, MergedIdle
<1>2. CASE Resume
  <2>1. at = "left" /\ UNCHANGED <<inventory, ledger, wrote>> /\ resumed' > 0 /\ resumed' # 0
    BY <1>2 DEF Resume, Enter, TypeOK
  <2>2. \A v \in validations' : v.result = "confirmed" => v \in validations
    BY <1>2 DEF Resume, Enter
  <2>3. ~Flowing /\ (Flowing' => flow' = NoFlow)
    BY <1>2 DEF Resume, Enter, Flowing
  <2> QED BY <2>1, <2>2, <2>3, MergedIdle
<1>3. CASE Deny
  <2>1. /\ node = "validate" /\ at' = "left"
        /\ UNCHANGED <<inventory, ledger, validations, resumed, wrote>>
    BY <1>3 DEF Deny
  <2>2. ~Flowing /\ ~Flowing'
    BY <2>1 DEF Flowing
  <2> QED BY <2>1, <2>2, MergedIdle
<1>4. ASSUME calls # <<>>, NEW allowed \in BOOLEAN, NEW out \in Outputs[Head(calls).tool], ToolCall(allowed, out)
      PROVE  MergedInv'
  <2>1. CASE allowed
    BY <1>4, <2>1, MergedCall
  <2>2. CASE ~allowed
    <3>1. /\ at = "works" /\ UNCHANGED <<node, flow, inventory, ledger, validations, resumed, wrote>>
          /\ node # "validate" => at' = at
          /\ node = "validate" => at' \in {"observes", "left"}
      BY <1>4, <2>2 DEF ToolCall
    <3>2. Flowing' <=> Flowing
      BY <3>1 DEF Flowing
    <3>3. resumed' = 0 /\ node' = "scan" /\ at' = "works" => DOMAIN ledger = {}
      BY <3>1 DEF MergedInv
    <3> QED BY <3>1, <3>2, <3>3, MergedIdle
  <2> QED BY <2>1, <2>2
<1>5. CASE ReconEnds \/ ScanEnds
  BY <1>5, MergedEnds
<1>6. CASE ObserveNext \/ Correlate \/ Report
  <2>1. /\ UNCHANGED <<node, inventory, ledger, validations, resumed, wrote>>
        /\ at' \in {"left", "observes"} /\ ~Flowing
    BY <1>6 DEF ObserveNext, Correlate, Report, Flowing
  <2>2. ~Flowing'
    BY <2>1 DEF Flowing
  <2> QED BY <2>1, <2>2, MergedIdle
<1>7. CASE Tick \/ UNCHANGED vars \/ \E e \in Events : Log(e)
  <2>1. UNCHANGED <<node, at, flow, inventory, ledger, validations, resumed, wrote>>
    BY <1>7 DEF Tick, vars, Log
  <2>2. Flowing' <=> Flowing
    BY <2>1 DEF Flowing
  <2>3. resumed' = 0 /\ node' = "scan" /\ at' = "works" => DOMAIN ledger = {}
    BY <2>1 DEF MergedInv
  <2> QED BY <2>1, <2>2, <2>3, MergedIdle
<1> QED BY <1>1, <1>2, <1>3, <1>4, <1>5, <1>6, <1>7 DEF Next

\* What ResultsMerged says, of what was told.
Merged(T, K) ==
  /\ \A t \in T \cup K : ~wrote[t.turn].out.timedOut
  /\ DOMAIN ledger = {t.about : t \in T}
  /\ \A w \in DOMAIN ledger :
       /\ ledger[w].severity = Max({t.severity : t \in Of(T, w)})
       /\ \E t \in Of(T, w) : t.tool = ledger[w].first /\ \A u \in Of(T, w) : t.turn <= u.turn
       /\ ledger[w].cves = UNION {CvesOf[t.tool][w] : t \in Of(T, w)}
       /\ LET given == {t \in Of(T, w) : CvssOf[t.tool][w] # NoScore}
          IN  /\ (ledger[w].cvss = NoScore) = (given = {})
              /\ given # {} => \E t \in given : /\ ledger[w].cvss = CvssOf[t.tool][w]
                                                /\ \A u \in given : t.turn <= u.turn
       /\ ledger[w].sources \subseteq {t.tool : t \in Of(T, w)}
       /\ resumed = 0 => ledger[w].sources = {t.tool : t \in Of(T, w)}
  /\ DOMAIN inventory = {MergeKey(t.asset) : t \in K}
  /\ \A k \in DOMAIN inventory :
       LET named == {t \in At(K, k) : t.asset.service # None}
       IN  /\ (inventory[k].service = None) = (named = {})
           /\ named # {} => \E t \in named : /\ inventory[k].service = t.asset.service
                                             /\ \A u \in named : t.turn <= u.turn
           /\ \A t \in At(K, k) : \A n \in DOMAIN t.asset.tech :
                t.asset.tech[n].list => t.asset.tech[n].values \subseteq inventory[k].tech[n].values
  /\ \A v \in validations : v.result = "confirmed" =>
       \E i \in DOMAIN wrote : /\ wrote[i].call = [tool |-> v.tool, target |-> v.target]
                               /\ ~wrote[i].out.timedOut /\ wrote[i].out.records # {}

LEMMA WorstTold ==
  ASSUME NEW row, NEW T \in SUBSET Reports, RowTells(row, T)
  PROVE  row.severity = Max({t.severity : t \in T})
<1> DEFINE S == {t.severity : t \in T}
           top == 4
<1>1. S \in SUBSET (0 .. top) /\ top \in Nat
  BY DEF Reports, Severities
<1>2. row.severity \in S /\ \A s \in S : s <= row.severity
  BY DEF RowTells
<1> HIDE DEF S, top
<1>3. Max(S) = row.severity
  BY <1>1, <1>2, GreatestNumber
<1> QED BY <1>3 DEF S

LEMMA MergedTogether == ResultsMerged <=> (at = "left" => Merged(Told(wrote, DOMAIN wrote), Kept(wrote, DOMAIN wrote)))
BY Zenon DEF ResultsMerged, Merged, Told, Kept, ToldAt, KeptAt, ResultOf, Of, At

\* What the allowed calls told is what the state holds, whether the run was resumed in
\* between or not: every weakness with its highest severity, under the id of the tool that
\* told first, every asset with its first service and every value of its lists, and nothing
\* of a call that was cut off; and a validation is confirmed only by a proof.
THEOREM ResultsAreMerged == Spec => []ResultsMerged
<1> DEFINE Inv == TypeOK /\ MergedInv
<1>1. Init => Inv
  BY TypeInit, MergedInit
<1>2. Inv /\ [Next]_vars => Inv'
  BY TypeStep, MergedStep
<1>3. Inv => ResultsMerged
  <2> SUFFICES ASSUME TypeOK, MergedInv, at = "left"
               PROVE  Merged(Told(wrote, DOMAIN wrote), Kept(wrote, DOMAIN wrote))
    BY MergedTogether
  <2> DEFINE T == Told(wrote, DOMAIN wrote)
             K == Kept(wrote, DOMAIN wrote)
  <2>1. wrote \in Seq(Entry) /\ DOMAIN wrote = 1 .. Len(wrote)
    BY DEF TypeOK
  <2>2. /\ InventoryTells(inventory, K) /\ LedgerTells(ledger, T)
        /\ resumed = 0 => AllSources(ledger, T)
    <3>1. PICK m \in 0 .. Len(wrote) : StateTells(m) /\ m = Len(wrote)
      BY DEF MergedInv, Flowing
    <3> QED BY <3>1, <2>1 DEF StateTells
  <2>3. /\ T \in SUBSET Reports /\ K \in SUBSET Tellings
        /\ \A t \in T \cup K : ~wrote[t.turn].out.timedOut
    BY <2>1, RangesTold
  <2> HIDE DEF T, K
  <2>4. ASSUME NEW w \in DOMAIN ledger
        PROVE  /\ ledger[w].severity = Max({t.severity : t \in Of(T, w)})
               /\ \E t \in Of(T, w) : t.tool = ledger[w].first /\ \A u \in Of(T, w) : t.turn <= u.turn
               /\ ledger[w].cves = UNION {CvesOf[t.tool][w] : t \in Of(T, w)}
               /\ LET given == {t \in Of(T, w) : CvssOf[t.tool][w] # NoScore}
                  IN  /\ (ledger[w].cvss = NoScore) = (given = {})
                      /\ given # {} => \E t \in given : /\ ledger[w].cvss = CvssOf[t.tool][w]
                                                        /\ \A u \in given : t.turn <= u.turn
               /\ ledger[w].sources \subseteq {t.tool : t \in Of(T, w)}
               /\ resumed = 0 => ledger[w].sources = {t.tool : t \in Of(T, w)}
    <3>1. Of(T, w) \in SUBSET Reports
      BY <2>3 DEF Of
    <3>2. RowTells(ledger[w], Of(T, w))
      BY <2>2 DEF LedgerTells
    <3>3. ledger[w].severity = Max({t.severity : t \in Of(T, w)})
      BY <3>1, <3>2, WorstTold
    <3>4. \A t \in Of(T, w) : t.about = w
      BY DEF Of
    <3>5. ledger[w].cves = UNION {CvesOf[t.tool][w] : t \in Of(T, w)}
      <4>1. {CvesOf[t.tool][w] : t \in Of(T, w)} = {CvesOf[t.tool][t.about] : t \in Of(T, w)}
        BY <3>4
      <4> QED BY <3>2, <4>1 DEF RowTells
    <3>6. Scoring(Of(T, w)) = {t \in Of(T, w) : CvssOf[t.tool][w] # NoScore}
      BY <3>4 DEF Scoring
    <3>7. /\ (ledger[w].cvss = NoScore) = (Scoring(Of(T, w)) = {})
          /\ Scoring(Of(T, w)) # {} =>
               \E t \in Scoring(Of(T, w)) : /\ ledger[w].cvss = CvssOf[t.tool][w]
                                            /\ \A u \in Scoring(Of(T, w)) : t.turn <= u.turn
      BY <3>2, <3>4, <3>6 DEF RowTells, ScoreTells
    <3> QED BY <3>2, <3>3, <3>5, <3>6, <3>7, <2>2 DEF RowTells, ToolsIn, AllSources
  <2>5. ASSUME NEW k \in DOMAIN inventory
        PROVE  LET named == {t \in At(K, k) : t.asset.service # None}
               IN  /\ (inventory[k].service = None) = (named = {})
                   /\ named # {} => \E t \in named : /\ inventory[k].service = t.asset.service
                                                     /\ \A u \in named : t.turn <= u.turn
                   /\ \A t \in At(K, k) : \A n \in DOMAIN t.asset.tech :
                        t.asset.tech[n].list => t.asset.tech[n].values \subseteq inventory[k].tech[n].values
    <3>1. FactsTell(inventory[k], At(K, k))
      BY <2>2 DEF InventoryTells
    <3> QED BY <3>1 DEF FactsTell
  <2>6. \A v \in validations : v.result = "confirmed" =>
          \E i \in DOMAIN wrote : /\ wrote[i].call = [tool |-> v.tool, target |-> v.target]
                                  /\ ~wrote[i].out.timedOut /\ wrote[i].out.records # {}
    BY <2>1 DEF MergedInv
  <2>7. DOMAIN ledger = {t.about : t \in T} /\ DOMAIN inventory = {MergeKey(t.asset) : t \in K}
    BY <2>2 DEF LedgerTells, InventoryTells
  <2>8. Merged(T, K)
    BY <2>3, <2>4, <2>5, <2>6, <2>7, Zenon DEF Merged
  <2> QED BY <2>8 DEF T, K
<1> QED BY <1>1, <1>2, <1>3, PTL DEF Spec
=============================================================================
