--------------------------- MODULE FindingLedger ---------------------------
(***************************************************************************)
(* The finding ledger (scan/findings.py) and the risk of a finding         *)
(* (intel/enrich.py, intel/risk.py), as operators.  A ledger is a function *)
(* from weaknesses (asset and title, the dedup key) to rows.  Severities   *)
(* are the ranks of _SEVERITY_ORDER, info 0 to critical 4; a CVSS score is *)
(* in tenths, an EPSS score in hundredths.                                 *)
(***************************************************************************)
EXTENDS Integers, FiniteSetsExt

CONSTANTS
  Tools, Weaknesses, Cves,
  NoScore,   \* None, of a score
  CvssOf,    \* CvssOf[t][w]: the score that tool t gives weakness w, or NoScore
  CvesOf,    \* CvesOf[t][w]: the CVE ids it gives
  Mirror     \* Mirror[c]: the record [cvss, epss] of the local NVD mirror

Scores == Nat \cup {NoScore}

ASSUME LedgerAssumption ==
  /\ NoScore \notin Int
  /\ \A t \in Tools, w \in Weaknesses : CvssOf[t][w] \in Scores /\ CvesOf[t][w] \subseteq Cves
  /\ DOMAIN Mirror \subseteq Cves /\ IsFiniteSet(DOMAIN Mirror)
  /\ \A c \in DOMAIN Mirror : Mirror[c].cvss \in Scores /\ Mirror[c].epss \in Scores

Severities == 0 .. 4

\* What the mergers of this module tell apart of a Finding: the tool its id was
\* made with, its severity, cve_ids, cvss and raw["sources"].  No tool sets epss.
Rows == [first : Tools, severity : Severities, cvss : Scores, cves : SUBSET Cves,
         sources : SUBSET Tools]

EmptyLedger == [w \in {} |-> 0]

NewRow(tool, w, severity) ==
  [first |-> tool, severity |-> severity, cvss |-> CvssOf[tool][w], cves |-> CvesOf[tool][w],
   sources |-> {tool}]

\* Mutant: the severity of the last report is kept.
MergeIntoLast(row, other) ==
  [row EXCEPT !.severity = other.severity,
              !.cvss = IF @ = NoScore THEN other.cvss ELSE @,
              !.cves = @ \cup other.cves,
              !.sources = @ \cup {other.first}]

\* _merge_into: the id stays, the highest severity and the first score win, the
\* CVEs and the tool are added.
MergeInto(row, other) ==
  [row EXCEPT !.severity = IF other.severity > @ THEN other.severity ELSE @,
              !.cvss = IF @ = NoScore THEN other.cvss ELSE @,
              !.cves = @ \cup other.cves,
              !.sources = @ \cup {other.first}]

\* add, of the rows of other weaknesses one by one: scan_node adds those of the
\* flow's ledger to the state's.
AddRows(ledger, rows) ==
  [w \in DOMAIN ledger \cup DOMAIN rows |->
     IF w \notin DOMAIN rows THEN ledger[w]
     ELSE IF w \in DOMAIN ledger THEN MergeInto(ledger[w], rows[w])
     ELSE rows[w]]

\* add_all, of the findings of one tool: a set of [weakness, severity].  Their order
\* is immaterial, those of one weakness make one row with the highest severity.
RowsOf(tool, found) ==
  [w \in {f.weakness : f \in found} |->
     NewRow(tool, w, Max({f.severity : f \in {g \in found : g.weakness = w}}))]
AddAll(ledger, tool, found) == AddRows(ledger, RowsOf(tool, found))
-----------------------------------------------------------------------------
(* RiskScorer.score, on an asset of the default criticality, whose factor  *)
(* is 1; the severity's base score, like a CVSS score, in tenths.          *)

SeverityBase == [s \in Severities |-> <<10, 30, 50, 75, 95>>[s + 1]]
Base(severity, cvss) == IF cvss = NoScore THEN SeverityBase[severity] ELSE cvss

\* In hundredths.
Likelihood(epss) == 100 + (IF epss = NoScore THEN 0 ELSE epss)

\* Mutant: the factors of a caught and of a missed action are swapped.
DetectionFactorSwapped(status) ==
  CASE status = "DETECTED" -> 140 [] status = "PARTIAL" -> 115
    [] status = "MISSED" -> 80 [] status = "BLOCKED" -> 60 [] OTHER -> 100

DetectionFactor(status) ==
  CASE status = "MISSED" -> 140 [] status = "PARTIAL" -> 115
    [] status = "DETECTED" -> 80 [] status = "BLOCKED" -> 60 [] OTHER -> 100

\* A score is in ten-thousandths of a point.
Point == 10000

\* Cut off at 100 points.
Risk(severity, cvss, epss, status) ==
  LET raw == Base(severity, cvss) * Likelihood(epss) * DetectionFactor(status)
  IN  IF raw > 100 * Point THEN 100 * Point ELSE raw

\* _priority
Priority(risk) ==
  CASE risk >= 80 * Point -> "critical" [] 80 * Point > risk /\ risk >= 60 * Point -> "high"
    [] 60 * Point > risk /\ risk >= 35 * Point -> "medium"
    [] 35 * Point > risk /\ risk >= 15 * Point -> "low" [] OTHER -> "info"

\* Enricher.enrich: the highest of the finding's own score and those of its CVEs'
\* records, if there is one.  It is written back, and found again the next time.
Highest(scores) ==
  LET known == scores \ {NoScore} IN IF known = {} THEN NoScore ELSE Max(known)
BestCvss(row) == Highest({row.cvss} \cup {Mirror[c].cvss : c \in row.cves \cap DOMAIN Mirror})
BestEpss(row) == Highest({Mirror[c].epss : c \in row.cves \cap DOMAIN Mirror})
=============================================================================
