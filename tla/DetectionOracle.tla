-------------------------- MODULE DetectionOracle --------------------------
(***************************************************************************)
(* The detection oracle as operators on a set of telemetry events: query   *)
(* (oracle/telemetry.py), the verdict of each connector                    *)
(* (oracle/connectors.py), the best of them (oracle/scorer.py), and what   *)
(* the coverage matrix and the report make of a list of results            *)
(* (oracle/coverage.py, reporting/report.py).                              *)
(***************************************************************************)
EXTENDS Integers, Sequences, FiniteSets

CONSTANTS
  Sources,    \* connectors
  Blockers,   \* those that can block: waf and edr
  Refs,       \* targets and asset references, in their order as strings
  HostOf,     \* HostOf[ref]: the host telemetry is matched by, without a port
  RootOf,     \* RootOf[ref]: host and port, what verdicts are filed under
  Alike,      \* pairs of hosts one of which is part of the other's name
  Lead,       \* the seconds before the action that count, in ticks
  Window,     \* correlation_window_seconds, in ticks
  NoTime      \* no time to detection

ASSUME OracleAssumption ==
  /\ Blockers \subseteq Sources
  /\ Window \in Nat /\ Lead \in Nat
  /\ NoTime \notin Int
  /\ \A r, s \in Refs : RootOf[r] = RootOf[s] => HostOf[r] = HostOf[s]

Verdicts == {"BLOCKED", "DETECTED", "PARTIAL", "MISSED"}

\* _PRECEDENCE
Rank(verdict) ==
  CASE verdict = "BLOCKED" -> 3 [] verdict = "DETECTED" -> 2
    [] verdict = "PARTIAL" -> 1 [] verdict = "MISSED" -> 0

Covered(verdict) == verdict \in {"BLOCKED", "DETECTED"}

About(e, source, ref) ==
  /\ e.source = source
  /\ e.host = HostOf[ref] \/ <<e.host, HostOf[ref]>> \in Alike

\* Mutant: what is recorded at any later time counts.
QueryNoEnd(events, source, ref, actionTime) ==
  {e \in events : About(e, source, ref) /\ e.time >= actionTime - Lead}

\* query: the events of a source about the host, from shortly before action_time to
\* the end of the window.  The technique is not looked at.
Query(events, source, ref, actionTime) ==
  {e \in events : About(e, source, ref) /\ e.time \in actionTime - Lead .. actionTime + Window}

Blocks(source, events) == source \in Blockers /\ \E e \in events : e.blocked

\* DetectionConnector.verdict
ConnectorVerdict(source, events) ==
  CASE events = {} -> "MISSED"
    [] Blocks(source, events) -> "BLOCKED"
    [] ~Blocks(source, events) /\ (\E e \in events : e.alerted) -> "DETECTED"
    [] OTHER -> "PARTIAL"

\* best_verdict: of none at all it is MISSED.
BestVerdict(verdicts) ==
  CHOOSE v \in IF verdicts = {} THEN {"MISSED"} ELSE verdicts :
    \A u \in verdicts : Rank(v) >= Rank(u)

\* CoverageScorer.score: the verdict of every connector on its own events.
PerConnector(events, ref, actionTime) ==
  {ConnectorVerdict(s, Query(events, s, ref, actionTime)) : s \in Sources}

\* _ttd of the connectors that caught it, the least: the first alert or block that
\* is not before the action.
TimeToDetect(events, ref, actionTime) ==
  LET Caught == {s \in Sources : Covered(ConnectorVerdict(s, Query(events, s, ref, actionTime)))}
      Times == {e.time - actionTime : e \in
                  {x \in UNION {Query(events, s, ref, actionTime) : s \in Caught} :
                     (x.alerted \/ x.blocked) /\ x.time >= actionTime}}
  IN  IF Times = {} THEN NoTime ELSE CHOOSE t \in Times : \A u \in Times : t <= u

\* observe: every connector is asked, the best verdict is the action's.
Verdict(events, ref, actionTime) == BestVerdict(PerConnector(events, ref, actionTime))
-----------------------------------------------------------------------------
(* Results: a sequence of [action, ref, technique, verdict, ttd].          *)

Key(d) == <<d.technique, RootOf[d.ref]>>

\* Mutant: the first result of a key is kept.
DetectionIndexFirst(results) ==
  [k \in {Key(results[i]) : i \in DOMAIN results} |->
     results[CHOOSE i \in DOMAIN results :
               /\ Key(results[i]) = k
               /\ \A j \in DOMAIN results : Key(results[j]) = k => i <= j].verdict]

\* detection_index: the last result of each key.
DetectionIndex(results) ==
  [k \in {Key(results[i]) : i \in DOMAIN results} |->
     results[CHOOSE i \in DOMAIN results :
               /\ Key(results[i]) = k
               /\ \A j \in DOMAIN results : Key(results[j]) = k => j <= i].verdict]

\* CoverageMatrix.gaps, by position.
Gaps(results) == {i \in DOMAIN results : results[i].verdict \in {"MISSED", "PARTIAL"}}

\* Rule candidates and playbooks: one of each for a gap.
Candidates(results) ==
  {[technique |-> results[i].technique, ref |-> results[i].ref,
    priority |-> IF results[i].verdict = "MISSED" THEN "high" ELSE "medium"] :
     i \in Gaps(results)}

\* CoverageMatrix.by_verdict: how many results have each verdict.
Coverage(results) ==
  [v \in Verdicts |-> Cardinality({i \in DOMAIN results : results[i].verdict = v})]

\* AttackHeatmap.from_detections: the same for each technique.
Heatmap(results) ==
  [t \in {results[i].technique : i \in DOMAIN results} |->
     [v \in Verdicts |->
        Cardinality({i \in DOMAIN results : results[i].technique = t /\ results[i].verdict = v})]]
=============================================================================
