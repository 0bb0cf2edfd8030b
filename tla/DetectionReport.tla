-------------------------- MODULE DetectionReport --------------------------
(***************************************************************************)
(* One engagement from its first tool to its report, in the rule planner's *)
(* order (graph/build.py, llm/planner.py): the flows call their tools one  *)
(* by one and merge what the adapters make of the output, the oracle is    *)
(* asked about each target while the monitored systems go on writing       *)
(* telemetry, and a planner that raises after a node has written its row   *)
(* makes the resumed run enter that node again (graph/engine.py).          *)
(***************************************************************************)
EXTENDS FindingLedger, AssetInventory, DetectionOracle, SequencesExt

CONSTANTS
  Setups,     \* [mode, recon, targets, items, validator, oracle, resumes, budget]
  Outputs,    \* Outputs[t]: what tool t may leave
  RefOf,      \* RefOf[w]: the asset reference of a weakness
  RefOrder,   \* Refs as a sequence, in their order as strings
  MaxClock,   \* bounds the clock
  MaxEvents,  \* bounds the telemetry
  NoReport

ASSUME ReportAssumption ==
  /\ ReconTools \cup Scanners \cup Validators \subseteq Tools
  /\ \A w \in Weaknesses : RefOf[w] \in Refs
  /\ RefOrder \in Seq(Refs) /\ \A r \in Refs : \E i \in DOMAIN RefOrder : RefOrder[i] = r
  /\ MaxClock \in Nat /\ MaxEvents \in Nat

\* A recon plan names adapters of recon; the validator is one that takes a finding.
ASSUME SetupsAssumption ==
  \A s \in Setups :
    /\ s.mode \in {"black_box", "gray_box", "white_box"}
    /\ s.recon \in Seq(ReconTools) /\ s.validator \in Validators
    /\ s.targets \in Seq(Refs) /\ s.items \in Seq(Refs)
    /\ s.oracle \in BOOLEAN /\ s.resumes \in Nat /\ s.budget \in Nat

\* The assets that outputs tell of.
Discoverable ==
  UNION {UNION {Parse(t, r, out).assets : r \in Refs, out \in Outputs[t]} : t \in ReconTools}

\* An output has an end, and what it can speak of are the weaknesses and references.
\* What a tool calls by one name is always a list or never one.
ASSUME OutputsAssumption ==
  /\ \A t \in Tools : \A out \in Outputs[t] : IsFiniteSet(out.records)
  /\ \A t \in Scanners : \A out \in Outputs[t] : \A r \in out.records : r.weakness \in Weaknesses
  /\ \A a \in Discoverable : a.type = "endpoint" => a.address \in Refs
  /\ \A a \in Discoverable : \A n \in DOMAIN a.tech : a.tech[n].list \in BOOLEAN
  /\ \A a, b \in Discoverable :
       \A n \in DOMAIN a.tech \cap DOMAIN b.tech : a.tech[n].list = b.tech[n].list

VARIABLES
  setup,       \* the mode, recon plan, targets and items (repositories, accounts) of the
               \* engagement, its validator, whether an oracle is wired, max_actions
  node, at,    \* the node entered last; whether it works, observes or has been left
  did,         \* state.plan_history, as a set
  calls,       \* tool calls the node has yet to make
  flow,        \* the report of the node's flow: inventory, ledger and allowed steps
  todo,        \* observations to make before the node is left
  inventory, ledger, validations, spent,   \* of AgentState; its actions_spent
  detections,  \* state.detections
  status,      \* state.detection_status
  scored,      \* scored[w]: the detection status its risk was computed with, and the
               \* scores that correlate wrote on the finding
  paths,       \* state.attack_paths
  report,      \* the bundle of Reporter.build and what the handoff makes of it
  resumed,     \* how often the run was resumed
  clock,       \* time since the engagement was built, its action_time
  telemetry,   \* what the sources have recorded
  wrote        \* history: what the allowed calls left, in their order

merged == <<inventory, ledger, validations, spent>>
seen == <<detections, status>>
output == <<scored, paths, report>>
world == <<clock, telemetry>>
vars == <<setup, node, at, did, calls, flow, todo, merged, seen, output, resumed, world, wrote>>
-----------------------------------------------------------------------------
Hosts == {HostOf[r] : r \in Refs}
Empty == [x \in {} |-> None]
NoFlow == [inventory |-> Empty, ledger |-> EmptyLedger, allowed |-> 0]

Init ==
  /\ setup \in Setups
  /\ node = "planner" /\ at = "left" /\ did = {}
  /\ calls = <<>> /\ flow = NoFlow /\ todo = <<>>
  /\ inventory = Empty /\ ledger = EmptyLedger /\ validations = {} /\ spent = 0
  /\ detections = <<>> /\ status = Empty
  /\ scored = Empty /\ paths = {} /\ report = NoReport
  /\ resumed = 0 /\ clock = 0 /\ telemetry = {}
  /\ wrote = <<>>

Done == node = "report" /\ at = "left"

\* A flow calls every tool of its plan on every target.
Calls(plan, targets) ==
  LET many == Len(targets)
  IN  [n \in 1 .. Len(plan) * many |->
         [tool |-> plan[((n - 1) \div many) + 1], target |-> targets[((n - 1) % many) + 1]]]

\* by_type("endpoint"), of which only the addresses are looked at; their order is
\* immaterial to what follows.
Endpoints ==
  LET keys == SetToSeq(OfType(inventory, "endpoint")) IN [i \in DOMAIN keys |-> keys[i].address]

\* _SCAN_BY_MODE
ScanPlan ==
  CASE setup.mode = "black_box" -> <<"nuclei", "nikto">>
    [] setup.mode = "gray_box"  -> <<"prowler", "trivy">>
    [] setup.mode = "white_box" -> <<"semgrep", "gitleaks", "checkov", "trivy">>

\* _scan_plan_and_targets: the items of a white or gray box, or what recon found.
ScanTargets ==
  CASE setup.mode = "white_box" -> setup.items
    [] setup.mode = "gray_box" /\ setup.items # <<>> -> setup.items
    [] OTHER -> IF Endpoints # <<>> THEN Endpoints ELSE setup.targets

\* hot: the findings of high or critical severity; hot[0] is one of the highest, and
\* of these the first by its asset.
Hot == {w \in DOMAIN ledger : ledger[w].severity >= 3}
Place(w) == CHOOSE i \in DOMAIN RefOrder : RefOrder[i] = RefOf[w]
Hottest ==
  CHOOSE w \in Hot : \A v \in Hot :
    \/ ledger[v].severity < ledger[w].severity
    \/ ledger[v].severity = ledger[w].severity /\ Place(w) <= Place(v)

\* RulePlanner.decide.  (Its validator is dalfox; an LLM planner may name another.)
Decision ==
  CASE spent >= setup.budget -> "report"
    [] OTHER ->
  CASE setup.mode # "white_box" /\ DOMAIN inventory = {} /\ "recon" \notin did -> "recon"
    [] OTHER ->
  CASE DOMAIN ledger = {} /\ "scan" \notin did -> "scan"
    [] DOMAIN ledger # {} /\ "correlate" \notin did -> "correlate"
    [] DOMAIN ledger # {} /\ "correlate" \in did /\ Hot # {} /\ "validate" \notin did
         /\ setup.mode # "white_box" -> "validate"
    [] OTHER -> "report"

\* What a node has to call when it is entered; validation an asset for its proof.
CallsOf(n) ==
  CASE n = "recon" -> Calls(setup.recon, setup.targets)
    [] n = "scan" -> Calls(ScanPlan, ScanTargets)
    [] n = "validate" -> Calls(<<setup.validator>>, <<RefOf[Hottest]>>)
    [] OTHER -> <<>>

Enter(n) ==
  /\ node' = n /\ at' = "works"
  /\ calls' = CallsOf(n) /\ flow' = NoFlow
  /\ UNCHANGED <<setup, todo, merged, seen, output, world, wrote>>

\* planner_node and its route.
Planner ==
  /\ at = "left" /\ ~Done
  /\ Enter(Decision)
  /\ did' = did \cup {Decision}
  /\ UNCHANGED resumed

\* The planner raised: resume enters the node of the last row again.  By then
\* nothing pends, and validate_node notes an intent.
Resume ==
  /\ at = "left" /\ node \in {"recon", "scan", "correlate", "validate"}
  /\ resumed < setup.resumes
  /\ resumed' = resumed + 1
  /\ IF node = "validate"
       THEN /\ validations' = validations \cup
                 {[tool |-> None, target |-> None, result |-> "not-executed"]}
            /\ UNCHANGED <<setup, node, at, calls, flow, todo, inventory, ledger, spent, seen,
                           output, world, wrote>>
       ELSE Enter(node)
  /\ UNCHANGED did

\* approval_gate_node: denied, the run goes back to the planner.
Deny ==
  /\ node = "validate" /\ at = "works"
  /\ node' = "approval_gate" /\ at' = "left" /\ calls' = <<>>
  /\ UNCHANGED <<setup, did, flow, todo, merged, seen, output, resumed, world, wrote>>

\* The flow's report and the state after a call that left this result.
AddAssets(inv, assets) ==
  FoldSet(LAMBDA a, i : AddAsset(i, MergeKey(a), Facts(a)), inv, assets)

\* execute for one call of a flow: denied, or allowed and parsed.  The flow counts the
\* calls that were allowed, validate_node counts its call either way.
ToolCall(allowed, out) ==
  /\ at = "works" /\ calls # <<>>
  /\ LET c == Head(calls)
         r == Parse(c.tool, c.target, out)
     IN  IF allowed
           THEN /\ flow' = [inventory |-> AddAssets(flow.inventory, r.assets),
                            ledger |-> AddAll(flow.ledger, c.tool, r.findings),
                            allowed |-> flow.allowed + 1]
                /\ validations' = validations \cup r.validations
                /\ wrote' = Append(wrote, [call |-> c, out |-> out])
           ELSE UNCHANGED <<flow, validations, wrote>>
  /\ calls' = Tail(calls)
  /\ IF node = "validate"
       THEN /\ todo' = IF setup.oracle
                         THEN <<[action |-> "validate", technique |-> "xss",
                                 ref |-> Head(calls).target]>> ELSE <<>>
            /\ at' = IF setup.oracle THEN "observes" ELSE "left"
            /\ spent' = spent + 1
       ELSE UNCHANGED <<todo, at, spent>>
  /\ UNCHANGED <<setup, node, did, inventory, ledger, seen, output, resumed, world>>

\* The observations of a node: one for each target, in order; none without an oracle.
Observe(action, technique, refs) ==
  /\ todo' = IF setup.oracle
               THEN [i \in DOMAIN refs |->
                       [action |-> action, technique |-> technique, ref |-> refs[i]]]
               ELSE <<>>
  /\ at' = IF todo' = <<>> THEN "left" ELSE "observes"

\* recon_node after the flow.
ReconEnds ==
  /\ node = "recon" /\ at = "works" /\ calls = <<>>
  /\ inventory' = AddInventory(inventory, flow.inventory)
  /\ spent' = spent + flow.allowed
  /\ Observe("recon", "T1046", setup.targets)
  /\ UNCHANGED <<setup, node, did, calls, flow, ledger, validations, seen, output, resumed,
                 world, wrote>>

\* finding_targets: the assets of the findings, sorted.
FindingRefs(lg) ==
  LET places == {i \in DOMAIN RefOrder : \E w \in DOMAIN lg : RefOf[w] = RefOrder[i]}
  IN  [n \in 1 .. Cardinality(places) |->
         RefOrder[CHOOSE i \in places : Cardinality(places \cap (1 .. i)) = n]]

\* scan_node after the flow: the assets of the findings are observed, or the
\* targets when nothing was found.
ScanEnds ==
  /\ node = "scan" /\ at = "works" /\ calls = <<>>
  /\ ledger' = AddRows(ledger, flow.ledger)
  /\ spent' = spent + flow.allowed
  /\ LET refs == FindingRefs(ledger')
     IN  Observe("scan", "T1595", IF refs = <<>> THEN ScanTargets ELSE refs)
  /\ UNCHANGED <<setup, node, did, calls, flow, inventory, validations, seen, output,
                 resumed, world, wrote>>

\* _observe, one turn of its loop.
ObserveNext ==
  /\ at = "observes"
  /\ LET o == Head(todo)
         v == Verdict(telemetry, o.ref, 0)
     IN  /\ detections' = Append(detections,
              [action |-> o.action, technique |-> o.technique, ref |-> o.ref,
               verdict |-> v, ttd |-> TimeToDetect(telemetry, o.ref, 0)])
         /\ status' = [r \in DOMAIN status \cup {RootOf[o.ref]} |->
                         IF r = RootOf[o.ref] THEN v ELSE status[r]]
  /\ todo' = Tail(todo)
  /\ at' = IF todo' = <<>> THEN "left" ELSE "observes"
  /\ UNCHANGED <<setup, node, did, calls, flow, merged, output, resumed, world, wrote>>

\* The verdict last filed under the finding's host.
DetectionOf(w) ==
  LET root == RootOf[RefOf[w]] IN IF root \in DOMAIN status THEN status[root] ELSE "UNKNOWN"

\* Enricher.enrich: the scores of each finding, with that status.
Enrich ==
  [w \in DOMAIN ledger |->
     [status |-> DetectionOf(w), cvss |-> BestCvss(ledger[w]), epss |-> BestEpss(ledger[w])]]

\* raw["risk"]
RiskOf(scores) ==
  [w \in DOMAIN scores |->
     Risk(ledger[w].severity, scores[w].cvss, scores[w].epss, scores[w].status)]

\* AttackPathCorrelator.build: a path for each host, with the risk of its worst step.
AttackPaths(risk) ==
  {[root |-> r, steps |-> {w \in DOMAIN risk : RootOf[RefOf[w]] = r},
    risk |-> Max({risk[w] : w \in {v \in DOMAIN risk : RootOf[RefOf[v]] = r}})] :
     r \in {RootOf[RefOf[w]] : w \in DOMAIN risk}}

\* correlate_node: each finding's risk with its host's status, and the paths.
Correlate ==
  /\ node = "correlate" /\ at = "works"
  /\ scored' = Enrich
  /\ paths' = AttackPaths(RiskOf(Enrich))
  /\ at' = "left"
  /\ UNCHANGED <<setup, node, did, calls, flow, todo, merged, seen, report, resumed, world,
                 wrote>>

\* A finding's row in the bundle: the scores and risk of correlate, if it was
\* correlated, and the status of now.
Row(w) ==
  LET done == w \in DOMAIN scored
      risk == IF done THEN RiskOf(scored)[w] ELSE 0
  IN  [severity |-> ledger[w].severity,
       cvss |-> IF done THEN scored[w].cvss ELSE ledger[w].cvss,
       epss |-> IF done THEN scored[w].epss ELSE NoScore,
       risk |-> risk, priority |-> Priority(risk), detection |-> DetectionOf(w)]

\* ActIntegration.tickets: the rows of high priority or above.
Tickets(rows) ==
  {[of |-> w, undetected |-> rows[w].detection \in {"MISSED", "PARTIAL"}] :
     w \in {v \in DOMAIN rows : rows[v].priority \in {"high", "critical"}}}

\* report_node, Reporter.build and the pushes of the handoff.
Report ==
  /\ node = "report" /\ at = "works"
  /\ at' = "left"
  /\ LET rows == [w \in DOMAIN ledger |-> Row(w)]
     IN  report' = [rows |-> rows,
                    topRisk |-> IF rows = <<>> THEN 0 ELSE Max({rows[w].risk : w \in DOMAIN rows}),
                    index |-> DetectionIndex(detections),
                    coverage |-> Coverage(detections),
                    heatmap |-> Heatmap(detections),
                    candidates |-> Candidates(detections),
                    tickets |-> Tickets(rows)]
  /\ UNCHANGED <<setup, node, did, calls, flow, todo, merged, seen, scored, paths, resumed,
                 world, wrote>>

Events == [source : Sources, host : Hosts, time : -Lead - 1 .. MaxClock,
           alerted : BOOLEAN, blocked : BOOLEAN]

\* A source records something, of now or, late, of an earlier moment.
Log(e) ==
  /\ setup.oracle /\ ~Done
  /\ Cardinality(telemetry) < MaxEvents
  /\ e.time =< clock
  /\ telemetry' = telemetry \cup {e}
  /\ UNCHANGED <<setup, node, at, did, calls, flow, todo, merged, seen, output, resumed,
                 clock, wrote>>

Tick ==
  /\ setup.oracle /\ ~Done
  /\ clock < MaxClock
  /\ clock' = clock + 1
  /\ UNCHANGED <<setup, node, at, did, calls, flow, todo, merged, seen, output, resumed,
                 telemetry, wrote>>

Next ==
  \/ Planner \/ Resume \/ Deny
  \/ calls # <<>> /\ \E allowed \in BOOLEAN, out \in Outputs[Head(calls).tool] :
       ToolCall(allowed, out)
  \/ ReconEnds \/ ScanEnds \/ ObserveNext \/ Correlate \/ Report
  \/ \E e \in Events : Log(e)
  \/ Tick

Spec == Init /\ [][Next]_vars
-----------------------------------------------------------------------------
\* What the allowed calls told, whether the run was resumed in between or not, is what
\* the state holds (scan/findings.py, recon/assets.py): of each weakness the highest
\* severity and every CVE, the score that was given first, under the id of the tool
\* that told first; of each asset the service that was named first and every value of
\* every list; and a validation is confirmed only by a proof.  Nothing comes of a call
\* that was cut off.  Every tool that told of a weakness is in its sources, unless the
\* scan was entered twice: rows that are merged lose all but their first (README,
\* section 6).
ResultsMerged ==
  LET Told == UNION {{[turn |-> i, tool |-> wrote[i].call.tool, about |-> f.weakness,
                       severity |-> f.severity] :
                        f \in Parse(wrote[i].call.tool, wrote[i].call.target, wrote[i].out).findings} :
                     i \in DOMAIN wrote}
      Kept == UNION {{[turn |-> i, asset |-> a] :
                        a \in Parse(wrote[i].call.tool, wrote[i].call.target, wrote[i].out).assets} :
                     i \in DOMAIN wrote}
      Of(w) == {t \in Told : t.about = w}
      At(k) == {t \in Kept : MergeKey(t.asset) = k}
  IN  at = "left" =>
      /\ \A t \in Told \cup Kept : ~wrote[t.turn].out.timedOut
      /\ DOMAIN ledger = {t.about : t \in Told}
      /\ \A w \in DOMAIN ledger :
           /\ ledger[w].severity = Max({t.severity : t \in Of(w)})
           /\ \E t \in Of(w) : t.tool = ledger[w].first /\ \A u \in Of(w) : t.turn <= u.turn
           /\ ledger[w].cves = UNION {CvesOf[t.tool][w] : t \in Of(w)}
           /\ LET given == {t \in Of(w) : CvssOf[t.tool][w] # NoScore}
              IN  /\ (ledger[w].cvss = NoScore) = (given = {})
                  /\ given # {} => \E t \in given : /\ ledger[w].cvss = CvssOf[t.tool][w]
                                                    /\ \A u \in given : t.turn <= u.turn
           /\ ledger[w].sources \subseteq {t.tool : t \in Of(w)}
           /\ resumed = 0 => ledger[w].sources = {t.tool : t \in Of(w)}
      /\ DOMAIN inventory = {MergeKey(t.asset) : t \in Kept}
      /\ \A k \in DOMAIN inventory :
           LET named == {t \in At(k) : t.asset.service # None}
           IN  /\ (inventory[k].service = None) = (named = {})
               /\ named # {} => \E t \in named : /\ inventory[k].service = t.asset.service
                                                 /\ \A u \in named : t.turn <= u.turn
               /\ \A t \in At(k) : \A n \in DOMAIN t.asset.tech :
                    t.asset.tech[n].list => t.asset.tech[n].values \subseteq inventory[k].tech[n].values
      /\ \A v \in validations : v.result = "confirmed" =>
           \E i \in DOMAIN wrote : /\ wrote[i].call = [tool |-> v.tool, target |-> v.target]
                                   /\ ~wrote[i].out.timedOut /\ wrote[i].out.records # {}

\* "Detection status is a first-class factor" (intel/risk.py:3): of two findings in
\* the report, the second of which has no higher base score (CVSS, or the severity's)
\* and no higher EPSS, the first has no lower risk if its detection reads worse, and
\* gets a ticket if the other does, although the risk was computed at correlate and
\* the detection is read at the end.  The validation's own observation may have come
\* in between, for its root.  The top risk is that of the worst attack path, and the
\* paths are made of the findings there are at the end, unless the budget was used up
\* before correlate (llm/planner.py:48): then nothing has a risk, a path or a ticket.
RiskFollowsDetection ==
  Done =>
    LET row == report.rows
        Checked(w) == \E i \in DOMAIN detections :
                        /\ detections[i].action = "validate"
                        /\ RootOf[detections[i].ref] = RootOf[RefOf[w]]
        Ticketed(w) == \E t \in report.tickets : t.of = w
        Known(w) == row[w].detection \in Verdicts
    IN  /\ \A v, w \in {u \in DOMAIN ledger : ~Checked(u) /\ Known(u)} :
             /\ Base(row[v].severity, row[v].cvss) >= Base(row[w].severity, row[w].cvss)
             /\ Likelihood(row[v].epss) >= Likelihood(row[w].epss)
             /\ Rank(row[v].detection) < Rank(row[w].detection)
             => /\ row[v].risk >= row[w].risk
                /\ Ticketed(w) => Ticketed(v)
        /\ report.topRisk = Max({0} \cup {p.risk : p \in paths})
        /\ IF "correlate" \in did
             THEN UNION {p.steps : p \in paths} = DOMAIN ledger
             ELSE /\ DOMAIN ledger # {} => spent >= setup.budget
                  /\ paths = {} /\ report.tickets = {}
                  /\ \A w \in DOMAIN ledger : row[w].risk = 0

\* A verdict tells only of the time around action_time, which is when the graph was
\* built (graph/build.py:61) and not when the action ran: whatever was observed, and
\* however late, is credited to an event about the host in that window, by a source
\* that can have seen it so; and a time to detection is that of such an event, missing
\* only when the alert came before the action did.
VerdictsCredited ==
  \A i \in DOMAIN detections :
    LET d == detections[i]
        Near == {e \in telemetry : /\ \E s \in Sources : About(e, s, d.ref)
                                   /\ -Lead <= e.time /\ e.time <= Window}
        Alerts == {e \in Near : e.alerted \/ e.blocked}
    IN  /\ d.verdict # "MISSED" => Near # {}
        /\ d.verdict = "BLOCKED" => \E e \in Near : e.blocked /\ e.source \in Blockers
        /\ d.verdict = "DETECTED" => \E e \in Near : e.alerted
        /\ d.ttd # NoTime => Covered(d.verdict) /\ \E e \in Alerts : e.time = d.ttd /\ d.ttd >= 0
        /\ Covered(d.verdict) /\ d.ttd = NoTime => \E e \in Alerts : e.time < 0

\* What is handed off says what was observed.  A key of the index reads as the
\* best of its observations did, though it is the last one: the telemetry only
\* grows and the window stays, so a key is a gap, and can be a regression in the
\* next cycle, only if every observation of it was.  A gap of the index has its
\* rule candidate, and a ticket that says undetected has one for its host.  The
\* heat map counts what the coverage matrix counts (report.py, heatmap.py,
\* act.py, detect.py).
HandoffTellsGaps ==
  Done =>
    LET Candidate(root) == {c \in report.candidates : RootOf[c.ref] = root}
    IN  /\ \A k \in DOMAIN report.index :
             /\ \A i \in DOMAIN detections :
                  Key(detections[i]) = k => Rank(detections[i].verdict) <= Rank(report.index[k])
             /\ ~Covered(report.index[k]) => \E c \in Candidate(k[2]) : c.technique = k[1]
        /\ \A t \in report.tickets : t.undetected => Candidate(RootOf[RefOf[t.of]]) # {}
        /\ \A v \in Verdicts :
             report.coverage[v] =
               MapThenSumSet(LAMBDA t : report.heatmap[t][v], DOMAIN report.heatmap)
=============================================================================
