SPECIFICATION Spec
CONSTANTS
  Tools = {"nmap", "httpx", "whatweb", "gobuster", "nuclei", "nikto", "prowler", "trivy",
           "semgrep", "gitleaks", "checkov", "dalfox", "sqlmap"}
  Weaknesses = {"app", "other"}
  Cves = {"cve-1", "cve-2", "cve-3"}
  NoScore = NoScore
  CvssOf <- Scoring
  CvesOf <- Naming
  Mirror <- Records
  None = None
  Under <- Below
  Sources = {"siem", "waf"}
  Blockers = {"waf"}
  Refs = {"app", "net", "other", "target"}
  HostOf <- Hosting
  RootOf <- Rooting
  Alike = {}
  Lead = 1
  Window = 1
  NoTime = NoTime
  Setups <- Engagements
  Outputs <- Leaves
  RefOf <- WhereIs
  RefOrder <- Order
  MaxClock = 2
  MaxEvents = 1
  NoReport = NoReport
CHECK_DEADLOCK FALSE
INVARIANTS
  ResultsMerged
  RiskFollowsDetection
  VerdictsCredited
  HandoffTellsGaps
