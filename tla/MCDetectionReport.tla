------------------------- MODULE MCDetectionReport -------------------------
(* A small instance of DetectionReport for TLC: one host with two ports,    *)
(* and of each tool a few outputs that its adapter tells apart.             *)
EXTENDS DetectionReport

Hosting == [r \in Refs |-> "h"]
Rooting == [r \in Refs |-> IF r = "other" THEN "h:81" ELSE "h"]
Order == <<"app", "net", "other", "target">>
WhereIs == [w \in Weaknesses |-> w]
Below == [p \in Refs \X {"admin"} |-> "app"]

\* A template of nuclei and a package of trivy have a score of their own or a CVE, of
\* which the mirror may know the score, the probability, both or nothing.
Scoring ==
  [t \in Tools |-> [w \in Weaknesses |->
     CASE t = "nuclei" /\ w = "app" -> 61 [] t = "trivy" /\ w = "other" -> 70 [] OTHER -> NoScore]]
Naming ==
  [t \in Tools |-> [w \in Weaknesses |->
     CASE t = "nuclei" /\ w = "app" -> {"cve-1"} [] t = "nuclei" /\ w = "other" -> {"cve-1", "cve-2"}
       [] t = "trivy" /\ w = "app" -> {"cve-2"} [] OTHER -> {}]]
Records == [c \in {"cve-1", "cve-2"} |->
              IF c = "cve-1" THEN [cvss |-> 55, epss |-> NoScore] ELSE [cvss |-> 90, epss |-> 20]]

Left(form, records) == [timedOut |-> FALSE, form |-> form, records |-> records]
CutOff(form, records) == [timedOut |-> TRUE, form |-> form, records |-> records]
Seen(w, word) == [weakness |-> w, word |-> word, failed |-> TRUE]
Passed(w, word) == [weakness |-> w, word |-> word, failed |-> FALSE]
List(S) == [list |-> TRUE, values |-> S]
Text(v) == [list |-> FALSE, values |-> {v}]
Port(open, service, tech) ==
  [address |-> "target", port |-> 80, open |-> open, service |-> service, tech |-> tech]
Page(address, port, tech) ==
  [address |-> address, port |-> port, service |-> "http", tech |-> tech]

Leaves ==
  [t \in Tools |->
    CASE t = "nuclei" -> {Left("lines", {Seen("app", "high"), Seen("other", "high")}),
                          Left("lines", {Seen("app", "low"), Seen("app", "high")}),
                          Left("lines", {Seen("other", "odd")}),
                          CutOff("lines", {Seen("other", "high")})}
      [] t = "nikto" -> {Left("document", {Seen("app", "odd"), Seen("other", "odd")}),
                         Left("noise", {})}
      [] t = "semgrep" -> {Left("document", {Seen("app", "error")}), CutOff("document", {Seen("app", "error")})}
      [] t = "gitleaks" -> {Left("document", {Seen("other", "odd")}), Left("lines", {Seen("other", "odd")})}
      [] t = "checkov" -> {Left("document", {Seen("app", "critical"), Passed("other", "high")})}
      [] t = "trivy" -> {Left("document", {Seen("app", "medium"), Seen("other", "odd")}), Left("noise", {})}
      [] t = "prowler" -> {Left("lines", {Seen("app", "high"), Seen("other", "high")}),
                           Left("document", {Seen("app", "informational"), Passed("other", "high")}),
                           CutOff("document", {Seen("other", "high")})}
      [] t = "nmap" -> {Left("document", {Port(TRUE, None, [product |-> Text("a")])}),
                        Left("document", {Port(TRUE, "http", [product |-> Text("b")])}),
                        Left("document", {Port(FALSE, "http", NoTech)}),
                        Left("noise", {})}
      [] t = "httpx" -> {Left("lines", {Page("app", 80, [technologies |-> List({"x"})]),
                                        Page("app", 81, [technologies |-> List({"y"})])}),
                         Left("lines", {Page("app", 80, [technologies |-> List({"y"}), title |-> Text("t")])})}
      [] t = "whatweb" -> {Left("document", {[address |-> "target", tech |-> [php |-> List({"8"})]],
                                             [address |-> None, tech |-> NoTech]}),
                           Left("noise", {})}
      [] t = "gobuster" -> {Left("lines", {[address |-> "admin", tech |-> [status |-> Text(200)]]})}
      [] OTHER -> {Left("lines", {"poc"}), Left("lines", {}), CutOff("lines", {"poc"})}]

Engagement(mode, recon, targets, items, validator, oracle, resumes, budget) ==
  [mode |-> mode, recon |-> recon, targets |-> targets, items |-> items,
   validator |-> validator, oracle |-> oracle, resumes |-> resumes, budget |-> budget]

\* The first with an oracle, and a network besides the target on the same host.  In two
\* the scan, and recon entered again, can use the budget up.
Engagements ==
  {Engagement("gray_box", <<"gobuster">>, <<"target", "net">>, <<"target">>, "dalfox", TRUE, 0, 9),
   Engagement("black_box", <<"nmap">>, <<"target">>, <<>>, "dalfox", FALSE, 1, 9),
   Engagement("black_box", <<"nmap">>, <<"target">>, <<>>, "dalfox", FALSE, 1, 3),
   Engagement("gray_box", <<"httpx", "whatweb">>, <<"target">>, <<>>, "sqlmap", FALSE, 0, 9),
   Engagement("gray_box", <<"nmap">>, <<"target">>, <<"net">>, "sqlmap", FALSE, 1, 9),
   Engagement("gray_box", <<"nmap">>, <<"target">>, <<"target">>, "sqlmap", TRUE, 0, 2),
   Engagement("white_box", <<"nmap">>, <<>>, <<"target">>, "dalfox", FALSE, 1, 9)}
=============================================================================
