---------------------------- MODULE ToolResults ----------------------------
(***************************************************************************)
(* What the adapters make of a tool's output (tools/adapters/), as         *)
(* operators from a CommandResult to a ToolResult.  An output is reduced   *)
(* to [timedOut, form, records]: form says how it can be read, as one      *)
(* document, as records a line each between other lines, or not at all.    *)
(* The exit code is not looked at by any adapter.                          *)
(***************************************************************************)
EXTENDS Integers

CONSTANTS
  None,    \* Python's None: no port, no service, no target
  Under    \* Under[base, path]: the address of a path below a target

ReconTools == {"nmap", "httpx", "whatweb", "gobuster"}
Scanners == {"nuclei", "nikto", "prowler", "trivy", "semgrep", "gitleaks", "checkov"}
Validators == {"dalfox", "sqlmap"}

Forms == {"document", "lines", "noise"}

\* ToolResult, with nothing in it.
Result(status) == [status |-> status, assets |-> {}, findings |-> {}, validations |-> {}]
Failed == Result("error")
Outcome(items) == IF items = {} THEN "no-results" ELSE "ok"
WithFindings(fs) == [Result(Outcome(fs)) EXCEPT !.findings = fs]
WithAssets(as) == [Result(Outcome(as)) EXCEPT !.assets = as]

\* The records that a parser of these forms gets to see.
Read(out, forms) == IF out.form \in forms THEN out.records ELSE {}
-----------------------------------------------------------------------------
(* Scanners.  A record is [weakness, word, failed]: the word is how the    *)
(* tool spells the severity, in lower case; failed is the check's outcome. *)

Grades == [critical |-> 4, high |-> 3, medium |-> 2, low |-> 1]
Grade(table, word, default) == IF word \in DOMAIN table THEN table[word] ELSE default

\* Severity.from_str: an unknown word is info.
FromStr(word) == Grade(Grades, word, 0)

\* The severity of a record: the table's for its word, or the default.
Findings(records, table, default) ==
  WithFindings({[weakness |-> r.weakness, severity |-> Grade(table, r.word, default)] :
                  r \in records})
Ungraded == [word \in {} |-> 0]

Nuclei(out) ==
  WithFindings({[weakness |-> r.weakness, severity |-> FromStr(r.word)] : r \in Read(out, {"lines"})})

\* XML, or JSON as a document or in lines; without a severity.
Nikto(out) == Findings(Read(out, {"document", "lines"}), Ungraded, 1)

Trivy(out) == Findings(Read(out, {"document"}), Grades, 0)

Semgrep(out) == Findings(Read(out, {"document"}), [error |-> 3, warning |-> 2], 1)

Gitleaks(out) == Findings(Read(out, {"document"}), Ungraded, 3)

Checkov(out) == Findings({r \in Read(out, {"document"}) : r.failed}, Grades, 2)

\* "informational" is a word of its own.
Prowler(out) ==
  LET failed == {r \in Read(out, {"document", "lines"}) : r.failed}
  IN  WithFindings({[weakness |-> r.weakness,
                     severity |-> IF r.word = "informational" THEN 0
                                  ELSE Grade(Grades, r.word, 2)] : r \in failed})
-----------------------------------------------------------------------------
(* Recon.  An asset is [type, address, port, protocol, service, tech]; tech *)
(* maps the name of a fact to [list, values], a scalar being a value on its *)
(* own and an absent one none.                                              *)

Asset(type, address, port, protocol, service, tech) ==
  [type |-> type, address |-> address, port |-> port, protocol |-> protocol,
   service |-> service, tech |-> tech]

NoTech == [k \in {} |-> None]

\* A record of nmap is a host, or a port of one in some state.  Output that is
\* no XML is an error here, and nowhere else.
Nmap(out) ==
  LET open == {r \in out.records : r.port # None /\ r.open}
  IN  IF out.form # "document" THEN Failed
      ELSE WithAssets(
             {Asset("host", r.address, None, None, None, NoTech) : r \in out.records}
             \cup {Asset("service", r.address, r.port, "tcp", r.service, r.tech) : r \in open})

\* host is the name without the port.
Httpx(out) ==
  WithAssets({Asset("endpoint", r.address, r.port, r.service, r.service, r.tech) :
                r \in Read(out, {"lines"})})

Whatweb(out) ==
  WithAssets({Asset("endpoint", r.address, None, None, None, r.tech) :
                r \in {s \in Read(out, {"document", "lines"}) : s.address # None}})

Gobuster(target, out) ==
  WithAssets({Asset("endpoint", Under[target, r.address], None, None, None, r.tech) :
                r \in Read(out, {"lines"})})
-----------------------------------------------------------------------------
(* Validators: a record is a proof of concept.  Without one the result is   *)
(* inconclusive, and is recorded all the same.                              *)

Validated(tool, target, proofs) ==
  [Result(Outcome(proofs)) EXCEPT !.validations =
     {[tool |-> tool, target |-> target,
       result |-> IF proofs = {} THEN "inconclusive" ELSE "confirmed"]}]

Dalfox(target, out) == Validated("dalfox", target, Read(out, {"document", "lines"}))

\* A search in the text, whatever else it holds.
Sqlmap(target, out) == Validated("sqlmap", target, out.records)
-----------------------------------------------------------------------------
ParseFinished(tool, target, out) ==
  CASE tool = "nmap" -> Nmap(out)         [] tool = "httpx" -> Httpx(out)
    [] tool = "whatweb" -> Whatweb(out)   [] tool = "gobuster" -> Gobuster(target, out)
    [] tool = "nuclei" -> Nuclei(out)     [] tool = "nikto" -> Nikto(out)
    [] tool = "prowler" -> Prowler(out)   [] tool = "trivy" -> Trivy(out)
    [] tool = "semgrep" -> Semgrep(out)   [] tool = "gitleaks" -> Gitleaks(out)
    [] tool = "checkov" -> Checkov(out)   [] tool = "dalfox" -> Dalfox(target, out)
    [] tool = "sqlmap" -> Sqlmap(target, out)

\* parse, of every adapter: of a run that was cut off nothing is kept.
Parse(tool, target, out) ==
  IF out.timedOut THEN Failed ELSE ParseFinished(tool, target, out)
=============================================================================
