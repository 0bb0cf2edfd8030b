----------------------------- MODULE ScopedScan -----------------------------
(***************************************************************************)
(* Where the tools of a run may be pointed: the ROE comes from a file      *)
(* (config/loader.py, config/models.py) or is written for a request of the *)
(* API (api/service.py) or of run_agent.py; recon and scan go over the targets and over the   *)
(* endpoints recon found (graph/build.py), validation over whatever the    *)
(* planner names, and the guard looks at each of them (safety/pipeline.py, *)
(* steps 2 and 3) while time goes on.                                      *)
(***************************************************************************)
EXTENDS ScopeGuard

CONSTANTS
  Requests,   \* ScanRequests
  Files,      \* the ROEs files of this instance spell
  Reported,   \* raws of the endpoints tools report
  NoRoe

\* What an entry of a list of domains or CIDRs can be: no item, and nothing with a path.
Listable == {h \in Hosts : h.kind \notin {"item", "whole"}}

\* Times are HH:MM, so that a window ends with the last minute of a day at the latest.
ASSUME FilesAssumption ==
  \A file \in Files :
    /\ file # NoRoe
    /\ file.domains \cup file.cidrs \subseteq Listable /\ file.excludedHosts \subseteq Hosts
    /\ \A w \in file.windows : w.start \in 0 .. DayLength - 1 /\ w.end \in 0 .. DayLength - 1

ASSUME RequestsAssumption ==
  \A req \in Requests :
    /\ req.target \in Raws \cup {NoPath}
    /\ req.domains \cup req.cidrs \subseteq Listable /\ req.excludedHosts \subseteq Hosts

VARIABLES
  roe,        \* the RulesOfEngagement
  asked,      \* history: the request the ROE was written for, or NoRoe
  targets,    \* state.targets
  endpoints,  \* addresses of the endpoints in state.inventory
  day, minute,
  call        \* the last proposal of the minute, and whether the guard let it pass

vars == <<roe, asked, targets, endpoints, day, minute, call>>
-----------------------------------------------------------------------------
NoCall == [raw |-> NoPath, pass |-> FALSE]

Init ==
  /\ roe = NoRoe /\ asked = NoRoe
  /\ targets = {} /\ endpoints = {}
  /\ day \in Days /\ minute = 0
  /\ call = NoCall

\* load_roe: __post_init__ wants a reference, an enabled profile and an approver;
\* a CIDR that is none makes networks() raise.  The targets are the allowlists'.
LoadFile(file) ==
  /\ roe = NoRoe
  /\ file.authorisationRef /\ file.profile = "non_destructive" /\ file.approvers # {}
  /\ \A c \in file.cidrs : IsNetwork(c)
  /\ roe' = file
  /\ targets' = {Bare(h) : h \in file.domains \cup file.cidrs}
  /\ UNCHANGED <<asked, endpoints, day, minute, call>>

\* ScanRequest.validate: what the mode needs is there.
Valid(req) ==
  CASE req.mode = "black_box" -> req.target # NoPath /\ req.target.host.kind # "item"
    [] req.mode = "gray_box"  -> req.accounts # {}
    [] req.mode = "white_box" -> req.repos # {}

\* _prepare_black_box: urlparse().hostname of the target, which cuts a path off, and
\* a prefix length as if it were one.
ScopeHost(target) ==
  CASE target.host.kind = "net"   -> Addr(target.host.addr)
    [] target.host.kind = "whole" -> Lower(target.host.host)
    [] OTHER                      -> Lower(target.host)

ScopeDomains(req) ==
  IF req.mode = "black_box" THEN {ScopeHost(req.target)} ELSE req.domains

AllDay == [days |-> Days, start |-> 0, end |-> DayLength - 1]

\* _build_roe, read back by load_roe.
BuildRoe(req) ==
  [mode |-> req.mode, authorisationRef |-> TRUE, profile |-> "non_destructive",
   domains |-> ScopeDomains(req), cidrs |-> req.cidrs,
   accounts |-> req.accounts, repos |-> req.repos,
   excludedHosts |-> req.excludedHosts, excludedPaths |-> req.excludedPaths,
   windows |-> {AllDay}, approvers |-> {"operator"}]

\* run_engagement up to the first node: a port makes the target a URL.
Submit(req) ==
  /\ roe = NoRoe
  /\ Valid(req)
  /\ \A c \in req.cidrs : IsNetwork(c)
  /\ roe' = BuildRoe(req)
  /\ asked' = req
  /\ targets' = IF req.mode = "black_box" /\ req.port
                  THEN {Url(ScopeHost(req.target))}
                  ELSE {Bare(h) : h \in ScopeDomains(req) \cup req.cidrs}
  /\ UNCHANGED <<endpoints, day, minute, call>>

\* run_agent.py: write_roe for a target and its port, without exclusions.
AgentRequest(target, port) ==
  [mode |-> "black_box", target |-> target, port |-> port, domains |-> {}, cidrs |-> {},
   accounts |-> {}, repos |-> {}, excludedHosts |-> {}, excludedPaths |-> {}]

\* An ROE that was written is one.
ASSUME NoRoeAssumption ==
  \A req \in Requests :
    /\ Valid(req) => BuildRoe(req) # NoRoe
    /\ req.target # NoPath =>
         \A port \in BOOLEAN : BuildRoe(AgentRequest(req.target, port)) # NoRoe

\* main up to the first node: normalise_target, that ROE, and a URL for a port.
RunAgent(target, port) == Submit(AgentRequest(target, port))

\* SafetyPipeline.execute, the two checks of the guard.
Propose(raw) ==
  /\ call' = [raw |-> raw,
              pass |-> CheckTarget(roe, raw) /\ CheckWindow(roe, day, minute)]
  /\ UNCHANGED <<roe, asked, targets, day, minute>>

\* ReconFlow.run, one call: what passed may report an endpoint.
Recon(raw) ==
  /\ roe # NoRoe /\ raw \in targets
  /\ Propose(raw)
  /\ endpoints' \in {endpoints} \cup (IF call'.pass THEN {endpoints \cup {r} : r \in Reported}
                                                    ELSE {})

\* _scan_plan_and_targets
ScanTargets ==
  LET live == IF endpoints # {} THEN endpoints ELSE targets
      Literal(items) == {Bare([kind |-> "item", item |-> i]) : i \in items}
  IN  CASE roe.mode = "white_box" -> Literal(roe.repos)
        [] roe.mode = "gray_box" /\ roe.accounts # {} -> Literal(roe.accounts)
        [] OTHER -> live

\* ScanFlow.run, one call.
Scan(raw) ==
  /\ roe # NoRoe /\ raw \in ScanTargets
  /\ Propose(raw)
  /\ UNCHANGED endpoints

\* cli.py, run: a flow of one phase on the allowlists of the file, whatever its mode
\* and whatever was found.
RunPhase(raw) ==
  /\ roe # NoRoe /\ asked = NoRoe
  /\ raw \in {Bare(h) : h \in roe.domains \cup roe.cidrs}
  /\ Propose(raw)
  /\ UNCHANGED endpoints

\* ValidateFlow.run: any target the planner names.
Validate(raw) ==
  /\ roe # NoRoe
  /\ Propose(raw)
  /\ UNCHANGED endpoints

Tick ==
  /\ roe # NoRoe
  /\ minute' = (minute + 1) % DayLength
  /\ day' \in IF minute' = 0 THEN Days ELSE {day}
  /\ call' = NoCall
  /\ UNCHANGED <<roe, asked, targets, endpoints>>

Next ==
  \/ \E file \in Files : LoadFile(file)
  \/ \E req \in Requests : Submit(req)
  \/ \E raw \in {r.target : r \in Requests}, port \in BOOLEAN : RunAgent(raw, port)
  \/ \E raw \in targets : Recon(raw) \/ RunPhase(raw)
  \/ \E raw \in Raws : Scan(raw)
  \/ \E raw \in Raws : Validate(raw)
  \/ Tick

Spec == Init /\ [][Next]_vars
-----------------------------------------------------------------------------
(* What the strings mean.                                                  *)

\* The machines, or the item, that a target or an entry of a list stands for; a string
\* that the guard keeps whole stands for itself.
Denoted(host) ==
  CASE host.kind = "name" -> {Plain(host.labels)}
    [] host.kind = "net"  ->
         {Addr(a) : a \in {b \in Addresses : \A i \in 1 .. host.len : b[i] = host.addr[i]}}
    [] OTHER -> {host}

\* A listed domain is what an item, or the path behind a host, ends in after a dot.
EndsInDomain(host) ==
  /\ host.kind \in {"item", "whole"}
  /\ \E d \in roe.domains :
       /\ d.kind = "name" /\ ~d.dot
       /\ IsSuffix(d.labels, AfterDot[IF host.kind = "item" THEN host.item ELSE host.path])

Authorised(host) ==
  IF host.kind = "name" THEN {Plain(n) : n \in {m \in Names : IsSuffix(host.labels, m)}}
  ELSE Denoted(host)

PlainHost(host) == host.kind # "net" /\ (host.kind = "name" => ~host.upper /\ ~host.dot)

\* What passes is what was signed for: every machine a target that passed stands
\* for is one that an entry of the ROE authorises, a network wholly so; no
\* pattern of the exclusions matches the path of a URL; a single host written
\* plainly is none the exclusions list plainly; and the time lies in a window that
\* began that day, which no window does in the last minute of a day
\* (scope_guard.py:10, "Exclusions always win").  The exception are strings without
\* a scheme that the guard takes for a host as a whole (scope_guard.py:168): an item
\* that is not listed, or a host with a path, passes only if it ends in a listed
\* domain, but then whatever its host, and exclusions of paths do not see it.
PassedIsAuthorised ==
  call.pass =>
    LET host == call.raw.host
        granted == (UNION {Authorised(h) : h \in roe.domains \cup roe.cidrs})
                     \cup [kind : {"item"}, item : roe.repos \cup roe.accounts]
    IN  /\ Denoted(host) \subseteq granted \/ EndsInDomain(host)
        /\ call.raw.path \notin UNION {Globs[g] : g \in roe.excludedPaths}
        /\ PlainHost(host) =>
             \A x \in roe.excludedHosts : PlainHost(x) => Denoted(x) # Denoted(host)
        /\ \E w \in roe.windows :
             /\ day \in w.days
             /\ w.start < w.end
             /\ minute \in (w.start .. w.end) \ {w.end, DayLength - 1}

\* A request gets what it asks for: with a target in any case, with a port, a path
\* or a scheme, or with domains and networks without them, a call on a target of the
\* run that is not excluded passes at every minute but the last of the day.  Names
\* that end in a dot are the exception: the domain of such a request matches nothing.
OwnTargetsPass ==
  asked # NoRoe =>
    \A raw \in targets :
      \/ CheckTarget(roe, raw) /\ \A m \in 0 .. DayLength - 2 : CheckWindow(roe, day, m)
      \/ Excluded(roe, HostOf(raw), raw.path)
      \/ raw.host.kind = "name" /\ raw.host.dot
=============================================================================
