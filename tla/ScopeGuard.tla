----------------------------- MODULE ScopeGuard -----------------------------
(***************************************************************************)
(* The scope guard (safety/scope_guard.py) as operators on an ROE.  A host *)
(* is what a string in a target or in an ROE list spells:                  *)
(*   name   its labels from the left, and whether it is written with upper *)
(*          case or a trailing dot                                         *)
(*   addr   an IP address: its Width bits, from the left                   *)
(*   net    an address with a prefix length                                *)
(*   item   a repository path or cloud account, without a scheme           *)
(*   whole  a name or an address with a path behind it, without a scheme:  *)
(*          the guard takes all of it for the host                         *)
(* Ports are dropped before anything is compared and are left out, as are  *)
(* the IP versions, leading dots, and Target.ip, which no caller sets.     *)
(***************************************************************************)
EXTENDS Integers, SequencesExt

CONSTANTS
  Width,      \* bits of an address
  Labels,     \* what stands between the dots of a name
  Names,      \* host names, as sequences of labels
  Items,
  Paths,      \* URL paths (after an address, none that is a prefix length)
  NoPath,
  AfterDot,   \* AfterDot[s]: the labels behind the first dot of an item or a path
  Globs,      \* Globs[g]: the paths a pattern of exclusions.paths matches
  Days,
  DayLength   \* minutes of a day

ASSUME ScopeAssumption ==
  /\ Width \in Nat
  /\ Names \subseteq Seq(Labels) \ {<<>>}
  /\ \A s \in Items \cup Paths : AfterDot[s] \in Seq(Labels)
  /\ DayLength \in Nat \ {0}
  /\ NoPath \notin Paths
  /\ \A g \in DOMAIN Globs : Globs[g] \subseteq Paths

Addresses == [1 .. Width -> {0, 1}]

Spelled == [kind : {"name"}, labels : Names, upper : BOOLEAN, dot : BOOLEAN]
Plain(labels) == [kind |-> "name", labels |-> labels, upper |-> FALSE, dot |-> FALSE]
Addr(a) == [kind |-> "addr", addr |-> a]
Net(a, len) == [kind |-> "net", addr |-> a, len |-> len]

Machines == Spelled \cup {Addr(a) : a \in Addresses}

Hosts == Machines
           \cup {Net(a, len) : a \in Addresses, len \in 0 .. Width}
           \cup [kind : {"item"}, item : Items]
           \cup [kind : {"whole"}, host : Machines, path : Paths]

\* Target.raw: a host, or a URL of one.  What follows a slash is a path to the guard
\* in a URL only.
Raws == [form : {"bare"}, host : Hosts, path : {NoPath}]
          \cup [form : {"url"}, host : Machines, path : Paths \cup {NoPath}]

Bare(host) == [form |-> "bare", host |-> host, path |-> NoPath]
Url(host) == [form |-> "url", host |-> host, path |-> NoPath]
-----------------------------------------------------------------------------
(* __init__: what the allowlists of the ROE come to.                       *)

\* ip_network(..., strict=False): the bits after the prefix are cleared.
Masked(host) ==
  LET len == IF host.kind = "net" THEN host.len ELSE Width
  IN  [base |-> [i \in 1 .. Width |-> IF i <= len THEN host.addr[i] ELSE 0], len |-> len]

IsNetwork(host) == host.kind \in {"addr", "net"}

\* Mutant: addresses listed as domains are not made networks.
NetworksOnlyCidrs(roe) == {Masked(c) : c \in roe.cidrs}

\* _networks: the CIDRs, and whatever of the domains is an address or a network.
Networks(roe) ==
  {Masked(c) : c \in roe.cidrs} \cup {Masked(d) : d \in {h \in roe.domains : IsNetwork(h)}}

Lower(host) == IF host.kind = "name" THEN [host EXCEPT !.upper = FALSE] ELSE host

\* _domains
Domains(roe) == {Lower(d) : d \in {h \in roe.domains : h.kind = "name"}}
-----------------------------------------------------------------------------
(* check_target                                                            *)

\* _host_and_path: urlsplit().hostname is in lower case, a bare string as typed, with
\* whatever follows a slash.
HostOf(raw) == IF raw.form = "url" THEN Lower(raw.host) ELSE raw.host

\* _is_excluded: the string is in the list, or a pattern matches the path.
Excluded(roe, host, path) ==
  \/ host \in roe.excludedHosts
  \/ \E g \in roe.excludedPaths : path \in Globs[g]

Agree(net, other, len) == \A i \in 1 .. len : net.base[i] = other.base[i]

\* Mutant: a network that overlaps an allowed one is in scope.
SubnetOfOverlap(net, allowed) ==
  Agree(net, allowed, IF net.len < allowed.len THEN net.len ELSE allowed.len)

\* addr in net, and subnet_of: from the first address of a network to its last, none
\* lies outside the allowed one.
SubnetOf(net, allowed) == allowed.len <= net.len /\ Agree(net, allowed, allowed.len)

\* h == dom or h.endswith("." + dom), after lower() and rstrip(".") of the host;
\* the domain keeps a trailing dot, and then equals no host.
UnderDomain(host, dom) == ~dom.dot /\ IsSuffix(dom.labels, host.labels)

\* The same of a string that is no name: what stands behind its dots can end in a domain.
EndsUnder(s, roe) == \E d \in Domains(roe) : ~d.dot /\ IsSuffix(d.labels, AfterDot[s])

\* _in_scope
InScope(roe, host) ==
  CASE host.kind = "item" -> host.item \in roe.repos \cup roe.accounts \/ EndsUnder(host.item, roe)
    [] host.kind = "whole" -> EndsUnder(host.path, roe)
    [] host.kind = "addr" -> \E n \in Networks(roe) : SubnetOf(Masked(host), n)
    [] host.kind = "net"  -> \E n \in Networks(roe) : SubnetOf(Masked(host), n)
    [] host.kind = "name" -> \E d \in Domains(roe) : UnderDomain(host, d)

CheckTarget(roe, raw) ==
  /\ roe.authorisationRef
  /\ ~Excluded(roe, HostOf(raw), raw.path)
  /\ InScope(roe, HostOf(raw))

\* check_window
CheckWindow(roe, day, minute) ==
  \E w \in roe.windows : day \in w.days /\ w.start <= minute /\ minute < w.end
=============================================================================
