-------------------------- MODULE ScopedScanProofs --------------------------
(***************************************************************************)
(* Theorems about ScopedScan, for addresses of any width, any names, items,*)
(* patterns, requests and files.                                           *)
(***************************************************************************)
EXTENDS ScopedScan, TLAPS

\* A host is a name, an address, a network, an item or a whole string.
LEMMA HostKinds ==
  ASSUME NEW h \in Hosts
  PROVE  \/ h.kind = "name" /\ h \in Spelled
         \/ h.kind = "addr" /\ h.addr \in Addresses /\ h = Addr(h.addr)
         \/ h.kind = "net" /\ h.addr \in Addresses /\ h.len \in 0 .. Width /\ h = Net(h.addr, h.len)
         \/ h.kind = "item" /\ h.item \in Items /\ h = [kind |-> "item", item |-> h.item]
         \/ h.kind = "whole" /\ h.host \in Machines /\ h.path \in Paths
<1>1. CASE h \in Spelled
  BY <1>1 DEF Spelled
<1>2. CASE h \in {Addr(a) : a \in Addresses}
  BY <1>2 DEF Addr
<1>3. CASE h \in {Net(a, len) : a \in Addresses, len \in 0 .. Width}
  BY <1>3 DEF Net
<1>4. CASE h \in [kind : {"item"}, item : Items]
  BY <1>4
<1>5. CASE h \in [kind : {"whole"}, host : Machines, path : Paths]
  BY <1>5
<1> QED BY <1>1, <1>2, <1>3, <1>4, <1>5 DEF Hosts, Machines

\* A machine is a host that is a name or an address.
LEMMA MachineKinds ==
  \A h : h \in Machines <=> h \in Hosts /\ h.kind \in {"name", "addr"}
<1>1. ASSUME NEW h \in Machines PROVE h \in Hosts /\ h.kind \in {"name", "addr"}
  BY DEF Machines, Hosts, Spelled, Addr
<1>2. ASSUME NEW h \in Hosts, h.kind \in {"name", "addr"} PROVE h \in Machines
  BY <1>2, HostKinds DEF Machines
<1> QED BY <1>1, <1>2

\* lower() changes nothing but the case of a name.
LEMMA LowerHost ==
  ASSUME NEW h \in Hosts
  PROVE  /\ Lower(h) \in Hosts /\ Lower(h).kind = h.kind
         /\ h.kind # "name" => Lower(h) = h
         /\ h.kind = "name" => /\ Lower(h) = [h EXCEPT !.upper = FALSE]
                               /\ Lower(h) \in Spelled
                               /\ Lower(h).labels = h.labels /\ h.labels \in Names
                               /\ Lower(h).dot = h.dot
                               /\ ~h.upper => Lower(h) = h
<1>1. CASE h.kind = "name"
  <2>1. h \in Spelled /\ Lower(h) = [h EXCEPT !.upper = FALSE]
    BY <1>1, HostKinds DEF Lower
  <2>2. /\ Lower(h) \in Spelled /\ Lower(h).labels = h.labels /\ h.labels \in Names
        /\ Lower(h).dot = h.dot /\ Lower(h).kind = "name"
        /\ ~h.upper => Lower(h) = h
    BY <2>1 DEF Spelled
  <2> QED BY <1>1, <2>1, <2>2 DEF Hosts, Machines
<1>2. CASE h.kind # "name"
  BY <1>2 DEF Lower
<1> QED BY <1>1, <1>2

\* What the guard takes a target apart into.
LEMMA RawHost ==
  ASSUME NEW raw \in Raws
  PROVE  /\ raw.host \in Hosts /\ HostOf(raw) \in Hosts
         /\ HostOf(raw).kind = raw.host.kind
         /\ HostOf(raw) = raw.host \/ HostOf(raw) = Lower(raw.host)
<1>1. raw.host \in Hosts
  BY DEF Raws, Hosts
<1> QED BY <1>1, LowerHost DEF HostOf

\* Every name ends in itself.
LEMMA SuffixOfItself ==
  ASSUME NEW s \in Names
  PROVE  IsSuffix(s, s)
<1>1. s \in Seq(Labels)
  BY ScopeAssumption
<1>2. Len(Reverse(s)) = Len(s)
  BY <1>1 DEF Reverse
<1> QED BY <1>1, <1>2 DEF IsSuffix, IsPrefix
-----------------------------------------------------------------------------
(* The networks.                                                           *)

PrefixLength(h) == IF h.kind = "net" THEN h.len ELSE Width

\* The network of an entry is its prefix.
LEMMA MaskedPrefix ==
  ASSUME NEW h \in Hosts, IsNetwork(h)
  PROVE  /\ PrefixLength(h) \in 0 .. Width /\ h.addr \in Addresses
         /\ Masked(h).len = PrefixLength(h)
         /\ \A i \in 1 .. PrefixLength(h) : Masked(h).base[i] = h.addr[i]
BY HostKinds, ScopeAssumption DEF IsNetwork, PrefixLength, Masked

\* An address or a network stands for the addresses that begin with its prefix.
LEMMA DenotedPrefix ==
  ASSUME NEW h \in Hosts, IsNetwork(h)
  PROVE  Denoted(h) = {Addr(a) : a \in {b \in Addresses : \A i \in 1 .. PrefixLength(h) : b[i] = h.addr[i]}}
<1>1. CASE h.kind = "net"
  BY <1>1 DEF Denoted, PrefixLength
<1>2. CASE h.kind = "addr"
  <2>1. h.addr \in Addresses /\ h = Addr(h.addr) /\ Denoted(h) = {h}
    BY <1>2, HostKinds DEF Denoted
  <2>2. ASSUME NEW b \in Addresses, \A i \in 1 .. Width : b[i] = h.addr[i]
        PROVE  b = h.addr
    <3>1. b = [i \in 1 .. Width |-> b[i]] /\ h.addr = [i \in 1 .. Width |-> h.addr[i]]
      BY <2>1 DEF Addresses
    <3>2. [i \in 1 .. Width |-> b[i]] = [i \in 1 .. Width |-> h.addr[i]]
      BY <2>2
    <3> QED BY <3>1, <3>2
  <2>3. {b \in Addresses : \A i \in 1 .. Width : b[i] = h.addr[i]} = {h.addr}
    BY <2>1, <2>2
  <2>4. PrefixLength(h) = Width
    BY <1>2 DEF PrefixLength
  <2> QED BY <2>1, <2>3, <2>4
<1> QED BY <1>1, <1>2 DEF IsNetwork

\* The guard's comparison of two networks is containment of what they stand for: a
\* network is in scope wholly or not at all (scope_guard.py, _in_scope).
THEOREM SubnetIsContainment ==
  ASSUME NEW h \in Hosts, IsNetwork(h), NEW entry \in Hosts, IsNetwork(entry)
  PROVE  SubnetOf(Masked(h), Masked(entry)) <=> Denoted(h) \subseteq Denoted(entry)
<1> DEFINE n == PrefixLength(h)
           m == PrefixLength(entry)
           Under(k, c) == {b \in Addresses : \A i \in 1 .. k : b[i] = c[i]}
<1>1. n \in 0 .. Width /\ m \in 0 .. Width /\ h.addr \in Addresses /\ entry.addr \in Addresses
  BY MaskedPrefix
<1>2. \A b, c : Addr(b) = Addr(c) => b = c
  BY DEF Addr
<1>3. Denoted(h) \subseteq Denoted(entry) <=> Under(n, h.addr) \subseteq Under(m, entry.addr)
  <2>1. Denoted(h) = {Addr(a) : a \in Under(n, h.addr)} /\ Denoted(entry) = {Addr(a) : a \in Under(m, entry.addr)}
    BY DenotedPrefix
  <2> HIDE DEF Under, n, m
  <2>2. /\ \A b : Addr(b) \in Denoted(h) <=> b \in Under(n, h.addr)
        /\ \A b : Addr(b) \in Denoted(entry) <=> b \in Under(m, entry.addr)
        /\ \A x \in Denoted(h) : \E b : x = Addr(b)
    BY <1>2, <2>1
  <2> QED BY <2>2
<1>4. SubnetOf(Masked(h), Masked(entry)) <=> m <= n /\ \A i \in 1 .. m : h.addr[i] = entry.addr[i]
  <2>1. /\ Masked(h).len = n /\ \A i \in 1 .. n : Masked(h).base[i] = h.addr[i]
        /\ Masked(entry).len = m /\ \A i \in 1 .. m : Masked(entry).base[i] = entry.addr[i]
    BY MaskedPrefix
  <2> HIDE DEF n, m
  <2> QED BY <1>1, <2>1, ScopeAssumption DEF SubnetOf, Agree
<1> HIDE DEF n, m
<1>5. ASSUME m <= n, \A i \in 1 .. m : h.addr[i] = entry.addr[i]
      PROVE  Under(n, h.addr) \subseteq Under(m, entry.addr)
  BY <1>1, <1>5, ScopeAssumption
<1>6. ASSUME Under(n, h.addr) \subseteq Under(m, entry.addr)
      PROVE  m <= n /\ \A i \in 1 .. m : h.addr[i] = entry.addr[i]
  <2>1. h.addr \in Under(m, entry.addr)
    BY <1>1, <1>6
  <2>2. m <= n
    <3> SUFFICES ASSUME n < m PROVE FALSE
      BY <1>1, ScopeAssumption
    <3> DEFINE flipped == [i \in 1 .. Width |-> IF i = n + 1 THEN 1 - h.addr[i] ELSE h.addr[i]]
    <3>1. n + 1 \in 1 .. m /\ n + 1 \in 1 .. Width
      BY <1>1, ScopeAssumption
    <3>2. flipped \in Addresses
      <4>1. \A i \in 1 .. Width : h.addr[i] \in {0, 1}
        BY <1>1 DEF Addresses
      <4>2. ASSUME NEW i \in 1 .. Width
            PROVE  (IF i = n + 1 THEN 1 - h.addr[i] ELSE h.addr[i]) \in {0, 1}
        BY <4>1
      <4> QED BY <4>2 DEF Addresses
    <3>3. \A i \in 1 .. n : flipped[i] = h.addr[i]
      BY <1>1, ScopeAssumption
    <3>4. flipped \in Under(m, entry.addr)
      BY <1>6, <3>2, <3>3
    <3>5. flipped[n + 1] = h.addr[n + 1]
      BY <2>1, <3>1, <3>4
    <3>6. h.addr[n + 1] \in {0, 1} /\ flipped[n + 1] = 1 - h.addr[n + 1]
      BY <1>1, <3>1 DEF Addresses
    <3> HIDE DEF flipped
    <3> QED BY <3>5, <3>6
  <2> QED BY <2>1, <2>2
<1> QED BY <1>3, <1>4, <1>5, <1>6
-----------------------------------------------------------------------------
(* The checks on one target.                                               *)

\* What a list of the ROE may hold for the guard to make sense of it.
ReadableLists(r) ==
  /\ r.domains \cup r.cidrs \subseteq Listable
  /\ \A c \in r.cidrs : IsNetwork(c)

Granted(r) ==
  (UNION {Authorised(h) : h \in r.domains \cup r.cidrs})
    \cup [kind : {"item"}, item : r.repos \cup r.accounts]

\* A listed domain is what a string that is no name ends in.
Ends(r, host) ==
  /\ host.kind \in {"item", "whole"}
  /\ \E d \in r.domains :
       /\ d.kind = "name" /\ ~d.dot
       /\ IsSuffix(d.labels, AfterDot[IF host.kind = "item" THEN host.item ELSE host.path])

LEMMA EndsUnderDomain ==
  ASSUME NEW r, ReadableLists(r), NEW s, EndsUnder(s, r)
  PROVE  \E d \in r.domains : d.kind = "name" /\ ~d.dot /\ IsSuffix(d.labels, AfterDot[s])
<1>1. PICK d \in r.domains : d.kind = "name" /\ ~Lower(d).dot /\ IsSuffix(Lower(d).labels, AfterDot[s])
  BY DEF EndsUnder, Domains
<1>2. Lower(d).labels = d.labels /\ Lower(d).dot = d.dot
  BY <1>1, LowerHost DEF ReadableLists, Listable
<1> QED BY <1>1, <1>2

\* What is in scope stands for nothing that no entry authorises, or is a string that
\* ends in a listed domain.
LEMMA ScopeIsGranted ==
  ASSUME NEW r, ReadableLists(r), NEW host \in Hosts, InScope(r, host)
  PROVE  Denoted(host) \subseteq Granted(r) \/ Ends(r, host)
<1>1. CASE IsNetwork(host)
  <2>1. PICK c \in r.cidrs \cup {h \in r.domains : IsNetwork(h)} : SubnetOf(Masked(host), Masked(c))
    BY <1>1 DEF InScope, Networks, IsNetwork
  <2>2. c \in Hosts /\ IsNetwork(c)
    BY <2>1 DEF ReadableLists, Listable
  <2>3. Denoted(host) \subseteq Denoted(c)
    BY <1>1, <2>1, <2>2, SubnetIsContainment
  <2>4. Authorised(c) = Denoted(c)
    BY <2>2 DEF Authorised, IsNetwork
  <2> QED BY <2>1, <2>3, <2>4 DEF Granted
<1>2. CASE host.kind = "name"
  <2>1. PICK d \in r.domains : d.kind = "name" /\ UnderDomain(host, Lower(d))
    BY <1>2 DEF InScope, Domains
  <2>2. d \in Hosts /\ Lower(d).labels = d.labels
    BY <2>1, LowerHost DEF ReadableLists, Listable
  <2>3. host.labels \in Names /\ IsSuffix(d.labels, host.labels)
    BY <1>2, <2>1, <2>2, LowerHost DEF UnderDomain
  <2>4. Denoted(host) \subseteq Authorised(d)
    BY <1>2, <2>1, <2>3 DEF Denoted, Authorised
  <2> QED BY <2>1, <2>4 DEF Granted
<1>4. CASE host.kind = "whole"
  <2>1. EndsUnder(host.path, r)
    BY <1>4 DEF InScope
  <2> QED BY <1>4, <2>1, EndsUnderDomain DEF Ends
<1>5. CASE host.kind = "item" /\ EndsUnder(host.item, r)
  BY <1>5, EndsUnderDomain DEF Ends
<1>3. CASE host.kind = "item" /\ ~EndsUnder(host.item, r)
  <2>1. host = [kind |-> "item", item |-> host.item] /\ host.item \in r.repos \cup r.accounts
    BY <1>3, HostKinds DEF InScope
  <2>2. Denoted(host) = {host}
    BY <1>3 DEF Denoted
  <2> DEFINE owned == [kind : {"item"}, item : r.repos \cup r.accounts]
         listed == UNION {Authorised(h) : h \in r.domains \cup r.cidrs}
  <2>3. Granted(r) = listed \cup owned
    BY DEF Granted
  <2>4. \A i \in r.repos \cup r.accounts : [kind |-> "item", item |-> i] \in owned
    OBVIOUS
  <2> HIDE DEF owned, listed
  <2>5. host \in owned
    BY <2>1, <2>4
  <2> QED BY <2>2, <2>3, <2>5
<1> QED BY <1>1, <1>2, <1>3, <1>4, <1>5, HostKinds DEF IsNetwork

\* Lower case and a URL around it do not change what a host stands for.
LEMMA DenotedLower ==
  ASSUME NEW h \in Hosts
  PROVE  Denoted(Lower(h)) = Denoted(h)
<1>1. CASE h.kind = "name"
  <2>1. Lower(h).kind = "name" /\ Lower(h).labels = h.labels
    BY <1>1, LowerHost
  <2> QED BY <1>1, <2>1 DEF Denoted
<1>2. CASE h.kind # "name"
  BY <1>2, LowerHost
<1> QED BY <1>1, <1>2

\* Two hosts that are written plainly and stand for the same are the same string.
LEMMA PlainHosts ==
  ASSUME NEW x \in Hosts, NEW y \in Hosts, PlainHost(x), PlainHost(y), Denoted(x) = Denoted(y)
  PROVE  x = y
<1>1. ASSUME NEW h \in Hosts, PlainHost(h)
      PROVE  Denoted(h) = {h}
  <2>1. CASE h.kind = "name"
    <3>1. h \in Spelled /\ ~h.upper /\ ~h.dot
      BY <1>1, <2>1, HostKinds DEF PlainHost
    <3>2. h = Plain(h.labels)
      BY <3>1 DEF Spelled, Plain
    <3> QED BY <2>1, <3>2 DEF Denoted
  <2>2. CASE h.kind # "name"
    BY <1>1, <2>2 DEF PlainHost, Denoted
  <2> QED BY <2>1, <2>2
<1> QED BY <1>1

\* What passes check_target is granted and not excluded, whatever the ROE.
LEMMA TargetIsGranted ==
  ASSUME NEW r, ReadableLists(r), NEW raw \in Raws, CheckTarget(r, raw)
  PROVE  /\ Denoted(raw.host) \subseteq Granted(r) \/ Ends(r, raw.host)
         /\ raw.path \notin UNION {Globs[g] : g \in r.excludedPaths}
         /\ PlainHost(raw.host) =>
              \A x \in r.excludedHosts \cap Hosts : PlainHost(x) => Denoted(x) # Denoted(raw.host)
<1>1. /\ raw.host \in Hosts /\ HostOf(raw) \in Hosts
      /\ HostOf(raw) = raw.host \/ HostOf(raw) = Lower(raw.host)
  BY RawHost
<1>2. Denoted(HostOf(raw)) = Denoted(raw.host)
  BY <1>1, DenotedLower
<1>3. Denoted(raw.host) \subseteq Granted(r) \/ Ends(r, raw.host)
  <2>1. Denoted(HostOf(raw)) \subseteq Granted(r) \/ Ends(r, HostOf(raw))
    BY <1>1, ScopeIsGranted DEF CheckTarget
  <2>2. HostOf(raw).kind = raw.host.kind /\ raw.host.kind # "name" => HostOf(raw) = raw.host
    BY <1>1, LowerHost, RawHost
  <2>3. Ends(r, HostOf(raw)) => Ends(r, raw.host)
    BY <2>2, RawHost DEF Ends
  <2> QED BY <1>2, <2>1, <2>3
<1>4. PlainHost(raw.host) => HostOf(raw) = raw.host
  <2>1. PlainHost(raw.host) => Lower(raw.host) = raw.host
    BY <1>1, LowerHost DEF PlainHost
  <2> QED BY <1>1, <2>1
<1>5. raw.path \notin UNION {Globs[g] : g \in r.excludedPaths}
  BY DEF CheckTarget, Excluded
<1>6. ASSUME PlainHost(raw.host), NEW x \in r.excludedHosts \cap Hosts, PlainHost(x),
             Denoted(x) = Denoted(raw.host)
      PROVE  FALSE
  <2>1. x = HostOf(raw)
    BY <1>1, <1>4, <1>6, PlainHosts
  <2> QED BY <2>1 DEF CheckTarget, Excluded
<1> QED BY <1>3, <1>5, <1>6

\* What is on a list is in scope, however it is typed, but for a dot at its end.
LEMMA ListedIsInScope ==
  ASSUME NEW r, ReadableLists(r), NEW host \in Hosts, NEW h \in r.domains \cup r.cidrs,
         Lower(host) = Lower(h), ~(host.kind = "name" /\ host.dot)
  PROVE  InScope(r, host)
<1>1. h \in Hosts /\ h.kind \notin {"item", "whole"} /\ host.kind = h.kind
  BY LowerHost DEF ReadableLists, Listable
<1>2. CASE host.kind = "name"
  <2>1. h \in r.domains
    BY <1>1, <1>2 DEF ReadableLists, IsNetwork
  <2>2. host.labels = h.labels /\ host.labels \in Names /\ ~h.dot
        /\ Lower(h).labels = h.labels /\ Lower(h).dot = h.dot
    BY <1>1, <1>2, LowerHost
  <2>3. Lower(h) \in Domains(r) /\ UnderDomain(host, Lower(h))
    BY <1>1, <1>2, <2>1, <2>2, SuffixOfItself DEF Domains, UnderDomain
  <2> QED BY <1>2, <2>3 DEF InScope
<1>3. CASE host.kind # "name"
  <2>1. host = h /\ IsNetwork(h)
    BY <1>1, <1>3, LowerHost, HostKinds DEF IsNetwork
  <2>2. Masked(h) \in Networks(r)
    BY <2>1 DEF Networks
  <2>3. SubnetOf(Masked(h), Masked(h))
    BY <1>1, <2>1, SubnetIsContainment
  <2> QED BY <2>1, <2>2, <2>3 DEF InScope, IsNetwork
<1> QED BY <1>2, <1>3
-----------------------------------------------------------------------------
(* The invariant.                                                          *)

\* The ROE of a run can be read, wherever it comes from.
RoeInv ==
  roe # NoRoe =>
    /\ ReadableLists(roe) /\ roe.excludedHosts \subseteq Hosts
    /\ \A w \in roe.windows : w.start \in 0 .. DayLength - 1 /\ w.end \in 0 .. DayLength - 1

\* An ROE that was written for a request has a reference and an open window, and what
\* the guard makes of a target is on its lists, but for case.
AskedInv ==
  asked # NoRoe =>
    /\ roe.authorisationRef /\ AllDay \in roe.windows
    /\ \A raw \in targets : \E h \in roe.domains \cup roe.cidrs : Lower(HostOf(raw)) = Lower(h)

ScanInv ==
  /\ day \in Days /\ minute \in 0 .. DayLength - 1
  /\ targets \subseteq Raws
  /\ roe = NoRoe => asked = NoRoe /\ ~call.pass
  /\ RoeInv /\ AskedInv
  /\ PassedIsAuthorised

LEMMA ScanInit == Init => ScanInv
BY ScopeAssumption DEF Init, ScanInv, RoeInv, AskedInv, PassedIsAuthorised, NoCall

\* A host on a list is a target the guard can take apart.
LEMMA BareRaws ==
  ASSUME NEW S \in SUBSET Hosts
  PROVE  /\ {Bare(h) : h \in S} \subseteq Raws
         /\ \A raw \in {Bare(h) : h \in S} : HostOf(raw) = raw.host /\ raw.host \in S
BY DEF Bare, Raws, HostOf

LEMMA LoadFileKeeps ==
  ASSUME ScanInv, NEW file \in Files, LoadFile(file)
  PROVE  ScanInv'
<1>1. /\ file # NoRoe /\ ReadableLists(file) /\ file.excludedHosts \subseteq Hosts
      /\ \A w \in file.windows : w.start \in 0 .. DayLength - 1 /\ w.end \in 0 .. DayLength - 1
  BY FilesAssumption DEF LoadFile, ReadableLists
<1>2. roe' = file /\ asked' = NoRoe /\ ~call'.pass /\ day' = day /\ minute' = minute
  BY DEF LoadFile, ScanInv
<1>3. targets' \subseteq Raws
  <2>1. file.domains \cup file.cidrs \subseteq Hosts
    BY <1>1 DEF ReadableLists, Listable
  <2> QED BY <2>1, BareRaws DEF LoadFile
<1>4. RoeInv'
  BY <1>1, <1>2 DEF RoeInv
<1>5. AskedInv' /\ PassedIsAuthorised'
  BY <1>2 DEF AskedInv, PassedIsAuthorised
<1> QED BY <1>1, <1>2, <1>3, <1>4, <1>5 DEF ScanInv

\* The host a request of the API is about is the one its scope is made of.
LEMMA ScopeHosts ==
  ASSUME NEW target \in Raws, target.host.kind # "item"
  PROVE  /\ ScopeHost(target) \in Listable /\ ScopeHost(target).kind \in {"name", "addr"}
         /\ Url(ScopeHost(target)) \in Raws
         /\ HostOf(Url(ScopeHost(target))) = Lower(ScopeHost(target))
<1>1. target.host \in Hosts
  BY RawHost
<1>2. ScopeHost(target) \in Listable /\ ScopeHost(target).kind \in {"name", "addr"}
  <2>1. CASE target.host.kind = "net"
    <3>1. target.host.addr \in Addresses
      BY <1>1, <2>1, HostKinds
    <3> QED BY <2>1, <3>1 DEF ScopeHost, Addr, Listable, Hosts, Machines
  <2>2. CASE target.host.kind = "whole"
    <3>1. target.host.host \in Hosts /\ target.host.host.kind \in {"name", "addr"}
      BY <1>1, <2>2, MachineKinds, HostKinds
    <3>2. ScopeHost(target) = Lower(target.host.host)
      BY <2>2 DEF ScopeHost
    <3> QED BY <3>1, <3>2, LowerHost DEF Listable
  <2>3. CASE target.host.kind \notin {"net", "whole"}
    BY <1>1, <2>3, LowerHost, HostKinds DEF ScopeHost, Listable
  <2> QED BY <2>1, <2>2, <2>3
<1>3. Url(ScopeHost(target)) \in Raws
  BY <1>2, MachineKinds DEF Url, Raws, Listable
<1> QED BY <1>2, <1>3 DEF Url, HostOf

\* What run_engagement makes of a request.
LEMMA SubmitKeeps ==
  ASSUME ScanInv, NEW req, Submit(req), BuildRoe(req) # NoRoe,
         req.target \in Raws \cup {NoPath},
         req.domains \cup req.cidrs \subseteq Listable, req.excludedHosts \subseteq Hosts
  PROVE  ScanInv'
<1>1. ScopeDomains(req) \subseteq Listable
  <2>1. CASE req.mode = "black_box"
    <3>1. req.target \in Raws /\ req.target.host.kind # "item"
      BY <2>1 DEF Submit, Valid
    <3> QED BY <2>1, <3>1, ScopeHosts DEF ScopeDomains
  <2>2. CASE req.mode # "black_box"
    BY <2>2 DEF ScopeDomains
  <2> QED BY <2>1, <2>2
<1>2. /\ roe' = BuildRoe(req) /\ roe' # NoRoe /\ ~call'.pass /\ day' = day /\ minute' = minute
      /\ roe'.domains = ScopeDomains(req) /\ roe'.cidrs = req.cidrs
      /\ roe'.authorisationRef /\ roe'.windows = {AllDay}
      /\ roe'.excludedHosts = req.excludedHosts
  BY DEF Submit, BuildRoe, ScanInv
<1>3. RoeInv'
  <2>1. ReadableLists(roe')
    BY <1>1, <1>2 DEF ReadableLists, Submit
  <2>2. AllDay.start \in 0 .. DayLength - 1 /\ AllDay.end \in 0 .. DayLength - 1
    BY ScopeAssumption DEF AllDay
  <2> QED BY <1>2, <2>1, <2>2 DEF RoeInv
<1>4. /\ targets' \subseteq Raws
      /\ \A raw \in targets' : \E h \in roe'.domains \cup roe'.cidrs : Lower(HostOf(raw)) = Lower(h)
  <2>1. CASE req.mode = "black_box" /\ req.port
    <3> DEFINE host == ScopeHost(req.target)
    <3>1. req.target \in Raws /\ req.target.host.kind # "item"
      BY <2>1 DEF Submit, Valid
    <3>2. targets' = {Url(host)} /\ roe'.domains = {host}
      BY <1>2, <2>1 DEF Submit, ScopeDomains
    <3>3. Url(host) \in Raws /\ HostOf(Url(host)) = Lower(host) /\ host \in Hosts
      BY <3>1, ScopeHosts DEF Listable
    <3>4. Lower(Lower(host)) = Lower(host)
      BY <3>3 DEF Lower
    <3> QED BY <3>2, <3>3, <3>4
  <2>2. CASE ~(req.mode = "black_box" /\ req.port)
    <3>1. targets' = {Bare(h) : h \in roe'.domains \cup roe'.cidrs}
      BY <1>2, <2>2 DEF Submit
    <3>2. roe'.domains \cup roe'.cidrs \subseteq Hosts
      BY <1>1, <1>2 DEF Listable
    <3> QED BY <3>1, <3>2, BareRaws
  <2> QED BY <2>1, <2>2
<1>5. AskedInv'
  BY <1>2, <1>4 DEF AskedInv
<1>6. PassedIsAuthorised'
  BY <1>2 DEF PassedIsAuthorised
<1> QED BY <1>2, <1>3, <1>4, <1>5, <1>6 DEF ScanInv

\* The two checks of the guard on a proposal.
LEMMA ProposeKeeps ==
  ASSUME ScanInv, roe # NoRoe, NEW raw \in Raws, Propose(raw)
  PROVE  ScanInv'
<1>1. /\ call'.raw = raw
      /\ call'.pass => CheckTarget(roe, raw) /\ CheckWindow(roe, day, minute)
      /\ UNCHANGED <<roe, asked, targets, day, minute>>
  BY DEF Propose
<1>2. ASSUME call'.pass PROVE PassedIsAuthorised'
  <2>1. CheckTarget(roe, raw) /\ CheckWindow(roe, day, minute) /\ ReadableLists(roe)
    BY <1>1, <1>2 DEF ScanInv, RoeInv
  <2>2. /\ Denoted(raw.host) \subseteq Granted(roe) \/ Ends(roe, raw.host)
        /\ raw.path \notin UNION {Globs[g] : g \in roe.excludedPaths}
        /\ PlainHost(raw.host) =>
             \A x \in roe.excludedHosts : PlainHost(x) => Denoted(x) # Denoted(raw.host)
    BY <2>1, TargetIsGranted DEF ScanInv, RoeInv
  <2>3. \E w \in roe.windows :
          /\ day \in w.days
          /\ w.start < w.end
          /\ minute \in (w.start .. w.end) \ {w.end, DayLength - 1}
    <3>1. PICK w \in roe.windows : day \in w.days /\ w.start <= minute /\ minute < w.end
      BY <2>1 DEF CheckWindow
    <3>2. w.start \in 0 .. DayLength - 1 /\ w.end \in 0 .. DayLength - 1 /\ minute \in Nat
      BY <3>1 DEF ScanInv, RoeInv
    <3> QED BY <3>1, <3>2, ScopeAssumption
  <2> QED BY <1>1, <2>2, <2>3 DEF PassedIsAuthorised, Granted, Ends, EndsInDomain
<1>3. PassedIsAuthorised'
  BY <1>2 DEF PassedIsAuthorised
<1> QED BY <1>1, <1>3 DEF ScanInv, RoeInv, AskedInv

LEMMA ScanNext == ScanInv /\ [Next]_vars => ScanInv'
<1> SUFFICES ASSUME ScanInv, [Next]_vars PROVE ScanInv'
  OBVIOUS
<1>1. ASSUME NEW file \in Files, LoadFile(file) PROVE ScanInv'
  BY <1>1, LoadFileKeeps
<1>2. ASSUME NEW req \in Requests, Submit(req) PROVE ScanInv'
  <2>1. BuildRoe(req) # NoRoe
    BY <1>2, NoRoeAssumption DEF Submit
  <2> QED BY <1>2, <2>1, SubmitKeeps, RequestsAssumption
<1>3. ASSUME NEW req \in Requests, NEW port \in BOOLEAN, RunAgent(req.target, port)
      PROVE  ScanInv'
  <2> DEFINE agent == AgentRequest(req.target, port)
  <2>1. /\ agent.mode = "black_box" /\ agent.target = req.target
        /\ agent.domains = {} /\ agent.cidrs = {} /\ agent.excludedHosts = {}
    BY DEF AgentRequest
  <2>2. Submit(agent)
    BY <1>3 DEF RunAgent
  <2>3. agent.target # NoPath
    BY <2>1, <2>2 DEF Submit, Valid
  <2>4. BuildRoe(agent) # NoRoe
    BY <2>1, <2>3, NoRoeAssumption
  <2> HIDE DEF agent
  <2> QED BY <2>1, <2>2, <2>4, SubmitKeeps, RequestsAssumption
<1>4. ASSUME NEW raw \in Raws, roe # NoRoe, Propose(raw) PROVE ScanInv'
  BY <1>4, ProposeKeeps
<1>5. ASSUME NEW raw \in targets, Recon(raw) \/ RunPhase(raw) PROVE ScanInv'
  BY <1>4, <1>5 DEF Recon, RunPhase, ScanInv
<1>6. ASSUME NEW raw \in Raws, Scan(raw) \/ Validate(raw) PROVE ScanInv'
  BY <1>4, <1>6 DEF Scan, Validate
<1>7. CASE Tick
  <2>1. minute' \in 0 .. DayLength - 1
    BY <1>7, ScopeAssumption DEF Tick, ScanInv
  <2>2. day' \in Days
    BY <1>7 DEF Tick, ScanInv
  <2>3. ~call'.pass
    BY <1>7 DEF Tick, NoCall
  <2> QED BY <1>7, <2>1, <2>2, <2>3 DEF Tick, ScanInv, RoeInv, AskedInv, PassedIsAuthorised
<1>8. CASE UNCHANGED vars
  BY <1>8 DEF vars, ScanInv, RoeInv, AskedInv, PassedIsAuthorised, EndsInDomain
<1> QED BY <1>1, <1>2, <1>3, <1>5, <1>6, <1>7, <1>8 DEF Next

LEMMA ScanInvariant == Spec => []ScanInv
BY ScanInit, ScanNext, PTL DEF Spec

\* Every machine that a target stands for which passed the guard is authorised by an
\* entry of the ROE, its path is not excluded, nor is the host, and the time lies in a
\* window (scope_guard.py, check_target and check_window).
THEOREM WhatPassesIsAuthorised == Spec => []PassedIsAuthorised
<1>1. ScanInv => PassedIsAuthorised
  BY DEF ScanInv
<1> QED BY <1>1, ScanInvariant, PTL

\* A run that was asked for is let at its own targets at every minute but the last of
\* a day, unless they are excluded or end in a dot (service.py, _prepare_black_box and
\* _build_roe; run_agent.py, write_roe).
THEOREM AskedTargetsPass == Spec => []OwnTargetsPass
<1>1. ScanInv => OwnTargetsPass
  <2> SUFFICES ASSUME ScanInv, asked # NoRoe, NEW raw \in targets,
                      ~Excluded(roe, HostOf(raw), raw.path),
                      ~(raw.host.kind = "name" /\ raw.host.dot)
               PROVE  /\ CheckTarget(roe, raw)
                      /\ \A m \in 0 .. DayLength - 2 : CheckWindow(roe, day, m)
    BY DEF OwnTargetsPass
  <2>1. raw \in Raws /\ roe # NoRoe /\ ReadableLists(roe) /\ roe.authorisationRef
    BY DEF ScanInv, RoeInv, AskedInv
  <2>2. InScope(roe, HostOf(raw))
    <3>1. PICK h \in roe.domains \cup roe.cidrs : Lower(HostOf(raw)) = Lower(h)
      BY DEF ScanInv, AskedInv
    <3>2. ~(HostOf(raw).kind = "name" /\ HostOf(raw).dot)
      BY <2>1, RawHost, LowerHost
    <3> QED BY <2>1, <3>1, <3>2, RawHost, ListedIsInScope
  <2>3. ASSUME NEW m \in 0 .. DayLength - 2 PROVE CheckWindow(roe, day, m)
    <3>1. AllDay \in roe.windows /\ day \in AllDay.days
      BY DEF ScanInv, AskedInv, AllDay
    <3>2. AllDay.start <= m /\ m < AllDay.end
      BY <2>3, ScopeAssumption DEF AllDay
    <3> QED BY <3>1, <3>2 DEF CheckWindow
  <2> QED BY <2>1, <2>2, <2>3 DEF CheckTarget
<1> QED BY <1>1, ScanInvariant, PTL
=============================================================================
