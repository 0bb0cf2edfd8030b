---------------------------- MODULE MCScopedScan ----------------------------
(* A small instance of ScopedScan for TLC: addresses of two bits, days of   *)
(* three minutes, and in each list of a request or a file at most one       *)
(* entry of each kind.                                                      *)
EXTENDS ScopedScan

NamesHere == {<<"corp">>, <<"app", "corp">>, <<"org">>}
GlobsHere == [g \in {"/billing/*"} |-> {"/billing/x.corp"}]
AfterDotHere ==
  [s \in Items \cup Paths |-> IF s \in {"src/app.corp", "/billing/x.corp"} THEN <<"corp">> ELSE <<>>]
Whole(h, p) == [kind |-> "whole", host |-> h, path |-> p]

AtMostOne(S) == {{}} \cup {{x} : x \in S}
Listed == {Plain(<<"corp">>), [Plain(<<"corp">>) EXCEPT !.upper = TRUE],
           [Plain(<<"app", "corp">>) EXCEPT !.dot = TRUE], Addr(<<1, 0>>)}
Cidrs == AtMostOne({Net(<<1, 1>>, 1), Net(<<0, 1>>, 2)})
Unwanted == AtMostOne({Plain(<<"app", "corp">>), [Plain(<<"corp">>) EXCEPT !.upper = TRUE],
                       Net(<<1, 0>>, 1)})
Patterns == {{}, {"/billing/*"}}

Black == [mode : {"black_box"}, port : BOOLEAN, cidrs : {{}},
          target : {Bare(h) : h \in Listed} \cup {Url(h) : h \in Listed}
                    \cup {Bare(Net(<<1, 1>>, 1)), Bare(Whole(Plain(<<"app", "corp">>), "/billing/x.corp"))},
          domains : {{}}, accounts : {{}}, repos : {{}},
          excludedHosts : Unwanted, excludedPaths : Patterns]
Gray == [mode : {"gray_box"}, port : {FALSE}, target : {NoPath}, cidrs : Cidrs,
         domains : AtMostOne(Listed), accounts : AtMostOne({"acct"}), repos : {{}},
         excludedHosts : AtMostOne({Addr(<<1, 1>>)}), excludedPaths : {{}}]
White == [mode : {"white_box"}, port : {FALSE}, target : {NoPath}, cidrs : {{}},
          domains : {{}}, accounts : {{}}, repos : AtMostOne({"src/app.corp"}),
          excludedHosts : {{}}, excludedPaths : {{}}]
RequestsHere == Black \cup Gray \cup White

Times == {[days |-> {"Mon"}, start |-> 0, end |-> 2], [days |-> {"Mon"}, start |-> 2, end |-> 1]}
FilesHere ==
  [mode : {"black_box"}, authorisationRef : BOOLEAN, profile : {"non_destructive"},
   domains : AtMostOne(Listed), cidrs : Cidrs, accounts : {{}}, repos : {{}},
   excludedHosts : AtMostOne({Addr(<<1, 0>>)}), excludedPaths : {{}},
   windows : AtMostOne(Times), approvers : {{}, {"void"}}]
ReportedHere == {Bare(Whole(Plain(<<"org">>), "/billing/x.corp"))}
=============================================================================
