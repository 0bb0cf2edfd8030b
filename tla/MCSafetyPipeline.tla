-------------------------- MODULE MCSafetyPipeline --------------------------
(* Small instances of SafetyPipeline for TLC. *)
EXTENDS SafetyPipeline, TLC

CONSTANTS t1, r1

\* "--risk=3" of a tool that must not be given --risk, and "--DUMP".
MCFlags == {"plain", "--risk", "--risk=3", "--DUMP", "--dump"}
MCLower == [flag \in MCFlags |-> IF flag = "--DUMP" THEN "--dump" ELSE flag]
Tok(whole, head) == [whole |-> whole, head |-> head]
Plain == Tok("plain", "plain")

Invocation(scope, act, id, cmd) ==
  [target |-> t1, inScope |-> scope, active |-> act, approval |-> id,
   builds |-> cmd # {}, command |-> cmd]

\* Every verdict the static gates can reach, one call of each at a time.
AllInvocations ==
  { Invocation(FALSE, FALSE, NoOne, {Plain}),
    Invocation(TRUE, FALSE, NoOne, {Plain, Tok("--risk=3", "--risk")}),
    Invocation(TRUE, FALSE, NoOne, {Tok("--DUMP", "--DUMP")}),
    Invocation(TRUE, FALSE, NoOne, {}),
    Invocation(TRUE, FALSE, NoOne, {Plain}),
    Invocation(TRUE, TRUE, NoOne, {Plain}),
    Invocation(TRUE, TRUE, r1, {Plain}) }

\* Calls whose command passes: what the limiter and the switch decide.
PassiveInvocations == { Invocation(TRUE, FALSE, NoOne, {Plain}) }

Symmetry == Permutations(Calls)
=============================================================================
