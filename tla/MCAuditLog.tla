----------------------------- MODULE MCAuditLog -----------------------------
(* A small instance of AuditLog for TLC: hashes are the hashed triples. *)
EXTENDS AuditLog, TLC

CONSTANTS a1, a2, b1, first, second, proposed, denied

HashTriple(seq, payload, prev) == <<seq, payload, prev>>
GenesisTriple == <<>>
Symmetry == Permutations({a1, a2}) \cup Permutations({proposed, denied})
Owner == [th \in Threads |-> IF th = b1 THEN second ELSE first]
=============================================================================
