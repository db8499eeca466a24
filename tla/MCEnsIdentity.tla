---------------------------- MODULE MCEnsIdentity ----------------------------
(* The name n1 is in both registries, n2 only in the new one; b owns n2.    *)
EXTENDS EnsIdentity

CONSTANTS a, b, n1, n2

MCResolver == [r \in Registry |-> IF r = "ensv2" THEN {n1, n2} ELSE {n1}]
MCOwner == [r \in Registry |-> [n \in Name |-> IF n = n1 /\ r = "ensv2" THEN a ELSE b]]
MCPrimary == [w \in Account |-> IF w = a THEN n1 ELSE None]

=============================================================================
