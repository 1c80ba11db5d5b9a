--------------------------- MODULE MCControlPlane ---------------------------
(* Small instances of ControlPlane for TLC. *)
EXTENDS ControlPlane, TLC

CONSTANTS c1, c2, c3, p1, p2, k1

\* Two bodies that differ only in a secret share their value-free commitment.
MCBodies == {"plain", "secretA", "secretB"}
MCCommitment == [b \in MCBodies |-> IF b = "plain" THEN "plain" ELSE "redacted"]
MCSecret == [b \in MCBodies |-> IF b = "plain" THEN None ELSE b]

\* Calls are interchangeable, and so are planes.
Symmetry == Permutations(Calls) \cup Permutations(Planes)
=============================================================================
