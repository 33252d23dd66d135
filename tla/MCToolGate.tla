----------------------------- MODULE MCToolGate -----------------------------
(* Small instances of ToolGate for TLC. *)
EXTENDS ToolGate

CONSTANTS a1, a2, f1, f2, r1, c1, c2, c3

\* One call of each agent, or a second one of a1's at the same time.
OwnerOf == [c \in Call |-> IF c = c2 THEN a2 ELSE a1]
=============================================================================
