----------------------- MODULE MCCollaborationSession -----------------------
(* Small instances of CollaborationSession. *)
EXTENDS CollaborationSession

CONSTANTS n1, n2, h1, h2

\* The second node depends on the first.
Chain == [n \in Node |-> IF n = n2 THEN {n1} ELSE {}]
=============================================================================
