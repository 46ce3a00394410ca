-------------------------- MODULE MCSessionRestore --------------------------
(***************************************************************************)
(* Trees of sub-agents for the runs of SessionRestore.                     *)
(***************************************************************************)
EXTENDS SessionRestore

CONSTANTS kid, grandkid

\* The root, one child, and a child of that child.
Chain == [c \in Sub |-> IF c = grandkid THEN kid ELSE Root]

=============================================================================
