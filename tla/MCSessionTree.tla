--------------------------- MODULE MCSessionTree ---------------------------
(* The tree of the runs: a chain of three sessions.                        *)
EXTENDS SessionTree

CONSTANTS r, m, w, nil

MCSession == {r, m, w}
Chain == [c \in {m, w} |-> IF c = m THEN r ELSE m]
=============================================================================
