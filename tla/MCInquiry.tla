----------------------------- MODULE MCInquiry -----------------------------
(* A chain of three sessions, the last of which asks.                      *)
EXTENDS Inquiry

CONSTANTS top, mid, low, ask, nil

MCSession == {top, mid, low}
MCParent == [c \in {mid, low} |-> IF c = low THEN mid ELSE top]
MCDepth == [x \in {top, mid, low} |-> CASE x = top -> 0 [] x = mid -> 1 [] x = low -> 2]
MCAsker == [x \in {ask} |-> low]
MCCopies == [x \in {ask} |-> 2]
=============================================================================
