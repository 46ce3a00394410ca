--------------------------- MODULE InquiryPromise ---------------------------
(***************************************************************************)
(* What the inquiry machinery promises to the tool that asks and to the    *)
(* client that answers: the answer returned is the first one accepted, and *)
(* it was given by a client to this request; the asker gives up (deadline, *)
(* cancel, failed emit) only while no answer has been accepted.            *)
(***************************************************************************)
EXTENDS Naturals

CONSTANTS Request, Copies

VARIABLES
  stage,     \* of each request: "open", "kept" (returned an answer), "given_up"
  given,     \* answers clients have given, numbered from 1
  accepted   \* the answer accepted for the asker, 0 when there is none

vars == <<stage, given, accepted>>

Init ==
  /\ stage = [r \in Request |-> "open"]
  /\ given = [r \in Request |-> 0]
  /\ accepted = [r \in Request |-> 0]

Give(r) ==
  /\ given[r] < Copies[r]
  /\ given' = [given EXCEPT ![r] = @ + 1]
  /\ UNCHANGED <<stage, accepted>>

Accept(r, k) ==
  /\ accepted[r] = 0 /\ k \in 1..given[r]
  /\ accepted' = [accepted EXCEPT ![r] = k]
  /\ UNCHANGED <<stage, given>>

Keep(r) ==
  /\ stage[r] = "open" /\ accepted[r] # 0
  /\ stage' = [stage EXCEPT ![r] = "kept"]
  /\ UNCHANGED <<given, accepted>>

GiveUp(r) ==
  /\ stage[r] = "open" /\ accepted[r] = 0
  /\ stage' = [stage EXCEPT ![r] = "given_up"]
  /\ UNCHANGED <<given, accepted>>

Next == \E r \in Request :
  \/ Give(r) \/ Keep(r) \/ GiveUp(r)
  \/ \E k \in 1..Copies[r] : Accept(r, k)

Spec == Init /\ [][Next]_vars
=============================================================================
