----------------------------- MODULE MCMission -----------------------------
(***************************************************************************)
(* Two manifests for model checking: one whose plans the user approves and *)
(* a checker judges, and one without approvals that ends with a synthesis. *)
(***************************************************************************)
EXTENDS Mission

MCManifests ==
  {[initial |-> "required", stages |-> {"check"}], [initial |-> "skip", stages |-> {"synth"}]}
=============================================================================
