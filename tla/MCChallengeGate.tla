-------------------------- MODULE MCChallengeGate ---------------------------
(***************************************************************************)
(* A small instance of ChallengeGate for TLC: two datasets of two cases,   *)
(* one that needs a confirmation and one that does not, in one category    *)
(* and in two.                                                             *)
(***************************************************************************)
EXTENDS ChallengeGate

CONSTANTS date, endDate

Labels == [vague |-> {date}, full |-> {}]

MCDatasets ==
  {[missing |-> Labels, category |-> [vague |-> "short", full |-> k]] : k \in {"short", "long"}}
=============================================================================
