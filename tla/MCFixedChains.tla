---------------------------- MODULE MCFixedChains ----------------------------
(***************************************************************************)
(* The workloads that keep to the FEC's filing rules, the hypothesis under *)
(* which AmendmentChainsProofs has the columns current: TLC evaluates it.  *)
(***************************************************************************)
EXTENDS MCAmendmentChains

ASSUME WorkloadKeepsTheRules == FixedChains
=============================================================================
