------------------------------ MODULE MCSmokers ------------------------------
(* The three components of the enum; no two of them may be exchanged here,  *)
(* since liveness is checked.                                               *)
EXTENDS Smokers

CONSTANTS MATCH, TOBACCO, PAPER

MCComponent == {MATCH, TOBACCO, PAPER}
==============================================================================
