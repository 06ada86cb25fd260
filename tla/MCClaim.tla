------------------------------ MODULE MCClaim ------------------------------
(* Instances of Claim for TLC: two members, two requests at once.           *)
EXTENDS Claim, TLC

CONSTANTS m1, m2, h1, h2

TwoJoins == [m \in Members |-> IF m = m1 THEN 2 ELSE 1]
=============================================================================
