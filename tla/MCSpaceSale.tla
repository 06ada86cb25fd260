---------------------------- MODULE MCSpaceSale ----------------------------
(* One name: ann buys it, perhaps twice, and bob buys it too.              *)
EXTENDS SpaceSale

CONSTANTS a1, a2, ann, bob, lentil, theirs

CallOf == [a \in Attempts |-> IF a \in theirs THEN bob ELSE ann]
NameOf == [a \in Attempts |-> lentil]
=============================================================================
