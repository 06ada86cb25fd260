--------------------------- MODULE MCMeteredSend ---------------------------
(* Instances of MeteredSend for TLC: one account, one or two tabs of it.    *)
EXTENDS MeteredSend, TLC

CONSTANTS t1, t2, c1, c2

OneProfile == [c \in Tabs |-> "home"]
=============================================================================
