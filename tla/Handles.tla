------------------------------ MODULE Handles ------------------------------
(***************************************************************************)
(* What a paid membership promises, over two chains and without the relayer *)
(* in between: a member is charged once, a handle goes to a paid member or  *)
(* to a stranger on the free path, and whoever holds it keeps it.           *)
(***************************************************************************)
EXTENDS Naturals

CONSTANTS Members, Labels, Free, Stranger

VARIABLES charged,  \* charged[m]: membership fees m has paid
          owner     \* owner[l]: who holds handle l

Init ==
  /\ charged = [m \in Members |-> 0]
  /\ owner = [l \in Labels |-> Free]

Pay(m) ==
  /\ charged[m] = 0
  /\ charged' = [charged EXCEPT ![m] = 1]
  /\ UNCHANGED owner

Issue(l, who) ==
  /\ owner[l] = Free
  /\ who \in Members => charged[who] = 1
  /\ owner' = [owner EXCEPT ![l] = who]
  /\ UNCHANGED charged

Next ==
  \/ \E m \in Members : Pay(m)
  \/ \E l \in Labels, who \in Members \cup {Stranger} : Issue(l, who)

Spec == Init /\ [][Next]_<<charged, owner>>
=============================================================================
