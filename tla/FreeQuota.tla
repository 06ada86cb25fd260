----------------------------- MODULE FreeQuota -----------------------------
(***************************************************************************)
(* What the free tier promises of the covers it hands out: between two     *)
(* restarts of the codec a handle gets at most FreeLimit of them.  No      *)
(* threads, no reservations, no failures: CodecGate implements this.       *)
(***************************************************************************)
EXTENDS Naturals

CONSTANTS Buckets,    \* the metering buckets
          FreeLimit   \* FREE_LIMIT

VARIABLE served       \* served[b]: free covers handed out since the last start

Fresh == [b \in Buckets |-> 0]

Init == served = Fresh

\* One free cover leaves for bucket b.
Serve(b) ==
  /\ served[b] < FreeLimit
  /\ served' = [served EXCEPT ![b] = @ + 1]

\* Counts are in memory: a restart gives everyone a new allowance.
Forget == served' = Fresh

Next == Forget \/ \E b \in Buckets : Serve(b)

Spec == Init /\ [][Next]_served
=============================================================================
