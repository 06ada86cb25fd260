------------------------------- MODULE MCLive -------------------------------
(***************************************************************************)
(* What must happen in the end: the handshake of two extensions, and the   *)
(* delivery of a stored message in the app, as two scenes.  The fairness   *)
(* of a part is asked for in its own scene only; there it is Handshake's   *)
(* Fairness and Conversation's ConvFair, condition for condition.          *)
(***************************************************************************)
EXTENDS Handshake, Conversation

CONSTANTS a, b

VARIABLE scene

LiveInit == Init /\ ConvInit /\ scene \in {"handshake", "store"}

LiveNext ==
  /\ UNCHANGED scene
  /\ IF scene = "handshake" THEN Next ELSE UNCHANGED vars
  /\ IF scene = "store" THEN ConvNext ELSE UNCHANGED convVars

HandshakeFair ==
  \A p \in Peers :
    /\ WF_vars(scene = "handshake" /\ Boot(p)) /\ WF_vars(scene = "handshake" /\ Scan(p))
    /\ WF_vars(scene = "handshake" /\ FinishJob(p))
    /\ WF_vars(scene = "handshake" /\ TelegramMutates(p))
    /\ WF_vars(scene = "handshake" /\ TapAccept(p))

StoreFair ==
  /\ \A m \in Blobs : WF_convVars(scene = "store" /\ CatchUp(m))
  /\ \A d \in Devices :
    /\ WF_convVars(scene = "store" /\ ReadHead(d)) /\ WF_convVars(scene = "store" /\ ReadDone(d))
    /\ WF_convVars(scene = "store" /\ ScanDue(d))
    /\ SF_convVars(scene = "store" /\ FindHeads(d)) /\ SF_convVars(scene = "store" /\ AdoptHead(d))
    /\ \A m \in Blobs : /\ WF_convVars(scene = "store" /\ FromCache(d, m))
                        /\ SF_convVars(scene = "store" /\ OpenBlob(d, m))

LiveSpec ==
  LiveInit /\ [][LiveNext]_<<scene, vars, convVars>> /\ HandshakeFair /\ StoreFair
=============================================================================
