---------------------------- MODULE MCHandshake ----------------------------
(***************************************************************************)
(* Handshake for TLC: two browsers and a short chat, as three scenes.      *)
(* "keys" has the whole backlog, no user messages and the faults of one    *)
(* session.  The other two have a message and a backlog that a scan does   *)
(* not reach the end of: in "resets" a session ends by Disconnect, in      *)
(* "restarts", with one bubble more, with its browser.                     *)
(***************************************************************************)
EXTENDS Handshake, TLC

CONSTANTS a, b

VARIABLE scene

BothPeers == {a, b}
PeerSymmetry == Permutations(BothPeers)

Resets == INSTANCE Handshake WITH
  Backlog <- 2, Faults <- {"disconnect"}, MaxChat <- 3, MaxMsgs <- 1, MaxClicks <- 2
Restarts == INSTANCE Handshake WITH
  Backlog <- 2, Faults <- {"restart"}, MaxChat <- 4, MaxMsgs <- 1, MaxClicks <- 2

SceneInit == Init /\ scene \in {"keys", "resets", "restarts"}
SceneNext ==
  /\ UNCHANGED scene
  /\ \/ scene = "keys" /\ Next
     \/ scene = "resets" /\ Resets!Next
     \/ scene = "restarts" /\ Restarts!Next
SceneSpec == SceneInit /\ [][SceneNext]_<<scene, vars>>

\* Two sides that both show "connected" hold the same conversation key, while no
\* session of an earlier handshake was left behind by Disconnect or a restart.
OneKeyAtOnce == scene = "keys" => OneKey

\* Every OFFER is acted on at most once, likewise.
AckPerOfferAtOnce == scene = "keys" => AckPerOffer

\* A side with no session is keyed only by its user's tap on the banner of the
\* very key it is keyed to, likewise.
ConsentFirstAtOnce ==
  [][scene = "keys" => \A p \in Peers :
       status[p] = "none" /\ status'[p] = "established"
         => /\ peerPub'[p] \in banners[p]
            /\ banners'[p] = banners[p] \ {peerPub'[p]}]_vars
=============================================================================
