------------------------------- MODULE MCApp -------------------------------
(***************************************************************************)
(* The messenger app and the services it and the extensions talk to, one   *)
(* scene per part: the gate, the store of a conversation, the inbox, an    *)
(* open thread, knocks and their relay, the identity's records, the        *)
(* website's bot and its sign-ups, the way to a membership, the            *)
(* membership's way to the extension, and that extension's popup. The gate *)
(* has five scenes, which start from different reachable states and in     *)
(* which only the named part of the environment moves.                     *)
(***************************************************************************)
EXTENDS Gate, Conversation, Inbox, Knock, Records, Site, Membership, Unlock, Popup, TLC

CONSTANTS h1, w1, t1, r1

VARIABLE scene

Scenes == {"bans", "holders", "naming", "connect", "older"}
\* How far the clock goes: past the bound the scene is about.
Until == [bans |-> 4, holders |-> 5, naming |-> 7, connect |-> 2, older |-> 1]
\* The last moment at which holders and names change: later changes would be
\* judged after the bound.
LastChange == 1

After(n) == [check |-> "after", at |-> n, space |-> "none"]
Human(space) == [check |-> "human", at |-> 0, space |-> space]
Nft == [check |-> "nft", at |-> 0, space |-> "ens"]
SceneItems == [bans |-> <<Human("ens")>>, holders |-> <<Nft>>, naming |-> <<Nft>>,
               connect |-> <<After(1), Human("gate")>>, older |-> <<>>]
MCPolicies == {<<Human("gate")>>, <<Human("ens")>>, <<Nft>>, <<After(1)>>, <<Human("none"), After(1)>>}

\* In "connect" the session was granted long ago and ends at 1.
SceneInit ==
  /\ GateStart
  /\ scene \in Scenes
  /\ posts = [r \in Refs |-> IF scene = "older" \/ r # r1 THEN NoPost
                             ELSE [kind |-> "sealed", items |-> SceneItems[scene]]]
  /\ sessions = [t \in Tokens |->
       IF t # t1 \/ scene = "older" THEN NoRow
       ELSE [claims |-> [poh |-> IF scene \in {"bans", "connect"} THEN h1 ELSE Nobody,
                         wallets |-> IF scene = "bans" THEN {} ELSE {w1}],
             exp |-> IF scene = "connect" THEN 1 ELSE SessionTtl]]

SceneNext ==
  /\ UNCHANGED scene
  /\ \/ Reading
     \/ Unlocking /\ scene # "older"
     \/ Tick /\ now < Until[scene]
     \/ scene = "bans" /\ WriteBan(ByKeyring(h1))
     \/ scene = "holders" /\ now <= LastChange /\ Transfer(w1)
     \/ scene = "naming" /\ now <= LastChange /\ WriteToken
     \/ scene = "connect" /\ (Connecting \/ Restart)
     \/ scene = "older" /\ (OlderPosts \/ Spaces \/ \E r \in Refs : Seal(r) \/ Deposit(r))
     \/ scene = "older" /\ \E q \in Calls : AfterItem(q) \/ NftItem(q) \/ Answer(q)

Alike == Permutations(Calls) \cup Permutations(Nonces)

Parts == {"store", "inbox", "thread", "knocks", "identity", "bot", "signup", "member", "unlock", "popup"}
\* Sign-ups per window: waitlist.js and alpha.js say 5 and 3.
MCRate == [waitlist |-> 2, alpha |-> 1]

Init ==
  /\ SceneInit \/ (scene \in Parts /\ GateInit)
  /\ ConvInit /\ InboxInit /\ KnockInit /\ RecInit /\ SiteInit
  /\ MemberInit /\ (scene # "member" => price = 100 /\ funds = 85 /\ abroad = 0)
  /\ UnlockInit /\ (scene # "unlock" => free = {})
  /\ PopupInit
  /\ scene # "identity" => \A p \in People : kept[p] = "none"

Next ==
  /\ UNCHANGED scene
  /\ IF scene \in Scenes THEN SceneNext ELSE UNCHANGED gateVars
  /\ IF scene = "store" THEN ConvWrites ELSE UNCHANGED convVars
  /\ IF scene = "inbox" THEN InboxNext /\ UNCHANGED thread
     ELSE IF scene = "thread" THEN ThreadNext /\ UNCHANGED mailVars
     ELSE UNCHANGED <<thread, active, mailVars>>
  /\ IF scene = "knocks" THEN KnockNext ELSE UNCHANGED knockVars
  /\ IF scene = "identity" THEN RecNext ELSE UNCHANGED recVars
  /\ IF scene = "bot" THEN BotNext ELSE IF scene = "signup" THEN SignupNext ELSE UNCHANGED siteVars
  /\ IF scene = "member" THEN MemberNext ELSE UNCHANGED memberVars
  /\ IF scene = "unlock" THEN UnlockNext ELSE UNCHANGED unlockVars
  /\ IF scene = "popup" THEN PopupNext ELSE UNCHANGED popupVars

appVars == <<scene, gateVars, convVars, inboxVars, threadVars, knockVars, recVars, siteVars, memberVars,
             unlockVars, popupVars>>

Spec == Init /\ [][Next]_appVars

-----------------------------------------------------------------------------
\* What the services promise: a knock that was acknowledged is served, and the
\* bot and the sign-ups keep what people gave and forget what they erased.
ServicesSound ==
  /\ scene = "knocks" => AckedIsServed
  /\ scene = "bot" => EntryKept /\ DoneIsEntered /\ GoneIsGone
  /\ scene = "signup" => HandleKept /\ StatusIsMeant /\ RateHolds

\* What the app and the extension's popup say of a person's identity, money,
\* session and setup is true.
IdentityIsHonest ==
  /\ scene = "identity" => RepairIsHonest
  /\ scene = "member" => OneFee /\ DoneIsMember /\ RevertIsReal /\ BridgedIsEnough
  /\ scene = "unlock" => UnlockIsReal
  /\ scene = "popup" => InviteIsHeld /\ GuideStaysAway
=============================================================================
