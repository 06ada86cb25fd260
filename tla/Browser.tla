------------------------------- MODULE Browser -------------------------------
(***************************************************************************)
(* The universal extension, the X extension and the passes that open a     *)
(* space, one scene per part.  The parts meet in storage, at the gate and  *)
(* on the page, and each module has what the others may do to its share of *)
(* them; Init chooses the scene, and the other parts stand still in one of *)
(* their first states.                                                     *)
(***************************************************************************)
EXTENDS Page, Keyring, Reveal, Sheet, Spaces, Home, XPost, XFeed, DemoPass

VARIABLE scene

partVars == <<pageVars, keyringVars, cardVars, sheetVars, spacesVars, homeVars, xpostVars, feedVars, demoVars>>
browserVars == <<scene, partVars>>

BrowserParts == {"page", "keyring", "card", "sheet", "joins", "bans", "forms", "sites",
                 "x post", "x feed", "minter", "passes"}

BrowserInit ==
  /\ PageInit
  /\ scene # "page" => here = {} /\ ring = {}
  /\ KeyringInit
  /\ scene # "keyring" => kr.token = NoRingToken
  /\ CardInit
  /\ scene # "card" => card.policy = CHOOSE p \in CardPolicies : TRUE
  /\ SheetInit
  /\ SpacesInit
  /\ HomeInit
  /\ XPostInit
  /\ scene # "x post" => on /\ named
  /\ FeedInit
  /\ DemoInit
  /\ scene # "x feed" => vault = "none" /\ \A a \in Articles : node[a].post = a

BrowserNext ==
  /\ UNCHANGED scene
  /\ IF scene = "page" THEN PageNext ELSE UNCHANGED pageVars
  /\ IF scene = "keyring" THEN KeyringNext ELSE UNCHANGED keyringVars
  /\ IF scene = "card" THEN CardNext ELSE UNCHANGED cardVars
  /\ IF scene = "sheet" THEN SheetNext ELSE UNCHANGED sheetVars
  /\ IF scene = "joins" THEN JoinNext
     ELSE IF scene = "bans" THEN BanNext ELSE UNCHANGED spacesVars
  /\ IF scene = "forms" THEN FormNext ELSE IF scene = "sites" THEN SiteNext ELSE UNCHANGED homeVars
  /\ IF scene = "x post" THEN XPostNext ELSE UNCHANGED xpostVars
  /\ IF scene = "x feed" THEN FeedNext ELSE UNCHANGED feedVars
  /\ IF scene = "minter" THEN MinterNext ELSE IF scene = "passes" THEN PassNext ELSE UNCHANGED demoVars

BrowserSpec == scene \in BrowserParts /\ BrowserInit /\ [][BrowserNext]_browserVars

-----------------------------------------------------------------------------
\* What the page and the card show: a chip belongs to the block it sits on, a
\* post marked as shut was tried with the present keys, no block is left out,
\* and a card waits for a tab that exists and tells a verdict of its own attempt.
ReadingSound ==
  /\ scene = "page" => ChipsAreTheirs /\ ShutMeansTried /\ NothingOverlooked
  /\ scene = "card" => NoOrphanWait /\ VerdictsAreTrue

\* The stored keyring loses nothing to another handler, and a proof that was
\* made reaches the gate.
KeyringSound == scene = "keyring" => KeyringKept /\ ProofReachesGate

\* A post that was locked is locked as the sheet said, the author's text is
\* kept until it is replaced, and what is inserted is what was made.
WritingSound == scene = "sheet" => LockedAsPromised /\ TextKept /\ InsertedIsThere

\* A remembered membership is one the gate admitted; bans add up; and the passes
\* that open a space are given within the relayer's limits, counted right, and
\* moved by their owners alone.
SpacesSound ==
  /\ scene \in {"joins", "bans"} => KnownIsAdmitted /\ BansAddUp
  /\ scene = "minter" => HourHolds /\ DayHolds
  /\ scene \in {"minter", "passes"} => BalanceIsCount /\ ApprovalIsOwners

\* A mark beside a field is about what is in it, what is paid was checked, and
\* a listed site is one the browser lets the extension run on.
HomeSound == scene \in {"forms", "sites"} => MarkIsCurrent /\ PaidIsChecked /\ ListedMayRun

\* X: what an article shows is the text of the post that it holds, or of the one
\* that it was taken from in the middle of a decode; no post of ours is given up
\* while the codec may come back, and a feed at rest leaves nothing decoded
\* unpainted.
FeedSound == scene = "x feed" => ShownIsOwn /\ NothingIsLost /\ RestIsPainted
=============================================================================
