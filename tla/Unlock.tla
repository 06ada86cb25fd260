------------------------------- MODULE Unlock -------------------------------
(***************************************************************************)
(* One membership, both unlocks: how the codec's token of a paid claim     *)
(* reaches the Telegram extension.  The app keeps the token and offers it  *)
(* on every load, the panel's button asks the relayer to issue it again,   *)
(* and the extension's script in the page stores it and says so.           *)
(* Source: app lib/live.ts (unlockExtension), lib/live/extensionBridge.ts, *)
(* ui/IdentityPanel.tsx (ExtensionUnlock), app.tsx; relayer/server.mjs     *)
(* (mintCodecToken, POST /codec-token); extension content/appbridge.ts.    *)
(*                                                                         *)
(* One browser profile that people share; a token is the member it names.  *)
(***************************************************************************)
EXTENDS Integers, Sequences

CONSTANTS
  Owners,       \* people who sign in with this browser
  NoMember,     \* no token, and nobody signed in
  UnlockFaults, \* subset of {"relayer", "answer", "private"}
  MaxPosts,     \* bound on the deliveries under way in a page
  MaxLoads      \* bound on page loads

ASSUME UnlockAssumption == NoMember \notin Owners

VARIABLES
  burned,     \* chain: people whose ticket is spent on a handle
  free,       \* chain: people who claimed their handle without paying
  viewer,     \* who is signed in on the page
  keptToken,  \* localStorage
  clicked,    \* the button: "off", "asking" the relayer, or "confirming"
  verdict,    \* what the panel says
  postings, oks,  \* window messages: tokens to the script, answers to the page
  installed, listening, storing,  \* the extension, its script in this page, tokens it is storing
  extToken,   \* chrome.storage.local: the membership
  loads

unlockVars == <<burned, free, viewer, keptToken, clicked, verdict, postings, oks, installed,
                listening, storing, extToken, loads>>
buttonVars == <<clicked, verdict>>
scriptVars == <<installed, listening, storing, extToken>>

HasHandle(p) == p \in burned \cup free

-----------------------------------------------------------------------------
(* The app.                                                                *)

\* deliverMembershipToExtension: remembered, unless the mode is private, and posted.
Deliver(token) ==
  /\ Len(postings) + Len(storing) + oks < MaxPosts /\ postings' = Append(postings, token)
  /\ \/ keptToken' = token
     \/ "private" \in UnlockFaults /\ UNCHANGED keptToken

\* A load, perhaps by another person, ends what the page did; the kept token is
\* offered again, whoever it names.
Load(p) ==
  /\ loads < MaxLoads /\ loads' = loads + 1
  /\ viewer' = p
  /\ postings' = IF keptToken # NoMember /\ HasHandle(p) THEN <<keptToken>> ELSE <<>>
  /\ clicked' = "off" /\ verdict' = "none"
  /\ oks' = 0 /\ listening' = FALSE /\ storing' = <<>>
  /\ UNCHANGED <<burned, free, keptToken, installed, extToken>>

\* The ticket buys the handle; the answer that carries the token may be lost.
Claim ==
  /\ viewer \in Owners /\ ~HasHandle(viewer) /\ clicked = "off"
  /\ burned' = burned \cup {viewer}
  /\ \/ Deliver(viewer)
     \/ "answer" \in UnlockFaults /\ UNCHANGED <<keptToken, postings>>
  /\ UNCHANGED <<free, viewer, buttonVars, oks, scriptVars, loads>>

\* unlockExtension: with a kept token, or else the relayer is asked.
Click ==
  /\ HasHandle(viewer) /\ clicked = "off"
  /\ verdict' = "none"
  /\ IF keptToken # NoMember
     THEN Deliver(keptToken) /\ clicked' = "confirming"
     ELSE clicked' = "asking" /\ UNCHANGED <<keptToken, postings>>
  /\ UNCHANGED <<burned, free, viewer, oks, scriptVars, loads>>

\* POST /codec-token: the burned ticket that bound exactly these values, and a
\* signature of the address that holds the handle.
Reissued(p) == p \in burned
Issues ==
  /\ clicked = "asking" /\ Reissued(viewer)
  /\ Deliver(viewer) /\ clicked' = "confirming"
  /\ UNCHANGED <<burned, free, viewer, verdict, oks, scriptVars, loads>>
\* A refusal, an error and a relayer out of reach read the same.
Refuses ==
  /\ clicked = "asking" /\ (~Reissued(viewer) \/ "relayer" \in UnlockFaults)
  /\ clicked' = "off" /\ verdict' = "not-a-member"
  /\ UNCHANGED <<burned, free, viewer, keptToken, postings, oks, scriptVars, loads>>

\* deliverAndConfirm: the first answer of the script, of whichever delivery,
\* or 1.5 s.  Mutant: the time limit counts as an answer.
OkTaken == oks > 0 /\ oks' = oks - 1
OkArrives ==
  /\ OkTaken
  /\ IF clicked = "confirming" THEN clicked' = "off" /\ verdict' = "unlocked" ELSE UNCHANGED <<clicked, verdict>>
  /\ UNCHANGED <<burned, free, viewer, keptToken, postings, scriptVars, loads>>
TimedOutUnlocked ==
  /\ clicked = "confirming" /\ clicked' = "off" /\ verdict' = "unlocked"
  /\ UNCHANGED <<burned, free, viewer, keptToken, postings, oks, scriptVars, loads>>
TimedOut ==
  /\ clicked = "confirming" /\ clicked' = "off" /\ verdict' = "no-extension"
  /\ UNCHANGED <<burned, free, viewer, keptToken, postings, oks, scriptVars, loads>>

-----------------------------------------------------------------------------
(* The extension.                                                          *)

\* Installed at any time; its script enters a page some time after the load.
Install ==
  /\ IF ~installed THEN installed' = TRUE /\ UNCHANGED listening
     ELSE ~listening /\ listening' = TRUE /\ UNCHANGED installed
  /\ UNCHANGED <<burned, free, viewer, keptToken, buttonVars, postings, oks, storing, extToken, loads>>

\* A message nobody listens for is gone.
Receives ==
  /\ postings # <<>> /\ postings' = Tail(postings)
  /\ storing' = IF listening THEN Append(storing, Head(postings)) ELSE storing
  /\ UNCHANGED <<burned, free, viewer, keptToken, buttonVars, oks, installed, listening, extToken, loads>>

\* Mutant: the script answers before the token is in the storage.
AnswersFirst ==
  /\ storing # <<>> /\ oks = 0
  /\ oks' = oks + 1
  /\ UNCHANGED <<burned, free, viewer, keptToken, buttonVars, postings, installed, listening, storing, extToken, loads>>
Stores ==
  /\ storing # <<>> /\ storing' = Tail(storing)
  /\ extToken' = Head(storing) /\ oks' = oks + 1
  /\ UNCHANGED <<burned, free, viewer, keptToken, buttonVars, postings, installed, listening, loads>>

UnlockInit ==
  /\ burned = {} /\ free \in SUBSET Owners /\ viewer = NoMember /\ keptToken = NoMember /\ extToken = NoMember
  /\ clicked = "off" /\ verdict = "none"
  /\ postings = <<>> /\ oks = 0 /\ storing = <<>>
  /\ installed = FALSE /\ listening = FALSE /\ loads = 0

UnlockNext ==
  \/ \E p \in Owners : Load(p)
  \/ Claim \/ Click \/ Issues \/ Refuses \/ OkArrives \/ TimedOut
  \/ Install \/ Receives \/ Stores

UnlockSpec == UnlockInit /\ [][UnlockNext]_unlockVars

-----------------------------------------------------------------------------
\* "Unlocked" is said only when the extension holds a token, and one that was
\* paid for, however late the script was injected, whichever delivery it
\* answered and whoever signed in in between.
UnlockIsReal ==
  /\ verdict = "unlocked" => extToken # NoMember
  /\ extToken # NoMember => extToken \in burned
=============================================================================
