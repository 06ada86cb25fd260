------------------------------- MODULE Reveal -------------------------------
(***************************************************************************)
(* The card that opens an older post: each click is an attempt that walks  *)
(* the checks of the policy, asks the gate for shares and may wait for     *)
(* World's widget in a tab of its own.  Attempts share the card's flags.   *)
(* Source: extension-everywhere/src/reveal, src/world and the tabs of      *)
(* background/index.ts.                                                    *)
(***************************************************************************)
EXTENDS Integers, Sequences, FiniteSets

CONSTANTS
  CardPolicies,  \* policies: [op, checks], checks over {"pass", "after", "human", "nft"}
  MaxAttempts,   \* bound on the attempts of a card
  MaxWidgets     \* bound on the tabs it opens

ASSUME CardAssumption ==
  /\ MaxWidgets \in Nat
  /\ \A p \in CardPolicies : p.checks \in Seq({"pass", "after", "human", "nft"}) \ {<<>>}

VARIABLES
  card,     \* [policy, stage]: "loading", "failed", "locked", "open", "closed"
  typed,    \* passphrases typed in this card: subset of {"right", "wrong"}
  wants,    \* the flags wantsHuman and wantsNft
  tries,    \* attempts in progress
  begun,    \* how many there were
  verify,   \* the Verify button shows
  pane,     \* the pane of a running verification shows
  cancel,   \* cancelWorld: the id it ends, or 0
  worldTab, \* the tab whose widget is told the gate's verdict, or 0
  widget,   \* id -> [state, verdict]
  mail,     \* messages of the widgets
  clicked,  \* ghost: how often the reader asked for World ID
  given,    \* ghost: ids whose proof the gate accepted
  entwined  \* ghost: two attempts ran at once

cardVars == <<card, typed, wants, tries, begun, verify, pane, cancel, worldTab,
              widget, mail, clicked, given, entwined>>

Widgets == 1..MaxWidgets
Opened == {w \in Widgets : widget[w].state # "none"}
Checks == card.policy.checks
Needs(c) == \E i \in DOMAIN Checks : Checks[i] = c

-----------------------------------------------------------------------------
(* An attempt.  Of an AND the first check without a key ends the walk; of  *)
(* an OR every check is asked before any key is tried.                     *)

Swap(a, b) == tries' = (tries \ {a}) \cup {b}

Walk(a, key, share) ==
  LET got == IF share THEN a.got \cup {a.leaf} ELSE a.got
      stop == (card.policy.op = "and" /\ ~key) \/ a.leaf = Len(Checks) IN
  [a EXCEPT !.got = got, !.id = 0,
            !.at = IF stop THEN "trying" ELSE "leaf",
            !.leaf = IF stop THEN @ ELSE @ + 1]
Proceed(a, key, share) == Swap(a, Walk(a, key, share))

\* tellWidget: whichever tab was last waited for hears it.
TellWidget(ok) ==
  /\ widget' = [w \in Widgets |-> IF w = worldTab THEN [widget[w] EXCEPT !.verdict = ok] ELSE widget[w]]
  /\ worldTab' = 0

Attempt(by) ==
  /\ card.stage = "locked" /\ begun < MaxAttempts
  /\ begun' = begun + 1
  /\ tries' = tries \cup {[n |-> begun + 1, by |-> by, at |-> "leaf", leaf |-> 1, got |-> {}, id |-> 0]}
  /\ entwined' = (entwined \/ tries # {})

TryPassphrase ==
  /\ Needs("pass")
  /\ \E p \in {"right", "wrong"} : typed' = typed \cup {p}
  /\ Attempt("pass")
  /\ UNCHANGED <<card, wants, verify, pane, cancel, worldTab, widget, mail, clicked, given>>

VerifyHuman ==
  /\ verify
  /\ wants' = wants \cup {"human"}
  /\ Attempt("human")
  /\ clicked' = clicked + 1
  /\ UNCHANGED <<card, typed, verify, pane, cancel, worldTab, widget, mail, given>>

ProveNft ==
  /\ Needs("nft")
  /\ wants' = wants \cup {"nft"}
  /\ Attempt("nft")
  /\ UNCHANGED <<card, typed, verify, pane, cancel, worldTab, widget, mail, clicked, given>>

\* A passphrase gives a key to try, right or wrong.
AtPass(a) ==
  /\ a.at = "leaf" /\ Checks[a.leaf] = "pass"
  /\ Proceed(a, typed # {}, "right" \in typed)
  /\ UNCHANGED <<card, typed, wants, begun, verify, pane, cancel, worldTab, widget, mail, clicked, given, entwined>>

AtAfter(a) ==
  /\ a.at = "leaf" /\ Checks[a.leaf] = "after"
  /\ Swap(a, [a EXCEPT !.at = "releasing"])
  /\ UNCHANGED <<card, typed, wants, begun, verify, pane, cancel, worldTab, widget, mail, clicked, given, entwined>>

\* nftProof: the wallet signs, or the check is refused.
NftProof(a) ==
  /\ a.at = "leaf" /\ Checks[a.leaf] = "nft"
  /\ \/ "nft" \in wants /\ Swap(a, [a EXCEPT !.at = "releasing"])
     \/ Proceed(a, FALSE, FALSE)
  /\ UNCHANGED <<card, typed, wants, begun, verify, pane, cancel, worldTab, widget, mail, clicked, given, entwined>>

\* worldProof: nothing without a click; else a challenge and a tab.
NotAsked(a) ==
  /\ a.at = "leaf" /\ Checks[a.leaf] = "human" /\ "human" \notin wants
  /\ Proceed(a, FALSE, FALSE)
  /\ UNCHANGED <<card, typed, wants, begun, verify, pane, cancel, worldTab, widget, mail, clicked, given, entwined>>

NoChallenge(a) ==
  /\ a.at = "leaf" /\ Checks[a.leaf] = "human" /\ "human" \in wants
  /\ Proceed(a, FALSE, FALSE)
  /\ TellWidget("no")
  /\ UNCHANGED <<card, typed, wants, begun, verify, pane, cancel, mail, clicked, given, entwined>>

OpenWorldTab(a) ==
  /\ a.at = "leaf" /\ Checks[a.leaf] = "human" /\ "human" \in wants
  /\ \E w \in Widgets \ Opened :
       /\ widget' = [widget EXCEPT ![w] = [state |-> "open", verdict |-> "none"]]
       /\ Swap(a, [a EXCEPT !.at = "waiting", !.id = w])
       /\ cancel' = w
  /\ pane' = TRUE /\ verify' = FALSE
  /\ UNCHANGED <<card, typed, wants, begun, worldTab, mail, clicked, given, entwined>>

ProofArrives(a) ==
  /\ a.at = "waiting" /\ [id |-> a.id, proof |-> TRUE] \in mail
  /\ mail' = mail \ {[id |-> a.id, proof |-> TRUE]}
  /\ cancel' = 0
  /\ worldTab' = a.id
  /\ pane' = FALSE
  /\ Swap(a, [a EXCEPT !.at = "releasing"])
  /\ UNCHANGED <<card, typed, wants, begun, verify, widget, clicked, given, entwined>>

\* The tab was closed: the pane stays until Cancel is pressed.
ClosedArrives(a) ==
  /\ a.at = "waiting" /\ [id |-> a.id, proof |-> FALSE] \in mail
  /\ mail' = mail \ {[id |-> a.id, proof |-> FALSE]}
  /\ cancel' = 0
  /\ Proceed(a, FALSE, FALSE)
  /\ TellWidget("no")
  /\ UNCHANGED <<card, typed, wants, begun, verify, pane, clicked, given, entwined>>

CancelWorld ==
  /\ pane
  /\ pane' = FALSE /\ verify' = TRUE /\ cancel' = 0
  /\ \/ /\ cancel = 0
        /\ UNCHANGED <<tries, widget, worldTab>>
     \/ \E a \in tries :
          /\ a.at = "waiting" /\ a.id = cancel
          /\ Proceed(a, FALSE, FALSE)
          /\ worldTab' = 0
          /\ widget' = [w \in Widgets |->
               CASE w = worldTab -> [widget[w] EXCEPT !.verdict = "no"]
                 [] w = cancel /\ w # worldTab -> [widget[w] EXCEPT !.state = "closed"]
                 [] OTHER -> widget[w]]
  /\ UNCHANGED <<card, typed, wants, begun, mail, clicked, given, entwined>>

\* release: the gate gives the share or says why not.  Mutant: a refusal is
\* told as success.
ReleaseAnyway(a) ==
  /\ a.at = "releasing"
  /\ \E ok \in BOOLEAN :
       /\ Proceed(a, ok, ok)
       /\ given' = IF ok THEN given \cup {a.id} ELSE given
       /\ TellWidget("yes")
  /\ UNCHANGED <<card, typed, wants, begun, verify, pane, cancel, mail, clicked, entwined>>
Release(a) ==
  /\ a.at = "releasing"
  /\ \E ok \in BOOLEAN :
       /\ Proceed(a, ok, ok)
       /\ given' = IF ok THEN given \cup {a.id} ELSE given
       /\ IF ok THEN TellWidget("yes")
          ELSE IF Checks[a.leaf] = "human" THEN TellWidget("no")
          ELSE UNCHANGED <<widget, worldTab>>
  /\ UNCHANGED <<card, typed, wants, begun, verify, pane, cancel, mail, clicked, entwined>>

\* The end of an attempt: the text is shown or not, and the flags of its
\* click are lowered.
EndAttempt(a) ==
  /\ a.at = "trying"
  /\ tries' = tries \ {a}
  /\ wants' = wants \ {a.by}
  /\ LET opens == IF card.policy.op = "and" THEN a.got = DOMAIN Checks ELSE a.got # {} IN
     /\ card' = IF opens THEN [card EXCEPT !.stage = "open"] ELSE card
     /\ verify' = IF opens THEN verify ELSE Needs("human") /\ ~pane
  /\ UNCHANGED <<typed, begun, pane, cancel, worldTab, widget, mail, clicked, given, entwined>>

-----------------------------------------------------------------------------
(* The tab: the widget proves and waits for the verdict; closing it tells  *)
(* whoever waits, by its own button or through tabs.onRemoved.             *)

Prove(w) ==
  /\ widget[w].state = "open"
  /\ widget' = [widget EXCEPT ![w].state = "sent"]
  /\ mail' = mail \cup {[id |-> w, proof |-> TRUE]}
  /\ UNCHANGED <<card, typed, wants, tries, begun, verify, pane, cancel, worldTab, clicked, given, entwined>>

\* Mutant: the browser's own close button is not noticed.
CloseTabSilently(w) ==
  /\ widget[w].state \in {"open", "sent"}
  /\ widget' = [widget EXCEPT ![w].state = "closed"]
  /\ UNCHANGED <<card, typed, wants, tries, begun, verify, pane, cancel, worldTab, mail, clicked, given, entwined>>
CloseTab(w) ==
  /\ widget[w].state \in {"open", "sent"}
  /\ widget' = [widget EXCEPT ![w].state = "closed"]
  /\ mail' = mail \cup {[id |-> w, proof |-> FALSE]}
  /\ UNCHANGED <<card, typed, wants, tries, begun, verify, pane, cancel, worldTab, clicked, given, entwined>>

\* The codec answers; the first attempt comes without a click.
Load ==
  /\ card.stage = "loading"
  /\ \/ /\ card' = [card EXCEPT !.stage = "failed"] /\ UNCHANGED <<tries, begun, verify>>
     \/ /\ card' = [card EXCEPT !.stage = "locked"]
        /\ verify' = Needs("human")
        /\ begun' = 1
        /\ tries' = {[n |-> 1, by |-> "pass", at |-> "leaf", leaf |-> 1, got |-> {}, id |-> 0]}
  /\ UNCHANGED <<typed, wants, pane, cancel, worldTab, widget, mail, clicked, given, entwined>>

CloseCard ==
  /\ card.stage # "closed"
  /\ card' = [card EXCEPT !.stage = "closed"]
  /\ tries' = {} /\ cancel' = 0 /\ worldTab' = 0
  /\ UNCHANGED <<typed, wants, begun, verify, pane, widget, mail, clicked, given, entwined>>

CardInit ==
  /\ card \in [policy : CardPolicies, stage : {"loading"}]
  /\ typed = {} /\ wants = {} /\ tries = {} /\ begun = 0
  /\ verify = FALSE /\ pane = FALSE /\ cancel = 0 /\ worldTab = 0
  /\ widget = [w \in Widgets |-> [state |-> "none", verdict |-> "none"]]
  /\ mail = {} /\ clicked = 0 /\ given = {} /\ entwined = FALSE

CardNext ==
  \/ Load \/ CloseCard \/ TryPassphrase \/ VerifyHuman \/ ProveNft \/ CancelWorld
  \/ \E a \in tries : AtPass(a) \/ AtAfter(a) \/ NftProof(a) \/ NotAsked(a) \/ NoChallenge(a)
                        \/ OpenWorldTab(a) \/ ProofArrives(a) \/ ClosedArrives(a)
                        \/ Release(a) \/ EndAttempt(a)
  \/ \E w \in Widgets : Prove(w) \/ CloseTab(w)

CardSpec == CardInit /\ [][CardNext]_cardVars

-----------------------------------------------------------------------------
\* An attempt that waits for World ID can still be woken: its tab is there or
\* the word of its end is on the way.
NoOrphanWait ==
  \A a \in tries : a.at = "waiting" =>
    widget[a.id].state = "open" \/ \E m \in mail : m.id = a.id

\* While attempts do not overlap, World's widget shows success only for a
\* proof that the gate accepted, and a tab opens only for a click.
VerdictsAreTrue ==
  ~entwined =>
    /\ \A w \in Opened : widget[w].verdict = "yes" => w \in given
    /\ Cardinality(Opened) <= clicked

=============================================================================
