------------------------------- MODULE Popup -------------------------------
(***************************************************************************)
(* The Telegram extension's popup: the switch, the setup guide that ticks  *)
(* itself, and the Connect button over polls of the page's script.         *)
(* Source: extension popup/popup.ts; the script's answers in               *)
(* content/index.ts.  Messages to the script and its answers keep their    *)
(* order, as they do in one channel.                                       *)
(***************************************************************************)
EXTENDS Integers, Sequences

CONSTANTS
  PopupFaults,  \* subset of {"gone", "inject"}: the script is orphaned, and cannot be injected
  MaxInLine,    \* bound on the messages under way
  MaxOpens      \* bound on the times the popup is opened

VARIABLES
  hs,         \* the script's session: "none", "offered" or "established"
  scriptHere, \* the script answers
  settings,   \* chrome.storage.local: [on, guideDone]
  view,       \* what the popup holds, see FreshView
  restored,   \* the settings load() has read and not yet used
  asking,     \* clicks on Connect that wait for the active tab
  line,       \* messages to the script: [kind, next]
  answers,    \* its answers: [kind, next, says]
  finished,   \* ghost: the guide was complete, and its link not clicked since
  invited,    \* ghost: this popup sent an invite and heard of no failure
  opens

popupVars == <<hs, scriptHere, settings, view, restored, asking, line, answers, finished, invited, opens>>
pageVars1 == <<hs, scriptHere>>

FreshView == [open |-> TRUE, loaded |-> FALSE, on |-> FALSE, codec |-> FALSE, tab |-> FALSE, hs |-> FALSE,
          dismissed |-> FALSE, button |-> "none", connecting |-> FALSE]
Closed == [FreshView EXCEPT !.open = FALSE]
Unset == [on |-> FALSE, guideDone |-> FALSE]

Complete(v) == v.codec /\ v.tab /\ v.on /\ v.hs
GuideShown == view.open /\ ~Complete(view) /\ ~view.dismissed

\* paintGuide, over what the switch stores: the first completion is
\* remembered.  Mutant: in the popup only.
ForgetfulPaint(v, stored, was) ==
  /\ view' = [v EXCEPT !.dismissed = @ \/ Complete(v)]
  /\ finished' = (was \/ Complete(v))
  /\ settings' = stored
PaintGuide(v, stored, was) ==
  /\ view' = [v EXCEPT !.dismissed = @ \/ Complete(v)]
  /\ finished' = (was \/ Complete(v))
  /\ settings' = [stored EXCEPT !.guideDone = @ \/ (Complete(v) /\ ~v.dismissed)]
Paint(v) == PaintGuide(v, settings, finished)

\* paintConnect.  Mutant: a poll from before the invite frees the button.
FlippedBack(v, status) == [v EXCEPT !.button = status, !.connecting = @ /\ status = "none"]
Connectable(v, status) ==
  IF status = "none" /\ v.connecting THEN v
  ELSE [v EXCEPT !.button = status, !.connecting = FALSE]

Say(kind, next) == Len(line) + Len(answers) < MaxInLine /\ line' = Append(line, [kind |-> kind, next |-> next])

-----------------------------------------------------------------------------
(* The popup.                                                              *)

OpenPopup ==
  /\ ~view.open /\ opens < MaxOpens /\ opens' = opens + 1
  /\ view' = FreshView /\ restored' = settings /\ invited' = FALSE
  /\ Say("ping", "status")
  /\ UNCHANGED <<pageVars1, settings, asking, answers, finished>>

\* An invite that was sent is still handled; nobody hears the answers.
ClosePopup ==
  /\ view.open
  /\ view' = Closed /\ asking' = 0 /\ line' = <<>> /\ answers' = <<>>
  /\ hs' = IF scriptHere /\ (\E i \in DOMAIN line : line[i].kind = "start") /\ hs = "none" THEN "offered" ELSE hs
  /\ restored' = Unset /\ invited' = FALSE
  /\ UNCHANGED <<scriptHere, settings, finished, opens>>

\* load: the settings as they were when the popup opened.
Loads ==
  /\ view.open /\ ~view.loaded
  /\ Paint([view EXCEPT !.loaded = TRUE, !.on = restored.on, !.dismissed = restored.guideDone])
  /\ restored' = Unset /\ UNCHANGED <<pageVars1, asking, line, answers, invited, opens>>

CheckHealth ==
  /\ view.loaded
  /\ \E ready \in BOOLEAN : ready # view.codec /\ Paint([view EXCEPT !.codec = ready])
  /\ UNCHANGED <<pageVars1, restored, asking, line, answers, invited, opens>>

\* The switch paints before it stores.
Switch ==
  /\ view.open
  /\ PaintGuide([view EXCEPT !.on = ~@], [settings EXCEPT !.on = ~view.on], finished)
  /\ UNCHANGED <<pageVars1, restored, asking, line, answers, invited, opens>>

\* settleGuide, and the link that opens the guide again: a complete one is
\* dismissed at once.
SkipGuide ==
  /\ GuideShown
  /\ view' = [view EXCEPT !.dismissed = TRUE]
  /\ settings' = [settings EXCEPT !.guideDone = TRUE]
  /\ UNCHANGED <<pageVars1, restored, asking, line, answers, finished, invited, opens>>
Reopen ==
  /\ view.open /\ ~GuideShown
  /\ PaintGuide([view EXCEPT !.dismissed = FALSE], settings, FALSE)
  /\ UNCHANGED <<pageVars1, restored, asking, line, answers, invited, opens>>

\* Every 1.5 s, whatever the poll before has come to.
Poll ==
  /\ view.open /\ Say("ping", "status")
  /\ UNCHANGED <<pageVars1, settings, view, restored, asking, answers, finished, invited, opens>>

\* Connect: the tab is asked for, and only then the button is held.
Press ==
  /\ view.open /\ view.button = "none" /\ asking < 1
  /\ asking' = asking + 1
  /\ UNCHANGED <<pageVars1, settings, view, restored, line, answers, finished, invited, opens>>
Invite ==
  /\ asking > 0 /\ asking' = asking - 1
  /\ view' = [view EXCEPT !.connecting = TRUE, !.button = "sending"]
  /\ Say("ping", "start") /\ invited' = TRUE
  /\ UNCHANGED <<pageVars1, settings, restored, answers, finished, opens>>

-----------------------------------------------------------------------------
(* The script, and its answers.                                            *)

Replies ==
  /\ line # <<>>
  /\ line' = Tail(line)
  /\ answers' = Append(answers, [kind |-> Head(line).kind, next |-> Head(line).next,
                                 says |-> IF scriptHere THEN hs ELSE "error"])
  /\ hs' = IF Head(line).kind = "start" /\ scriptHere /\ hs = "none" THEN "offered" ELSE hs
  /\ UNCHANGED <<scriptHere, settings, view, restored, asking, finished, invited, opens>>

\* reachContentScript: an orphan is replaced; the invite is sent anyway.
Reached ==
  /\ answers # <<>> /\ Head(answers).kind = "ping"
  /\ answers' = Tail(answers)
  /\ \/ Head(answers).says # "error" /\ UNCHANGED scriptHere
     \/ Head(answers).says = "error" /\ scriptHere' = TRUE
  /\ line' = Append(line, [kind |-> Head(answers).next, next |-> "none"])
  /\ UNCHANGED <<hs, settings, view, restored, asking, finished, invited, opens>>
NotReached ==
  /\ answers # <<>> /\ Head(answers).kind = "ping" /\ Head(answers).says = "error" /\ "inject" \in PopupFaults
  /\ answers' = Tail(answers)
  /\ IF Head(answers).next = "start"
     THEN line' = Append(line, [kind |-> "start", next |-> "none"]) /\ UNCHANGED <<view, settings, finished>>
     ELSE Paint([view EXCEPT !.tab = FALSE, !.hs = FALSE]) /\ UNCHANGED line
  /\ UNCHANGED <<pageVars1, restored, asking, invited, opens>>

\* refreshHsStatus, with the status; an error only changes a chip.
Painted ==
  /\ answers # <<>> /\ Head(answers).kind = "status"
  /\ answers' = Tail(answers)
  /\ LET said == Head(answers).says IN
     IF said = "error" THEN UNCHANGED <<view, settings, finished>>
     ELSE Paint(Connectable([view EXCEPT !.tab = TRUE, !.hs = said = "established"], said))
  /\ UNCHANGED <<pageVars1, restored, asking, line, invited, opens>>

\* The answer to the invite; an error frees the button.
InviteEnds ==
  /\ answers # <<>> /\ Head(answers).kind = "start"
  /\ answers' = Tail(answers)
  /\ IF Head(answers).says = "error"
     THEN view' = Connectable([view EXCEPT !.connecting = FALSE], "none") /\ invited' = FALSE
     ELSE UNCHANGED <<view, invited>>
  /\ UNCHANGED <<pageVars1, settings, restored, asking, line, finished, opens>>

\* The peer accepts or invites; the script is orphaned.
Peer == hs # "established" /\ hs' = "established" /\ UNCHANGED <<scriptHere, settings, view, restored, asking, line, answers, finished, invited, opens>>
Orphaned == "gone" \in PopupFaults /\ scriptHere /\ scriptHere' = FALSE /\ UNCHANGED <<hs, settings, view, restored, asking, line, answers, finished, invited, opens>>

PopupInit ==
  /\ hs = "none" /\ scriptHere = TRUE /\ settings = Unset
  /\ view = Closed /\ restored = settings /\ asking = 0 /\ line = <<>> /\ answers = <<>>
  /\ finished = FALSE /\ invited = FALSE /\ opens = 0

PopupNext ==
  \/ OpenPopup \/ ClosePopup \/ Loads \/ CheckHealth \/ Switch \/ SkipGuide \/ Reopen \/ Poll \/ Press \/ Invite
  \/ Replies \/ Reached \/ NotReached \/ Painted \/ InviteEnds \/ Peer \/ Orphaned

PopupSpec == PopupInit /\ [][PopupNext]_popupVars

-----------------------------------------------------------------------------
\* While an invite of this popup has not failed, no poll, however late, makes
\* the button look pressable again.
InviteIsHeld == view.open /\ invited => view.button # "none"

\* A guide that was complete once stays away, whatever becomes of its steps
\* and however often the popup is opened, until its link is clicked.
GuideStaysAway == finished /\ view.loaded => ~GuideShown
=============================================================================
