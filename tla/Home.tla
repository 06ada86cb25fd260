-------------------------------- MODULE Home --------------------------------
(***************************************************************************)
(* The full page of the universal extension: the form that sells a space,  *)
(* whose fields are checked as the buyer types, the tab that lends it the  *)
(* buyer's wallet, and the sites that are "always on".  The same debounced *)
(* check stands beside the space name of a rule in the compose sheet.      *)
(* Source: extension-everywhere/src/home/home.ts, sheet/sheet.ts,          *)
(* popup/popup.ts, background/buy.ts and background/index.ts.              *)
(***************************************************************************)
EXTENDS Integers, FiniteSets

CONSTANTS
  Inputs,      \* "name", "collection", "rule": the fields checked as one types
  Guarded,     \* those whose check drops an answer about an older text
  Entries,     \* what may be typed
  Right,       \* the entries that the network approves of
  Origins,     \* web sites
  MaxKeystrokes, \* bound on the edits of a behaviour
  MaxClicks,   \* bound on the clicks on Create space
  HomeFaults   \* subset of {"network", "worker", "close"}

ASSUME HomeAssumption == {"name", "collection"} \cup Guarded \subseteq Inputs

VARIABLES
  entry,    \* the text of each field
  debounce, \* fields whose check is yet to start
  lookups,  \* checks waiting for the network: [field, of, n]
  mark,     \* the mark beside a field: "", "ok", "bad"
  strokes,
  purchase, \* the call behind the button: where it is and what it buys
  purchases,
  progress, \* storage: buyState, with its time
  dismissed,\* time of the finished purchase that the buyer moved on from
  panel,    \* the progress that the page shows
  listed,   \* origins with a registered content script
  granted,  \* origins that Chrome allows the extension
  setting   \* SITE_SET in progress

formVars == <<entry, debounce, lookups, mark, strokes>>
orderVars == <<purchase, purchases, progress, dismissed, panel>>
siteVars == <<listed, granted, setting>>
homeVars == <<entry, debounce, lookups, mark, strokes,
              purchase, purchases, progress, dismissed, panel, listed, granted, setting>>

NoOrder == [at |-> "none", name |-> "", collection |-> ""]
NoProgress == [step |-> "none", time |-> 0]
Over == {"done", "failed"}

-----------------------------------------------------------------------------
(* A field: typing restarts its timer, the timer clears the mark and asks  *)
(* the network.                                                            *)

TypeIn(f) ==
  /\ strokes < MaxKeystrokes
  /\ \E e \in Entries \cup {""} : e # entry[f] /\ entry' = [entry EXCEPT ![f] = e]
  /\ strokes' = strokes + 1
  /\ debounce' = debounce \cup {f}
  /\ dismissed' = IF f = "name" /\ progress.step \in Over THEN progress.time ELSE dismissed
  /\ UNCHANGED <<lookups, mark, purchase, purchases, progress, panel>> /\ UNCHANGED siteVars

StartCheck(f) ==
  /\ f \in debounce
  /\ debounce' = debounce \ {f}
  /\ mark' = [mark EXCEPT ![f] = ""]
  /\ lookups' = IF entry[f] = "" THEN lookups
                ELSE lookups \cup {[field |-> f, of |-> entry[f], n |-> strokes]}
  /\ UNCHANGED <<entry, strokes>> /\ UNCHANGED orderVars /\ UNCHANGED siteVars

\* Mutant: no check looks back at the field.
AnyAnswerMarks(l) ==
  /\ lookups' = lookups \ {l}
  /\ \E answer \in {IF l.of \in Right THEN "ok" ELSE "bad"} \cup (IF "network" \in HomeFaults THEN {"bad"} ELSE {}) :
       mark' = [mark EXCEPT ![l.field] = answer]
  /\ UNCHANGED <<entry, debounce, strokes>> /\ UNCHANGED orderVars /\ UNCHANGED siteVars
CheckAnswers(l) ==
  /\ lookups' = lookups \ {l}
  /\ \E answer \in {IF l.of \in Right THEN "ok" ELSE "bad"} \cup (IF "network" \in HomeFaults THEN {"bad"} ELSE {}) :
       mark' = IF l.field \in Guarded /\ l.of # entry[l.field] THEN mark
               ELSE [mark EXCEPT ![l.field] = answer]
  /\ UNCHANGED <<entry, debounce, strokes>> /\ UNCHANGED orderVars /\ UNCHANGED siteVars

-----------------------------------------------------------------------------
(* Create space.                                                           *)

Goes(order) == purchase' = order
Shows(step) == progress' = [step |-> step, time |-> progress.time + 1]

\* The button asks for the wallet page; the fields are read when it is ready.
ClickBuy ==
  /\ purchases < MaxClicks /\ purchase.at = "none"
  /\ mark["name"] = "ok" /\ mark["collection"] = "ok"
  /\ purchases' = purchases + 1
  /\ Goes([NoOrder EXCEPT !.at = "tab"])
  /\ UNCHANGED <<progress, dismissed, panel>> /\ UNCHANGED formVars /\ UNCHANGED siteVars

\* A tab that is closed before it has loaded leaves the call waiting.
WalletTab ==
  /\ purchase.at = "tab"
  /\ \/ Goes([at |-> "name", name |-> entry["name"], collection |-> entry["collection"]])
     \/ Goes(NoOrder)   \* permission refused
     \/ "close" \in HomeFaults /\ Goes([NoOrder EXCEPT !.at = "stuck"])
  /\ UNCHANGED <<purchases, progress, dismissed, panel>> /\ UNCHANGED formVars /\ UNCHANGED siteVars

\* buySpace: an ENS read that fails lets the name pass.
OrderName ==
  /\ purchase.at = "name"
  /\ \/ purchase.name \in Right /\ Goes([purchase EXCEPT !.at = "collection"])
     \/ "network" \in HomeFaults /\ purchase.name # "" /\ Goes([purchase EXCEPT !.at = "collection"])
     \/ purchase.name \notin Right /\ Goes(NoOrder)
  /\ UNCHANGED <<purchases, progress, dismissed, panel>> /\ UNCHANGED formVars /\ UNCHANGED siteVars

\* checkCollection: what cannot be read is refused.  Mutant: it passes.
LenientCollection ==
  /\ purchase.at = "collection"
  /\ \/ /\ purchase.collection \in Right \/ "network" \in HomeFaults
        /\ Goes([purchase EXCEPT !.at = "wallet"]) /\ Shows("waiting")
     \/ Goes(NoOrder) /\ UNCHANGED progress
  /\ UNCHANGED <<purchases, dismissed, panel>> /\ UNCHANGED formVars /\ UNCHANGED siteVars
OrderCollection ==
  /\ purchase.at = "collection"
  /\ \/ /\ purchase.collection \in Right
        /\ Goes([purchase EXCEPT !.at = "wallet"]) /\ Shows("waiting")
     \/ /\ purchase.collection \notin Right \/ "network" \in HomeFaults
        /\ Goes(NoOrder) /\ UNCHANGED progress
  /\ UNCHANGED <<purchases, dismissed, panel>> /\ UNCHANGED formVars /\ UNCHANGED siteVars

WalletAnswers ==
  /\ purchase.at = "wallet"
  /\ \/ Goes([purchase EXCEPT !.at = "paid"]) /\ Shows("paid")
     \/ Goes(NoOrder) /\ Shows("failed")
  /\ UNCHANGED <<purchases, dismissed, panel>> /\ UNCHANGED formVars /\ UNCHANGED siteVars

RelayerAnswers ==
  /\ purchase.at = "paid"
  /\ Goes(NoOrder)
  /\ \E step \in Over : Shows(step)
  /\ UNCHANGED <<purchases, dismissed, panel>> /\ UNCHANGED formVars /\ UNCHANGED siteVars

\* renderBuy: by poll, by storage event and after the button's call.
RenderBuy ==
  /\ panel' = IF progress.step \in Over /\ dismissed = progress.time THEN NoProgress ELSE progress
  /\ UNCHANGED <<purchase, purchases, progress, dismissed>>
  /\ UNCHANGED formVars /\ UNCHANGED siteVars

-----------------------------------------------------------------------------
(* "Always on for this site", set by the popup and by the full page.       *)

Settle(s, next) == setting' = (setting \ {s}) \cup next

\* The popup asks Chrome for the origin first.
TurnOn(o) ==
  /\ setting = {}
  /\ granted' = granted \cup {o}
  /\ setting' = {[origin |-> o, on |-> TRUE, at |-> "unregister"]}
  /\ UNCHANGED listed /\ UNCHANGED formVars /\ UNCHANGED orderVars

TurnOff(o) ==
  /\ setting = {}
  /\ setting' = {[origin |-> o, on |-> FALSE, at |-> "unregister"]}
  /\ UNCHANGED <<listed, granted>> /\ UNCHANGED formVars /\ UNCHANGED orderVars

\* SITE_SET.  Mutant: the permission goes first.
PermissionFirst(s) ==
  /\ \/ /\ s.at = "unregister" /\ s.on
        /\ listed' = listed \ {s.origin}
        /\ Settle(s, {[s EXCEPT !.at = "register"]}) /\ UNCHANGED granted
     \/ /\ s.at = "unregister" /\ ~s.on
        /\ granted' = granted \ {s.origin}
        /\ Settle(s, {[s EXCEPT !.at = "revoke"]}) /\ UNCHANGED listed
     \/ s.at = "register" /\ listed' = listed \cup {s.origin} /\ Settle(s, {}) /\ UNCHANGED granted
     \/ s.at = "revoke" /\ listed' = listed \ {s.origin} /\ Settle(s, {}) /\ UNCHANGED granted
  /\ UNCHANGED formVars /\ UNCHANGED orderVars
SiteSet(s) ==
  /\ \/ /\ s.at = "unregister"
        /\ listed' = listed \ {s.origin}
        /\ Settle(s, {[s EXCEPT !.at = IF s.on THEN "register" ELSE "revoke"]})
        /\ UNCHANGED granted
     \/ s.at = "register" /\ listed' = listed \cup {s.origin} /\ Settle(s, {}) /\ UNCHANGED granted
     \/ s.at = "revoke" /\ granted' = granted \ {s.origin} /\ Settle(s, {}) /\ UNCHANGED listed
  /\ UNCHANGED formVars /\ UNCHANGED orderVars

\* The worker is stopped between two awaits.
SiteSetDies(s) ==
  /\ "worker" \in HomeFaults
  /\ Settle(s, {})
  /\ UNCHANGED <<listed, granted>> /\ UNCHANGED formVars /\ UNCHANGED orderVars

HomeInit ==
  /\ entry = [f \in Inputs |-> ""] /\ debounce = {} /\ lookups = {}
  /\ mark = [f \in Inputs |-> ""] /\ strokes = 0
  /\ purchase = NoOrder /\ purchases = 0
  /\ progress = NoProgress /\ dismissed = 0 /\ panel = NoProgress
  /\ listed = {} /\ granted = {} /\ setting = {}

FormNext ==
  \/ \E f \in Inputs : TypeIn(f) \/ StartCheck(f)
  \/ \E l \in lookups : CheckAnswers(l)
  \/ ClickBuy \/ WalletTab \/ OrderName \/ OrderCollection \/ WalletAnswers \/ RelayerAnswers
  \/ RenderBuy

SiteNext ==
  \/ \E o \in Origins : TurnOn(o) \/ TurnOff(o)
  \/ \E s \in setting : SiteSet(s) \/ SiteSetDies(s)

HomeNext == FormNext \/ SiteNext
HomeSpec == HomeInit /\ [][HomeNext]_homeVars

-----------------------------------------------------------------------------
\* The mark beside a name is about the name that is typed, whatever order the
\* answers come in.
MarkIsCurrent ==
  \A f \in Guarded : f \notin debounce /\ mark[f] = "ok" => entry[f] \in Right

\* No money moves for a collection that was not found to be one, although the
\* fields may change between the click and the wallet.
PaidIsChecked == purchase.at \in {"wallet", "paid"} => purchase.collection \in Right

\* A site that is listed as on is one that Chrome lets the extension run on,
\* wherever the worker was stopped.
ListedMayRun == setting = {} => listed \subseteq granted

=============================================================================
