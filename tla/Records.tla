------------------------------ MODULE Records ------------------------------
(***************************************************************************)
(* Who the app thinks you are, and the records it keeps for you on ENS:    *)
(* sign-in, resuming, the search for your handle, the two silent repairs   *)
(* of a sign-in, and the panel that repairs aloud and delegates records.   *)
(* Source: app lib/live.ts (LiveBackend), lib/live/ens.ts, lib/ctx.tsx,    *)
(* ui/Auth.tsx, ui/IdentityPanel.tsx.  One tab.                            *)
(*                                                                         *)
(* A person is a wallet account with the keys that its signature derives;  *)
(* a record holds the person whose key or address it publishes.            *)
(***************************************************************************)
EXTENDS Integers, FiniteSets

CONSTANTS
  People, NoOne,
  Gateway,     \* the delegate of the panel's button, as a value of a record
  MaxWrites,   \* bound on transactions
  MaxSignIns,  \* bound on sign-ins and reloads
  EnsFaults    \* subset of {"logs", "rpc", "write", "lost"}

ASSUME RecAssumption == NoOne \notin People /\ Gateway \notin People

VARIABLES
  ident,    \* React's identity: [who, handle]
  me,       \* LiveBackend.id
  suiKp,    \* whose Sui key pair is cached
  session,  \* sessionStorage: the person whose master secret it holds
  note,     \* localStorage: owners whose handle is remembered
  signing,  \* sign-in under way: [via, before]
  heals,    \* silent repairs under way: [key, value, at]
  panel,    \* the button at work: [job, key, at]
  report,   \* key -> result of the last repair
  table,    \* keys the panel shows as writable by the gateway
  kept,     \* person -> who holds the handle: "none", "owner" or "wallet"
  rec,      \* person -> key -> what the handle publishes
  granted,  \* person -> keys the gateway may write
  ensWrites, signIns

recVars == <<ident, me, suiKp, session, note, signing, heals, panel, report, table, kept, rec,
             granted, ensWrites, signIns>>
pageVars == <<ident, me, session, note, signing>>
chainVars == <<kept, rec, granted, ensWrites>>

RecKeys == {"sui", "addr"}
NoIdentity == [who |-> NoOne, handle |-> FALSE]
NotSigning == [via |-> "none", before |-> FALSE]
NoJob == [job |-> "none", key |-> "sui", at |-> "look"]
NoReport == [k \in RecKeys |-> "none"]
WithFault(f, yes, no) == yes \cup (IF f \in EnsFaults THEN no ELSE {})

\* suiSigner: derived from the master secret once and kept by the backend.
SuiKey == IF suiKp = NoOne THEN me.who ELSE suiKp
Expected(key) == IF key = "sui" THEN SuiKey ELSE me.who

\* What the chain answers: a read that fails is an unset record, a right that
\* cannot be asked for is none, and a range of the log that fails holds nothing.
Published(p, key) == WithFault("rpc", {rec[p][key]}, {NoOne})
CanWrite(holds) == WithFault("rpc", {holds}, {FALSE})
GatewayMay(rights) == WithFault("rpc", {rights}, {{}})
HandleOf(p) == WithFault("logs", {kept[p] # "none"}, {FALSE})

-----------------------------------------------------------------------------
(* Signing in.                                                             *)

\* hydrate: everything derived, the note asked for the handle, and the two
\* silent repairs set off, which return at once without a handle.
Hydrate(p) ==
  /\ me' = [who |-> p, handle |-> p \in note]
  /\ heals' = heals \cup (IF p \in note THEN {[key |-> k, value |-> NoOne, at |-> "look"] : k \in RecKeys} ELSE {})

Connect(p) ==
  /\ ident = NoIdentity /\ signing = NotSigning /\ signIns < MaxSignIns
  /\ Hydrate(p)
  /\ signing' = [via |-> "connect", before |-> p \in note]
  /\ signIns' = signIns + 1
  /\ UNCHANGED <<ident, suiKp, session, note, panel, report, table, chainVars>>

\* A reload forgets the backend; restore hydrates from the session.
Reload ==
  /\ signIns < MaxSignIns /\ signIns' = signIns + 1
  /\ ident' = NoIdentity /\ suiKp' = NoOne /\ panel' = NoJob /\ report' = NoReport /\ table' = {}
  /\ IF session = NoOne
     THEN me' = NoIdentity /\ heals' = {} /\ signing' = NotSigning
     ELSE /\ me' = [who |-> session, handle |-> session \in note]
          /\ heals' = IF session \in note THEN {[key |-> k, value |-> NoOne, at |-> "look"] : k \in RecKeys} ELSE {}
          /\ signing' = [via |-> "restore", before |-> session \in note]
  /\ UNCHANGED <<session, note, chainVars>>

\* recoverHandle: without a remembered handle the log of claims is searched,
\* for the owner and for the wallet; a range that fails is passed over.
\* connect answers with the identity from before the search, restore with the
\* one after it.
SignedIn ==
  /\ signing # NotSigning
  /\ \E found \in HandleOf(me.who) :
       /\ me' = [me EXCEPT !.handle = @ \/ found]
       /\ note' = IF ~me.handle /\ found /\ kept[me.who] = "owner" THEN note \cup {me.who} ELSE note
  /\ ident' = IF signing.via = "restore" THEN me' ELSE [me EXCEPT !.handle = signing.before]
  /\ session' = me.who
  /\ signing' = NotSigning
  /\ UNCHANGED <<suiKp, heals, panel, report, table, chainVars, signIns>>

\* The panel's button: the session is cleared, the backend stays.
SignOut ==
  /\ ident.handle
  /\ session' = NoOne /\ ident' = NoIdentity
  /\ panel' = NoJob /\ report' = NoReport /\ table' = {}
  /\ UNCHANGED <<me, suiKp, note, signing, heals, chainVars, signIns>>

\* claimHandle: the free path leaves the handle with the wallet and publishes
\* the Sui address; the paid one hands it to the owner with its records.
ClaimFree ==
  /\ ident # NoIdentity /\ ~ident.handle /\ kept[me.who] = "none" /\ ensWrites < MaxWrites
  /\ kept' = [kept EXCEPT ![me.who] = "wallet"]
  /\ rec' = [rec EXCEPT ![me.who]["sui"] = SuiKey]
  /\ suiKp' = SuiKey
  /\ me' = [me EXCEPT !.handle = TRUE] /\ ident' = me'
  /\ ensWrites' = ensWrites + 1
  /\ UNCHANGED <<session, note, signing, heals, panel, report, table, granted, signIns>>
ClaimPaid ==
  /\ ident # NoIdentity /\ ~ident.handle /\ kept[me.who] = "none" /\ ensWrites < MaxWrites
  /\ kept' = [kept EXCEPT ![me.who] = "owner"]
  /\ \E sui \in WithFault("write", {SuiKey}, {NoOne}) :
       rec' = [rec EXCEPT ![me.who] = [sui |-> sui, addr |-> me.who]]
  /\ suiKp' = SuiKey
  /\ me' = [me EXCEPT !.handle = TRUE] /\ ident' = me'
  /\ note' = note \cup {me.who}
  /\ ensWrites' = ensWrites + 1
  /\ UNCHANGED <<session, signing, heals, panel, report, table, granted, signIns>>

-----------------------------------------------------------------------------
(* The silent repairs of a sign-in: publishSuiAddress, publishEthAddress.  *)

\* What would be published is fixed, the record is read, the resolver asked
\* whether the owner key may write; a read that fails counts as "no".
HealLooks(j) ==
  /\ j \in heals /\ j.at = "look" /\ me # NoIdentity
  /\ suiKp' = IF j.key = "sui" THEN SuiKey ELSE suiKp
  /\ \E read \in Published(me.who, j.key), can \in CanWrite(kept[me.who] = "owner") :
       heals' = (heals \ {j}) \cup
         IF me.handle /\ read # Expected(j.key) /\ can
         THEN {[key |-> j.key, value |-> Expected(j.key), at |-> "write"]} ELSE {}
  /\ UNCHANGED <<pageVars, panel, report, table, chainVars, signIns>>

\* Both sign with one key and may take one nonce: the later fails, and is
\* tried again with the next sign-in.
HealWrites(j) ==
  /\ j \in heals /\ j.at = "write" /\ ensWrites < MaxWrites
  /\ heals' = heals \ {j}
  /\ ensWrites' = ensWrites + 1
  /\ \E done \in WithFault("write", {TRUE}, {FALSE}) :
       rec' = IF done /\ kept[me.who] = "owner" THEN [rec EXCEPT ![me.who][j.key] = j.value] ELSE rec
  /\ UNCHANGED <<pageVars, suiKp, panel, report, table, kept, granted, signIns>>

-----------------------------------------------------------------------------
(* The panel.                                                              *)

\* A button works while no other one does (busy).
Free == ident.handle /\ panel = NoJob

\* ensStatus, each time the panel opens or a button's work is done.
Refresh == table' \in GatewayMay(granted[me.who])
Open ==
  /\ Free /\ table # granted[me.who]
  /\ Refresh
  /\ UNCHANGED <<pageVars, suiKp, heals, panel, report, chainVars, signIns>>

\* "check my identity records": key after key, read, who may sign, write.
CheckRecords ==
  /\ Free
  /\ panel' = [job |-> "repair", key |-> "sui", at |-> "look"]
  /\ report' = NoReport /\ suiKp' = SuiKey
  /\ UNCHANGED <<pageVars, heals, table, chainVars, signIns>>

\* The next record, or the end and a fresh table.
NextRecord(result) ==
  /\ report' = [report EXCEPT ![panel.key] = result]
  /\ IF panel.key = "sui"
     THEN panel' = [panel EXCEPT !.key = "addr", !.at = "look"] /\ UNCHANGED table
     ELSE panel' = NoJob /\ Refresh

RepairLooks ==
  /\ panel.job = "repair" /\ panel.at = "look"
  /\ \E read \in Published(me.who, panel.key), can \in CanWrite(kept[me.who] # "none") :
       IF read = Expected(panel.key) THEN NextRecord("ok")
       ELSE IF ~can THEN NextRecord("cannot-write")
       ELSE panel' = [panel EXCEPT !.at = "write"] /\ UNCHANGED <<report, table>>
  /\ UNCHANGED <<pageVars, suiKp, heals, chainVars, signIns>>

\* The write and its receipt; an error is a "failed", mined or not.
\* Mutant: the failure is not told.
RepairSwallows ==
  /\ panel.job = "repair" /\ panel.at = "write" /\ ensWrites < MaxWrites
  /\ ensWrites' = ensWrites + 1
  /\ \E mined \in WithFault("write", {TRUE}, {FALSE}) :
       rec' = IF mined THEN [rec EXCEPT ![me.who][panel.key] = Expected(panel.key)] ELSE rec
  /\ NextRecord("repaired")
  /\ UNCHANGED <<pageVars, suiKp, heals, kept, granted, signIns>>
RepairWrites ==
  /\ panel.job = "repair" /\ panel.at = "write" /\ ensWrites < MaxWrites
  /\ ensWrites' = ensWrites + 1
  /\ \E mined \in WithFault("write", {TRUE}, {FALSE}), told \in WithFault("lost", {TRUE}, {FALSE}) :
       /\ rec' = IF mined THEN [rec EXCEPT ![me.who][panel.key] = Expected(panel.key)] ELSE rec
       /\ NextRecord(IF mined /\ told THEN "repaired" ELSE "failed")
  /\ UNCHANGED <<pageVars, suiKp, heals, kept, granted, signIns>>

\* delegateRecord: granted or taken back, after what the table shows; run()
\* reads the chain again unless the work threw.
Toggled(key) == IF key \in table THEN granted[me.who] \ {key} ELSE granted[me.who] \cup {key}
Delegate(key) ==
  /\ Free /\ ensWrites < MaxWrites
  /\ ensWrites' = ensWrites + 1
  /\ \E mined \in WithFault("write", {TRUE}, {FALSE}), told \in WithFault("lost", {TRUE}, {FALSE}) :
       /\ granted' = IF mined THEN [granted EXCEPT ![me.who] = Toggled(key)] ELSE granted
       /\ IF mined /\ told THEN table' \in GatewayMay(granted'[me.who]) ELSE UNCHANGED table
  /\ UNCHANGED <<pageVars, suiKp, heals, panel, report, kept, rec, signIns>>

\* The delegate writes what it may.
GatewayWrites(p, key) ==
  /\ key \in granted[p] /\ ensWrites < MaxWrites
  /\ ensWrites' = ensWrites + 1
  /\ rec' = [rec EXCEPT ![p][key] = Gateway]
  /\ report' = NoReport
  /\ UNCHANGED <<pageVars, suiKp, heals, panel, table, kept, granted, signIns>>

RecInit ==
  /\ ident = NoIdentity /\ me = NoIdentity /\ suiKp = NoOne /\ session = NoOne /\ note = {}
  /\ signing = NotSigning /\ heals = {} /\ panel = NoJob /\ report = NoReport /\ table = {}
  /\ \E k \in {"none", "owner", "wallet"}, s \in {TRUE, FALSE} :
       /\ kept = [p \in People |-> k]
       /\ rec = [p \in People |-> [sui |-> IF s /\ k # "none" THEN p ELSE NoOne, addr |-> IF k = "owner" THEN p ELSE NoOne]]
  /\ granted = [p \in People |-> {}]
  /\ ensWrites = 0 /\ signIns = 0

RecNext ==
  \/ \E p \in People : Connect(p)
  \/ Reload \/ SignedIn \/ SignOut \/ ClaimFree \/ ClaimPaid
  \/ \E j \in heals : HealLooks(j) \/ HealWrites(j)
  \/ Open \/ CheckRecords \/ RepairLooks \/ RepairWrites
  \/ \E key \in RecKeys : Delegate(key) \/ \E p \in People : GatewayWrites(p, key)

RecSpec == RecInit /\ [][RecNext]_recVars

-----------------------------------------------------------------------------
\* A record the panel reports as ok or repaired is what peers must find: the
\* person's own key and address, whatever the silent repairs did meanwhile.
\* (A write of the delegate takes the report back: it comes after it.)
RepairIsHonest ==
  \A k \in RecKeys : report[k] \in {"ok", "repaired"} /\ me # NoIdentity => rec[me.who][k] = me.who

\* A sign-in that is over shows the handle the person holds.
SignInFindsHandle ==
  ident # NoIdentity /\ kept[ident.who] # "none" => ident.handle
=============================================================================
