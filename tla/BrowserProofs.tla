---------------------------- MODULE BrowserProofs ----------------------------
(***************************************************************************)
(* The parts of the browser extensions, for any number of sites, tabs,     *)
(* handlers, spaces and visitors, one invariant per part.  A part keeps    *)
(* its invariant in its own scene and stands still in the others.          *)
(***************************************************************************)
EXTENDS Browser, FiniteSetTheorems, TLAPS

-----------------------------------------------------------------------------
(***************************************************************************)
(* The full page: the fields, the purchase and the sites.                  *)
(***************************************************************************)

Orders == [at : {"none", "tab", "stuck", "name", "collection", "wallet", "paid"},
           name : Entries \cup {""}, collection : Entries \cup {""}]
Settings == [origin : Origins, on : BOOLEAN, at : {"unregister", "register", "revoke"}]
HomeTypes ==
  /\ entry \in [Inputs -> Entries \cup {""}]
  /\ mark \in [Inputs -> {"", "ok", "bad"}]
  /\ \A l \in lookups : l.field \in Inputs
  /\ purchase \in Orders
  /\ setting \in SUBSET Settings

\* One site is set at a time: what is to be registered was granted, what is to
\* be revoked is no longer registered.
SettingIsSafe ==
  /\ listed \subseteq granted
  /\ \A s, t \in setting : s = t
  /\ \A s \in setting : /\ s.on /\ s.at # "revoke" => s.origin \in granted
                        /\ s.at = "register" => s.on
                        /\ s.at = "revoke" => s.origin \notin listed

HomeInv == HomeTypes /\ MarkIsCurrent /\ PaidIsChecked /\ SettingIsSafe

LEMMA HomeStarts == HomeInit => HomeInv
<1> SUFFICES ASSUME HomeInit PROVE HomeInv OBVIOUS
<1> USE HomeAssumption DEF HomeInit
<1>1. purchase \in Orders BY DEF Orders, NoOrder
<1>2. HomeTypes BY <1>1 DEF HomeTypes
<1>3. MarkIsCurrent BY DEF MarkIsCurrent
<1>4. PaidIsChecked BY DEF PaidIsChecked, NoOrder
<1>5. SettingIsSafe BY DEF SettingIsSafe
<1> QED BY <1>2, <1>3, <1>4, <1>5 DEF HomeInv

LEMMA HomeStays ==
  ASSUME HomeInv, UNCHANGED homeVars
  PROVE  HomeInv'
BY DEF homeVars, HomeInv, HomeTypes, MarkIsCurrent, PaidIsChecked, SettingIsSafe

\* A field's check says something of the text that was looked up.
LEMMA FormKeeps ==
  ASSUME HomeInv, FormNext
  PROVE  HomeInv'
<1> USE HomeAssumption DEF HomeInv
<1>0. HomeTypes OBVIOUS
<1>1. ASSUME NEW f \in Inputs, TypeIn(f) PROVE HomeInv'
  <2>1. UNCHANGED <<lookups, mark, purchase>> /\ UNCHANGED siteVars /\ debounce' = debounce \cup {f}
    BY <1>1 DEF TypeIn
  <2>2. PICK e \in Entries \cup {""} : entry' = [entry EXCEPT ![f] = e] BY <1>1 DEF TypeIn
  <2>3. HomeTypes' BY <1>0, <2>1, <2>2 DEF siteVars, HomeTypes
  <2>4. MarkIsCurrent' BY <1>0, <2>1, <2>2 DEF MarkIsCurrent, HomeTypes
  <2> QED BY <2>1, <2>3, <2>4 DEF PaidIsChecked, SettingIsSafe, siteVars
<1>2. ASSUME NEW f \in Inputs, StartCheck(f) PROVE HomeInv'
  <2>1. UNCHANGED <<entry, strokes>> /\ UNCHANGED orderVars /\ UNCHANGED siteVars
        /\ debounce' = debounce \ {f} /\ mark' = [mark EXCEPT ![f] = ""]
    BY <1>2 DEF StartCheck
  <2>2. \A l \in lookups' : l.field \in Inputs
    <3> DEFINE l == [field |-> f, of |-> entry[f], n |-> strokes]
    <3>1. lookups' \subseteq lookups \cup {l} BY <1>2 DEF StartCheck
    <3>2. l.field = f OBVIOUS
    <3> HIDE DEF l
    <3> QED BY <1>0, <3>1, <3>2 DEF HomeTypes
  <2>3. HomeTypes' BY <1>0, <2>1, <2>2 DEF siteVars, orderVars, HomeTypes
  <2>4. MarkIsCurrent' BY <1>0, <2>1 DEF MarkIsCurrent, HomeTypes
  <2> QED BY <2>1, <2>3, <2>4 DEF PaidIsChecked, SettingIsSafe, siteVars, orderVars
<1>3. ASSUME NEW l \in lookups, CheckAnswers(l) PROVE HomeInv'
  <2>1. UNCHANGED <<entry, debounce, strokes>> /\ UNCHANGED orderVars /\ UNCHANGED siteVars
        /\ lookups' = lookups \ {l}
    BY <1>3 DEF CheckAnswers
  <2>2. PICK answer \in {"ok", "bad"} :
          /\ answer = "ok" => l.of \in Right
          /\ mark' = IF l.field \in Guarded /\ l.of # entry[l.field] THEN mark
                     ELSE [mark EXCEPT ![l.field] = answer]
    BY <1>3 DEF CheckAnswers
  <2>3. HomeTypes' BY <1>0, <2>1, <2>2 DEF siteVars, orderVars, HomeTypes
  <2>4. MarkIsCurrent' BY <1>0, <2>1, <2>2 DEF MarkIsCurrent, HomeTypes
  <2> QED BY <2>1, <2>3, <2>4 DEF PaidIsChecked, SettingIsSafe, siteVars, orderVars
<1>4. ASSUME UNCHANGED formVars, UNCHANGED siteVars, purchase' \in Orders, PaidIsChecked'
      PROVE  HomeInv'
  <2>1. HomeTypes' BY <1>0, <1>4 DEF formVars, siteVars, HomeTypes
  <2> QED BY <1>4, <2>1 DEF formVars, siteVars, MarkIsCurrent, SettingIsSafe
<1>5. purchase \in Orders /\ NoOrder \in Orders BY <1>0 DEF HomeTypes, NoOrder, Orders
<1>6. ASSUME ClickBuy \/ WalletTab \/ OrderName PROVE HomeInv'
  <2>1. entry["name"] \in Entries \cup {""} /\ entry["collection"] \in Entries \cup {""}
    BY <1>0 DEF HomeTypes
  <2>2. /\ purchase' \in Orders
        /\ purchase'.at \in {"none", "tab", "stuck", "name", "collection"}
    <3>1. CASE ClickBuy BY <3>1 DEF ClickBuy, Goes, NoOrder, Orders
    <3>2. CASE WalletTab
      <4>1. \/ purchase' = [at |-> "name", name |-> entry["name"], collection |-> entry["collection"]]
            \/ purchase' = NoOrder
            \/ purchase' = [NoOrder EXCEPT !.at = "stuck"]
        BY <3>2 DEF WalletTab, Goes
      <4>2. CASE purchase' = [at |-> "name", name |-> entry["name"], collection |-> entry["collection"]]
        BY <2>1, <4>2 DEF Orders
      <4>3. CASE purchase' = NoOrder BY <4>3 DEF Orders, NoOrder
      <4>4. CASE purchase' = [NoOrder EXCEPT !.at = "stuck"] BY <4>4 DEF Orders, NoOrder
      <4> QED BY <4>1, <4>2, <4>3, <4>4
    <3>3. CASE OrderName BY <3>3, <1>5 DEF OrderName, Goes, NoOrder, Orders
    <3> QED BY <1>6, <3>1, <3>2, <3>3
  <2>3. UNCHANGED formVars /\ UNCHANGED siteVars BY <1>6 DEF ClickBuy, WalletTab, OrderName
  <2> QED BY <2>2, <2>3, <1>4 DEF PaidIsChecked
<1>7. ASSUME OrderCollection \/ WalletAnswers \/ RelayerAnswers PROVE HomeInv'
  <2>1. \/ purchase' = NoOrder
        \/ purchase' = [purchase EXCEPT !.at = "wallet"] /\ purchase.collection \in Right
        \/ purchase' = [purchase EXCEPT !.at = "paid"] /\ purchase.at = "wallet"
    BY <1>7 DEF OrderCollection, WalletAnswers, RelayerAnswers, Goes
  <2>2. UNCHANGED formVars /\ UNCHANGED siteVars
    BY <1>7 DEF OrderCollection, WalletAnswers, RelayerAnswers
  <2>3. purchase' \in Orders BY <2>1, <1>5 DEF Orders
  <2>4. PaidIsChecked' BY <2>1, <1>5 DEF PaidIsChecked, NoOrder, Orders
  <2> QED BY <2>2, <2>3, <2>4, <1>4
<1>8. ASSUME RenderBuy PROVE HomeInv'
  BY <1>8, <1>4, <1>5 DEF RenderBuy, PaidIsChecked
<1> QED BY <1>1, <1>2, <1>3, <1>6, <1>7, <1>8 DEF FormNext

\* A script goes before the permission to run it, and comes after it.
LEMMA SiteKeeps ==
  ASSUME HomeInv, SiteNext
  PROVE  HomeInv'
<1> USE DEF HomeInv
<1>0. HomeTypes OBVIOUS
<1>1. ASSUME UNCHANGED formVars, UNCHANGED orderVars, SettingIsSafe', setting' \in SUBSET Settings
      PROVE  HomeInv'
  <2>1. HomeTypes' BY <1>0, <1>1 DEF formVars, orderVars, HomeTypes
  <2> QED BY <1>1, <2>1 DEF formVars, orderVars, MarkIsCurrent, PaidIsChecked
<1>2. ASSUME NEW o \in Origins, TurnOn(o) \/ TurnOff(o) PROVE HomeInv'
  <2>1. PICK s \in Settings : setting' = {s} /\ s.at = "unregister" /\ (s.on => s.origin \in granted')
    <3> DEFINE granting == [origin |-> o, on |-> TRUE, at |-> "unregister"]
               taking == [origin |-> o, on |-> FALSE, at |-> "unregister"]
    <3>1. /\ granting \in Settings /\ granting.at = "unregister" /\ granting.origin = o
          /\ taking \in Settings /\ taking.at = "unregister" /\ ~taking.on
      BY DEF Settings
    <3>2. \/ setting' = {granting} /\ o \in granted'
          \/ setting' = {taking}
      BY <1>2 DEF TurnOn, TurnOff
    <3> HIDE DEF granting, taking
    <3> QED BY <3>1, <3>2
  <2>2. listed' = listed /\ granted \subseteq granted' BY <1>2 DEF TurnOn, TurnOff
  <2>3. SettingIsSafe' BY <2>1, <2>2 DEF SettingIsSafe
  <2>4. UNCHANGED formVars /\ UNCHANGED orderVars BY <1>2 DEF TurnOn, TurnOff
  <2> QED BY <1>1, <2>1, <2>3, <2>4
<1>3. ASSUME NEW s \in setting, SiteSet(s) PROVE HomeInv'
  <2>1. setting = {s} /\ s \in Settings BY <1>0 DEF SettingIsSafe, HomeTypes
  <2>2. UNCHANGED formVars /\ UNCHANGED orderVars BY <1>3 DEF SiteSet
  <2>3. CASE s.at = "unregister"
    <3> DEFINE n == [s EXCEPT !.at = IF s.on THEN "register" ELSE "revoke"]
    <3>1. n \in Settings /\ n.origin = s.origin /\ n.on = s.on
          /\ n.at = (IF s.on THEN "register" ELSE "revoke")
      BY <2>1 DEF Settings
    <3>2. setting' = {n} /\ listed' = listed \ {s.origin} /\ granted' = granted
      BY <1>3, <2>1, <2>3 DEF SiteSet, Settle
    <3> HIDE DEF n
    <3>3. SettingIsSafe' BY <2>1, <2>3, <3>1, <3>2 DEF SettingIsSafe
    <3> QED BY <1>1, <2>2, <3>1, <3>2, <3>3
  <2>4. CASE s.at = "register"
    <3>1. setting' = {} /\ listed' = listed \cup {s.origin} /\ granted' = granted
      BY <1>3, <2>1, <2>4 DEF SiteSet, Settle
    <3>2. SettingIsSafe' BY <2>4, <3>1 DEF SettingIsSafe
    <3> QED BY <1>1, <2>2, <3>1, <3>2
  <2>5. CASE s.at = "revoke"
    <3>1. setting' = {} /\ granted' = granted \ {s.origin} /\ listed' = listed
      BY <1>3, <2>1, <2>5 DEF SiteSet, Settle
    <3>2. SettingIsSafe' BY <2>5, <3>1 DEF SettingIsSafe
    <3> QED BY <1>1, <2>2, <3>1, <3>2
  <2> QED BY <1>3, <2>3, <2>4, <2>5 DEF SiteSet
<1>4. ASSUME NEW s \in setting, SiteSetDies(s) PROVE HomeInv'
  <2>1. setting' \subseteq setting /\ UNCHANGED <<listed, granted>>
        /\ UNCHANGED formVars /\ UNCHANGED orderVars
    BY <1>4 DEF SiteSetDies, Settle
  <2>2. SettingIsSafe' BY <2>1 DEF SettingIsSafe
  <2> QED BY <1>0, <1>1, <2>1, <2>2 DEF HomeTypes
<1> QED BY <1>2, <1>3, <1>4 DEF SiteNext

LEMMA HomeIsSound == HomeInv => MarkIsCurrent /\ PaidIsChecked /\ ListedMayRun
BY DEF HomeInv, SettingIsSafe, ListedMayRun

-----------------------------------------------------------------------------
(***************************************************************************)
(* The keyring.                                                            *)
(***************************************************************************)

RingCreds == {"human", "address"}
AnyTokens == RingTokens \cup {NoRingToken}
Rings == [pass : SUBSET Words, token : AnyTokens]
RingPlaces == {"saving", "asking", "told", "forgetting", "forgotten", "challenged", "waiting",
           "loaded", "proving", "granted", "writing"}
RingOps == [kind : {"add", "remove", "view", "forget", "world", "wallet"},
        word : Words \cup {"-", "proof", "closed"}, at : RingPlaces, mine : Rings,
        id : RingIds, answer : AnyTokens, dead : BOOLEAN]
RingLetters == [id : RingIds, proof : BOOLEAN]
ProofOf(id) == [id |-> id, proof |-> TRUE]
ClosingOf(id) == [id |-> id, proof |-> FALSE]

RingTypes ==
  /\ kr \in Rings
  /\ gateRows \in [RingTokens -> SUBSET RingCreds] /\ rows \in SUBSET RingTokens
  /\ \A t \in RingTokens : gateRows[t] # {} => t \in rows
  /\ want \in SUBSET Words /\ proven \in SUBSET RingCreds

FlowTypes ==
  /\ ops \in SUBSET RingOps /\ count \in 0..MaxHandlers
  /\ pending \in [RingIds -> SUBSET AnyTokens]
  /\ waiters \in SUBSET RingIds /\ letters \in SUBSET RingLetters
  /\ tab \in [RingIds -> {"none", "open", "sent", "closed"}]
  /\ proofs \in [RingIds -> Nat]

\* A handler that has the proof of its tab.
Carries(o) == o.kind = "world" /\ (o.at = "proving" \/ (o.at = "loaded" /\ o.word = "proof"))

\* What is done at each place, and what it says of the tab.
OpOK(o) ==
  /\ o.id <= count
  /\ o.kind = "world" => o.at \in {"challenged", "waiting", "loaded", "proving", "granted", "writing"}
  /\ o.kind = "wallet" => o.at \in {"waiting", "proving", "granted", "writing"}
  /\ o.kind \in {"add", "remove"} => o.at = "saving" /\ o.word \in Words
  /\ o.kind = "view" => o.at \in {"asking", "told"}
  /\ o.kind = "forget" => o.at \in {"forgetting", "forgotten"}
  /\ o.kind # "world" \/ o.at = "challenged" => tab[o.id] = "none"
  /\ o.at = "challenged" => pending[o.id] = {}
  /\ o.kind = "world" /\ o.at = "waiting" => o.id \in waiters
  /\ Carries(o) => /\ tab[o.id] \in {"sent", "closed"} /\ proofs[o.id] = 0
                   /\ ProofOf(o.id) \notin letters
  /\ o.at = "loaded" /\ o.word # "proof" => tab[o.id] = "closed"

\* A connection has one handler until the widget speaks, and one that carries
\* its proof.
PairOK(o, p) ==
  o.id = p.id =>
    /\ o.kind = p.kind
    /\ o.kind # "world" \/ o.at \in {"waiting", "challenged"} => o = p
    /\ Carries(o) /\ Carries(p) => o = p

\* The way of a tab and of its letters.
TabOK(id) ==
  /\ id > count => tab[id] = "none"
  /\ tab[id] = "none" => /\ proofs[id] = 0 /\ pending[id] = {} /\ id \notin waiters
                         /\ ProofOf(id) \notin letters /\ ClosingOf(id) \notin letters
  /\ ProofOf(id) \in letters => tab[id] \in {"sent", "closed"} /\ proofs[id] = 0
  /\ ClosingOf(id) \in letters => tab[id] = "closed"
  /\ tab[id] = "open" => pending[id] # {} /\ proofs[id] = 0
  /\ tab[id] = "sent" /\ ProofOf(id) \in letters => pending[id] # {}
  /\ \A t, u \in pending[id] : t = u
  /\ id \in waiters => \E o \in ops : o.id = id /\ o.kind = "world" /\ o.at = "waiting"

FlowInv ==
  /\ FlowTypes
  /\ \A o \in ops : OpOK(o)
  /\ \A o, p \in ops : PairOK(o, p)
  /\ \A id \in RingIds : TabOK(id)
  /\ ProofReachesGate

\* The token stands for everything that was proven.
Serves(t) == proven # {} => t \in RingTokens /\ proven \subseteq gateRows[t]
Conn(o) == o.kind \in {"world", "wallet"}
Active(o) == o.at \notin {"waiting", "loaded"}

\* What a handler at work may count on.
RingAhead(o) ==
  /\ o.at \in {"saving", "asking", "told", "forgetting", "forgotten", "writing"} => o.mine = kr
  /\ o.at = "saving" =>
       want = IF o.kind = "add" THEN kr.pass \cup {o.word} ELSE kr.pass \ {o.word}
  /\ o.at \in {"granted", "writing"} => o.answer \in RingTokens /\ Serves(o.answer)
  /\ (o.at = "told" /\ o.dead) \/ o.at \in {"forgetting", "forgotten"} => proven = {}

\* As long as nothing crossed: one handler is at work, one connection is open,
\* what they hold is what is stored, and the token that one of them is about
\* to store serves as well as the stored one.
AloneInv ==
  /\ \A o, p \in ops : Active(o) /\ Active(p) => o = p
  /\ \A o, p \in ops : Conn(o) /\ Conn(p) => o = p \/ (o.at = "loaded" /\ p.at = "loaded" /\ o.id = p.id)
  /\ \A o \in ops, id \in RingIds : Conn(o) /\ pending[id] # {} =>
       o.kind = "world" /\ o.id = id /\ o.at \in {"waiting", "loaded"}
  /\ \A i, j \in RingIds : pending[i] # {} /\ pending[j] # {} => i = j
  /\ \A i \in RingIds : \A t \in pending[i] : Serves(t)
  /\ \A o \in ops : o.at \in {"challenged", "waiting", "loaded", "proving"} => Serves(o.mine.token)
  /\ \A o \in ops : o.at \in {"saving", "asking", "told", "forgetting", "forgotten", "writing"} => o.mine = kr
  /\ \A o \in ops : o.at = "saving" =>
       want = IF o.kind = "add" THEN kr.pass \cup {o.word} ELSE kr.pass \ {o.word}
  /\ (\A o \in ops : o.at # "saving") => kr.pass = want
  /\ (\A o \in ops : o.at \notin {"granted", "writing"}) => Serves(kr.token)
  /\ \A o \in ops : o.at \in {"granted", "writing"} => o.answer \in RingTokens /\ Serves(o.answer)
  /\ \A o \in ops : (o.at = "told" /\ o.dead) \/ o.at \in {"forgetting", "forgotten"} => proven = {}

KeyringInv == RingTypes /\ FlowInv /\ (~crossed => AloneInv)

-----------------------------------------------------------------------------
LEMMA KeyringStarts == KeyringInit => KeyringInv
<1> SUFFICES ASSUME KeyringInit PROVE KeyringInv OBVIOUS
<1> USE KeyringAssumption DEF KeyringInit
<1>0. NoRingToken = 0 /\ RingTokens = 1..MaxHandlers + 1 /\ RingIds = 1..MaxHandlers
  BY DEF NoRingToken, RingTokens, RingIds
<1>1. kr.pass = {} /\ kr.token \in {NoRingToken, 1} /\ 1 \in RingTokens BY <1>0
<1>2. RingTypes BY <1>0, <1>1 DEF RingTypes, Rings, AnyTokens, RingCreds
<1>3. FlowTypes BY <1>0 DEF FlowTypes
<1>4. \A id \in RingIds : TabOK(id) BY <1>0 DEF TabOK
<1>5. ProofReachesGate BY DEF ProofReachesGate
<1>6. FlowInv BY <1>3, <1>4, <1>5 DEF FlowInv
<1>7. AloneInv BY <1>0, <1>1 DEF AloneInv, Serves
<1> QED BY <1>2, <1>6, <1>7 DEF KeyringInv

LEMMA KeyringStays ==
  ASSUME KeyringInv, UNCHANGED keyringVars
  PROVE  KeyringInv'
<1> USE DEF keyringVars
<1>1. RingTypes' BY DEF KeyringInv, RingTypes
<1>2. FlowInv'
  <2>1. FlowTypes' BY DEF KeyringInv, FlowInv, FlowTypes
  <2>2. \A o \in ops' : OpOK(o)' BY DEF KeyringInv, FlowInv, OpOK
  <2>3. \A o, p \in ops' : PairOK(o, p)' BY DEF KeyringInv, FlowInv, PairOK
  <2>4. \A id \in RingIds : TabOK(id)' BY DEF KeyringInv, FlowInv, TabOK
  <2>5. ProofReachesGate' BY DEF KeyringInv, FlowInv, ProofReachesGate
  <2> QED BY <2>1, <2>2, <2>3, <2>4, <2>5 DEF FlowInv
<1>3. ~crossed => AloneInv' BY DEF KeyringInv, AloneInv, Serves
<1> QED BY <1>1, <1>2, <1>3 DEF KeyringInv

-----------------------------------------------------------------------------
\* What a handler may become when it goes on without a proof in its hands.
RingFollows(k, o) ==
  /\ k.id = o.id /\ ~Carries(k)
  /\ (k.kind = "world") <=> (o.kind = "world")
  /\ k.kind # "world" \/ k.at \notin {"challenged", "waiting"}
RingBusy(k, o) ==
  /\ Conn(k) => Conn(o)
  /\ k.at \notin {"challenged", "waiting", "loaded", "proving", "saving"}
RingServes == \A t \in AnyTokens : Serves(t) => Serves(t)'

\* A handler goes on or ends; what it does leaves the tabs and their letters
\* alone, and it has no proof in its hands.
LEMMA RingOpGoesOn ==
  ASSUME FlowInv, NEW o \in ops, NEW new \in SUBSET RingOps, ops' = (ops \ {o}) \cup new,
         \A k \in new : OpOK(k)' /\ RingFollows(k, o),
         \A k, l \in new : k = l,
         o.kind = "world" => o.at \notin {"waiting", "loaded", "proving"},
         UNCHANGED <<count, pending, waiters, letters, tab, proofs, broken>>
  PROVE  FlowInv'
<1>0. o \in RingOps /\ OpOK(o) /\ ops \subseteq RingOps BY DEF FlowInv, FlowTypes
<1>1. FlowTypes' BY <1>0 DEF FlowInv, FlowTypes
<1>2. ASSUME NEW q \in ops' PROVE OpOK(q)'
  <2>1. CASE q \in new BY <2>1
  <2>2. CASE q \in ops BY <2>2 DEF FlowInv, OpOK
  <2> QED BY <2>1, <2>2
<1>3. ASSUME NEW q \in ops', NEW p \in ops' PROVE PairOK(q, p)'
  <2>1. CASE q \in ops /\ p \in ops BY <2>1 DEF FlowInv, PairOK
  <2>2. CASE q \in new /\ p \in new
    <3>1. q = p BY <2>2
    <3> QED BY <3>1 DEF PairOK
  <2>3. CASE q \in new /\ p \in ops \ {o}
    <3>1. PairOK(o, p) BY <2>3 DEF FlowInv
    <3>2. PairOK(p, o) BY <2>3 DEF FlowInv
    <3> QED BY <2>3, <3>1, <3>2 DEF PairOK, RingFollows
  <2>4. CASE q \in ops \ {o} /\ p \in new
    <3>1. PairOK(o, q) BY <2>4 DEF FlowInv
    <3>2. PairOK(q, o) BY <2>4 DEF FlowInv
    <3> QED BY <2>4, <3>1, <3>2 DEF PairOK, RingFollows
  <2> QED BY <2>1, <2>2, <2>3, <2>4
<1>4. ASSUME NEW id \in RingIds PROVE TabOK(id)'
  <2>1. TabOK(id) BY DEF FlowInv
  <2>2. id \in waiters => \E p \in ops' : p.id = id /\ p.kind = "world" /\ p.at = "waiting"
    BY <2>1 DEF TabOK
  <2> QED BY <2>1, <2>2 DEF TabOK
<1>5. ProofReachesGate'
  <2> SUFFICES ASSUME NEW id \in RingIds
               PROVE  /\ proofs'[id] <= 1
                      /\ tab'[id] = "sent" /\ id \notin broken' =>
                           \/ proofs'[id] = 1
                           \/ ProofOf(id) \in letters'
                           \/ \E p \in ops' : p.id = id /\ p.at \in {"loaded", "proving"}
    BY DEF ProofReachesGate, ProofOf
  <2>1. proofs[id] <= 1 BY DEF FlowInv, ProofReachesGate
  <2>2. ASSUME tab[id] = "sent", NEW p \in ops, p.id = id, p.at \in {"loaded", "proving"}
        PROVE  p # o
    <3>1. OpOK(p) BY DEF FlowInv
    <3>2. p.kind = "world" BY <2>2, <3>1 DEF OpOK
    <3> QED BY <2>2, <3>2
  <2>3. tab[id] = "sent" /\ id \notin broken =>
          proofs[id] = 1 \/ ProofOf(id) \in letters \/ \E p \in ops : p.id = id /\ p.at \in {"loaded", "proving"}
    BY DEF FlowInv, ProofReachesGate, ProofOf
  <2> QED BY <2>1, <2>2, <2>3
<1> QED BY <1>1, <1>2, <1>3, <1>4, <1>5 DEF FlowInv

\* The handler at work goes on or ends, and the others go on waiting.
LEMMA RingAloneGoesOn ==
  ASSUME AloneInv, NEW o \in ops, Active(o), NEW new, ops' = (ops \ {o}) \cup new,
         \A k \in new : RingBusy(k, o) /\ RingAhead(k)',
         \A k, l \in new : k = l,
         RingServes, ops \subseteq RingOps,
         pending \in [RingIds -> SUBSET AnyTokens],
         kr'.pass = want',
         (\A k \in new : k.at \notin {"granted", "writing"}) => Serves(kr.token)',
         UNCHANGED pending
  PROVE  AloneInv'
<1>0. \A p \in ops \ {o} : p.at \in {"waiting", "loaded"} BY DEF AloneInv, Active
<1>1. \A p, q \in ops' : Active(p) /\ Active(q) => p = q BY <1>0 DEF Active
<1>2. \A p, q \in ops' : Conn(p) /\ Conn(q) => p = q \/ (p.at = "loaded" /\ q.at = "loaded" /\ p.id = q.id)
  <2> SUFFICES ASSUME NEW p \in ops', NEW q \in ops', Conn(p), Conn(q)
               PROVE  p = q \/ (p.at = "loaded" /\ q.at = "loaded" /\ p.id = q.id)
    OBVIOUS
  <2>1. CASE p \in ops \ {o} /\ q \in ops \ {o} BY <2>1 DEF AloneInv
  <2>2. ASSUME NEW k \in new, NEW r \in ops \ {o}, Conn(k), Conn(r) PROVE FALSE
    <3>1. Conn(o) BY <2>2 DEF RingBusy
    <3> QED BY <2>2, <3>1 DEF AloneInv, Active
  <2> QED BY <2>1, <2>2
<1>3. \A p \in ops', id \in RingIds : Conn(p) /\ pending'[id] # {} =>
        p.kind = "world" /\ p.id = id /\ p.at \in {"waiting", "loaded"}
  <2> SUFFICES ASSUME NEW p \in ops', NEW id \in RingIds, Conn(p), pending[id] # {}
               PROVE  p.kind = "world" /\ p.id = id /\ p.at \in {"waiting", "loaded"}
    OBVIOUS
  <2>1. CASE p \in ops BY <2>1 DEF AloneInv
  <2>2. CASE p \in new
    <3>1. Conn(o) BY <2>2 DEF RingBusy
    <3> QED BY <3>1 DEF AloneInv, Active
  <2> QED BY <2>1, <2>2
<1>4. \A i, j \in RingIds : pending'[i] # {} /\ pending'[j] # {} => i = j BY DEF AloneInv
<1>5. \A i \in RingIds : \A t \in pending'[i] : Serves(t)' BY DEF AloneInv, RingServes
<1>6. \A p \in ops' : p.at \in {"challenged", "waiting", "loaded", "proving"} => Serves(p.mine.token)'
  <2> SUFFICES ASSUME NEW p \in ops \ {o}, p.at \in {"challenged", "waiting", "loaded", "proving"}
               PROVE  Serves(p.mine.token)'
    BY DEF RingBusy
  <2>1. p.mine.token \in AnyTokens BY DEF RingOps, Rings
  <2> QED BY <2>1 DEF AloneInv, RingServes
<1>7. \A p \in ops' : p.at \in {"saving", "asking", "told", "forgetting", "forgotten", "writing"} => p.mine = kr'
  BY <1>0 DEF RingBusy, RingAhead
<1>8. \A p \in ops' : p.at # "saving" BY <1>0 DEF RingBusy
<1>9. (\A p \in ops' : p.at \notin {"granted", "writing"}) => Serves(kr.token)' OBVIOUS
<1>10. \A p \in ops' : p.at \in {"granted", "writing"} => p.answer \in RingTokens /\ Serves(p.answer)'
  BY <1>0 DEF RingAhead
<1>11. \A p \in ops' : (p.at = "told" /\ p.dead) \/ p.at \in {"forgetting", "forgotten"} => proven' = {}
  BY <1>0 DEF RingAhead
<1>12. \A p \in ops' : p.at = "saving" =>
         want' = IF p.kind = "add" THEN kr'.pass \cup {p.word} ELSE kr'.pass \ {p.word}
  BY <1>8
<1>13. (\A p \in ops' : p.at # "saving") => kr'.pass = want' OBVIOUS
<1> QED BY <1>1, <1>2, <1>3, <1>4, <1>5, <1>6, <1>7, <1>9, <1>10, <1>11, <1>12, <1>13 DEF AloneInv

\* What a handler holds has its type.
LEMMA RingOpTypes ==
  ASSUME KeyringInv, NEW o \in ops
  PROVE  /\ o \in RingOps /\ OpOK(o) /\ o.mine \in Rings /\ o.answer \in AnyTokens /\ o.id \in RingIds
         /\ o.mine.pass \subseteq Words /\ o.mine.token \in AnyTokens
         /\ kr \in Rings /\ kr.pass \subseteq Words /\ kr.token \in AnyTokens
         /\ ops \subseteq RingOps /\ pending \in [RingIds -> SUBSET AnyTokens] /\ RingTypes /\ FlowInv
BY DEF KeyringInv, FlowInv, FlowTypes, RingTypes, RingOps, Rings

\* The two together.
LEMMA RingGoesOn ==
  ASSUME KeyringInv, NEW o \in ops, Active(o), NEW new \in SUBSET RingOps, ops' = (ops \ {o}) \cup new,
         \A k, l \in new : k = l,
         \A k \in new : OpOK(k)' /\ RingFollows(k, o) /\ RingBusy(k, o),
         o.kind = "world" => o.at \notin {"waiting", "loaded", "proving"},
         RingTypes',
         ~crossed => /\ \A k \in new : RingAhead(k)'
                     /\ RingServes
                     /\ kr'.pass = want'
                     /\ (\A k \in new : k.at \notin {"granted", "writing"}) => Serves(kr.token)',
         UNCHANGED <<count, pending, waiters, letters, tab, proofs, broken, crossed>>
  PROVE  KeyringInv'
<1>1. FlowInv' BY RingOpGoesOn, RingOpTypes
<1>2. ASSUME ~crossed' PROVE AloneInv'
  <2>1. AloneInv BY <1>2 DEF KeyringInv
  <2>2. ops \subseteq RingOps /\ pending \in [RingIds -> SUBSET AnyTokens] BY RingOpTypes
  <2>3. \A k \in new : RingBusy(k, o) /\ RingAhead(k)' BY <1>2
  <2> QED BY <1>2, <2>1, <2>2, <2>3, RingAloneGoesOn
<1> QED BY <1>1, <1>2 DEF KeyringInv

\* As long as nothing crossed: what the handler at work knows, and that the
\* stored token serves until one grants another.
LEMMA RingAtWork ==
  ASSUME KeyringInv, ~crossed, NEW o \in ops, Active(o)
  PROVE  /\ RingAhead(o)
         /\ o.at \notin {"granted", "writing"} => Serves(kr.token)
         /\ o.at # "saving" => kr.pass = want
<1>1. AloneInv BY DEF KeyringInv
<1>2. \A p \in ops : p # o => p.at \in {"waiting", "loaded"} BY <1>1 DEF AloneInv, Active
<1>3. RingAhead(o) BY <1>1 DEF AloneInv, RingAhead
<1>4. ASSUME o.at \notin {"granted", "writing"} PROVE Serves(kr.token)
  <2>1. \A p \in ops : p.at \notin {"granted", "writing"} BY <1>2, <1>4
  <2> QED BY <2>1, <1>1 DEF AloneInv
<1>5. ASSUME o.at # "saving" PROVE kr.pass = want
  <2>1. \A p \in ops : p.at # "saving" BY <1>2, <1>5
  <2> QED BY <2>1, <1>1 DEF AloneInv
<1> QED BY <1>3, <1>4, <1>5

LEMMA SavePassKeeps ==
  ASSUME KeyringInv, NEW o \in ops, SavePass(o)
  PROVE  KeyringInv'
<1> USE DEF SavePass, End
<1>0. o \in RingOps /\ OpOK(o) /\ o.mine \in Rings /\ o.mine.pass \subseteq Words /\ o.mine.token \in AnyTokens
      /\ RingTypes
  BY RingOpTypes
<1> DEFINE pass == IF o.kind = "add" THEN o.mine.pass \cup {o.word} ELSE o.mine.pass \ {o.word}
<1>1. o.kind \in {"add", "remove"} /\ o.word \in Words BY <1>0 DEF OpOK, RingOps
<1>2. kr' = [pass |-> pass, token |-> o.mine.token] BY <1>0 DEF Rings
<1>3. kr' \in Rings /\ kr'.pass = pass /\ kr'.token = o.mine.token BY <1>0, <1>1, <1>2 DEF Rings
<1> DEFINE r == [o EXCEPT !.kind = "view", !.at = "asking", !.mine = kr']
<1>r. r \in RingOps /\ r.kind = "view" /\ r.at = "asking" /\ r.id = o.id /\ r.mine = kr'
  BY <1>0, <1>3 DEF RingOps, RingPlaces
<1> HIDE DEF r
<1>4. PICK k \in RingOps : k = r BY <1>r
<1> DEFINE new == IF o.mine.token = NoRingToken THEN {} ELSE {k}
<1>5. ops' = (ops \ {o}) \cup new BY <1>4 DEF r
<1>6. RingTypes' BY <1>0, <1>3 DEF RingTypes
<1>7. OpOK(k)' /\ RingFollows(k, o) /\ RingBusy(k, o) /\ RingAhead(k)'
  BY <1>0, <1>1, <1>4, <1>r DEF OpOK, Carries, Conn, RingAhead, RingFollows, RingBusy
<1>8. new \in SUBSET RingOps /\ \A l \in new : l = k BY <1>4, <1>r
<1>9. ASSUME ~crossed
      PROVE  kr'.pass = want' /\ Serves(kr.token)' /\ RingServes
  <2>1. RingAhead(o) /\ Serves(kr.token) BY <1>9, RingAtWork DEF Active
  <2> QED BY <2>1, <1>1, <1>3 DEF RingAhead, Serves, RingServes
<1>10. Active(o) BY DEF Active
<1> HIDE DEF new
<1> QED BY <1>1, <1>4, <1>r, <1>5, <1>6, <1>7, <1>8, <1>9, <1>10, RingGoesOn

LEMMA ViewAsksKeeps ==
  ASSUME KeyringInv, NEW o \in ops, ViewAsks(o)
  PROVE  KeyringInv'
<1> USE DEF ViewAsks, End
<1>0. o \in RingOps /\ OpOK(o) /\ RingTypes BY RingOpTypes
<1> DEFINE r == [o EXCEPT !.at = "told", !.dead = ~Live(o.mine.token)]
<1>r. r \in RingOps /\ r.kind = "view" /\ r.at = "told" /\ r.id = o.id /\ r.mine = o.mine /\ (r.dead <=> ~Live(o.mine.token))
  BY <1>0 DEF RingOps, RingPlaces, Live
<1> HIDE DEF r
<1>2. PICK k \in RingOps : k = r BY <1>r
<1>1. PICK new \in SUBSET {k} : ops' = (ops \ {o}) \cup new
  <2>1. CASE ops' = (ops \ {o}) \cup {k} BY <2>1
  <2>2. CASE ops' = ops \ {o}
    <3>1. ops' = (ops \ {o}) \cup {} BY <2>2
    <3> QED BY <3>1
  <2> QED BY <1>2, <2>1, <2>2 DEF r
<1>3. RingTypes' BY <1>0 DEF RingTypes
<1>4. OpOK(k)' /\ RingFollows(k, o) /\ RingBusy(k, o) BY <1>0, <1>2, <1>r DEF OpOK, Carries, Conn, RingFollows, RingBusy
<1>5. new \in SUBSET RingOps /\ \A l \in new : l = k BY <1>1, <1>2, <1>r
<1>6. ASSUME ~crossed
      PROVE  /\ RingAhead(k)' /\ kr'.pass = want' /\ Serves(kr.token)'
             /\ RingServes
  <2>1. RingAhead(o) /\ Serves(kr.token) /\ kr.pass = want BY <1>6, RingAtWork DEF Active
  <2>2. o.mine = kr BY <2>1 DEF RingAhead
  <2>3. ASSUME k.dead PROVE proven = {}
    <3>1. ~Live(kr.token) BY <2>2, <2>3, <1>2, <1>r, Zenon
    <3>2. kr.token \in RingTokens => kr.token # NoRingToken BY DEF RingTokens, NoRingToken
    <3> QED BY <2>1, <3>1, <3>2 DEF Live, Serves
  <2> QED BY <2>1, <2>2, <2>3, <1>2, <1>r DEF RingAhead, Serves, RingServes
<1>7. Active(o) BY DEF Active
<1> QED BY <1>1, <1>2, <1>r, <1>3, <1>4, <1>5, <1>6, <1>7, RingGoesOn

LEMMA ViewSavesKeeps ==
  ASSUME KeyringInv, NEW o \in ops, ViewSaves(o)
  PROVE  KeyringInv'
<1> USE DEF ViewSaves, End
<1>0. o.mine \in Rings /\ o.mine.pass \subseteq Words /\ o.mine.token \in AnyTokens /\ RingTypes
  BY RingOpTypes
<1> DEFINE new == {}
<1>1. ops' = (ops \ {o}) \cup new /\ new \in SUBSET RingOps /\ \A l \in new : FALSE OBVIOUS
<1>2. /\ kr' \in Rings /\ kr'.pass = o.mine.pass
      /\ kr'.token = IF o.dead THEN NoRingToken ELSE o.mine.token
  BY <1>0 DEF Rings, AnyTokens
<1>3. RingTypes' BY <1>0, <1>2 DEF RingTypes
<1>4. ASSUME ~crossed
      PROVE  kr'.pass = want' /\ Serves(kr.token)' /\ RingServes
  <2>1. RingAhead(o) /\ Serves(kr.token) /\ kr.pass = want BY <1>4, RingAtWork DEF Active
  <2> QED BY <2>1, <1>2 DEF RingAhead, Serves, RingServes
<1>5. Active(o) BY DEF Active
<1> HIDE DEF new
<1> QED BY <1>1, <1>3, <1>4, <1>5, RingGoesOn

LEMMA GateForgetsKeeps ==
  ASSUME KeyringInv, NEW o \in ops, GateForgets(o)
  PROVE  KeyringInv'
<1> USE DEF GateForgets, To
<1>0. o \in RingOps /\ OpOK(o) /\ RingTypes BY RingOpTypes
<1> DEFINE r == [o EXCEPT !.at = "forgotten"]
<1>r. r \in RingOps /\ r.kind = o.kind /\ r.at = "forgotten" /\ r.id = o.id /\ r.mine = o.mine
  BY <1>0 DEF RingOps, RingPlaces
<1> HIDE DEF r
<1>2. PICK k \in RingOps : k = r BY <1>r
<1> DEFINE new == {k}
<1>1. ops' = (ops \ {o}) \cup new BY <1>2 DEF r
<1>3. RingTypes' BY <1>0 DEF RingTypes
<1>4. o.kind = "forget" BY <1>0 DEF OpOK, RingOps
<1>5. OpOK(k)' /\ RingFollows(k, o) /\ RingBusy(k, o) BY <1>0, <1>2, <1>r, <1>4 DEF OpOK, Carries, Conn, RingFollows, RingBusy
<1>6. ASSUME ~crossed
      PROVE  /\ RingAhead(k)' /\ kr'.pass = want' /\ Serves(kr.token)'
             /\ RingServes
  <2>1. RingAhead(o) /\ kr.pass = want BY <1>6, RingAtWork DEF Active
  <2>2. o.mine = kr /\ proven = {} BY <2>1 DEF RingAhead
  <2> QED BY <2>1, <2>2, <1>2, <1>r DEF RingAhead, Serves, RingServes
<1>7. Active(o) BY DEF Active
<1>8. new \in SUBSET RingOps /\ k \in new /\ \A l \in new : l = k OBVIOUS
<1> HIDE DEF new
<1> QED BY <1>1, <1>2, <1>r, <1>8, <1>3, <1>4, <1>5, <1>6, <1>7, RingGoesOn

LEMMA ForgetSavesKeeps ==
  ASSUME KeyringInv, NEW o \in ops, ForgetSaves(o)
  PROVE  KeyringInv'
<1> USE DEF ForgetSaves, End
<1>0. /\ o.mine \in Rings /\ o.mine.pass \subseteq Words /\ o.mine.token \in AnyTokens /\ RingTypes
      /\ o \in RingOps /\ OpOK(o)
  BY RingOpTypes
<1> DEFINE new == {}
<1>1. ops' = (ops \ {o}) \cup new /\ new \in SUBSET RingOps /\ \A l \in new : FALSE OBVIOUS
<1>2. kr' \in Rings /\ kr'.pass = o.mine.pass /\ kr'.token = NoRingToken
  BY <1>0 DEF Rings, AnyTokens
<1>3. RingTypes' BY <1>0, <1>2 DEF RingTypes
<1>4. ASSUME ~crossed
      PROVE  kr'.pass = want' /\ Serves(kr.token)' /\ RingServes
  <2>1. RingAhead(o) /\ kr.pass = want BY <1>4, RingAtWork DEF Active
  <2> QED BY <2>1, <1>2 DEF RingAhead, Serves, RingServes
<1>5. Active(o) BY DEF Active
<1> HIDE DEF new
<1> QED BY <1>1, <1>3, <1>4, <1>5, RingGoesOn

LEMMA GrantReadsKeeps ==
  ASSUME KeyringInv, NEW o \in ops, GrantReads(o)
  PROVE  KeyringInv'
<1> USE DEF GrantReads
<1>0. o \in RingOps /\ OpOK(o) /\ kr \in Rings /\ RingTypes BY RingOpTypes
<1> DEFINE r == [o EXCEPT !.at = "writing", !.mine = kr]
<1>r. r \in RingOps /\ r.kind = o.kind /\ r.at = "writing" /\ r.id = o.id /\ r.mine = kr /\ r.answer = o.answer
  BY <1>0 DEF RingOps, RingPlaces
<1> HIDE DEF r
<1>2. PICK k \in RingOps : k = r BY <1>r
<1> DEFINE new == {k}
<1>1. ops' = (ops \ {o}) \cup new BY <1>2 DEF r
<1>3. RingTypes' BY <1>0 DEF RingTypes
<1>4. o.kind \in {"world", "wallet"} BY <1>0 DEF OpOK, RingOps
<1>5. OpOK(k)' /\ RingFollows(k, o) /\ RingBusy(k, o) BY <1>0, <1>2, <1>r, <1>4 DEF OpOK, Carries, Conn, RingFollows, RingBusy
<1>6. ASSUME ~crossed
      PROVE  RingAhead(k)' /\ kr'.pass = want' /\ RingServes
  <2>1. RingAhead(o) /\ kr.pass = want BY <1>6, RingAtWork DEF Active
  <2> QED BY <2>1, <1>2, <1>r DEF RingAhead, Serves, RingServes
<1>7. Active(o) BY DEF Active
<1>8. new \in SUBSET RingOps /\ k \in new /\ \A l \in new : l = k OBVIOUS
<1> HIDE DEF new
<1> QED BY <1>1, <1>2, <1>r, <1>8, <1>3, <1>4, <1>5, <1>6, <1>7, RingGoesOn

LEMMA GrantWritesKeeps ==
  ASSUME KeyringInv, NEW o \in ops, GrantWrites(o)
  PROVE  KeyringInv'
<1> USE DEF GrantWrites, End
<1>0. /\ o.mine \in Rings /\ o.mine.pass \subseteq Words /\ o.answer \in AnyTokens /\ RingTypes
  BY RingOpTypes
<1> DEFINE new == {}
<1>1. ops' = (ops \ {o}) \cup new /\ new \in SUBSET RingOps /\ \A l \in new : FALSE OBVIOUS
<1>2. kr' \in Rings /\ kr'.pass = o.mine.pass /\ kr'.token = o.answer BY <1>0 DEF Rings
<1>3. RingTypes' BY <1>0, <1>2 DEF RingTypes
<1>4. ASSUME ~crossed
      PROVE  kr'.pass = want' /\ Serves(kr.token)' /\ RingServes
  <2>1. RingAhead(o) /\ kr.pass = want BY <1>4, RingAtWork DEF Active
  <2> QED BY <2>1, <1>2 DEF RingAhead, Serves, RingServes
<1>5. Active(o) BY DEF Active
<1> HIDE DEF new
<1> QED BY <1>1, <1>3, <1>4, <1>5, RingGoesOn

-----------------------------------------------------------------------------
\* A handler begins: the first read of the keyring.
RingBegun(h, kind) ==
  /\ h.kind = kind /\ h.id = count + 1 /\ h.mine = kr
  /\ kind \in {"add", "remove"} => h.at = "saving" /\ h.word \in Words
  /\ kind = "view" => h.at = "asking"
  /\ kind = "forget" => h.at = "forgetting"
  /\ kind = "world" => h.at = "challenged"
  /\ kind = "wallet" => h.at = "waiting"

LEMMA RingBegins ==
  ASSUME KeyringInv, NEW kind \in {"add", "remove", "view", "forget", "world", "wallet"},
         NEW new \in SUBSET RingOps, Start(kind, new),
         \A h \in new : RingBegun(h, kind), \A h, l \in new : h = l,
         RingTypes', proven' = proven \/ proven' = {},
         kind = "forget" => proven' = {},
         IF kind \in {"add", "remove"}
           THEN \E h \in new : want' = IF kind = "add" THEN want \cup {h.word} ELSE want \ {h.word}
           ELSE want' = want,
         UNCHANGED <<kr, gateRows, rows, pending, waiters, letters, tab, proofs, broken>>
  PROVE  KeyringInv'
<1> USE DEF Start
<1>0. /\ RingTypes /\ FlowTypes /\ count \in Nat /\ count + 1 \in RingIds
      /\ \A o \in ops : o \in RingOps /\ OpOK(o) /\ o.id \in RingIds /\ o.id <= count /\ o.id # count + 1
  <2>1. FlowTypes /\ RingTypes /\ \A o \in ops : OpOK(o) BY DEF KeyringInv, FlowInv
  <2>2. count \in Nat /\ count + 1 \in RingIds BY <2>1, KeyringAssumption DEF FlowTypes, RingIds
  <2>3. \A o \in ops : o \in RingOps /\ o.id \in RingIds /\ o.id <= count BY <2>1 DEF FlowTypes, RingOps, OpOK
  <2> QED BY <2>1, <2>2, <2>3 DEF RingIds
<1>1. TabOK(count + 1) /\ tab[count + 1] = "none" /\ pending[count + 1] = {}
  BY <1>0 DEF KeyringInv, FlowInv, TabOK
<1>2. FlowInv'
  <2>1. FlowTypes' BY <1>0, KeyringAssumption DEF FlowTypes, RingIds
  <2>2. ASSUME NEW q \in ops' PROVE OpOK(q)'
    <3>1. CASE q \in new
      <4>1. RingBegun(q, kind) /\ count' = count + 1 BY <3>1
      <4>2. q.id <= count' BY <4>1, <1>0 DEF RingBegun
      <4>3. ~Carries(q) /\ q.at # "loaded" BY <4>1 DEF RingBegun, Carries
      <4> QED BY <4>1, <4>2, <4>3, <1>1 DEF RingBegun, OpOK, Carries
    <3>2. CASE q \in ops
      <4>1. OpOK(q) /\ q.id <= count' BY <3>2, <1>0 DEF RingIds
      <4> QED BY <4>1 DEF OpOK, Carries
    <3> QED BY <3>1, <3>2
  <2>3. ASSUME NEW q \in ops', NEW p \in ops' PROVE PairOK(q, p)'
    <3>1. CASE q \in ops /\ p \in ops BY <3>1 DEF KeyringInv, FlowInv, PairOK
    <3>2. CASE q \in new /\ p \in new
      <4>1. q = p BY <3>2
      <4> QED BY <4>1 DEF PairOK
    <3>3. CASE (q \in new /\ p \in ops) \/ (q \in ops /\ p \in new)
      <4>1. q.id # p.id BY <3>3, <1>0 DEF RingBegun
      <4> QED BY <4>1 DEF PairOK
    <3> QED BY <3>1, <3>2, <3>3
  <2>4. ASSUME NEW id \in RingIds PROVE TabOK(id)'
    <3>1. TabOK(id) BY DEF KeyringInv, FlowInv
    <3>2. id > count' => id > count BY <1>0 DEF RingIds
    <3> QED BY <3>1, <3>2 DEF TabOK
  <2>5. ProofReachesGate' BY DEF KeyringInv, FlowInv, ProofReachesGate
  <2> QED BY <2>1, <2>2, <2>3, <2>4, <2>5 DEF FlowInv
<1>3. ASSUME ~crossed' PROVE AloneInv'
  <2>0. AloneInv /\ (\A o \in ops : o.at = "waiting")
        /\ (kind \in {"world", "wallet", "forget"} => ops = {} /\ \A id \in RingIds : pending[id] = {})
    BY <1>3 DEF KeyringInv, Calm, AtWidget, Open
  <2>1. Serves(kr.token) /\ kr.pass = want BY <2>0 DEF AloneInv
  <2>2. RingServes BY DEF RingServes, Serves
  <2>3. \A p, q \in ops' : Active(p) /\ Active(q) => p = q BY <2>0 DEF Active
  <2>4. \A p, q \in ops' : Conn(p) /\ Conn(q) => p = q \/ (p.at = "loaded" /\ q.at = "loaded" /\ p.id = q.id)
    <3>1. CASE ops = {} BY <3>1
    <3>2. CASE ops # {}
      <4>1. \A h \in new : ~Conn(h) BY <2>0, <3>2 DEF RingBegun, Conn
      <4> QED BY <4>1, <2>0 DEF AloneInv
    <3> QED BY <3>1, <3>2
  <2>5. ASSUME NEW p \in ops', NEW id \in RingIds, Conn(p), pending'[id] # {}
        PROVE  p.kind = "world" /\ p.id = id /\ p.at \in {"waiting", "loaded"}
    <3>1. kind \notin {"world", "wallet", "forget"} BY <2>0, <2>5
    <3>2. p \in ops BY <3>1, <2>5 DEF RingBegun, Conn
    <3> QED BY <3>2, <2>0, <2>5 DEF AloneInv
  <2>6. \A i, j \in RingIds : pending'[i] # {} /\ pending'[j] # {} => i = j BY <2>0 DEF AloneInv
  <2>7. \A i \in RingIds : \A t \in pending'[i] : Serves(t)'
    BY <1>0, <2>0, <2>2 DEF AloneInv, RingServes, FlowTypes
  <2>8. ASSUME NEW p \in ops', p.at \in {"challenged", "waiting", "loaded", "proving"}
        PROVE  Serves(p.mine.token)'
    <3>1. CASE p \in ops
      <4>1. p.mine.token \in AnyTokens /\ Serves(p.mine.token) BY <3>1, <1>0, <2>0, <2>8 DEF AloneInv, RingOps, Rings
      <4> QED BY <4>1, <2>2 DEF RingServes
    <3>2. CASE p \in new
      <4>1. p.mine.token = kr.token /\ kr.token \in AnyTokens BY <3>2, <1>0 DEF RingBegun, RingTypes, Rings
      <4> QED BY <4>1, <2>1, <2>2 DEF RingServes
    <3> QED BY <3>1, <3>2
  <2>9. \A p \in ops' : p.at \in {"saving", "asking", "told", "forgetting", "forgotten", "writing"} => p.mine = kr'
    BY <2>0 DEF RingBegun
  <2>10. ASSUME NEW p \in ops', p.at = "saving"
         PROVE  want' = IF p.kind = "add" THEN kr'.pass \cup {p.word} ELSE kr'.pass \ {p.word}
    <3>1. p \in new BY <2>0, <2>10
    <3>2. kind \in {"add", "remove"} /\ p.kind = kind BY <3>1, <2>10 DEF RingBegun
    <3> QED BY <3>1, <3>2, <2>1
  <2>11. ASSUME \A p \in ops' : p.at # "saving" PROVE kr'.pass = want'
    <3>1. kind \notin {"add", "remove"} BY <2>11 DEF RingBegun
    <3> QED BY <3>1, <2>1
  <2>12. Serves(kr.token)'
    <3>1. kr.token \in AnyTokens BY <1>0 DEF RingTypes, Rings
    <3> QED BY <3>1, <2>1, <2>2 DEF RingServes, Serves
  <2>13. \A p \in ops' : p.at \notin {"granted", "writing"} BY <2>0 DEF RingBegun
  <2>14. \A p \in ops' : (p.at = "told" /\ p.dead) \/ p.at \in {"forgetting", "forgotten"} => proven' = {}
    BY <2>0 DEF RingBegun
  <2> QED BY <2>3, <2>4, <2>5, <2>6, <2>7, <2>8, <2>9, <2>10, <2>11, <2>12, <2>13, <2>14 DEF AloneInv
<1> QED BY <1>2, <1>3 DEF KeyringInv

\* The six ways a handler begins.
LEMMA HandlersBegin ==
  ASSUME KeyringInv,
         KeyringView \/ AddPassphrase \/ RemovePassphrase \/ ForgetConnected \/ ConnectWorld \/ ConnectWallet
  PROVE  KeyringInv'
<1>0. /\ RingTypes /\ kr \in Rings /\ kr.pass \subseteq Words /\ want \subseteq Words /\ proven \subseteq RingCreds
      /\ count < MaxHandlers => count + 1 \in RingIds
  BY KeyringAssumption DEF KeyringInv, RingTypes, FlowInv, FlowTypes, Rings, RingIds
<1>2. ASSUME UNCHANGED <<kr, gateRows, rows>>, want' \subseteq Words, proven' = proven \/ proven' = {}
      PROVE  RingTypes'
  BY <1>0, <1>2 DEF RingTypes
<1>3. ASSUME NEW kind \in {"add", "remove", "view", "forget", "world", "wallet"},
             NEW word \in Words \cup {"-", "proof", "closed"}, NEW at \in RingPlaces,
             Start(kind, {Handler(kind, word, at)}),
             kind \in {"add", "remove"} => at = "saving" /\ word \in Words,
             kind = "view" => at = "asking", kind = "forget" => at = "forgetting",
             kind = "world" => at = "challenged", kind = "wallet" => at = "waiting",
             proven' = IF kind = "forget" THEN {} ELSE proven,
             want' = IF kind = "add" THEN want \cup {word} ELSE IF kind = "remove" THEN want \ {word} ELSE want,
             UNCHANGED <<kr, gateRows, rows, pending, waiters, letters, tab, proofs, broken>>
      PROVE  KeyringInv'
  <2> DEFINE r == Handler(kind, word, at)
  <2>1. r \in RingOps /\ RingBegun(r, kind) /\ r.word = word
    BY <1>0, <1>3, KeyringAssumption DEF Handler, RingOps, AnyTokens, RingTokens, Start, RingBegun
  <2> HIDE DEF r
  <2>2. PICK h \in RingOps : h = r BY <2>1
  <2> DEFINE new == {h}
  <2>3. new \in SUBSET RingOps /\ h \in new /\ \A l \in new : l = h BY <2>2
  <2>4. Start(kind, new) BY <1>3, <2>2 DEF r
  <2>5. RingBegun(h, kind) /\ h.word = word BY <2>1, <2>2
  <2>6. RingTypes' BY <1>0, <1>2, <1>3
  <2>7. IF kind \in {"add", "remove"}
          THEN \E l \in new : want' = IF kind = "add" THEN want \cup {l.word} ELSE want \ {l.word}
          ELSE want' = want
    BY <1>3, <2>3, <2>5
  <2>8. \A l \in new : RingBegun(l, kind) BY <2>3, <2>5
  <2>9. (kind = "forget" => proven' = {}) /\ (proven' = proven \/ proven' = {}) BY <1>3
  <2> HIDE DEF new
  <2> QED BY <1>3, <2>3, <2>4, <2>6, <2>7, <2>8, <2>9, RingBegins
<1>4. CASE KeyringView
  <2>1. CASE kr.token = NoRingToken
    <3> DEFINE new == {}
    <3>1. new \in SUBSET RingOps /\ \A h \in new : FALSE OBVIOUS
    <3>2. Start("view", new) BY <1>4, <2>1 DEF KeyringView, View
    <3>3. RingTypes' BY <1>0, <1>2, <1>4 DEF KeyringView
    <3> HIDE DEF new
    <3> QED BY <1>4, <3>1, <3>2, <3>3, RingBegins DEF KeyringView
  <2>2. CASE kr.token # NoRingToken
    BY <1>3, <1>4, <2>2 DEF KeyringView, View, RingPlaces
  <2> QED BY <2>1, <2>2
<1>5. CASE AddPassphrase BY <1>3, <1>5 DEF AddPassphrase, RingPlaces
<1>6. CASE RemovePassphrase
  <2>1. PICK w \in Words : Start("remove", {Handler("remove", w, "saving")}) /\ want' = want \ {w}
    BY <1>0, <1>6 DEF RemovePassphrase
  <2> QED BY <1>3, <1>6, <2>1 DEF RemovePassphrase, RingPlaces
<1>7. CASE ForgetConnected BY <1>3, <1>7 DEF ForgetConnected, RingPlaces
<1>8. CASE ConnectWorld BY <1>3, <1>8 DEF ConnectWorld, RingPlaces
<1>9. CASE ConnectWallet BY <1>3, <1>9 DEF ConnectWallet, RingPlaces
<1> QED BY <1>4, <1>5, <1>6, <1>7, <1>8, <1>9

-----------------------------------------------------------------------------
\* While the handlers wait at the widget: the connections do not depend on
\* anything else, and the stored keyring is what it should be.
LEMMA RingWaits ==
  ASSUME KeyringInv, ~crossed, NEW o \in ops, \A p \in ops \ {o} : p.at = "waiting",
         o.at \in {"waiting", "loaded", "challenged", "proving"}
  PROVE  kr.pass = want /\ Serves(kr.token) /\ AloneInv /\ Serves(o.mine.token)
<1>1. AloneInv BY DEF KeyringInv
<1>2. \A p \in ops : p.at \notin {"granted", "writing", "saving"} OBVIOUS
<1> QED BY <1>1, <1>2 DEF AloneInv

LEMMA WalletSignsKeeps ==
  ASSUME KeyringInv, NEW o \in ops, WalletSigns(o)
  PROVE  KeyringInv'
<1> USE DEF WalletSigns, To, End
<1>0. o \in RingOps /\ OpOK(o) /\ RingTypes /\ FlowInv BY RingOpTypes
<1> DEFINE r == [o EXCEPT !.at = "proving"]
<1>r. r \in RingOps /\ r.kind = o.kind /\ r.at = "proving" /\ r.id = o.id /\ r.mine = o.mine
  BY <1>0 DEF RingOps, RingPlaces
<1> HIDE DEF r
<1>1. PICK k \in RingOps : k = r BY <1>r
<1>2. PICK new \in SUBSET {k} : ops' = (ops \ {o}) \cup new
  <2>1. CASE ops' = (ops \ {o}) \cup {k} BY <2>1
  <2>2. CASE ops' = ops \ {o}
    <3>1. ops' = (ops \ {o}) \cup {} BY <2>2
    <3> QED BY <3>1
  <2> QED BY <1>1, <2>1, <2>2 DEF r
<1>3. RingTypes' BY <1>0 DEF RingTypes
<1>4. k.kind = "wallet" /\ OpOK(k)' /\ RingFollows(k, o)
  BY <1>0, <1>1, <1>r DEF OpOK, Carries, RingFollows
<1>5. new \in SUBSET RingOps /\ \A l \in new : l = k BY <1>1, <1>2
<1>6. FlowInv'
  <2>1. \A l \in new : OpOK(l)' /\ RingFollows(l, o) BY <1>4, <1>5
  <2>2. \A l, m \in new : l = m BY <1>5
  <2> QED BY <1>0, <1>2, <1>5, <2>1, <2>2, RingOpGoesOn
<1>7. ASSUME ~crossed' PROVE AloneInv'
  <2>1. ~crossed /\ \A p \in ops \ {o} : p.at = "waiting" BY <1>7 DEF AtWidget
  <2>2. kr.pass = want /\ Serves(kr.token) /\ AloneInv /\ Serves(o.mine.token) BY <2>1, RingWaits
  <2>3. \A p \in ops \ {o} : ~Conn(p) BY <2>2 DEF AloneInv, Conn
  <2>4. \A id \in RingIds : pending[id] = {} BY <2>2 DEF AloneInv, Conn
  <2> QED BY <1>1, <1>r, <1>2, <1>4, <1>5, <2>1, <2>2, <2>3, <2>4 DEF AloneInv, Active, Serves
<1> QED BY <1>3, <1>6, <1>7 DEF KeyringInv

\* The tab of the widget opens, and the handler begins to wait.
LEMMA OpenTabKeeps ==
  ASSUME KeyringInv, NEW o \in ops, OpenTab(o)
  PROVE  KeyringInv'
<1> USE DEF OpenTab, To
<1>0. o \in RingOps /\ OpOK(o) /\ RingTypes /\ FlowInv /\ o.id \in RingIds /\ o.mine.token \in AnyTokens
  BY RingOpTypes
<1>1. FlowTypes /\ TabOK(o.id) /\ tab[o.id] = "none" /\ proofs[o.id] = 0 /\ o.id <= count
  BY <1>0 DEF FlowInv, OpOK, TabOK
<1> DEFINE r == [o EXCEPT !.at = "waiting"]
<1>r. r \in RingOps /\ r.kind = "world" /\ r.at = "waiting" /\ r.id = o.id /\ r.mine = o.mine
  BY <1>0 DEF RingOps, RingPlaces
<1> HIDE DEF r
<1>2. PICK k \in RingOps : k = r BY <1>r
<1>3. ops' = (ops \ {o}) \cup {k} BY <1>2 DEF r
<1>4. RingTypes' BY <1>0 DEF RingTypes
<1>5. \A p \in ops \ {o} : p.id # o.id BY <1>0 DEF FlowInv, PairOK
<1>6. FlowInv'
  <2>1. FlowTypes' BY <1>0, <1>1, <1>3 DEF FlowTypes
  <2>2. ASSUME NEW q \in ops' PROVE OpOK(q)'
    <3>1. CASE q = k BY <1>1, <1>2, <1>r, <3>1 DEF OpOK, Carries
    <3>2. CASE q \in ops \ {o}
      <4>1. OpOK(q) /\ q.id # o.id /\ q.id \in RingIds BY <1>0, <1>5, <3>2, <1>1 DEF FlowInv, FlowTypes, RingOps
      <4>2. tab'[q.id] = tab[q.id] /\ pending'[q.id] = pending[q.id] BY <4>1, <1>1 DEF FlowTypes
      <4> QED BY <4>1, <4>2 DEF OpOK, Carries
    <3> QED BY <1>3, <3>1, <3>2
  <2>3. ASSUME NEW q \in ops', NEW p \in ops' PROVE PairOK(q, p)'
    <3>1. CASE q \in ops \ {o} /\ p \in ops \ {o} BY <1>0, <3>1 DEF FlowInv, PairOK
    <3>2. CASE q = k \/ p = k
      <4>1. q.id = p.id => q = p BY <3>2, <1>2, <1>r, <1>3, <1>5
      <4> QED BY <4>1 DEF PairOK
    <3> QED BY <1>3, <3>1, <3>2
  <2>4. ASSUME NEW id \in RingIds PROVE TabOK(id)'
    <3>0. TabOK(id) BY <1>0 DEF FlowInv
    <3>1. CASE id = o.id
      <4>1. tab'[id] = "open" /\ pending'[id] = {o.mine.token} BY <1>0, <1>1, <3>1 DEF FlowTypes
      <4>2. k \in ops' /\ k.id = id BY <1>2, <1>r, <1>3, <3>1
      <4>3. ~(id > count) BY <1>1, <3>1, KeyringAssumption DEF FlowTypes, RingIds
      <4>4. ProofOf(id) \notin letters /\ ClosingOf(id) \notin letters BY <1>1, <3>1 DEF TabOK
      <4>5. \E p \in ops' : p.id = id /\ p.kind = "world" /\ p.at = "waiting" BY <4>2, <1>2, <1>r
      <4> QED BY <3>1, <4>1, <4>3, <4>4, <4>5, <1>1 DEF TabOK
    <3>2. CASE id # o.id
      <4>1. tab'[id] = tab[id] /\ pending'[id] = pending[id] /\ (id \in waiters' <=> id \in waiters)
        BY <1>0, <1>1, <3>2 DEF FlowTypes
      <4>2. id \in waiters => \E p \in ops' : p.id = id /\ p.kind = "world" /\ p.at = "waiting"
        BY <3>0, <3>2, <1>3 DEF TabOK
      <4> QED BY <3>0, <4>1, <4>2 DEF TabOK
    <3> QED BY <3>1, <3>2
  <2>5. ProofReachesGate'
    <3> SUFFICES ASSUME NEW id \in RingIds
                 PROVE  /\ proofs'[id] <= 1
                        /\ tab'[id] = "sent" /\ id \notin broken' =>
                             \/ proofs'[id] = 1
                             \/ ProofOf(id) \in letters'
                             \/ \E p \in ops' : p.id = id /\ p.at \in {"loaded", "proving"}
      BY DEF ProofReachesGate, ProofOf
    <3>1. /\ proofs[id] <= 1
          /\ tab[id] = "sent" /\ id \notin broken =>
               proofs[id] = 1 \/ ProofOf(id) \in letters \/ \E p \in ops : p.id = id /\ p.at \in {"loaded", "proving"}
      BY <1>0 DEF FlowInv, ProofReachesGate, ProofOf
    <3>2. tab'[id] = "sent" => tab[id] = "sent" BY <1>0, <1>1 DEF FlowTypes
    <3> QED BY <3>1, <3>2, <1>3
  <2> QED BY <2>1, <2>2, <2>3, <2>4, <2>5 DEF FlowInv
<1>7. ASSUME ~crossed PROVE AloneInv'
  <2>1. AloneInv BY <1>7 DEF KeyringInv
  <2>2. Active(o) /\ Conn(o) /\ \A p \in ops \ {o} : p.at \in {"waiting", "loaded"} /\ ~Conn(p)
    BY <2>1, <1>0 DEF AloneInv, Active, Conn
  <2>3. \A id \in RingIds : pending[id] = {} BY <2>1, <2>2 DEF AloneInv
  <2>4. kr.pass = want /\ Serves(kr.token) /\ Serves(o.mine.token)
    <3>1. \A p \in ops : p.at \notin {"granted", "writing", "saving"} BY <2>2
    <3> QED BY <3>1, <2>1 DEF AloneInv
  <2>5. \A id \in RingIds : pending'[id] = IF id = o.id THEN {o.mine.token} ELSE {}
    BY <2>3, <1>0, <1>1 DEF FlowTypes
  <2>6. \A p \in ops' : p.at \in {"waiting", "loaded"} /\ (Conn(p) => p = k) BY <1>2, <1>r, <1>3, <2>2
  <2> QED BY <1>2, <1>r, <2>1, <2>4, <2>5, <2>6, <1>3 DEF AloneInv, Active, Serves
<1> QED BY <1>4, <1>6, <1>7 DEF KeyringInv

\* The widget hands its proof over, or its tab is closed.
LEMMA WidgetKeeps ==
  ASSUME KeyringInv, NEW at \in RingIds, WidgetProves(at) \/ TabCloses(at)
  PROVE  KeyringInv'
<1> USE DEF WidgetProves, TabCloses
<1>0. RingTypes /\ FlowInv /\ FlowTypes /\ TabOK(at) /\ \A p \in ops : OpOK(p) /\ p.id \in RingIds
  BY DEF KeyringInv, FlowInv, FlowTypes, RingOps
<1>1. PICK letter \in {ProofOf(at), ClosingOf(at)} :
        /\ letters' = letters \cup {letter}
        /\ tab[at] \in {"open", "sent"}
        /\ letter = ProofOf(at) => tab[at] = "open" /\ tab' = [tab EXCEPT ![at] = "sent"]
        /\ letter = ClosingOf(at) => tab' = [tab EXCEPT ![at] = "closed"]
  <2>1. ProofOf(at) # ClosingOf(at) BY DEF ProofOf, ClosingOf
  <2>2. CASE WidgetProves(at) BY <2>1, <2>2 DEF ProofOf
  <2>3. CASE TabCloses(at) BY <2>1, <2>3 DEF ClosingOf
  <2> QED BY <2>2, <2>3
<1>2. /\ ProofOf(at) # ClosingOf(at) /\ letter.id = at /\ letter \in RingLetters
      /\ \A id \in RingIds : id # at => ProofOf(id) # letter /\ ClosingOf(id) # letter
  <2>1. \A i, j \in RingIds : ProofOf(i) # ClosingOf(j) BY DEF ProofOf, ClosingOf
  <2>2. \A i, j \in RingIds : i # j => ProofOf(i) # ProofOf(j) BY DEF ProofOf
  <2>3. \A i, j \in RingIds : i # j => ClosingOf(i) # ClosingOf(j) BY DEF ClosingOf
  <2>4. \A i \in RingIds : ProofOf(i).id = i /\ ClosingOf(i).id = i
                         /\ ProofOf(i) \in RingLetters /\ ClosingOf(i) \in RingLetters
    BY DEF ProofOf, ClosingOf, RingLetters
  <2> QED BY <1>1, <2>1, <2>2, <2>3, <2>4
<1>3. /\ \A id \in RingIds : id # at => tab'[id] = tab[id]
      /\ tab'[at] = IF letter = ProofOf(at) THEN "sent" ELSE "closed"
      /\ tab' \in [RingIds -> {"none", "open", "sent", "closed"}]
  BY <1>0, <1>1, <1>2 DEF FlowTypes
<1>4. RingTypes' BY <1>0 DEF RingTypes
<1>5. FlowInv'
  <2>1. FlowTypes' BY <1>0, <1>1, <1>2, <1>3 DEF FlowTypes
  <2>2. ASSUME NEW q \in ops' PROVE OpOK(q)'
    <3>0. q \in ops /\ OpOK(q) /\ q.id \in RingIds BY <1>0
    <3>1. CASE q.id # at
      <4>1. tab'[q.id] = tab[q.id] /\ (ProofOf(q.id) \in letters' <=> ProofOf(q.id) \in letters)
        BY <1>1, <1>2, <1>3, <3>0, <3>1
      <4> QED BY <3>0, <4>1 DEF OpOK
    <3>2. CASE q.id = at
      <4>1. q.kind = "world" /\ q.at # "challenged" BY <1>1, <3>0, <3>2 DEF OpOK
      <4>2. Carries(q) => letter # ProofOf(at) BY <1>1, <3>0, <3>2 DEF OpOK
      <4>3. ~(q.at = "loaded" /\ q.word # "proof") BY <1>1, <3>0, <3>2 DEF OpOK
      <4> QED BY <1>1, <1>3, <3>0, <3>2, <4>1, <4>2, <4>3 DEF OpOK
    <3> QED BY <3>1, <3>2
  <2>3. \A q, p \in ops' : PairOK(q, p)' BY <1>0 DEF FlowInv, PairOK
  <2>4. ASSUME NEW id \in RingIds PROVE TabOK(id)'
    <3>0. TabOK(id) BY <1>0 DEF FlowInv
    <3>1. CASE id # at
      <4>1. /\ tab'[id] = tab[id] /\ (ProofOf(id) \in letters' <=> ProofOf(id) \in letters)
            /\ ClosingOf(id) \in letters' <=> ClosingOf(id) \in letters
        BY <1>1, <1>2, <1>3, <3>1
      <4> QED BY <3>0, <4>1 DEF TabOK
    <3>2. CASE id = at
      <4>1. CASE letter = ProofOf(at)
        <5>1. tab[at] = "open" /\ ClosingOf(at) \notin letters' /\ tab'[at] = "sent"
          BY <1>1, <1>2, <1>3, <4>1, <3>2, <3>0 DEF TabOK
        <5> QED BY <5>1, <3>0, <3>2, <1>1 DEF TabOK
      <4>2. CASE letter = ClosingOf(at)
        <5>1. tab'[at] = "closed" /\ (ProofOf(at) \in letters' <=> ProofOf(at) \in letters)
          BY <1>1, <1>2, <1>3, <4>2
        <5> QED BY <5>1, <3>0, <3>2, <1>1 DEF TabOK
      <4> QED BY <1>1, <4>1, <4>2
    <3> QED BY <3>1, <3>2
  <2>5. ProofReachesGate'
    <3> SUFFICES ASSUME NEW id \in RingIds
                 PROVE  /\ proofs'[id] <= 1
                        /\ tab'[id] = "sent" /\ id \notin broken' =>
                             \/ proofs'[id] = 1
                             \/ ProofOf(id) \in letters'
                             \/ \E p \in ops' : p.id = id /\ p.at \in {"loaded", "proving"}
      BY DEF ProofReachesGate, ProofOf
    <3>1. /\ proofs[id] <= 1
          /\ tab[id] = "sent" /\ id \notin broken =>
               proofs[id] = 1 \/ ProofOf(id) \in letters \/ \E p \in ops : p.id = id /\ p.at \in {"loaded", "proving"}
      BY <1>0 DEF FlowInv, ProofReachesGate, ProofOf
    <3>2. CASE id # at BY <1>1, <1>3, <3>1, <3>2
    <3>3. CASE id = at BY <1>1, <1>3, <3>1, <3>3
    <3> QED BY <3>2, <3>3
  <2> QED BY <2>1, <2>2, <2>3, <2>4, <2>5 DEF FlowInv
<1>6. ASSUME ~crossed' PROVE AloneInv'
  <2>1. AloneInv BY <1>6 DEF KeyringInv
  <2> QED BY <2>1 DEF AloneInv, Serves
<1> QED BY <1>4, <1>5, <1>6 DEF KeyringInv

-----------------------------------------------------------------------------
LEMMA LettersDiffer ==
  /\ \A i, j \in RingIds : ProofOf(i) # ClosingOf(j)
  /\ \A i, j \in RingIds : i # j => ProofOf(i) # ProofOf(j) /\ ClosingOf(i) # ClosingOf(j)
  /\ \A m \in RingLetters : /\ m.id \in RingIds /\ m.proof \in BOOLEAN
                            /\ m.proof => m = ProofOf(m.id)
                            /\ ~m.proof => m = ClosingOf(m.id)
BY DEF ProofOf, ClosingOf, RingLetters

\* finishConnect: the handler goes to the gate with its proof, or gives up.
LEMMA FinishKeeps ==
  ASSUME KeyringInv, NEW o \in ops, o.kind = "world", o.at \in {"waiting", "loaded"},
         NEW proof \in BOOLEAN, Finish(o, o.mine.token, proof),
         proof => /\ tab[o.id] \in {"sent", "closed"} /\ proofs[o.id] = 0 /\ ProofOf(o.id) \notin letters'
                  /\ \A p \in ops \ {o} : p.id = o.id => ~Carries(p),
         ~proof => tab[o.id] = "closed",
         letters' \subseteq letters,
         \A l \in letters : l \in letters' \/ l.id = o.id,
         waiters' = IF o.at = "waiting" THEN waiters \ {o.id} ELSE waiters,
         UNCHANGED <<kr, gateRows, rows, count, tab, proofs, broken, want, proven>>
  PROVE  KeyringInv'
<1> USE DEF Finish
<1>0. o \in RingOps /\ OpOK(o) /\ RingTypes /\ FlowInv /\ o.id \in RingIds /\ o.mine \in Rings /\ o.mine.token \in AnyTokens
  BY RingOpTypes
<1>1. FlowTypes /\ \A p \in ops : OpOK(p) /\ p.id \in RingIds BY <1>0 DEF FlowInv, FlowTypes, RingOps
<1>2. pending' \in [RingIds -> SUBSET AnyTokens] /\ \A id \in RingIds : pending'[id] = IF id = o.id THEN {} ELSE pending[id]
  BY <1>0, <1>1 DEF FlowTypes
<1> DEFINE r == [o EXCEPT !.at = "proving", !.mine.token = o.mine.token]
<1>r. r \in RingOps /\ r.kind = "world" /\ r.at = "proving" /\ r.id = o.id /\ r.mine.token = o.mine.token
  BY <1>0 DEF RingOps, RingPlaces, Rings
<1> HIDE DEF r
<1>3. PICK k \in RingOps : k = r BY <1>r
<1> DEFINE new == IF proof THEN {k} ELSE {}
<1>4. ops' = (ops \ {o}) \cup new BY <1>3 DEF r
<1>5. new \in SUBSET RingOps /\ \A l \in new : l = k /\ proof BY <1>3
<1>p. proof => k \in new OBVIOUS
<1> HIDE DEF new
<1>6. RingTypes' BY <1>0 DEF RingTypes
<1>7. \A p \in ops \ {o} : p.id = o.id => p.kind = "world" /\ p.at \notin {"waiting", "challenged"}
  BY <1>0 DEF FlowInv, PairOK
<1>8. FlowInv'
  <2>1. FlowTypes' BY <1>1, <1>2, <1>4, <1>5 DEF FlowTypes
  <2>2. ASSUME NEW q \in ops' PROVE OpOK(q)'
    <3>1. CASE q \in new BY <1>0, <1>3, <1>r, <1>5, <3>1 DEF OpOK, Carries
    <3>2. CASE q \in ops \ {o}
      <4>1. OpOK(q) /\ q.id \in RingIds BY <1>1, <3>2
      <4>2. q.kind = "world" /\ q.at = "waiting" => q.id \in waiters' BY <1>7, <3>2, <4>1 DEF OpOK
      <4>3. q.at = "challenged" => pending'[q.id] = {} BY <1>2, <4>1 DEF OpOK
      <4> QED BY <4>1, <4>2, <4>3 DEF OpOK
    <3> QED BY <1>4, <3>1, <3>2
  <2>3. ASSUME NEW q \in ops', NEW p \in ops' PROVE PairOK(q, p)'
    <3>1. CASE q \in ops \ {o} /\ p \in ops \ {o} BY <1>0, <3>1 DEF FlowInv, PairOK
    <3>2. CASE q \in new /\ p \in new
      <4>1. q = p BY <1>5, <3>2
      <4> QED BY <4>1 DEF PairOK
    <3>3. CASE q \in new /\ p \in ops \ {o}
      BY <1>3, <1>r, <1>5, <1>7, <3>3 DEF PairOK
    <3>4. CASE q \in ops \ {o} /\ p \in new
      BY <1>3, <1>r, <1>5, <1>7, <3>4 DEF PairOK
    <3> QED BY <1>4, <3>1, <3>2, <3>3, <3>4
  <2>4. ASSUME NEW id \in RingIds PROVE TabOK(id)'
    <3>0. TabOK(id) BY <1>0 DEF FlowInv
    <3>1. CASE id = o.id
      <4>1. id \notin waiters'
        <5>1. CASE o.at = "waiting" BY <3>1, <5>1
        <5>2. CASE o.at = "loaded"
          <6>1. ~\E p \in ops : p.id = id /\ p.kind = "world" /\ p.at = "waiting" BY <1>7, <3>1, <5>2
          <6> QED BY <6>1, <3>0, <5>2 DEF TabOK
        <5> QED BY <5>1, <5>2
      <4>2. pending'[id] = {} BY <1>2, <3>1
      <4>3. tab[id] \in {"sent", "closed"} /\ (tab[id] = "sent" => proof) BY <3>1
      <4>4. tab[id] = "sent" => ProofOf(id) \notin letters' BY <3>1, <4>3
      <4> QED BY <3>0, <4>1, <4>2, <4>3, <4>4 DEF TabOK
    <3>2. CASE id # o.id
      <4>1. pending'[id] = pending[id] /\ (id \in waiters' <=> id \in waiters) BY <1>2, <3>2
      <4>2. id \in waiters => \E p \in ops' : p.id = id /\ p.kind = "world" /\ p.at = "waiting"
        BY <3>0, <3>2, <1>4 DEF TabOK
      <4> QED BY <3>0, <4>1, <4>2 DEF TabOK
    <3> QED BY <3>1, <3>2
  <2>5. ProofReachesGate'
    <3> SUFFICES ASSUME NEW id \in RingIds
                 PROVE  /\ proofs'[id] <= 1
                        /\ tab'[id] = "sent" /\ id \notin broken' =>
                             \/ proofs'[id] = 1
                             \/ ProofOf(id) \in letters'
                             \/ \E p \in ops' : p.id = id /\ p.at \in {"loaded", "proving"}
      BY DEF ProofReachesGate, ProofOf
    <3>1. /\ proofs[id] <= 1
          /\ tab[id] = "sent" /\ id \notin broken =>
               proofs[id] = 1 \/ ProofOf(id) \in letters \/ \E p \in ops : p.id = id /\ p.at \in {"loaded", "proving"}
      BY <1>0 DEF FlowInv, ProofReachesGate, ProofOf
    <3>2. CASE id = o.id
      <4>1. tab[id] = "sent" => k \in ops' /\ k.id = id /\ k.at = "proving" BY <1>3, <1>r, <1>4, <1>p, <3>2
      <4> QED BY <3>1, <4>1
    <3>3. CASE id # o.id
      <4>1. ProofOf(id).id = id BY DEF ProofOf
      <4> QED BY <3>1, <3>3, <4>1, <1>4
    <3> QED BY <3>2, <3>3
  <2> QED BY <2>1, <2>2, <2>3, <2>4, <2>5 DEF FlowInv
<1>9. ASSUME ~crossed' PROVE AloneInv'
  <2>1. ~crossed /\ \A p \in ops \ {o} : p.at = "waiting" BY <1>9 DEF AtWidget
  <2>2. kr.pass = want /\ Serves(kr.token) /\ AloneInv /\ Serves(o.mine.token) BY <2>1, RingWaits
  <2>3. \A p \in ops \ {o} : ~Conn(p) BY <2>1, <2>2 DEF AloneInv, Conn
  <2>4. \A id \in RingIds : pending'[id] = {} BY <1>2, <2>2 DEF AloneInv, Conn
  <2> QED BY <1>3, <1>r, <1>4, <1>5, <2>1, <2>2, <2>3, <2>4 DEF AloneInv, Active, Serves
<1> QED BY <1>6, <1>8, <1>9 DEF KeyringInv

LEMMA MessageToWaiterKeeps ==
  ASSUME KeyringInv, NEW m \in letters, MessageToWaiter(m)
  PROVE  KeyringInv'
<1> USE DEF MessageToWaiter
<1>0. FlowInv /\ FlowTypes /\ TabOK(m.id) /\ m.id \in RingIds /\ m \in RingLetters /\ m.proof \in BOOLEAN
  BY LettersDiffer DEF KeyringInv, FlowInv, FlowTypes
<1> DEFINE o == CHOOSE o \in ops : o.kind = "world" /\ o.id = m.id
<1>1. o \in ops /\ o.kind = "world" /\ o.id = m.id BY <1>0 DEF TabOK
<1>2. o.at = "waiting" /\ \A p \in ops : p.id = m.id => p = o BY <1>0, <1>1 DEF FlowInv, TabOK, PairOK
<1>3. PICK w \in ops : w = o BY <1>1
<1>4. Finish(w, w.mine.token, m.proof) BY <1>3
<1>5. m.proof => m = ProofOf(m.id) /\ tab[m.id] \in {"sent", "closed"} /\ proofs[m.id] = 0
  BY <1>0, LettersDiffer DEF TabOK
<1>6. ~m.proof => m = ClosingOf(m.id) /\ tab[m.id] = "closed"
  BY <1>0, LettersDiffer DEF TabOK
<1> HIDE DEF o
<1> QED BY <1>0, <1>1, <1>2, <1>3, <1>4, <1>5, <1>6, FinishKeeps

LEMMA FinishLoadedKeeps ==
  ASSUME KeyringInv, NEW o \in ops, FinishLoaded(o)
  PROVE  KeyringInv'
<1> USE DEF FinishLoaded
<1>0. FlowInv /\ OpOK(o) /\ o \in RingOps BY RingOpTypes
<1>1. o.kind = "world" BY <1>0 DEF OpOK, RingOps
<1>2. PICK proof \in BOOLEAN : proof <=> o.word = "proof" OBVIOUS
<1>3. Finish(o, o.mine.token, proof) BY <1>2 DEF Finish
<1>4. proof => /\ tab[o.id] \in {"sent", "closed"} /\ proofs[o.id] = 0 /\ ProofOf(o.id) \notin letters'
               /\ \A p \in ops \ {o} : p.id = o.id => ~Carries(p)
  BY <1>0, <1>1, <1>2 DEF FlowInv, OpOK, PairOK, Carries
<1>5. ~proof => tab[o.id] = "closed" BY <1>0, <1>2 DEF OpOK
<1> QED BY <1>1, <1>3, <1>4, <1>5, FinishKeeps

\* A worker that was restarted looks up what its predecessor saved.
LEMMA MessageAfterRestartKeeps ==
  ASSUME KeyringInv, NEW m \in letters, MessageAfterRestart(m)
  PROVE  KeyringInv'
<1> USE DEF MessageAfterRestart
<1>0. /\ RingTypes /\ FlowInv /\ FlowTypes /\ TabOK(m.id) /\ m.id \in RingIds /\ m \in RingLetters
      /\ m.proof \in BOOLEAN /\ kr \in Rings /\ \A p \in ops : OpOK(p) /\ p.id \in RingIds
  BY LettersDiffer DEF KeyringInv, FlowInv, FlowTypes, RingTypes, RingOps
<1>1. /\ m.proof => m = ProofOf(m.id) /\ tab[m.id] \in {"sent", "closed"} /\ proofs[m.id] = 0
      /\ ~m.proof => m = ClosingOf(m.id) /\ tab[m.id] = "closed"
      /\ m.id <= count /\ tab[m.id] # "none"
  <2>1. /\ m.proof => m = ProofOf(m.id) /\ tab[m.id] \in {"sent", "closed"} /\ proofs[m.id] = 0
        /\ ~m.proof => m = ClosingOf(m.id) /\ tab[m.id] = "closed"
    BY <1>0, LettersDiffer DEF TabOK
  <2>2. tab[m.id] # "none" BY <2>1, <1>0
  <2>3. ~(m.id > count) BY <2>2, <1>0 DEF TabOK
  <2> QED BY <2>1, <2>2, <2>3, <1>0, KeyringAssumption DEF FlowTypes, RingIds
<1> DEFINE New(t) == [kind |-> "world", word |-> IF m.proof THEN "proof" ELSE "closed",
                      at |-> "loaded", mine |-> [kr EXCEPT !.token = t], id |-> m.id,
                      answer |-> NoRingToken, dead |-> FALSE]
           new == {New(t) : t \in pending[m.id]}
<1>2. \A k \in new : /\ k \in RingOps /\ k.kind = "world" /\ k.at = "loaded" /\ k.id = m.id
                     /\ k.word = (IF m.proof THEN "proof" ELSE "closed") /\ k.mine.token \in pending[m.id]
  <2>1. ASSUME NEW t \in pending[m.id]
        PROVE  /\ New(t) \in RingOps /\ New(t).kind = "world" /\ New(t).at = "loaded" /\ New(t).id = m.id
               /\ New(t).word = (IF m.proof THEN "proof" ELSE "closed") /\ New(t).mine.token = t
    <3>1. t \in AnyTokens BY <1>0 DEF FlowTypes
    <3>2. [kr EXCEPT !.token = t] \in Rings /\ [kr EXCEPT !.token = t].token = t BY <1>0, <3>1 DEF Rings
    <3> HIDE DEF new
    <3> QED BY <1>0, <3>1, <3>2 DEF RingOps, RingPlaces, AnyTokens
  <2> HIDE DEF New
  <2> QED BY <2>1
<1>3. \A k, l \in new : k = l BY <1>0 DEF TabOK
<1>4. pending[m.id] # {} => new # {} OBVIOUS
<1>5. ops' = ops \cup new OBVIOUS
<1> HIDE DEF new
<1>6. RingTypes' BY <1>0 DEF RingTypes
<1>7. \A p \in ops : p.id = m.id => /\ p.kind = "world" /\ p.at \notin {"waiting", "challenged"}
                                    /\ m.proof => ~Carries(p)
  BY <1>0, <1>1 DEF OpOK
<1>8. \A k \in new : Carries(k) <=> m.proof BY <1>2 DEF Carries
<1>9. FlowInv'
  <2>1. FlowTypes' BY <1>0, <1>2, <1>5 DEF FlowTypes
  <2>2. ASSUME NEW q \in ops' PROVE OpOK(q)'
    <3>1. CASE q \in new
      <4>1. m.proof => ProofOf(q.id) \notin letters' BY <1>1, <1>2, <3>1
      <4> QED BY <1>1, <1>2, <1>8, <3>1, <4>1 DEF OpOK, Carries
    <3>2. CASE q \in ops BY <1>0, <3>2 DEF OpOK
    <3> QED BY <1>5, <3>1, <3>2
  <2>3. ASSUME NEW q \in ops', NEW p \in ops' PROVE PairOK(q, p)'
    <3>1. CASE q \in ops /\ p \in ops BY <1>0, <3>1 DEF FlowInv, PairOK
    <3>2. CASE q \in new /\ p \in new
      <4>1. q = p BY <1>3, <3>2
      <4> QED BY <4>1 DEF PairOK
    <3>3. CASE q \in new /\ p \in ops BY <1>2, <1>7, <1>8, <3>3 DEF PairOK
    <3>4. CASE q \in ops /\ p \in new BY <1>2, <1>7, <1>8, <3>4 DEF PairOK
    <3> QED BY <1>5, <3>1, <3>2, <3>3, <3>4
  <2>4. ASSUME NEW id \in RingIds PROVE TabOK(id)'
    <3>0. TabOK(id) BY <1>0 DEF FlowInv
    <3> QED BY <3>0, <1>5 DEF TabOK
  <2>5. ProofReachesGate'
    <3> SUFFICES ASSUME NEW id \in RingIds
                 PROVE  /\ proofs'[id] <= 1
                        /\ tab'[id] = "sent" /\ id \notin broken' =>
                             \/ proofs'[id] = 1
                             \/ ProofOf(id) \in letters'
                             \/ \E p \in ops' : p.id = id /\ p.at \in {"loaded", "proving"}
      BY DEF ProofReachesGate, ProofOf
    <3>1. /\ proofs[id] <= 1
          /\ tab[id] = "sent" /\ id \notin broken =>
               proofs[id] = 1 \/ ProofOf(id) \in letters \/ \E p \in ops : p.id = id /\ p.at \in {"loaded", "proving"}
      BY <1>0 DEF FlowInv, ProofReachesGate, ProofOf
    <3>2. CASE ProofOf(id) # m BY <3>1, <3>2, <1>5
    <3>3. CASE ProofOf(id) = m
      <4>1. id = m.id /\ m.proof BY <3>3 DEF ProofOf
      <4>2. tab[id] = "sent" => pending[id] # {} BY <1>0, <3>3, <4>1 DEF TabOK
      <4>3. tab[id] = "sent" => \E k \in new : TRUE BY <1>4, <4>1, <4>2
      <4> QED BY <3>1, <4>1, <4>3, <1>2, <1>5
    <3> QED BY <3>2, <3>3
  <2> QED BY <2>1, <2>2, <2>3, <2>4, <2>5 DEF FlowInv
<1>10. ASSUME ~crossed' PROVE AloneInv'
  <2>1. AloneInv BY <1>10 DEF KeyringInv
  <2>2. ASSUME NEW k \in new
        PROVE  /\ Conn(k) /\ ~Active(k) /\ pending[m.id] # {} /\ Serves(k.mine.token)
               /\ \A p \in ops : Conn(p) => p.at = "loaded" /\ p.id = m.id
    <3>1. pending[m.id] # {} /\ k.mine.token \in pending[m.id] BY <1>2
    <3>2. Serves(k.mine.token) BY <3>1, <2>1, <1>0 DEF AloneInv
    <3>3. \A p \in ops : Conn(p) => p.at = "loaded" /\ p.id = m.id BY <3>1, <2>1, <1>0, <1>7 DEF AloneInv
    <3> QED BY <3>1, <3>2, <3>3, <1>2 DEF Conn, Active
  <2>3. \A p, q \in ops' : Active(p) /\ Active(q) => p = q BY <2>1, <2>2, <1>5 DEF AloneInv
  <2>4. \A p, q \in ops' : Conn(p) /\ Conn(q) => p = q \/ (p.at = "loaded" /\ q.at = "loaded" /\ p.id = q.id)
    BY <2>1, <2>2, <1>2, <1>3, <1>5 DEF AloneInv
  <2>5. \A p \in ops', id \in RingIds : Conn(p) /\ pending'[id] # {} =>
          p.kind = "world" /\ p.id = id /\ p.at \in {"waiting", "loaded"}
    BY <2>1, <2>2, <1>0, <1>2, <1>5 DEF AloneInv
  <2>6. \A p \in new : p.at = "loaded" /\ Serves(p.mine.token) BY <2>2, <1>2
  <2>7. (\A p \in ops' : p.at # "saving") => (\A p \in ops : p.at # "saving") BY <1>5
  <2>8. (\A p \in ops' : p.at \notin {"granted", "writing"}) => \A p \in ops : p.at \notin {"granted", "writing"}
    BY <1>5
  <2> QED BY <2>1, <2>3, <2>4, <2>5, <2>6, <2>7, <2>8, <1>5 DEF AloneInv, Serves
<1> QED BY <1>6, <1>9, <1>10 DEF KeyringInv

\* The worker stops, and with it every handler.
LEMMA WorkerRestartsKeeps ==
  ASSUME KeyringInv, WorkerRestarts
  PROVE  KeyringInv'
<1> USE DEF WorkerRestarts
<1>0. RingTypes /\ FlowInv /\ FlowTypes BY DEF KeyringInv, FlowInv
<1>1. RingTypes' BY <1>0 DEF RingTypes
<1>2. FlowInv'
  <2>1. FlowTypes' BY <1>0 DEF FlowTypes
  <2>2. ASSUME NEW id \in RingIds PROVE TabOK(id)'
    <3>1. TabOK(id) BY <1>0 DEF FlowInv
    <3> QED BY <3>1 DEF TabOK
  <2>3. ProofReachesGate'
    <3> SUFFICES ASSUME NEW id \in RingIds
                 PROVE  /\ proofs'[id] <= 1
                        /\ tab'[id] = "sent" /\ id \notin broken' =>
                             \/ proofs'[id] = 1
                             \/ ProofOf(id) \in letters'
                             \/ \E p \in ops' : p.id = id /\ p.at \in {"loaded", "proving"}
      BY DEF ProofReachesGate, ProofOf
    <3>1. /\ proofs[id] <= 1
          /\ tab[id] = "sent" /\ id \notin broken =>
               proofs[id] = 1 \/ ProofOf(id) \in letters \/ \E p \in ops : p.id = id /\ p.at \in {"loaded", "proving"}
      BY <1>0 DEF FlowInv, ProofReachesGate, ProofOf
    <3>2. \A p \in ops : p.at \in {"loaded", "proving"} => p.id \in broken' BY DEF AtWidget
    <3> QED BY <3>1, <3>2
  <2> QED BY <2>1, <2>2, <2>3 DEF FlowInv
<1>3. ASSUME ~crossed' PROVE AloneInv'
  <2>1. ~crossed /\ \A p \in ops : p.at = "waiting" BY <1>3 DEF AtWidget
  <2>2. AloneInv BY <2>1 DEF KeyringInv
  <2>3. kr.pass = want /\ Serves(kr.token) BY <2>1, <2>2 DEF AloneInv
  <2> QED BY <2>2, <2>3 DEF AloneInv, Serves
<1> QED BY <1>1, <1>2, <1>3 DEF KeyringInv

\* The gate drops a session whose time is up.
LEMMA SessionExpiresKeeps ==
  ASSUME KeyringInv, SessionExpires
  PROVE  KeyringInv'
<1>0. RingTypes /\ FlowInv /\ FlowTypes BY DEF KeyringInv, FlowInv
<1>1. PICK t \in RingTokens : Live(t) /\ gateRows' = [gateRows EXCEPT ![t] = {}] /\ proven' = proven \ gateRows[t]
  BY DEF SessionExpires
<1>2. UNCHANGED <<kr, rows, ops, count, pending, waiters, letters, tab, proofs, broken, want>>
      /\ crossed' = (crossed \/ ~Calm)
  BY DEF SessionExpires
<1>3. /\ gateRows' \in [RingTokens -> SUBSET RingCreds] /\ gateRows'[t] = {}
      /\ \A u \in RingTokens : u # t => gateRows'[u] = gateRows[u]
  BY <1>0, <1>1 DEF RingTypes
<1>4. RingTypes' BY <1>0, <1>1, <1>2, <1>3 DEF RingTypes
<1>5. FlowInv'
  <2>1. FlowTypes' BY <1>0, <1>2 DEF FlowTypes
  <2>2. \A p \in ops' : OpOK(p)' BY <1>0, <1>2 DEF FlowInv, OpOK
  <2>3. \A p, q \in ops' : PairOK(p, q)' BY <1>0, <1>2 DEF FlowInv, PairOK
  <2>4. \A id \in RingIds : TabOK(id)' BY <1>0, <1>2 DEF FlowInv, TabOK
  <2>5. ProofReachesGate' BY <1>0, <1>2 DEF FlowInv, ProofReachesGate
  <2> QED BY <2>1, <2>2, <2>3, <2>4, <2>5 DEF FlowInv
<1>6. ASSUME ~crossed' PROVE AloneInv'
  <2>1. ~crossed /\ \A p \in ops : p.at = "waiting" BY <1>2, <1>6 DEF Calm, AtWidget
  <2>2. AloneInv BY <2>1 DEF KeyringInv
  <2>3. ASSUME NEW u, Serves(u) PROVE Serves(u)'
    <3>1. CASE u = t BY <1>1, <2>3, <3>1 DEF Serves
    <3>2. CASE u # t BY <1>1, <1>3, <2>3, <3>2 DEF Serves
    <3> QED BY <3>1, <3>2
  <2>4. kr.pass = want /\ Serves(kr.token) BY <2>1, <2>2 DEF AloneInv
  <2>5. Serves(kr.token)' BY <2>3, <2>4, <1>2 DEF Serves
  <2> QED BY <1>2, <2>1, <2>2, <2>3, <2>4, <2>5 DEF AloneInv, Active, Conn
<1> QED BY <1>4, <1>5, <1>6 DEF KeyringInv

\* The gate adds what was proven to the session, makes a new one, or refuses.
LEMMA GateGrantsKeeps ==
  ASSUME KeyringInv, NEW o \in ops, GateGrants(o)
  PROVE  KeyringInv'
<1> USE DEF GateGrants, End
<1>0. /\ o \in RingOps /\ OpOK(o) /\ RingTypes /\ FlowInv /\ FlowTypes /\ o.id \in RingIds
      /\ o.mine.token \in AnyTokens /\ \A p \in ops : OpOK(p) /\ p.id \in RingIds
  BY RingOpTypes DEF FlowInv, FlowTypes, RingOps
<1>1. PICK t \in RingTokens : t = IF o.mine.token \in rows THEN o.mine.token ELSE o.id + 1
  BY <1>0, KeyringAssumption DEF RingTypes, RingTokens, RingIds
<1> DEFINE r == [o EXCEPT !.at = "granted", !.answer = t]
<1>r. r \in RingOps /\ r.kind = o.kind /\ r.at = "granted" /\ r.id = o.id /\ r.answer = t
  BY <1>0, <1>1 DEF RingOps, RingPlaces, AnyTokens
<1> HIDE DEF r
<1>2. PICK k \in RingOps : k = r BY <1>r
<1>3. \/ /\ ops' = (ops \ {o}) \cup {k} /\ gateRows' = [gateRows EXCEPT ![t] = @ \cup {Cred(o.kind)}]
         /\ rows' = rows \cup {t} /\ proven' = proven \cup {Cred(o.kind)}
      \/ ops' = ops \ {o} /\ UNCHANGED <<gateRows, rows, proven>>
  BY <1>1, <1>2 DEF r
<1>4. PICK new \in SUBSET {k} : /\ ops' = (ops \ {o}) \cup new
                                /\ new = {} => UNCHANGED <<gateRows, rows, proven>>
                                /\ new # {} => /\ gateRows' = [gateRows EXCEPT ![t] = @ \cup {Cred(o.kind)}]
                                               /\ rows' = rows \cup {t} /\ proven' = proven \cup {Cred(o.kind)}
  <2>1. CASE ops' = ops \ {o} /\ UNCHANGED <<gateRows, rows, proven>>
    <3> DEFINE none == {}
    <3>1. none \in SUBSET {k} /\ ops' = (ops \ {o}) \cup none BY <2>1
    <3> QED BY <2>1, <3>1
  <2>2. CASE /\ ops' = (ops \ {o}) \cup {k} /\ gateRows' = [gateRows EXCEPT ![t] = @ \cup {Cred(o.kind)}]
             /\ rows' = rows \cup {t} /\ proven' = proven \cup {Cred(o.kind)}
    <3> DEFINE one == {k}
    <3>1. one \in SUBSET {k} /\ one # {} /\ ops' = (ops \ {o}) \cup one BY <2>2
    <3> HIDE DEF one
    <3> QED BY <2>2, <3>1
  <2> QED BY <1>3, <2>1, <2>2
<1>5. new \in SUBSET RingOps /\ \A l \in new : l = k BY <1>2, <1>4
<1>6. Cred(o.kind) \in RingCreds /\ o.kind \in {"world", "wallet"} BY <1>0 DEF Cred, RingCreds, OpOK, RingOps
<1>7. /\ gateRows' \in [RingTokens -> SUBSET RingCreds]
      /\ new # {} => gateRows'[t] = gateRows[t] \cup {Cred(o.kind)} /\ \A u \in RingTokens : u # t => gateRows'[u] = gateRows[u]
  BY <1>0, <1>1, <1>4, <1>6 DEF RingTypes
<1>8. RingTypes'
  <2>1. CASE new = {} BY <1>0, <1>4, <2>1 DEF RingTypes
  <2>2. CASE new # {} BY <1>0, <1>1, <1>4, <1>6, <1>7, <2>2 DEF RingTypes
  <2> QED BY <2>1, <2>2
<1>9. /\ proofs' \in [RingIds -> Nat]
      /\ \A id \in RingIds : proofs'[id] = IF id = o.id /\ o.kind = "world" THEN 1 ELSE proofs[id]
      /\ o.kind = "world" => /\ Carries(o) /\ tab[o.id] \in {"sent", "closed"} /\ proofs[o.id] = 0
                             /\ ProofOf(o.id) \notin letters
                             /\ \A p \in ops \ {o} : p.id = o.id => p.kind = "world" /\ ~Carries(p) /\ p.at \notin {"waiting", "challenged"}
  <2>1. o.kind = "world" => /\ Carries(o) /\ tab[o.id] \in {"sent", "closed"} /\ proofs[o.id] = 0
                            /\ ProofOf(o.id) \notin letters
    BY <1>0 DEF OpOK, Carries
  <2>2. o.kind = "world" => \A p \in ops \ {o} : p.id = o.id => p.kind = "world" /\ ~Carries(p) /\ p.at \notin {"waiting", "challenged"}
    BY <1>0, <2>1 DEF FlowInv, PairOK
  <2>3. /\ proofs' \in [RingIds -> Nat]
        /\ \A id \in RingIds : proofs'[id] = IF id = o.id /\ o.kind = "world" THEN 1 ELSE proofs[id]
    BY <1>0, <2>1 DEF FlowTypes
  <2> QED BY <2>1, <2>2, <2>3
<1>10. o.kind = "wallet" => tab[o.id] = "none" /\ \A p \in ops \ {o} : p.id # o.id
  BY <1>0 DEF OpOK, FlowInv, PairOK
<1>11. FlowInv'
  <2>1. FlowTypes' BY <1>0, <1>4, <1>5, <1>9 DEF FlowTypes
  <2>2. ASSUME NEW q \in ops' PROVE OpOK(q)'
    <3>1. CASE q \in new
      <4>1. q.kind = o.kind /\ q.at = "granted" /\ q.id = o.id BY <1>2, <1>r, <1>5, <3>1
      <4> QED BY <4>1, <1>0, <1>6 DEF OpOK, Carries
    <3>2. CASE q \in ops \ {o}
      <4>1. OpOK(q) /\ q.id \in RingIds BY <1>0, <3>2
      <4>2. Carries(q) => proofs'[q.id] = proofs[q.id] BY <1>9, <3>2, <4>1
      <4> QED BY <4>1, <4>2 DEF OpOK
    <3> QED BY <1>4, <3>1, <3>2
  <2>3. ASSUME NEW q \in ops', NEW p \in ops' PROVE PairOK(q, p)'
    <3>0. ~Carries(k) /\ k.kind = o.kind /\ k.at = "granted" /\ k.id = o.id BY <1>2, <1>r DEF Carries
    <3>1. CASE q \in ops \ {o} /\ p \in ops \ {o} BY <1>0, <3>1 DEF FlowInv, PairOK
    <3>2. CASE q \in new /\ p \in new
      <4>1. q = p BY <1>5, <3>2
      <4> QED BY <4>1 DEF PairOK
    <3>3. CASE q \in new /\ p \in ops \ {o} BY <1>5, <1>6, <1>9, <1>10, <3>0, <3>3 DEF PairOK
    <3>4. CASE q \in ops \ {o} /\ p \in new BY <1>5, <1>6, <1>9, <1>10, <3>0, <3>4 DEF PairOK
    <3> QED BY <1>4, <3>1, <3>2, <3>3, <3>4
  <2>4. ASSUME NEW id \in RingIds PROVE TabOK(id)'
    <3>0. TabOK(id) BY <1>0 DEF FlowInv
    <3>1. id \in waiters => \E p \in ops' : p.id = id /\ p.kind = "world" /\ p.at = "waiting"
      BY <3>0, <1>4 DEF TabOK
    <3>2. CASE id = o.id /\ o.kind = "world" BY <3>0, <3>1, <3>2, <1>9 DEF TabOK
    <3>3. CASE ~(id = o.id /\ o.kind = "world")
      <4>1. proofs'[id] = proofs[id] BY <1>9, <3>3
      <4> QED BY <3>0, <3>1, <4>1 DEF TabOK
    <3> QED BY <3>2, <3>3
  <2>5. ProofReachesGate'
    <3> SUFFICES ASSUME NEW id \in RingIds
                 PROVE  /\ proofs'[id] <= 1
                        /\ tab'[id] = "sent" /\ id \notin broken' =>
                             \/ proofs'[id] = 1
                             \/ ProofOf(id) \in letters'
                             \/ \E p \in ops' : p.id = id /\ p.at \in {"loaded", "proving"}
      BY DEF ProofReachesGate, ProofOf
    <3>1. /\ proofs[id] <= 1
          /\ tab[id] = "sent" /\ id \notin broken =>
               proofs[id] = 1 \/ ProofOf(id) \in letters \/ \E p \in ops : p.id = id /\ p.at \in {"loaded", "proving"}
      BY <1>0 DEF FlowInv, ProofReachesGate, ProofOf
    <3>2. CASE id = o.id /\ o.kind = "world" BY <1>9, <3>2
    <3>3. CASE id = o.id /\ o.kind = "wallet" BY <1>9, <1>10, <3>1, <3>3
    <3>4. CASE id # o.id BY <1>4, <1>9, <3>1, <3>4
    <3> QED BY <1>6, <3>2, <3>3, <3>4
  <2> QED BY <2>1, <2>2, <2>3, <2>4, <2>5 DEF FlowInv
<1>12. ASSUME ~crossed' PROVE AloneInv'
  <2>1. ~crossed /\ AloneInv BY <1>12 DEF KeyringInv
  <2>2. Active(o) /\ Conn(o) /\ \A p \in ops \ {o} : ~Active(p) /\ ~Conn(p) BY <2>1, <1>6 DEF AloneInv, Active, Conn
  <2>3. \A p \in ops \ {o} : FALSE BY <1>0, <2>2 DEF OpOK, Active, Conn, RingOps, FlowTypes
  <2>4. \A id \in RingIds : pending[id] = {} BY <2>1, <2>2 DEF AloneInv
  <2>5. kr.pass = want /\ Serves(kr.token) /\ Serves(o.mine.token)
    <3>1. \A p \in ops : p.at \notin {"granted", "writing", "saving"} BY <2>3
    <3> QED BY <3>1, <2>1 DEF AloneInv
  <2>6. CASE new = {} BY <1>4, <2>1, <2>3, <2>4, <2>5, <2>6 DEF AloneInv, Serves
  <2>7. CASE new # {}
    <3>1. Serves(t)'
      <4>1. proven # {} => o.mine.token \in RingTokens /\ proven \subseteq gateRows[o.mine.token] BY <2>5 DEF Serves
      <4>2. proven # {} => o.mine.token \in rows BY <4>1, <1>0 DEF RingTypes
      <4>3. proven \subseteq gateRows[t] BY <1>1, <4>1, <4>2
      <4> QED BY <4>3, <1>1, <1>4, <1>7, <2>7 DEF Serves
    <3>2. ops' = {k} BY <1>4, <2>3, <2>7
    <3>3. Conn(k) /\ Active(k) BY <1>2, <1>r, <1>6 DEF Conn, Active
    <3> QED BY <1>1, <1>2, <1>r, <2>4, <2>5, <3>1, <3>2, <3>3 DEF AloneInv, Serves
  <2> QED BY <2>6, <2>7
<1> QED BY <1>8, <1>11, <1>12 DEF KeyringInv

LEMMA KeyringKeeps ==
  ASSUME KeyringInv, KeyringNext
  PROVE  KeyringInv'
BY HandlersBegin, SavePassKeeps, ViewAsksKeeps, ViewSavesKeeps, GateForgetsKeeps, ForgetSavesKeeps,
   OpenTabKeeps, FinishLoadedKeeps, WalletSignsKeeps, GateGrantsKeeps, GrantReadsKeeps, GrantWritesKeeps,
   MessageToWaiterKeeps, MessageAfterRestartKeeps, WidgetKeeps, WorkerRestartsKeeps, SessionExpiresKeeps
   DEF KeyringNext

LEMMA KeyringIsKept == KeyringInv => KeyringKept /\ ProofReachesGate
BY DEF KeyringInv, FlowInv, AloneInv, KeyringKept, Kept, Calm, AtWidget, Serves, RingTokens, NoRingToken

-----------------------------------------------------------------------------
(***************************************************************************)
(* Memberships and bans.                                                   *)
(***************************************************************************)

Memberships == [Joinable -> [key : Int, id : BOOLEAN]]
Joins == [n : Int, by : {"card", "scan"}, space : Joinable, read : Memberships,
          key : Int, at : {"key", "release", "read", "write"}]
Admitted(m) == \A s \in Joinable : m[s].id => boundKey[s] # NoKey

\* What an admission has read of the memberships was true, and what it is going
\* to write is; a space is never unbound.
JoinIsSound(j) ==
  /\ j \in Joins /\ Admitted(j.read)
  /\ j.at = "release" => j.key # NoKey
  /\ j.at \in {"read", "write"} => boundKey[j.space] # NoKey

JoinInv ==
  /\ memberOf \in Memberships /\ keysMade \in Nat /\ joinCount \in Int
  /\ boundKey \in [Joinable -> Int]
  /\ KnownIsAdmitted
  /\ \A j \in joins : JoinIsSound(j)

\* A ban adds to the list that it has seen.
BanInv ==
  /\ BansAddUp
  /\ \A b \in bans : b.new = b.seen \cup {b.member}

SpacesInv == JoinInv /\ BanInv

LEMMA SpacesStart == SpacesInit => SpacesInv
<1> SUFFICES ASSUME SpacesInit PROVE SpacesInv OBVIOUS
<1>1. memberOf \in Memberships /\ \A s \in Joinable : ~memberOf[s].id
  BY DEF SpacesInit, Memberships, NotAMember, NoKey
<1>2. JoinInv BY <1>1 DEF SpacesInit, JoinInv, KnownIsAdmitted, NoKey
<1> QED BY <1>2 DEF SpacesInit, SpacesInv, BanInv, BansAddUp

LEMMA SpacesStay ==
  ASSUME SpacesInv, UNCHANGED spacesVars
  PROVE  SpacesInv'
BY DEF spacesVars, SpacesInv, JoinInv, BanInv, KnownIsAdmitted, JoinIsSound, Admitted, BansAddUp

\* An admission that goes on from what is known of it.
LEMMA JoinGoesOn ==
  ASSUME JoinInv, NEW next, NEW j, joins' \subseteq joins \cup next, next \in {{}, {j}},
         next = {j} => j \in Joins /\ Admitted(j.read) /\ (j.at = "release" => j.key # NoKey)
                       /\ (j.at \in {"read", "write"} => boundKey'[j.space] # NoKey),
         memberOf' \in Memberships, keysMade' \in Nat, joinCount' \in Int,
         \A s \in Joinable : memberOf'[s].id => boundKey[s] # NoKey,
         boundKey' \in [Joinable -> Int], \A s \in Joinable : boundKey[s] # NoKey => boundKey'[s] # NoKey
  PROVE  JoinInv'
<1>1. ASSUME NEW k \in joins PROVE JoinIsSound(k)'
  <2>1. k.space \in Joinable BY <1>1 DEF JoinInv, JoinIsSound, Joins
  <2> QED BY <1>1, <2>1 DEF JoinInv, JoinIsSound, Admitted
<1>2. ASSUME NEW k \in next PROVE JoinIsSound(k)' BY <1>2 DEF JoinIsSound, Admitted
<1>3. \A k \in joins' : JoinIsSound(k)' BY <1>1, <1>2
<1> QED BY <1>3 DEF JoinInv, KnownIsAdmitted

LEMMA JoinKeeps ==
  ASSUME JoinInv, JoinNext
  PROVE  JoinInv'
<1>0. /\ memberOf \in Memberships /\ keysMade \in Nat /\ boundKey \in [Joinable -> Int]
      /\ joinCount \in Int
      /\ Admitted(memberOf) /\ \A j \in joins : JoinIsSound(j)
  BY DEF JoinInv, KnownIsAdmitted, Admitted
<1>1. ASSUME NEW by \in {"card", "scan"}, StartJoin(by) PROVE JoinInv'
  <2>1. PICK s \in Joinable :
          joins' = joins \cup {[n |-> joinCount', by |-> by, space |-> s, read |-> memberOf,
                                key |-> IF by = "scan" THEN RingKey ELSE NoKey,
                                at |-> IF by = "scan" THEN "release" ELSE "key"]}
    BY <1>1 DEF StartJoin
  <2> DEFINE k == [n |-> joinCount', by |-> by, space |-> s, read |-> memberOf,
                   key |-> IF by = "scan" THEN RingKey ELSE NoKey,
                   at |-> IF by = "scan" THEN "release" ELSE "key"]
  <2>2. UNCHANGED <<memberOf, boundKey, keysMade>> /\ joinCount' \in Int BY <1>0, <1>1 DEF StartJoin
  <2>3. k \in Joins /\ k.read = memberOf /\ k.at \in {"release", "key"} /\ (k.at = "release" => k.key # NoKey)
    BY <1>0, <2>2 DEF RingKey, NoKey, Joins
  <2>4. joins' = joins \cup {k} BY <2>1
  <2> HIDE DEF k
  <2> QED BY <1>0, <2>2, <2>3, <2>4, JoinGoesOn DEF Admitted
<1>2. ASSUME NEW j \in joins, MemberKey(j) PROVE JoinInv'
  <2>0. JoinIsSound(j) /\ boundKey' = boundKey /\ joinCount' = joinCount BY <1>0, <1>2 DEF MemberKey
  <2>1. j.space \in Joinable /\ j.read \in Memberships BY <2>0 DEF JoinIsSound, Joins
  <2> DEFINE stored == j.read[j.space].key
             key == IF stored # NoKey THEN stored ELSE keysMade'
  <2>2. /\ key \in Int /\ key # NoKey /\ keysMade' \in Nat
        /\ joins' = (joins \ {j}) \cup {[j EXCEPT !.at = "release", !.key = key]}
        /\ memberOf' = memberOf \/ memberOf' = [j.read EXCEPT ![j.space].key = key]
    <3>0. stored \in Int BY <2>1 DEF Memberships
    <3>1. CASE stored # NoKey
      BY <1>0, <3>0, <1>2, <3>1 DEF MemberKey, Step
    <3>2. CASE stored = NoKey
      <4>1. keysMade' \in Nat /\ keysMade' # NoKey BY <1>0, <1>2, <3>2 DEF MemberKey, NoKey
      <4> QED BY <1>2, <3>2, <4>1 DEF MemberKey, Step
    <3> QED BY <3>1, <3>2
  <2> HIDE DEF key
  <2>3. memberOf' \in Memberships /\ \A s \in Joinable : memberOf'[s].id => memberOf[s].id \/ j.read[s].id
    BY <1>0, <2>1, <2>2 DEF Memberships
  <2> DEFINE k == [j EXCEPT !.at = "release", !.key = key]
  <2>4. k \in Joins /\ k.read = j.read /\ k.at = "release" /\ k.key = key
    BY <2>0, <2>2 DEF JoinIsSound, Joins
  <2>5. joins' = (joins \ {j}) \cup {k} BY <2>2
  <2> HIDE DEF k
  <2>6. \A s \in Joinable : memberOf'[s].id => boundKey[s] # NoKey
    BY <1>0, <2>0, <2>3 DEF JoinIsSound, Admitted
  <2> QED BY <1>0, <2>0, <2>2, <2>3, <2>4, <2>5, <2>6, JoinGoesOn DEF JoinIsSound
<1>3. ASSUME NEW j \in joins, GateAdmits(j) PROVE JoinInv'
  <2>0. JoinIsSound(j) /\ UNCHANGED <<memberOf, keysMade, joinCount>> /\ j.at = "release"
    BY <1>0, <1>3 DEF GateAdmits
  <2>1. j.space \in Joinable /\ j.key \in Int /\ j.key # NoKey BY <2>0 DEF JoinIsSound, Joins
  <2> DEFINE k == [j EXCEPT !.at = "read"]
  <2>2. k \in Joins /\ k.read = j.read /\ k.at = "read" /\ k.space = j.space
    BY <2>0 DEF JoinIsSound, Joins
  <2>3. \/ /\ boundKey' = [boundKey EXCEPT ![j.space] = j.key]
           /\ joins' \subseteq joins \cup {k}
        \/ joins' \subseteq joins \cup {} /\ boundKey' = boundKey
    BY <1>3 DEF GateAdmits, Step, Drop
  <2> HIDE DEF k
  <2>4. CASE boundKey' = [boundKey EXCEPT ![j.space] = j.key] /\ joins' \subseteq joins \cup {k}
    <3>1. /\ boundKey' \in [Joinable -> Int] /\ boundKey'[j.space] # NoKey
          /\ \A s \in Joinable : boundKey[s] # NoKey => boundKey'[s] # NoKey
      BY <1>0, <2>1, <2>4
    <3> QED BY <1>0, <2>0, <2>2, <2>4, <3>1, JoinGoesOn DEF JoinIsSound, Admitted
  <2>5. CASE joins' \subseteq joins \cup {} /\ boundKey' = boundKey
    BY <1>0, <2>0, <2>5, JoinGoesOn DEF Admitted
  <2> QED BY <2>3, <2>4, <2>5
<1>4. ASSUME NEW j \in joins, ReadMemberships(j) PROVE JoinInv'
  <2>0. JoinIsSound(j) /\ UNCHANGED <<memberOf, boundKey, keysMade, joinCount>> /\ j.at = "read"
    BY <1>0, <1>4 DEF ReadMemberships
  <2> DEFINE k == [j EXCEPT !.at = "write", !.read = memberOf]
  <2>1. k \in Joins /\ k.read = memberOf /\ k.at = "write" /\ k.space = j.space
    BY <1>0, <2>0 DEF JoinIsSound, Joins
  <2>2. joins' \subseteq joins \cup {k} BY <1>4 DEF ReadMemberships, Step
  <2> HIDE DEF k
  <2> QED BY <1>0, <2>0, <2>1, <2>2, JoinGoesOn DEF JoinIsSound, Admitted
<1>5. ASSUME NEW j \in joins, RememberMember(j) PROVE JoinInv'
  <2>0. JoinIsSound(j) /\ UNCHANGED <<boundKey, joinCount>> /\ j.at = "write"
        /\ joins' \subseteq joins \cup {}
    BY <1>0, <1>5 DEF RememberMember, Drop
  <2>1. j.space \in Joinable /\ j.read \in Memberships BY <2>0 DEF JoinIsSound, Joins
  <2>3. keysMade' \in Nat
    <3>1. keysMade' \in {keysMade, keysMade + 1}
      <4>1. CASE j.by = "scan" BY <1>5, <4>1 DEF RememberMember
      <4>2. CASE j.by # "scan" /\ j.read[j.space].key # NoKey BY <1>5, <4>2 DEF RememberMember
      <4>3. CASE j.by # "scan" /\ j.read[j.space].key = NoKey BY <1>5, <4>3 DEF RememberMember
      <4> QED BY <4>1, <4>2, <4>3
    <3> QED BY <1>0, <3>1
  <2>2. \/ memberOf' = [j.read EXCEPT ![j.space] = [key |-> RingKey, id |-> TRUE]]
        \/ memberOf' = [j.read EXCEPT ![j.space].id = TRUE]
        \/ memberOf' = [j.read EXCEPT ![j.space] = [key |-> keysMade', id |-> TRUE]]
    BY <1>5 DEF RememberMember
  <2>4. memberOf' \in Memberships /\ \A s \in Joinable : memberOf'[s].id => s = j.space \/ j.read[s].id
    <3> DEFINE entries == [key : Int, id : BOOLEAN]
    <3>1. j.read \in [Joinable -> entries] BY <2>1 DEF Memberships
    <3>2. PICK e : e \in entries /\ memberOf' = [j.read EXCEPT ![j.space] = e]
      <4>1. [key |-> RingKey, id |-> TRUE] \in entries /\ [key |-> keysMade', id |-> TRUE] \in entries
        BY <2>3 DEF RingKey
      <4>2. [j.read[j.space] EXCEPT !.id = TRUE] \in entries BY <2>1, <3>1
      <4>3. CASE memberOf' = [j.read EXCEPT ![j.space].id = TRUE]
        BY <4>2, <4>3
      <4> QED BY <2>2, <4>1, <4>3
    <3> HIDE DEF entries
    <3> QED BY <2>1, <3>1, <3>2 DEF Memberships, entries
  <2> QED BY <1>0, <2>0, <2>1, <2>3, <2>4, JoinGoesOn DEF JoinIsSound, Admitted
<1> QED BY <1>1, <1>2, <1>3, <1>4, <1>5 DEF JoinNext

LEMMA BanKeeps ==
  ASSUME BanInv, BanNext
  PROVE  BanInv'
<1> USE DEF BanInv, BansAddUp
<1>1. ASSUME NEW e \in Editors, StartBan(e) PROVE BanInv'
  <2>1. PICK m, base :
          bans' = bans \cup {[n |-> banCount', by |-> e, member |-> m, seen |-> base, new |-> base \cup {m}]}
    BY <1>1 DEF StartBan
  <2> QED BY <1>1, <2>1 DEF StartBan
<1>2. ASSUME NEW b \in bans, BanLands(b) PROVE BanInv'
  BY <1>2 DEF BanLands
<1>3. ASSUME GrantModerator \/ RevokeModerator PROVE BanInv'
  BY <1>3 DEF GrantModerator, RevokeModerator
<1> QED BY <1>1, <1>2, <1>3 DEF BanNext

LEMMA SpacesKeep ==
  ASSUME SpacesInv, JoinNext \/ BanNext
  PROVE  SpacesInv'
<1>1. CASE JoinNext
  <2>1. UNCHANGED banVars
    BY <1>1 DEF JoinNext, StartJoin, MemberKey, GateAdmits, ReadMemberships, RememberMember
  <2> QED BY <1>1, <2>1, JoinKeeps DEF SpacesInv, BanInv, BansAddUp, banVars
<1>2. CASE BanNext
  <2>1. UNCHANGED memberVars
    BY <1>2 DEF BanNext, StartBan, BanLands, GrantModerator, RevokeModerator
  <2>2. JoinInv'
    BY <2>1 DEF SpacesInv, JoinInv, KnownIsAdmitted, JoinIsSound, Admitted, memberVars
  <2> QED BY <1>2, <2>2, BanKeeps DEF SpacesInv
<1> QED BY <1>1, <1>2

LEMMA SpacesAreSound == SpacesInv => KnownIsAdmitted /\ BansAddUp
BY DEF SpacesInv, JoinInv, BanInv

-----------------------------------------------------------------------------
(***************************************************************************)
(* Demo passes.                                                            *)
(***************************************************************************)

Accepted == mints \cup unsent
InHour(ip, t) == {c \in Accepted : c.ip = ip /\ c.at \in t..(t + Hour - 1)}
InDay == {c \in Accepted : c.at >= day.start}

ChargeTypes ==
  /\ tick \in Nat /\ requests \in Nat
  /\ day \in [start : Nat, n : 0..PerDay]
  /\ perIp \in [Visitors -> SUBSET [ip : Visitors, at : Nat, request : Nat, to : Holders]]
  /\ Accepted \subseteq [ip : Visitors, at : Nat, request : Nat, to : Holders]
  /\ IsFiniteSet(Accepted) /\ \A ip \in Visitors : IsFiniteSet(perIp[ip])

\* What was charged was charged before, within the present day of the count or an
\* earlier one, and stands in its visitor's list as long as its hour lasts.
ChargesStand ==
  /\ day.start <= tick
  /\ \A c \in Accepted : /\ c.at <= tick /\ c.at - day.start <= Day
                         /\ tick - c.at < Hour => c \in perIp[c.ip]

\* No window of an hour holds more charges than the limit, and the charges of a
\* day are no more than its count.
WindowsHold == \A ip \in Visitors, t \in Int : Cardinality(InHour(ip, t)) <= PerIpHour
MinterInv == ChargeTypes /\ ChargesStand /\ WindowsHold /\ Cardinality(InDay) <= day.n

PassInv ==
  /\ owners \in Seq(Holders) /\ balances \in [Holders -> Int]
  /\ approvals \in Seq(Holders \cup {Zero}) /\ Len(approvals) = Len(owners)
  /\ vouched \in Seq(Holders \cup {Zero}) /\ Len(vouched) = Len(owners)
  /\ BalanceIsCount /\ ApprovalIsOwners

DemoInv == MinterInv /\ PassInv

LEMMA DemoStarts == DemoInit => DemoInv
<1> SUFFICES ASSUME DemoInit PROVE DemoInv OBVIOUS
<1> USE DemoAssumption
<1>1. Accepted = {} /\ InDay = {} /\ \A ip, t : InHour(ip, t) = {} BY DEF DemoInit, Accepted, InDay, InHour
<1>2. MinterInv
  <2>1. ChargeTypes BY <1>1, FS_EmptySet DEF DemoInit, ChargeTypes
  <2>2. ChargesStand BY <1>1 DEF DemoInit, ChargesStand
  <2>3. WindowsHold BY <1>1, FS_EmptySet DEF WindowsHold
  <2>4. Cardinality(InDay) <= day.n BY <1>1, FS_EmptySet DEF DemoInit
  <2> QED BY <2>1, <2>2, <2>3, <2>4 DEF MinterInv
<1>3. \A a : {id \in Tokens721 : owners[id] = a} = {} BY DEF DemoInit, Tokens721
<1>4. PassInv
  BY <1>3, FS_EmptySet DEF DemoInit, PassInv, BalanceIsCount, ApprovalIsOwners, Tokens721
<1> QED BY <1>2, <1>4 DEF DemoInv

LEMMA MinterStays == ASSUME MinterInv, UNCHANGED minterVars PROVE MinterInv'
BY DEF minterVars, MinterInv, ChargeTypes, ChargesStand, WindowsHold, InHour, InDay, Accepted

LEMMA PassesStay == ASSUME PassInv, UNCHANGED passVars PROVE PassInv'
BY DEF passVars, PassInv, BalanceIsCount, ApprovalIsOwners, Tokens721

LEMMA DemoStays == ASSUME DemoInv, UNCHANGED demoVars PROVE DemoInv'
BY MinterStays, PassesStay DEF demoVars, DemoInv

\* A subset of what was accepted is finite and no larger than what it is part of.
LEMMA SmallerCount ==
  ASSUME NEW S, NEW T, IsFiniteSet(T), S \subseteq T
  PROVE  IsFiniteSet(S) /\ Cardinality(S) \in Nat /\ Cardinality(T) \in Nat /\ Cardinality(S) <= Cardinality(T)
BY FS_Subset, FS_CardinalityType

LEMMA UnionBound ==
  ASSUME NEW S, NEW T, IsFiniteSet(S), IsFiniteSet(T)
  PROVE  IsFiniteSet(S \cup T) /\ Cardinality(S \cup T) <= Cardinality(S) + Cardinality(T)
<1>1. IsFiniteSet(S \cap T) BY FS_Intersection
<1>2. Cardinality(S \cap T) \in Nat /\ Cardinality(S) \in Nat /\ Cardinality(T) \in Nat BY <1>1, FS_CardinalityType
<1>3. IsFiniteSet(S \cup T) /\ Cardinality(S \cup T) = Cardinality(S) + Cardinality(T) - Cardinality(S \cap T)
  BY FS_Union
<1> QED BY <1>2, <1>3

\* A step that accepts nothing new, in the same count of a day.
LEMMA MinterForgets ==
  ASSUME MinterInv, Accepted' \subseteq Accepted, perIp' = perIp, day' = day,
         tick' \in Nat, tick' >= tick, requests' \in Nat
  PROVE  MinterInv'
<1> USE DemoAssumption
<1>1. IsFiniteSet(Accepted') BY FS_Subset DEF MinterInv, ChargeTypes
<1>2. ChargeTypes' BY <1>1 DEF MinterInv, ChargeTypes
<1>3. ChargesStand'
  <2> SUFFICES ASSUME NEW c \in Accepted'
               PROVE  c.at <= tick' /\ c.at - day'.start <= Day /\ (tick' - c.at < Hour => c \in perIp'[c.ip])
    BY DEF MinterInv, ChargesStand, ChargeTypes
  <2>1. c \in Accepted /\ c.at \in Nat /\ tick \in Nat BY DEF MinterInv, ChargeTypes
  <2> QED BY <2>1 DEF MinterInv, ChargesStand
<1>4. WindowsHold'
  <2> SUFFICES ASSUME NEW ip \in Visitors, NEW t \in Int PROVE Cardinality(InHour(ip, t)') <= PerIpHour
    BY DEF WindowsHold
  <2>1. InHour(ip, t)' \subseteq InHour(ip, t) /\ InHour(ip, t) \subseteq Accepted BY DEF InHour
  <2>2. IsFiniteSet(InHour(ip, t)) BY <2>1, SmallerCount DEF MinterInv, ChargeTypes
  <2> QED BY <2>1, <2>2, SmallerCount DEF MinterInv, WindowsHold
<1>5. Cardinality(InDay') <= day'.n
  <2>1. InDay' \subseteq InDay /\ InDay \subseteq Accepted BY DEF InDay
  <2>2. IsFiniteSet(InDay) BY <2>1, SmallerCount DEF MinterInv, ChargeTypes
  <2> QED BY <2>1, <2>2, SmallerCount DEF MinterInv, ChargeTypes
<1> QED BY <1>2, <1>3, <1>4, <1>5 DEF MinterInv

\* The charges of a request: as many as its accounts, and none made before.
LEMMA ChargesCount ==
  ASSUME NEW ip, NEW to, IsFiniteSet(to)
  PROVE  IsFiniteSet(Charges(ip, to)) /\ Cardinality(Charges(ip, to)) <= Cardinality(to)
<1> DEFINE f == [a \in to |-> [ip |-> ip, at |-> tick, request |-> requests, to |-> a]]
<1>1. f \in [to -> Charges(ip, to)] BY DEF Charges
<1>2. \A c \in Charges(ip, to) : \E a \in to : f[a] = c BY DEF Charges
<1>3. f \in Surjection(to, Charges(ip, to)) BY <1>1, <1>2 DEF Surjection
<1> HIDE DEF f
<1> QED BY <1>3, FS_Surjection

LEMMA ListIsFinite ==
  ASSUME NEW list \in BoundedSeq(Holders, PerRequest + 1)
  PROVE  ToSet(list) \subseteq Holders /\ IsFiniteSet(ToSet(list))
<1>1. PICK m \in 0..(PerRequest + 1) : list \in [1..m -> Holders] BY DEF BoundedSeq, SeqOf
<1>2. list \in Surjection(1..m, ToSet(list)) BY <1>1 DEF Surjection, ToSet
<1>3. IsFiniteSet(1..m) BY <1>1, FS_Interval
<1> QED BY <1>1, <1>2, <1>3, FS_Surjection DEF ToSet

\* The day of a request: its count covers the charges since its start.
LEMMA DayBegins ==
  ASSUME MinterInv
  PROVE  /\ Today \in [start : Nat, n : 0..PerDay] /\ Today.start <= tick /\ tick - Today.start <= Day
         /\ \A c \in Accepted : c.at - Today.start <= Day
         /\ IsFiniteSet({c \in Accepted : c.at >= Today.start})
         /\ Cardinality({c \in Accepted : c.at >= Today.start}) <= Today.n
<1> USE DemoAssumption
<1> DEFINE Since(start) == {c \in Accepted : c.at >= start}
<1>1. Today \in [start : Nat, n : 0..PerDay] /\ Today.start <= tick /\ tick - Today.start <= Day
  BY DEF MinterInv, ChargeTypes, ChargesStand, Today
<1>2. \A c \in Accepted : c.at \in Nat /\ c.at <= tick /\ c.at - day.start <= Day
  BY DEF MinterInv, ChargeTypes, ChargesStand
<1>3. IsFiniteSet(Since(Today.start)) BY FS_Subset DEF MinterInv, ChargeTypes
<1>4. CASE tick - day.start > Day
  <2>1. Today = [start |-> tick, n |-> 0] BY <1>4 DEF Today
  <2>2. \A c \in Accepted : c.at < tick BY <1>2, <1>4 DEF MinterInv, ChargeTypes
  <2>3. Since(Today.start) = {} BY <1>2, <2>1, <2>2 DEF MinterInv, ChargeTypes
  <2> HIDE DEF Since
  <2>4. Cardinality(Since(Today.start)) <= Today.n BY <2>1, <2>3, FS_EmptySet
  <2>5. \A c \in Accepted : c.at - Today.start <= Day BY <1>2, <2>1 DEF MinterInv, ChargeTypes
  <2> QED BY <1>1, <1>3, <2>4, <2>5 DEF Since
<1>5. CASE ~(tick - day.start > Day)
  <2>1. Today = day BY <1>5 DEF Today
  <2>2. Since(Today.start) = InDay BY <2>1 DEF InDay
  <2>3. Cardinality(Since(Today.start)) <= Today.n BY <2>1, <2>2 DEF MinterInv
  <2> QED BY <1>1, <1>2, <1>3, <2>1, <2>3
<1> QED BY <1>4, <1>5

\* What is charged keeps the limits: the old charges of a window that the new
\* ones fall in are all in the visitor's list.
LEMMA ChargeKeeps ==
  ASSUME MinterInv, NEW ip \in Visitors, NEW to, to \subseteq Holders, IsFiniteSet(to),
         Cardinality(HitsOf(ip)) + Cardinality(to) <= PerIpHour,
         Today.n + Cardinality(to) <= PerDay,
         Charge(ip, to), requests' = requests + 1, unsent' = unsent \cup Charges(ip, to), mints' = mints, tick' = tick
  PROVE  MinterInv'
<1> USE DemoAssumption
<1> DEFINE C == Charges(ip, to)
<1>1. /\ Accepted' = Accepted \cup C /\ IsFiniteSet(C) /\ Cardinality(C) <= Cardinality(to)
      /\ Cardinality(C) \in Nat /\ Cardinality(to) \in Nat
  BY ChargesCount, FS_CardinalityType DEF Accepted
<1>2. /\ C \subseteq [ip : Visitors, at : Nat, request : Nat, to : Holders]
      /\ \A c \in C : c.ip = ip /\ c.at = tick
  BY DEF Charges, MinterInv, ChargeTypes
<1>3. IsFiniteSet(Accepted') BY <1>1, FS_Union DEF MinterInv, ChargeTypes
<1>4. /\ perIp' = [perIp EXCEPT ![ip] = HitsOf(ip) \cup C]
      /\ IsFiniteSet(HitsOf(ip)) /\ Cardinality(HitsOf(ip)) \in Nat
      /\ HitsOf(ip) \subseteq perIp[ip] /\ IsFiniteSet(HitsOf(ip) \cup C)
  <2>1. HitsOf(ip) \subseteq perIp[ip] /\ IsFiniteSet(perIp[ip]) BY DEF HitsOf, MinterInv, ChargeTypes
  <2>2. IsFiniteSet(HitsOf(ip)) /\ Cardinality(HitsOf(ip)) \in Nat BY <2>1, FS_Subset, FS_CardinalityType
  <2>3. IsFiniteSet(HitsOf(ip) \cup C) BY <1>1, <2>2, FS_Union
  <2> QED BY <2>1, <2>2, <2>3 DEF Charge
<1>5. day' = [start |-> Today.start, n |-> Today.n + Cardinality(to)] /\ Today.start <= tick
  BY DayBegins DEF Charge
<1> HIDE DEF C
<1>6. ChargeTypes'
  <2>1. Accepted' \subseteq [ip : Visitors, at : Nat, request : Nat, to : Holders]
    BY <1>1, <1>2 DEF MinterInv, ChargeTypes
  <2>2. perIp' \in [Visitors -> SUBSET [ip : Visitors, at : Nat, request : Nat, to : Holders]]
    BY <1>2, <1>4 DEF MinterInv, ChargeTypes
  <2>3. \A v \in Visitors : IsFiniteSet(perIp'[v]) BY <1>4 DEF MinterInv, ChargeTypes
  <2>4. day' \in [start : Nat, n : 0..PerDay] BY <1>1, <1>5, DayBegins
  <2>5. tick' \in Nat /\ requests' \in Nat BY DEF MinterInv, ChargeTypes
  <2> QED BY <1>3, <2>1, <2>2, <2>3, <2>4, <2>5 DEF ChargeTypes
<1>7. ChargesStand'
  <2>1. ASSUME NEW c \in Accepted
        PROVE  c.at <= tick' /\ c.at - day'.start <= Day /\ (tick' - c.at < Hour => c \in perIp'[c.ip])
    <3>1. c.at <= tick /\ c.at - day'.start <= Day /\ c.ip \in Visitors
      BY <1>5, DayBegins DEF MinterInv, ChargeTypes, ChargesStand
    <3>2. tick - c.at < Hour => c \in perIp[c.ip] BY DEF MinterInv, ChargesStand
    <3>3. tick - c.at < Hour => c \in perIp'[c.ip]
      BY <1>4, <3>1, <3>2 DEF MinterInv, ChargeTypes, HitsOf
    <3> QED BY <3>1, <3>3
  <2>2. ASSUME NEW c \in C
        PROVE  c.at <= tick' /\ c.at - day'.start <= Day /\ (tick' - c.at < Hour => c \in perIp'[c.ip])
    <3>1. c.at = tick /\ c.ip = ip /\ tick \in Nat BY <1>2 DEF MinterInv, ChargeTypes
    <3>2. tick - day'.start <= Day BY <1>5, DayBegins
    <3>3. c \in perIp'[c.ip] BY <1>4, <3>1 DEF MinterInv, ChargeTypes
    <3> QED BY <3>1, <3>2, <3>3
  <2>3. day'.start <= tick' BY <1>5
  <2> QED BY <1>1, <2>1, <2>2, <2>3 DEF ChargesStand
<1>8. WindowsHold'
  <2> SUFFICES ASSUME NEW v \in Visitors, NEW t \in Int PROVE Cardinality(InHour(v, t)') <= PerIpHour
    BY DEF WindowsHold
  <2>1. /\ InHour(v, t)' \subseteq InHour(v, t) \cup C
        /\ InHour(v, t) \subseteq Accepted /\ IsFiniteSet(InHour(v, t))
    <3>1. InHour(v, t)' \subseteq InHour(v, t) \cup C BY <1>1 DEF InHour
    <3>2. InHour(v, t) \subseteq Accepted BY DEF InHour
    <3> QED BY <3>1, <3>2, SmallerCount DEF MinterInv, ChargeTypes
  <2>2. CASE v = ip /\ tick \in t..(t + Hour - 1)
    <3>1. InHour(v, t) \subseteq HitsOf(ip)
      <4> SUFFICES ASSUME NEW c \in InHour(v, t) PROVE c \in HitsOf(ip) OBVIOUS
      <4>1. c \in Accepted /\ c.ip = ip /\ c.at \in t..(t + Hour - 1) /\ c.at \in Nat /\ tick \in Nat
        BY <2>2 DEF InHour, MinterInv, ChargeTypes
      <4>2. tick - c.at < Hour BY <2>2, <4>1
      <4> QED BY <4>1, <4>2 DEF MinterInv, ChargesStand, HitsOf
    <3>2. InHour(v, t)' \subseteq HitsOf(ip) \cup C BY <2>1, <3>1
    <3>3. Cardinality(InHour(v, t)') <= Cardinality(HitsOf(ip) \cup C) /\ Cardinality(InHour(v, t)') \in Nat
          /\ Cardinality(HitsOf(ip) \cup C) \in Nat
      BY <1>4, <3>2, SmallerCount
    <3>4. Cardinality(HitsOf(ip) \cup C) <= Cardinality(HitsOf(ip)) + Cardinality(C)
      BY <1>1, <1>4, UnionBound
    <3> QED BY <1>1, <1>4, <3>3, <3>4
  <2>3. CASE ~(v = ip /\ tick \in t..(t + Hour - 1))
    <3>1. InHour(v, t)' \subseteq InHour(v, t)
      BY <1>1, <1>2, <2>3 DEF InHour
    <3> QED BY <2>1, <3>1, SmallerCount DEF MinterInv, WindowsHold
  <2> QED BY <2>2, <2>3
<1>9. Cardinality(InDay') <= day'.n
  <2> DEFINE S == {c \in Accepted : c.at >= Today.start}
  <2>1. IsFiniteSet(S) /\ Cardinality(S) <= Today.n /\ Today.n \in Nat BY DayBegins
  <2>2. InDay' \subseteq S \cup C BY <1>1, <1>5 DEF InDay
  <2> HIDE DEF S
  <2>3. IsFiniteSet(S \cup C) /\ Cardinality(S \cup C) <= Cardinality(S) + Cardinality(C) /\ Cardinality(S) \in Nat
    BY <1>1, <2>1, UnionBound, FS_CardinalityType
  <2> QED BY <1>1, <1>5, <2>1, <2>2, <2>3, SmallerCount
<1> QED BY <1>6, <1>7, <1>8, <1>9 DEF MinterInv

\* A new day begins although the request is refused.
LEMMA RefusalKeeps ==
  ASSUME MinterInv, day' = Today, UNCHANGED <<perIp, unsent, requests, mints, tick>>
  PROVE  MinterInv'
<1>1. Accepted' = Accepted BY DEF Accepted
<1>2. ChargeTypes' BY <1>1, DayBegins DEF MinterInv, ChargeTypes
<1>3. ChargesStand' BY <1>1, DayBegins DEF MinterInv, ChargesStand
<1>4. WindowsHold' BY <1>1 DEF MinterInv, WindowsHold, InHour
<1>5. Cardinality(InDay') <= day'.n BY <1>1, DayBegins DEF InDay
<1> QED BY <1>2, <1>3, <1>4, <1>5 DEF MinterInv

LEMMA RestartKeeps == ASSUME MinterInv, RelayerRestarts PROVE MinterInv'
<1> USE DemoAssumption
<1>1. Accepted' = {} BY DEF RelayerRestarts, Accepted
<1>2. InDay' = {} /\ \A ip, t : InHour(ip, t)' = {} BY <1>1 DEF InDay, InHour
<1>3. ChargeTypes' BY <1>1, FS_EmptySet DEF RelayerRestarts, MinterInv, ChargeTypes
<1>4. ChargesStand' BY <1>1 DEF RelayerRestarts, ChargesStand, MinterInv, ChargeTypes
<1>5. WindowsHold' BY <1>2, FS_EmptySet DEF WindowsHold
<1>6. Cardinality(InDay') <= day'.n BY <1>2, FS_EmptySet DEF RelayerRestarts
<1> QED BY <1>3, <1>4, <1>5, <1>6 DEF MinterInv

LEMMA SmallBoundsHold == MinterInv => HourHolds /\ DayHolds
<1> SUFFICES ASSUME MinterInv PROVE HourHolds /\ DayHolds OBVIOUS
<1> USE DemoAssumption
<1>1. ASSUME NEW ip \in Visitors, NEW t \in 0..MaxTick
      PROVE  Cardinality({c \in mints : c.ip = ip /\ c.at \in t..(t + Hour - 1)}) <= PerIpHour
  <2> DEFINE M == {c \in mints : c.ip = ip /\ c.at \in t..(t + Hour - 1)}
  <2>1. M \subseteq InHour(ip, t) /\ InHour(ip, t) \subseteq Accepted BY DEF InHour, Accepted
  <2>2. IsFiniteSet(InHour(ip, t)) BY <2>1, SmallerCount DEF MinterInv, ChargeTypes
  <2>3. Cardinality(InHour(ip, t)) <= PerIpHour BY DEF MinterInv, WindowsHold
  <2> HIDE DEF M
  <2>4. Cardinality(M) <= PerIpHour BY <2>1, <2>2, <2>3, SmallerCount
  <2> QED BY <2>4 DEF M
<1>2. Cardinality({c \in mints : c.at >= day.start}) <= PerDay
  <2> DEFINE M == {c \in mints : c.at >= day.start}
  <2>1. M \subseteq InDay /\ InDay \subseteq Accepted BY DEF InDay, Accepted
  <2>2. IsFiniteSet(InDay) BY <2>1, SmallerCount DEF MinterInv, ChargeTypes
  <2> HIDE DEF M
  <2>3. Cardinality(M) <= PerDay BY <2>1, <2>2, SmallerCount DEF MinterInv, ChargeTypes
  <2> QED BY <2>3 DEF M
<1> QED BY <1>1, <1>2 DEF HourHolds, DayHolds

-----------------------------------------------------------------------------
\* A sequence that a token is appended to.
LEMMA MintKeeps == ASSUME PassInv, NEW to \in Holders, Minted(to) PROVE PassInv'
<1>1. /\ owners \in Seq(Holders) /\ owners' = Append(owners, to)
      /\ approvals' = Append(approvals, Zero) /\ vouched' = Append(vouched, Zero)
      /\ balances' = [balances EXCEPT ![to] = @ + 1] BY DEF Minted, PassInv
<1>2. /\ owners' \in Seq(Holders) /\ Len(owners') = Len(owners) + 1
      /\ owners'[Len(owners) + 1] = to /\ \A n \in 1..Len(owners) : owners'[n] = owners[n]
  BY <1>1
<1>3. /\ approvals' \in Seq(Holders \cup {Zero}) /\ Len(approvals') = Len(owners')
      /\ approvals'[Len(owners) + 1] = Zero /\ \A n \in 1..Len(owners) : approvals'[n] = approvals[n]
  BY <1>1 DEF PassInv
<1>4. /\ vouched' \in Seq(Holders \cup {Zero}) /\ Len(vouched') = Len(owners')
      /\ \A n \in 1..Len(owners) : vouched'[n] = vouched[n]
  BY <1>1 DEF PassInv
<1>5. Len(owners) \in Nat /\ Tokens721 = 1..Len(owners) /\ Tokens721' = 1..(Len(owners) + 1)
  BY <1>1, <1>2 DEF Tokens721
<1>6. ASSUME NEW a \in Holders PROVE balances'[a] = Cardinality({id \in Tokens721 : owners[id] = a}')
  <2> DEFINE T == {id \in Tokens721 : owners[id] = a}
             N == Len(owners) + 1
  <2>1. IsFiniteSet(T) /\ Cardinality(T) \in Nat /\ N \notin T
    <3>1. T \subseteq 1..Len(owners) /\ IsFiniteSet(1..Len(owners)) BY <1>5, FS_Interval
    <3> QED BY <1>5, <3>1, SmallerCount
  <2>2. balances[a] = Cardinality(T) BY DEF PassInv, BalanceIsCount
  <2>3. CASE a = to
    <3>1. {id \in Tokens721 : owners[id] = a}' = T \cup {N} BY <1>2, <1>5, <2>3
    <3>2. Cardinality(T \cup {N}) = Cardinality(T) + 1 BY <2>1, FS_AddElement
    <3> QED BY <1>1, <2>2, <2>3, <3>1, <3>2 DEF PassInv
  <2>4. CASE a # to
    <3>1. {id \in Tokens721 : owners[id] = a}' = T BY <1>2, <1>5, <2>4
    <3> QED BY <1>1, <2>2, <2>4, <3>1 DEF PassInv
  <2> QED BY <2>3, <2>4
<1>7. ApprovalIsOwners'
  <2> SUFFICES ASSUME NEW id \in 1..(Len(owners) + 1), approvals'[id] # Zero PROVE vouched'[id] = owners'[id]
    BY <1>5 DEF ApprovalIsOwners
  <2>1. id \in 1..Len(owners) BY <1>3, <1>5
  <2> QED BY <1>2, <1>3, <1>4, <1>5, <2>1 DEF PassInv, ApprovalIsOwners
<1>8. balances' \in [Holders -> Int] BY <1>1 DEF PassInv
<1> QED BY <1>2, <1>3, <1>4, <1>6, <1>7, <1>8 DEF PassInv, BalanceIsCount

LEMMA TransferKeeps ==
  ASSUME PassInv, NEW by \in Holders, NEW from \in Holders, NEW to \in Holders, NEW id \in Tokens721,
         TransferFrom(by, from, to, id)
  PROVE  PassInv'
<1>1. /\ owners \in Seq(Holders) /\ Len(owners) \in Nat /\ id \in 1..Len(owners) /\ owners[id] = from
      /\ approvals \in Seq(Holders \cup {Zero}) /\ Len(approvals) = Len(owners)
      /\ vouched \in Seq(Holders \cup {Zero}) /\ Len(vouched) = Len(owners)
      /\ owners' = [owners EXCEPT ![id] = to]
      /\ balances' = [[balances EXCEPT ![from] = @ - 1] EXCEPT ![to] = @ + 1]
      /\ approvals' = [approvals EXCEPT ![id] = Zero] /\ vouched' = [vouched EXCEPT ![id] = Zero]
  BY DEF TransferFrom, Moves, PassInv, Tokens721
<1>2. /\ owners' \in Seq(Holders) /\ Len(owners') = Len(owners) /\ owners'[id] = to
      /\ \A n \in 1..Len(owners) : n # id => owners'[n] = owners[n] BY <1>1
<1>3. /\ approvals' \in Seq(Holders \cup {Zero}) /\ Len(approvals') = Len(owners')
      /\ approvals'[id] = Zero /\ \A n \in 1..Len(owners) : n # id => approvals'[n] = approvals[n]
  BY <1>1, <1>2
<1>4. /\ vouched' \in Seq(Holders \cup {Zero}) /\ Len(vouched') = Len(owners')
      /\ \A n \in 1..Len(owners) : n # id => vouched'[n] = vouched[n]
  BY <1>1, <1>2
<1>5. Tokens721 = 1..Len(owners) /\ Tokens721' = 1..Len(owners) BY <1>1, <1>2 DEF Tokens721
<1>6. ASSUME NEW a \in Holders PROVE balances'[a] = Cardinality({n \in Tokens721 : owners[n] = a}')
  <2> DEFINE T == {n \in Tokens721 : owners[n] = a}
  <2>1. IsFiniteSet(T) /\ Cardinality(T) \in Nat
    <3>1. T \subseteq 1..Len(owners) /\ IsFiniteSet(1..Len(owners)) BY <1>1, <1>5, FS_Interval
    <3> QED BY <3>1, SmallerCount
  <2>2. balances[a] = Cardinality(T) /\ balances \in [Holders -> Int] BY DEF PassInv, BalanceIsCount
  <2>3. CASE a = to /\ a = from
    <3>1. {n \in Tokens721 : owners[n] = a}' = T BY <1>1, <1>2, <1>5, <2>3
    <3>2. balances'[a] = balances[a] BY <1>1, <2>2, <2>3
    <3> QED BY <2>2, <3>1, <3>2
  <2>4. CASE a = to /\ a # from
    <3>1. {n \in Tokens721 : owners[n] = a}' = T \cup {id} /\ id \notin T BY <1>1, <1>2, <1>5, <2>4
    <3>2. Cardinality(T \cup {id}) = Cardinality(T) + 1 BY <2>1, <3>1, FS_AddElement
    <3>3. balances'[a] = balances[a] + 1 BY <1>1, <2>2, <2>4
    <3> QED BY <2>2, <3>1, <3>2, <3>3
  <2>5. CASE a # to /\ a = from
    <3>1. {n \in Tokens721 : owners[n] = a}' = T \ {id} /\ id \in T BY <1>1, <1>2, <1>5, <2>5
    <3>2. Cardinality(T \ {id}) = Cardinality(T) - 1 BY <2>1, <3>1, FS_RemoveElement
    <3>3. balances'[a] = balances[a] - 1 BY <1>1, <2>2, <2>5
    <3> QED BY <2>2, <3>1, <3>2, <3>3
  <2>6. CASE a # to /\ a # from
    <3>1. {n \in Tokens721 : owners[n] = a}' = T BY <1>1, <1>2, <1>5, <2>6
    <3>2. balances'[a] = balances[a] BY <1>1, <2>2, <2>6
    <3> QED BY <2>2, <3>1, <3>2
  <2> QED BY <2>3, <2>4, <2>5, <2>6
<1>7. ApprovalIsOwners'
  <2> SUFFICES ASSUME NEW n \in 1..Len(owners), approvals'[n] # Zero PROVE vouched'[n] = owners'[n]
    BY <1>5 DEF ApprovalIsOwners
  <2>1. n # id BY <1>3
  <2> QED BY <1>2, <1>3, <1>4, <1>5, <2>1 DEF PassInv, ApprovalIsOwners
<1>8. balances' \in [Holders -> Int] BY <1>1 DEF PassInv
<1> QED BY <1>2, <1>3, <1>4, <1>6, <1>7, <1>8 DEF PassInv, BalanceIsCount

LEMMA PassKeeps == ASSUME PassInv, PassNext PROVE PassInv'
<1>1. ASSUME NEW a \in Holders, Minted(a) PROVE PassInv' BY <1>1, MintKeeps
<1>2. ASSUME NEW a \in Holders, NEW b \in Holders, NEW yes \in BOOLEAN, SetApprovalForAll(a, b, yes) PROVE PassInv'
  BY <1>2 DEF SetApprovalForAll, PassInv, BalanceIsCount, ApprovalIsOwners, Tokens721
<1>3. ASSUME NEW id \in Tokens721, NEW a \in Holders, NEW b \in Holders \cup {Zero}, Approve(a, b, id) PROVE PassInv'
  <2>1. /\ id \in 1..Len(owners) /\ owners \in Seq(Holders) /\ owners[id] \in Holders
        /\ approvals \in Seq(Holders \cup {Zero}) /\ Len(approvals) = Len(owners)
        /\ vouched \in Seq(Holders \cup {Zero}) /\ Len(vouched) = Len(owners)
        /\ approvals' = [approvals EXCEPT ![id] = b] /\ vouched' = [vouched EXCEPT ![id] = owners[id]]
        /\ UNCHANGED <<owners, balances>>
    BY <1>3 DEF Approve, PassInv, Tokens721
  <2>2. ApprovalIsOwners'
    <3> SUFFICES ASSUME NEW n \in 1..Len(owners), approvals'[n] # Zero PROVE vouched'[n] = owners[n]
      BY <2>1 DEF ApprovalIsOwners, Tokens721
    <3>1. n # id => approvals[n] # Zero /\ vouched'[n] = vouched[n] BY <2>1
    <3>2. n = id => vouched'[n] = owners[n] BY <2>1
    <3> QED BY <2>1, <3>1, <3>2 DEF PassInv, ApprovalIsOwners, Tokens721
  <2>3. BalanceIsCount' BY <2>1 DEF PassInv, BalanceIsCount, Tokens721
  <2>4. approvals' \in Seq(Holders \cup {Zero}) /\ Len(approvals') = Len(owners') BY <2>1
  <2>5. vouched' \in Seq(Holders \cup {Zero}) /\ Len(vouched') = Len(owners') BY <2>1
  <2> QED BY <2>1, <2>2, <2>3, <2>4, <2>5 DEF PassInv
<1>4. ASSUME NEW id \in Tokens721, NEW a \in Holders, NEW b \in Holders, NEW c \in Holders, TransferFrom(a, b, c, id)
      PROVE  PassInv'
  BY <1>4, TransferKeeps
<1> QED BY <1>1, <1>2, <1>3, <1>4 DEF PassNext

LEMMA MinterKeeps == ASSUME DemoInv, MinterNext PROVE DemoInv'
<1>1. ASSUME NEW ip \in Visitors, NEW list \in BoundedSeq(Holders, PerRequest + 1), Request(ip, list) PROVE DemoInv'
  <2> DEFINE to == ToSet(list)
  <2>1. to \subseteq Holders /\ IsFiniteSet(to) /\ Cardinality(to) \in Nat BY ListIsFinite, FS_CardinalityType
  <2>2. Cardinality(HitsOf(ip)) \in Nat
    BY <1>1, SmallerCount DEF DemoInv, MinterInv, ChargeTypes, HitsOf
  <2>3. Today.n \in Nat BY DayBegins DEF DemoInv
  <2>4. CASE Cardinality(HitsOf(ip)) + Cardinality(to) > PerIpHour \/ Today.n + Cardinality(to) > PerDay
    BY <1>1, <2>4, RefusalKeeps, PassesStay DEF Request, DemoInv
  <2>5. CASE ~(Cardinality(HitsOf(ip)) + Cardinality(to) > PerIpHour \/ Today.n + Cardinality(to) > PerDay)
    <3>1. Cardinality(HitsOf(ip)) + Cardinality(to) <= PerIpHour /\ Today.n + Cardinality(to) <= PerDay
      BY <2>1, <2>2, <2>3, <2>5, DemoAssumption
    <3>2. /\ Charge(ip, to) /\ requests' = requests + 1 /\ unsent' = unsent \cup Charges(ip, to)
          /\ mints' = mints /\ tick' = tick /\ UNCHANGED passVars
      BY <1>1, <2>5 DEF Request
    <3> HIDE DEF to
    <3> QED BY <2>1, <3>1, <3>2, ChargeKeeps, PassesStay DEF DemoInv
  <2> QED BY <2>4, <2>5
<1>2. ASSUME NEW c \in unsent, MintOne(c) PROVE DemoInv'
  <2>1. Accepted' \subseteq Accepted BY <1>2 DEF MintOne, Accepted
  <2>2. MinterInv' BY <1>2, <2>1, MinterForgets DEF MintOne, DemoInv, MinterInv, ChargeTypes
  <2>3. c.to \in Holders BY <1>2 DEF DemoInv, MinterInv, ChargeTypes, Accepted
  <2> QED BY <1>2, <2>2, <2>3, MintKeeps, PassesStay DEF MintOne, DemoInv
<1>3. ASSUME RelayerRestarts PROVE DemoInv' BY <1>3, RestartKeeps, PassesStay DEF RelayerRestarts, DemoInv
<1>4. ASSUME TickPasses PROVE DemoInv'
  <2>1. Accepted' = Accepted BY <1>4 DEF TickPasses, Accepted
  <2>2. MinterInv' BY <1>4, <2>1, MinterForgets DEF TickPasses, DemoInv, MinterInv, ChargeTypes
  <2> QED BY <1>4, <2>2, PassesStay DEF TickPasses, DemoInv
<1> QED BY <1>1, <1>2, <1>3, <1>4 DEF MinterNext

LEMMA DemoKeeps == ASSUME DemoInv, MinterNext \/ PassNext PROVE DemoInv'
<1>1. CASE MinterNext BY <1>1, MinterKeeps
<1>2. CASE PassNext BY <1>2, PassKeeps, MinterStays DEF PassNext, DemoInv
<1> QED BY <1>1, <1>2

LEMMA DemoIsSound == DemoInv => HourHolds /\ DayHolds /\ BalanceIsCount /\ ApprovalIsOwners
BY SmallBoundsHold DEF DemoInv, PassInv

-----------------------------------------------------------------------------
(***************************************************************************)
(* The card.                                                               *)
(***************************************************************************)

\* World ID is asked for by one check of the policy.
OneHumanCheck ==
  \A p \in CardPolicies : \A i, j \in DOMAIN p.checks : p.checks[i] = "human" /\ p.checks[j] = "human" => i = j

CardTries == [n : Nat, by : {"pass", "human", "nft"}, at : {"leaf", "trying", "releasing", "waiting"},
              leaf : Nat, got : SUBSET Nat, id : Nat]
CardStates == [policy : CardPolicies, stage : {"loading", "failed", "locked", "open", "closed"}]
WidgetTypes == [state : {"none", "open", "sent", "closed"}, verdict : {"none", "yes", "no"}]

\* Two attempts wait at two tabs; a tab's last word is on its way until it is heard.
WaitInv ==
  /\ tries \subseteq CardTries /\ widget \in [Widgets -> WidgetTypes]
  /\ card \in CardStates /\ begun \in Nat
  /\ \A a \in tries : a.leaf \in DOMAIN Checks
  /\ \A a \in tries : a.at = "waiting" => a.id \in Opened /\ Checks[a.leaf] = "human"
  /\ \A a, b \in tries : a.at = "waiting" /\ b.at = "waiting" /\ a.id = b.id => a = b
  /\ NoOrphanWait

\* An attempt of a click on Verify that has not opened its tab yet.
AtHuman(a) == a.at = "releasing" /\ Checks[a.leaf] = "human"
WorldAhead(a) ==
  /\ a.by = "human" /\ a.at \in {"leaf", "releasing"} /\ ~AtHuman(a)
  /\ \A i \in DOMAIN Checks : Checks[i] = "human" => i >= a.leaf
TabsDue == IF \E a \in tries : WorldAhead(a) THEN 1 ELSE 0

\* With one attempt at a time: the tab that hears the next verdict is the one
\* whose proof is at the gate, and a click that has not opened its tab yet is
\* one more than the tabs.
SoleInv ==
  /\ card.stage \in {"loading", "failed", "closed"} => tries = {}
  /\ \A a, b \in tries : a = b
  /\ worldTab # 0 => \E a \in tries : AtHuman(a) /\ a.id = worldTab
  /\ \A w \in Widgets : widget[w].verdict = "yes" => w \in given
  /\ "human" \in wants => card.stage = "closed" \/ \E a \in tries : a.by = "human"
  /\ clicked \in Nat /\ Cardinality(Opened) + TabsDue <= clicked

CardInv == WaitInv /\ (~entwined => SoleInv)

-----------------------------------------------------------------------------
LEMMA CardStarts == CardInit => CardInv
<1> SUFFICES ASSUME CardInit PROVE CardInv OBVIOUS
<1> USE DEF CardInit
<1>1. Opened = {} BY DEF Opened
<1>2. WaitInv BY <1>1 DEF WaitInv, NoOrphanWait, WidgetTypes, CardStates
<1>3. TabsDue = 0 BY DEF TabsDue
<1>4. SoleInv BY <1>1, <1>3, FS_EmptySet DEF SoleInv
<1> QED BY <1>2, <1>4 DEF CardInv

LEMMA CardStays ==
  ASSUME CardInv, UNCHANGED cardVars
  PROVE  CardInv'
<1> USE DEF cardVars
<1>1. Opened' = Opened BY DEF Opened
<1>2. TabsDue' = TabsDue BY DEF TabsDue, WorldAhead, AtHuman, Checks
<1>3. WaitInv' BY <1>1 DEF CardInv, WaitInv, NoOrphanWait, Checks
<1>4. ~entwined => SoleInv' BY <1>1, <1>2 DEF CardInv, SoleInv, AtHuman, Checks
<1> QED BY <1>3, <1>4 DEF CardInv

LEMMA ChecksOfCard ==
  ASSUME WaitInv
  PROVE  /\ Len(Checks) \in Nat /\ DOMAIN Checks = 1..Len(Checks) /\ 1 \in DOMAIN Checks
         /\ \A i \in DOMAIN Checks : Checks[i] \in {"pass", "after", "human", "nft"}
<1>1. Checks \in Seq({"pass", "after", "human", "nft"}) /\ Checks # <<>>
  BY CardAssumption DEF WaitInv, CardStates, Checks
<1> HIDE DEF Checks
<1> QED BY <1>1

LEMMA OpenedIsFinite == IsFiniteSet(Opened) /\ Cardinality(Opened) \in Nat
<1>1. IsFiniteSet(Widgets) BY FS_Interval, CardAssumption DEF Widgets
<1> QED BY <1>1, FS_Subset, FS_CardinalityType DEF Opened

LEMMA TabsDueType == TabsDue \in {0, 1}
BY DEF TabsDue

\* Attempts that begin, go on without waiting or end, while nobody else's tab
\* is closed unheard.
LEMMA WaitGoesOn ==
  ASSUME WaitInv, NEW new, tries' \subseteq tries \cup new, new \in SUBSET CardTries,
         \A b \in new : b.at # "waiting" /\ b.leaf \in DOMAIN Checks,
         card' \in CardStates, card'.policy = card.policy, begun' \in Nat,
         widget' \in [Widgets -> WidgetTypes],
         \A a \in tries \cap tries' : a.at = "waiting" =>
           /\ widget'[a.id].state # "none"
           /\ widget'[a.id].state = widget[a.id].state \/ \E m \in mail' : m.id = a.id
           /\ \A m \in mail : m.id = a.id => m \in mail'
  PROVE  WaitInv'
<1>1. Checks' = Checks BY DEF Checks
<1>2. tries' \subseteq CardTries BY DEF WaitInv
<1>3. \A a \in tries' : a.leaf \in DOMAIN Checks' BY <1>1 DEF WaitInv
<1>4. \A a \in tries' : a.at = "waiting" => a \in tries \cap tries' OBVIOUS
<1>5. \A a \in tries' : a.at = "waiting" => a.id \in Opened' /\ Checks'[a.leaf] = "human"
  BY <1>1, <1>4 DEF WaitInv, Opened
<1>6. \A a, b \in tries' : a.at = "waiting" /\ b.at = "waiting" /\ a.id = b.id => a = b
  BY <1>4 DEF WaitInv
<1>7. NoOrphanWait'
  <2> SUFFICES ASSUME NEW a \in tries', a.at = "waiting"
               PROVE  widget'[a.id].state = "open" \/ \E m \in mail' : m.id = a.id
    BY DEF NoOrphanWait
  <2>1. widget[a.id].state = "open" \/ \E m \in mail : m.id = a.id BY <1>4 DEF WaitInv, NoOrphanWait
  <2> QED BY <1>4, <2>1
<1> QED BY <1>2, <1>3, <1>5, <1>6, <1>7 DEF WaitInv

\* The walk of an attempt to its next check.
LEMMA Walks ==
  ASSUME WaitInv, NEW a \in tries, NEW key, NEW share
  PROVE  /\ Walk(a, key, share) \in CardTries
         /\ Walk(a, key, share).leaf \in DOMAIN Checks
         /\ Walk(a, key, share).at \in {"leaf", "trying"}
         /\ Walk(a, key, share).by = a.by
         /\ Walk(a, key, share).at = "leaf" => Walk(a, key, share).leaf = a.leaf + 1
<1> DEFINE got == IF share THEN a.got \cup {a.leaf} ELSE a.got
           stop == (card.policy.op = "and" /\ ~key) \/ a.leaf = Len(Checks)
<1>1. a \in CardTries /\ a.leaf \in 1..Len(Checks) /\ Len(Checks) \in Nat BY ChecksOfCard DEF WaitInv
<1>2. got \in SUBSET Nat BY <1>1 DEF CardTries
<1>3. Walk(a, key, share) = [a EXCEPT !.got = got, !.id = 0, !.at = IF stop THEN "trying" ELSE "leaf",
                                      !.leaf = IF stop THEN @ ELSE @ + 1]
  BY DEF Walk
<1> HIDE DEF got
<1>4. CASE stop
  <2>1. Walk(a, key, share) = [n |-> a.n, by |-> a.by, at |-> "trying", leaf |-> a.leaf, got |-> got, id |-> 0]
    BY <1>1, <1>3, <1>4 DEF CardTries
  <2>2. Walk(a, key, share) \in CardTries BY <1>1, <1>2, <2>1 DEF CardTries
  <2> QED BY <1>1, <2>1, <2>2, ChecksOfCard
<1>5. CASE ~stop
  <2>1. Walk(a, key, share) = [n |-> a.n, by |-> a.by, at |-> "leaf", leaf |-> a.leaf + 1, got |-> got, id |-> 0]
    BY <1>1, <1>3, <1>5 DEF CardTries
  <2>2. a.leaf + 1 \in 1..Len(Checks) BY <1>1, <1>5
  <2>3. Walk(a, key, share) \in CardTries BY <1>1, <1>2, <2>1 DEF CardTries
  <2> QED BY <1>1, <2>1, <2>2, <2>3, ChecksOfCard
<1> QED BY <1>4, <1>5

\* The one attempt that there is goes on as b.
LEMMA SoleGoesOn ==
  ASSUME WaitInv, SoleInv, NEW a \in tries, NEW b, tries' = (tries \ {a}) \cup {b}, b.by = a.by,
         UNCHANGED <<card, wants, clicked>>, Opened' = Opened,
         WorldAhead(b) => WorldAhead(a),
         worldTab' # 0 => AtHuman(b) /\ b.id = worldTab',
         \A w \in Widgets : widget'[w].verdict = "yes" => w \in given'
  PROVE  SoleInv'
<1>1. tries = {a} /\ tries' = {b} BY DEF SoleInv
<1>2. Checks' = Checks BY DEF Checks
<1>3. TabsDue' <= TabsDue /\ TabsDue' \in {0, 1} /\ TabsDue \in {0, 1}
  <2>1. WorldAhead(b)' <=> WorldAhead(b) BY <1>2 DEF WorldAhead, AtHuman
  <2>2. TabsDue' = IF WorldAhead(b)' THEN 1 ELSE 0 BY <1>1 DEF TabsDue
  <2>3. TabsDue = IF WorldAhead(a) THEN 1 ELSE 0 BY <1>1 DEF TabsDue
  <2> QED BY <2>1, <2>2, <2>3
<1>4. card.stage \notin {"loading", "failed", "closed"} BY DEF SoleInv
<1>5. "human" \in wants' => \E c \in tries' : c.by = "human" BY <1>1, <1>4 DEF SoleInv
<1>6. worldTab' # 0 => \E c \in tries' : AtHuman(c)' /\ c.id = worldTab' BY <1>1, <1>2 DEF AtHuman
<1>7. Cardinality(Opened') + TabsDue' <= clicked' BY <1>3, OpenedIsFinite DEF SoleInv
<1> QED BY <1>1, <1>4, <1>5, <1>6, <1>7 DEF SoleInv

\* No tab is told anything by an attempt that is not at the gate for one.
LEMMA NoTabWaits ==
  ASSUME SoleInv, NEW a \in tries, ~AtHuman(a)
  PROVE  worldTab = 0
BY DEF SoleInv

\* A step past a check is no step towards World ID.
LEMMA WalkIsNoWait ==
  ASSUME WaitInv, NEW a \in tries, NEW b \in CardTries, b.by = a.by, b.at \in {"leaf", "trying"},
         b.at = "leaf" => b.leaf = a.leaf + 1,
         a.at = "leaf" \/ a.at = "waiting" \/ a.at = "releasing",
         OneHumanCheck
  PROVE  WorldAhead(b) => WorldAhead(a)
<1> SUFFICES ASSUME WorldAhead(b) PROVE WorldAhead(a) OBVIOUS
<1>1. b.leaf = a.leaf + 1 /\ a.by = "human" /\ \A i \in DOMAIN Checks : Checks[i] = "human" => i >= a.leaf + 1
  BY DEF WorldAhead
<1>2. a.leaf \in DOMAIN Checks /\ a.leaf \in Nat /\ DOMAIN Checks \subseteq Nat BY ChecksOfCard DEF WaitInv
<1>3. Checks[a.leaf] # "human" BY <1>1, <1>2
<1>4. a.at # "waiting" BY <1>3 DEF WaitInv
<1> QED BY <1>1, <1>2, <1>3, <1>4 DEF WorldAhead, AtHuman

-----------------------------------------------------------------------------
\* An attempt goes on to its next check, and the tab that waits for a verdict
\* may be told one.
LEMMA ProceedKeeps ==
  ASSUME CardInv, OneHumanCheck, NEW a \in tries, a.at \in {"leaf", "waiting", "releasing"}, NEW key, NEW share,
         Proceed(a, key, share), UNCHANGED <<card, wants, begun, clicked, entwined>>,
         widget' \in [Widgets -> WidgetTypes], \A w \in Widgets : widget'[w].state = widget[w].state,
         \A m \in mail : m.id # a.id => m \in mail', a.at # "waiting" => mail' = mail,
         ~entwined => worldTab' = 0 /\ \A w \in Widgets : widget'[w].verdict = "yes" => w \in given'
  PROVE  CardInv'
<1> DEFINE b == Walk(a, key, share)
<1>1. /\ b \in CardTries /\ b.leaf \in DOMAIN Checks /\ b.at \in {"leaf", "trying"} /\ b.by = a.by
      /\ b.at = "leaf" => b.leaf = a.leaf + 1
  BY Walks DEF CardInv
<1>2. tries' = (tries \ {a}) \cup {b} BY DEF Proceed, Swap
<1> HIDE DEF b
<1>3. Opened' = Opened BY DEF Opened
<1>4. WaitInv'
  <2>1. ASSUME NEW c \in tries \cap tries', c.at = "waiting"
        PROVE  /\ widget'[c.id].state # "none"
               /\ widget'[c.id].state = widget[c.id].state \/ \E m \in mail' : m.id = c.id
               /\ \A m \in mail : m.id = c.id => m \in mail'
    <3>1. c # a BY <1>1, <1>2, <2>1
    <3>2. c.id \in Opened /\ (a.at = "waiting" => c.id # a.id) BY <2>1, <3>1 DEF CardInv, WaitInv
    <3> QED BY <3>2 DEF Opened
  <2>2. begun' \in Nat /\ card \in CardStates BY DEF CardInv, WaitInv
  <2> DEFINE new == {b}
  <2>3. new \in SUBSET CardTries /\ tries' \subseteq tries \cup new /\ \A c \in new : c.at # "waiting" /\ c.leaf \in DOMAIN Checks
    BY <1>1, <1>2
  <2> HIDE DEF new
  <2> QED BY <2>1, <2>2, <2>3, WaitGoesOn DEF CardInv
<1>5. ASSUME ~entwined PROVE SoleInv'
  <2>1. WorldAhead(b) => WorldAhead(a) BY <1>1, WalkIsNoWait DEF CardInv
  <2> QED BY <1>1, <1>2, <1>3, <1>5, <2>1, SoleGoesOn DEF CardInv
<1> QED BY <1>4, <1>5 DEF CardInv

\* Telling a verdict leaves the states of the tabs alone.
LEMMA Tells ==
  ASSUME CardInv, NEW ok \in {"yes", "no"}, TellWidget(ok)
  PROVE  /\ widget' \in [Widgets -> WidgetTypes] /\ worldTab' = 0
         /\ \A w \in Widgets : widget'[w].state = widget[w].state
         /\ \A w \in Widgets : w # worldTab => widget'[w] = widget[w]
         /\ ok = "no" => \A w \in Widgets : widget'[w].verdict = "yes" => widget[w].verdict = "yes"
BY DEF TellWidget, CardInv, WaitInv, WidgetTypes

LEMMA TellNo ==
  ASSUME CardInv, NEW a \in tries, a.at \in {"leaf", "waiting", "releasing"}, OneHumanCheck,
         Proceed(a, FALSE, FALSE), TellWidget("no"), given' = given,
         UNCHANGED <<card, wants, begun, clicked, entwined>>,
         \A m \in mail : m.id # a.id => m \in mail', a.at # "waiting" => mail' = mail
  PROVE  CardInv'
<1>1. /\ widget' \in [Widgets -> WidgetTypes] /\ worldTab' = 0
      /\ \A w \in Widgets : widget'[w].state = widget[w].state
      /\ \A w \in Widgets : widget'[w].verdict = "yes" => widget[w].verdict = "yes"
  BY Tells
<1>2. ~entwined => \A w \in Widgets : widget'[w].verdict = "yes" => w \in given'
  BY <1>1 DEF CardInv, SoleInv
<1> QED BY <1>1, <1>2, ProceedKeeps

\* A click begins an attempt.
LEMMA AttemptKeeps ==
  ASSUME CardInv, NEW by \in {"pass", "human", "nft"}, Attempt(by),
         card' = card, widget' = widget, mail' = mail, worldTab' = worldTab, given' = given,
         \/ wants' = wants \cup {"human"} /\ clicked' = clicked + 1 /\ by = "human"
         \/ wants' \in {wants, wants \cup {"nft"}} /\ clicked' = clicked /\ by # "human"
  PROVE  CardInv'
<1> DEFINE b == [n |-> begun + 1, by |-> by, at |-> "leaf", leaf |-> 1, got |-> {}, id |-> 0]
<1>1. b \in CardTries /\ b.leaf \in DOMAIN Checks /\ b.at = "leaf" /\ b.by = by
  BY ChecksOfCard DEF CardInv, WaitInv, CardTries
<1>2. tries' = tries \cup {b} /\ begun' = begun + 1 /\ card.stage = "locked" BY DEF Attempt
<1> HIDE DEF b
<1>3. WaitInv'
  <2> DEFINE new == {b}
  <2>1. new \in SUBSET CardTries /\ tries' \subseteq tries \cup new /\ \A c \in new : c.at # "waiting" /\ c.leaf \in DOMAIN Checks
    BY <1>1, <1>2
  <2> HIDE DEF new
  <2>2. begun' \in Nat /\ card \in CardStates /\ widget \in [Widgets -> WidgetTypes] BY <1>2 DEF CardInv, WaitInv
  <2>3. \A c \in tries : c.at = "waiting" => widget[c.id].state # "none" BY DEF CardInv, WaitInv, Opened
  <2> QED BY <2>1, <2>2, <2>3, WaitGoesOn DEF CardInv
<1>4. ASSUME ~entwined' PROVE SoleInv'
  <2>1. ~entwined /\ tries = {} BY <1>4 DEF Attempt
  <2>2. tries' = {b} BY <1>2, <2>1
  <2>3. Opened' = Opened BY DEF Opened
  <2>4. TabsDue = 0 BY <2>1 DEF TabsDue
  <2>5. TabsDue' \in {0, 1} /\ (by # "human" => TabsDue' = 0)
    BY <1>1, <2>2 DEF TabsDue, WorldAhead
  <2>6. SoleInv BY <2>1 DEF CardInv
  <2>7. clicked' \in Nat /\ Cardinality(Opened') + TabsDue' <= clicked'
    BY <2>3, <2>4, <2>5, <2>6, OpenedIsFinite DEF SoleInv
  <2>8. "human" \in wants' => \E c \in tries' : c.by = "human"
    BY <1>1, <1>2, <2>1, <2>2, <2>6 DEF SoleInv
  <2>9. worldTab' = 0 BY <2>1, <2>6 DEF SoleInv
  <2>10. \A w \in Widgets : widget'[w].verdict = "yes" => w \in given' BY <2>6 DEF SoleInv
  <2> QED BY <1>2, <2>2, <2>7, <2>8, <2>9, <2>10 DEF SoleInv
<1> QED BY <1>3, <1>4 DEF CardInv

LEMMA LoadKeeps == ASSUME CardInv, Load PROVE CardInv'
<1>1. card' \in CardStates /\ card'.policy = card.policy /\ card.stage = "loading"
  BY DEF Load, CardInv, WaitInv, CardStates
<1>2. Checks' = Checks /\ Opened' = Opened BY <1>1 DEF Load, Checks, Opened
<1> DEFINE b == [n |-> 1, by |-> "pass", at |-> "leaf", leaf |-> 1, got |-> {}, id |-> 0]
           new == tries' \ tries
<1>3. b \in CardTries /\ b.leaf \in DOMAIN Checks /\ b.at = "leaf" /\ b.by = "pass"
  BY ChecksOfCard DEF CardInv, WaitInv, CardTries
<1>4. (tries' = tries /\ begun' = begun /\ card'.stage = "failed") \/ (tries' = {b} /\ begun' = 1 /\ card'.stage = "locked")
  BY DEF Load, CardInv, WaitInv, CardStates
<1> HIDE DEF b
<1>5. new \in SUBSET CardTries /\ tries' \subseteq tries \cup new /\ \A c \in new : c.at # "waiting" /\ c.leaf \in DOMAIN Checks
  BY <1>3, <1>4
<1> HIDE DEF new
<1>6. WaitInv'
  <2>1. begun' \in Nat /\ card \in CardStates /\ widget \in [Widgets -> WidgetTypes] /\ widget' = widget /\ mail' = mail
    BY <1>4 DEF CardInv, WaitInv, Load
  <2>2. \A c \in tries : c.at = "waiting" => widget[c.id].state # "none" BY DEF CardInv, WaitInv, Opened
  <2> QED BY <1>1, <1>5, <2>1, <2>2, WaitGoesOn DEF CardInv
<1>7. ASSUME ~entwined PROVE SoleInv'
  <2>1. SoleInv /\ tries = {} BY <1>1, <1>7 DEF CardInv, SoleInv
  <2>2. TabsDue' = 0 BY <1>3, <1>4, <2>1 DEF TabsDue, WorldAhead
  <2>3. TabsDue = 0 BY <2>1 DEF TabsDue
  <2>4. "human" \notin wants /\ worldTab = 0 BY <1>1, <2>1 DEF SoleInv
  <2>5. \A c, d \in tries' : c = d BY <1>4, <2>1
  <2>6. card'.stage \in {"loading", "failed", "closed"} => tries' = {} BY <1>4, <2>1
  <2>7. UNCHANGED <<wants, worldTab, widget, given, clicked, entwined>> BY DEF Load
  <2> QED BY <1>2, <2>1, <2>2, <2>3, <2>4, <2>5, <2>6, <2>7 DEF SoleInv
<1> QED BY <1>6, <1>7 DEF CardInv, Load

\* Attempts end, and nobody else notices.
LEMMA LeaveKeeps ==
  ASSUME CardInv, tries' \subseteq tries, card' \in CardStates, card'.policy = card.policy,
         UNCHANGED <<begun, widget, mail, clicked, given, entwined>>,
         ~entwined => /\ tries' = {} /\ worldTab' = 0
                      /\ "human" \in wants' => card'.stage = "closed"
  PROVE  CardInv'
<1>1. Checks' = Checks /\ Opened' = Opened BY DEF Checks, Opened
<1>2. WaitInv'
  <2>1. {} \in SUBSET CardTries /\ tries' \subseteq tries \cup {} OBVIOUS
  <2>2. begun' \in Nat /\ card \in CardStates /\ widget \in [Widgets -> WidgetTypes] BY DEF CardInv, WaitInv
  <2>3. \A c \in tries : c.at = "waiting" => widget[c.id].state # "none" BY DEF CardInv, WaitInv, Opened
  <2> DEFINE new == {}
  <2>4. new \in SUBSET CardTries /\ tries' \subseteq tries \cup new /\ \A c \in new : c.at # "waiting" /\ c.leaf \in DOMAIN Checks
    OBVIOUS
  <2> HIDE DEF new
  <2> QED BY <2>2, <2>3, <2>4, WaitGoesOn DEF CardInv
<1>3. ASSUME ~entwined PROVE SoleInv'
  <2>1. SoleInv /\ tries' = {} BY <1>3 DEF CardInv
  <2>2. TabsDue' = 0 BY <2>1 DEF TabsDue
  <2>3. Cardinality(Opened') + TabsDue' <= clicked' BY <1>1, <2>1, <2>2, OpenedIsFinite, TabsDueType DEF SoleInv
  <2> QED BY <1>3, <2>1, <2>3 DEF SoleInv
<1> QED BY <1>2, <1>3 DEF CardInv

LEMMA CloseCardKeeps == ASSUME CardInv, CloseCard PROVE CardInv'
<1>1. card' \in CardStates /\ card'.policy = card.policy /\ card'.stage = "closed"
  BY DEF CloseCard, CardInv, WaitInv, CardStates
<1> QED BY <1>1, LeaveKeeps DEF CloseCard

LEMMA EndAttemptKeeps == ASSUME CardInv, NEW a \in tries, EndAttempt(a) PROVE CardInv'
<1>1. card' \in CardStates /\ card'.policy = card.policy BY DEF EndAttempt, CardInv, WaitInv, CardStates
<1>2. ASSUME ~entwined PROVE tries' = {} /\ worldTab' = 0 /\ "human" \notin wants'
  <2>1. SoleInv /\ tries = {a} BY <1>2 DEF CardInv, SoleInv
  <2>2. worldTab = 0 BY <2>1 DEF EndAttempt, AtHuman, SoleInv
  <2>3. "human" \in wants => a.by = "human" BY <2>1 DEF SoleInv
  <2> QED BY <2>1, <2>2, <2>3 DEF EndAttempt
<1> QED BY <1>1, <1>2, LeaveKeeps DEF EndAttempt

\* The widget speaks, and the attempts stay where they are.
LEMMA WidgetSpeaks ==
  ASSUME CardInv, NEW w \in Widgets, Prove(w) \/ CloseTab(w)
  PROVE  CardInv'
<1>1. PICK state \in {"sent", "closed"} : widget' = [widget EXCEPT ![w].state = state]
  BY DEF Prove, CloseTab
<1>2. /\ widget[w].state # "none" /\ mail \subseteq mail' /\ \E m \in mail' : m.id = w
      /\ UNCHANGED <<card, wants, tries, begun, worldTab, clicked, given, entwined>>
  <2>1. PICK proof \in BOOLEAN : mail' = mail \cup {[id |-> w, proof |-> proof]} BY DEF Prove, CloseTab
  <2> DEFINE word == [id |-> w, proof |-> proof]
  <2>3. word.id = w OBVIOUS
  <2>4. mail' = mail \cup {word} BY <2>1
  <2> HIDE DEF word
  <2>2. mail \subseteq mail' /\ \E m \in mail' : m.id = w BY <2>3, <2>4
  <2> QED BY <2>2 DEF Prove, CloseTab
<1>3. /\ widget' \in [Widgets -> WidgetTypes] /\ widget'[w].state # "none"
      /\ \A v \in Widgets : widget'[v].verdict = widget[v].verdict /\ (v # w => widget'[v] = widget[v])
  BY <1>1 DEF CardInv, WaitInv, WidgetTypes
<1>4. Opened' = Opened BY <1>2, <1>3 DEF Opened
<1>5. WaitInv'
  <2>1. ASSUME NEW c \in tries, c.at = "waiting"
        PROVE  /\ widget'[c.id].state # "none"
               /\ widget'[c.id].state = widget[c.id].state \/ \E m \in mail' : m.id = c.id
               /\ \A m \in mail : m.id = c.id => m \in mail'
    <3>1. c.id \in Widgets /\ widget[c.id].state # "none" BY <2>1 DEF CardInv, WaitInv, Opened
    <3> QED BY <1>2, <1>3, <3>1
  <2> DEFINE new == {}
  <2>2. new \in SUBSET CardTries /\ tries' \subseteq tries \cup new /\ \A c \in new : c.at # "waiting" /\ c.leaf \in DOMAIN Checks
    BY <1>2
  <2> HIDE DEF new
  <2>3. begun' \in Nat /\ card' \in CardStates /\ card'.policy = card.policy BY <1>2 DEF CardInv, WaitInv
  <2> QED BY <1>3, <2>1, <2>2, <2>3, WaitGoesOn DEF CardInv
<1>6. ASSUME ~entwined PROVE SoleInv'
  <2>1. SoleInv BY <1>6 DEF CardInv
  <2>2. TabsDue' = TabsDue BY <1>2 DEF TabsDue, WorldAhead, AtHuman, Checks
  <2> QED BY <1>2, <1>3, <1>4, <2>1, <2>2 DEF SoleInv, AtHuman, Checks
<1> QED BY <1>2, <1>5, <1>6 DEF CardInv

LEMMA OpenWorldTabKeeps ==
  ASSUME CardInv, OneHumanCheck, NEW a \in tries, OpenWorldTab(a)
  PROVE  CardInv'
<1>1. PICK w \in Widgets \ Opened :
        /\ widget' = [widget EXCEPT ![w] = [state |-> "open", verdict |-> "none"]]
        /\ Swap(a, [a EXCEPT !.at = "waiting", !.id = w])
  BY DEF OpenWorldTab
<1> DEFINE b == [a EXCEPT !.at = "waiting", !.id = w]
<1>2. b \in CardTries /\ b.leaf = a.leaf /\ b.at = "waiting" /\ b.id = w /\ b.by = a.by
  <2>1. a \in CardTries /\ w \in Nat BY CardAssumption DEF CardInv, WaitInv, Widgets
  <2>2. b \in CardTries BY <2>1 DEF CardTries
  <2>3. b.leaf = a.leaf /\ b.at = "waiting" /\ b.id = w /\ b.by = a.by BY <2>1 DEF CardTries
  <2> QED BY <2>2, <2>3
<1>3. tries' = (tries \ {a}) \cup {b} BY <1>1 DEF Swap
<1> HIDE DEF b
<1>4. /\ a.at = "leaf" /\ Checks[a.leaf] = "human" /\ "human" \in wants
      /\ UNCHANGED <<card, wants, begun, worldTab, mail, clicked, given, entwined>>
  BY DEF OpenWorldTab
<1>5. Checks' = Checks BY <1>4 DEF Checks
<1>6. /\ widget' \in [Widgets -> WidgetTypes] /\ widget'[w].state = "open" /\ widget'[w].verdict = "none"
      /\ \A v \in Widgets : v # w => widget'[v] = widget[v]
  BY <1>1 DEF CardInv, WaitInv, WidgetTypes
<1>7. Opened' = Opened \cup {w} /\ w \notin Opened BY <1>6 DEF Opened
<1>8. WaitInv'
  <2>1. \A c \in tries' : c = b \/ (c \in tries /\ (c.at = "waiting" => c.id \in Opened /\ c.id # w))
    BY <1>3, <1>7 DEF CardInv, WaitInv
  <2>2. \A c \in tries' : c.at = "waiting" => c.id \in Opened' /\ Checks'[c.leaf] = "human"
    BY <1>2, <1>4, <1>5, <1>7, <2>1 DEF CardInv, WaitInv
  <2>3. \A c, d \in tries' : c.at = "waiting" /\ d.at = "waiting" /\ c.id = d.id => c = d
    BY <1>2, <2>1 DEF CardInv, WaitInv
  <2>4. NoOrphanWait'
    <3> SUFFICES ASSUME NEW c \in tries', c.at = "waiting"
                 PROVE  widget'[c.id].state = "open" \/ \E m \in mail' : m.id = c.id
      BY DEF NoOrphanWait
    <3>1. CASE c = b BY <1>2, <1>6, <3>1
    <3>2. CASE c # b
      <4>1. c \in tries /\ c.id \in Opened /\ c.id # w BY <2>1, <3>2
      <4>2. widget'[c.id] = widget[c.id] BY <1>6, <4>1 DEF Opened
      <4> QED BY <1>4, <4>1, <4>2 DEF CardInv, WaitInv, NoOrphanWait
    <3> QED BY <3>1, <3>2
  <2>5. tries' \subseteq CardTries /\ \A c \in tries' : c.leaf \in DOMAIN Checks'
    BY <1>2, <1>3, <1>5 DEF CardInv, WaitInv
  <2> QED BY <1>4, <1>6, <2>2, <2>3, <2>4, <2>5 DEF CardInv, WaitInv
<1>9. ASSUME ~entwined PROVE SoleInv'
  <2>1. SoleInv /\ tries = {a} /\ tries' = {b} BY <1>3, <1>9 DEF CardInv, SoleInv
  <2>2. a.by = "human" /\ card.stage \notin {"loading", "failed", "closed"} BY <1>4, <2>1 DEF SoleInv
  <2>3. WorldAhead(a)
    <3>1. a.leaf \in DOMAIN Checks /\ DOMAIN Checks \subseteq Nat BY ChecksOfCard DEF CardInv, WaitInv
    <3>2. \A i \in DOMAIN Checks : Checks[i] = "human" => i = a.leaf
      BY <1>4, <3>1 DEF OneHumanCheck, Checks, CardInv, WaitInv, CardStates
    <3> QED BY <1>4, <2>2, <3>1, <3>2 DEF WorldAhead, AtHuman
  <2>4. TabsDue = 1 BY <2>3 DEF TabsDue
  <2>5. TabsDue' = 0 BY <1>2, <2>1 DEF TabsDue, WorldAhead
  <2>6. Cardinality(Opened') = Cardinality(Opened) + 1 BY <1>7, OpenedIsFinite, FS_AddElement
  <2>7. Cardinality(Opened') + TabsDue' <= clicked' BY <1>4, <2>1, <2>4, <2>5, <2>6, OpenedIsFinite DEF SoleInv
  <2>8. worldTab = 0 BY <1>4, <2>1 DEF SoleInv, AtHuman
  <2>9. \A v \in Widgets : widget'[v].verdict = "yes" => v \in given' BY <1>4, <1>6, <2>1 DEF SoleInv
  <2> QED BY <1>2, <1>4, <2>1, <2>2, <2>7, <2>8, <2>9 DEF SoleInv
<1> QED BY <1>4, <1>8, <1>9 DEF CardInv

LEMMA ProofArrivesKeeps == ASSUME CardInv, NEW a \in tries, ProofArrives(a) PROVE CardInv'
<1> DEFINE b == [a EXCEPT !.at = "releasing"]
<1>1. b \in CardTries /\ b.leaf = a.leaf /\ b.at = "releasing" /\ b.id = a.id /\ b.by = a.by
  BY DEF CardInv, WaitInv, CardTries
<1>2. tries' = (tries \ {a}) \cup {b} BY DEF ProofArrives, Swap
<1> HIDE DEF b
<1>3. /\ a.at = "waiting" /\ mail' = mail \ {[id |-> a.id, proof |-> TRUE]} /\ worldTab' = a.id
      /\ UNCHANGED <<card, wants, begun, widget, clicked, given, entwined>>
  BY DEF ProofArrives
<1>4. Checks[a.leaf] = "human" /\ a.leaf \in DOMAIN Checks BY <1>3 DEF CardInv, WaitInv
<1>5. WaitInv'
  <2>1. ASSUME NEW c \in tries \cap tries', c.at = "waiting"
        PROVE  /\ widget'[c.id].state # "none"
               /\ widget'[c.id].state = widget[c.id].state \/ \E m \in mail' : m.id = c.id
               /\ \A m \in mail : m.id = c.id => m \in mail'
    <3>1. c # a BY <1>1, <1>2, <2>1
    <3>2. c.id \in Opened /\ c.id # a.id BY <1>3, <2>1, <3>1 DEF CardInv, WaitInv
    <3> QED BY <1>3, <3>2 DEF Opened
  <2>2. begun' \in Nat /\ card \in CardStates /\ widget' \in [Widgets -> WidgetTypes] BY <1>3 DEF CardInv, WaitInv
  <2> DEFINE new == {b}
  <2>3. new \in SUBSET CardTries /\ tries' \subseteq tries \cup new /\ \A c \in new : c.at # "waiting" /\ c.leaf \in DOMAIN Checks
    BY <1>1, <1>2, <1>4
  <2> HIDE DEF new
  <2> QED BY <1>3, <2>1, <2>2, <2>3, WaitGoesOn DEF CardInv
<1>6. ASSUME ~entwined PROVE SoleInv'
  <2>1. ~WorldAhead(b) /\ AtHuman(b) BY <1>1, <1>4 DEF WorldAhead, AtHuman
  <2>2. Opened' = Opened BY <1>3 DEF Opened
  <2>3. \A w \in Widgets : widget'[w].verdict = "yes" => w \in given' BY <1>3, <1>6 DEF CardInv, SoleInv
  <2> QED BY <1>1, <1>2, <1>3, <1>6, <2>1, <2>2, <2>3, SoleGoesOn DEF CardInv
<1> QED BY <1>3, <1>5, <1>6 DEF CardInv

\* The share is asked for.
LEMMA AsksKeep ==
  ASSUME CardInv, NEW a \in tries, a.at = "leaf", Checks[a.leaf] # "human", Swap(a, [a EXCEPT !.at = "releasing"]),
         UNCHANGED <<card, wants, begun, worldTab, widget, mail, clicked, given, entwined>>
  PROVE  CardInv'
<1> DEFINE b == [a EXCEPT !.at = "releasing"]
<1>1. b \in CardTries /\ b.leaf = a.leaf /\ b.at = "releasing" /\ b.by = a.by
  BY DEF CardInv, WaitInv, CardTries
<1>2. tries' = (tries \ {a}) \cup {b} BY DEF Swap
<1> HIDE DEF b
<1>3. a.leaf \in DOMAIN Checks BY DEF CardInv, WaitInv
<1>4. WaitInv'
  <2>1. \A c \in tries : c.at = "waiting" => widget[c.id].state # "none" BY DEF CardInv, WaitInv, Opened
  <2>2. begun' \in Nat /\ card \in CardStates /\ widget' \in [Widgets -> WidgetTypes] BY DEF CardInv, WaitInv
  <2> DEFINE new == {b}
  <2>3. new \in SUBSET CardTries /\ tries' \subseteq tries \cup new /\ \A c \in new : c.at # "waiting" /\ c.leaf \in DOMAIN Checks
    BY <1>1, <1>2, <1>3
  <2> HIDE DEF new
  <2> QED BY <2>1, <2>2, <2>3, WaitGoesOn DEF CardInv
<1>5. ASSUME ~entwined PROVE SoleInv'
  <2>1. WorldAhead(b) => WorldAhead(a) BY <1>1 DEF WorldAhead, AtHuman
  <2>2. worldTab = 0 BY <1>5, NoTabWaits DEF CardInv, AtHuman
  <2>3. Opened' = Opened BY DEF Opened
  <2>4. \A w \in Widgets : widget'[w].verdict = "yes" => w \in given' BY <1>5 DEF CardInv, SoleInv
  <2> QED BY <1>1, <1>2, <1>5, <2>1, <2>2, <2>3, <2>4, SoleGoesOn DEF CardInv
<1> QED BY <1>4, <1>5 DEF CardInv

\* A check is passed without a word to any tab.
LEMMA SkipKeeps ==
  ASSUME CardInv, OneHumanCheck, NEW a \in tries, a.at = "leaf", NEW key, NEW share, Proceed(a, key, share),
         UNCHANGED <<card, wants, begun, worldTab, widget, mail, clicked, given, entwined>>
  PROVE  CardInv'
<1>1. ~entwined => worldTab' = 0 BY NoTabWaits DEF CardInv, AtHuman
<1>2. ~entwined => \A w \in Widgets : widget'[w].verdict = "yes" => w \in given' BY DEF CardInv, SoleInv
<1>3. widget' \in [Widgets -> WidgetTypes] BY DEF CardInv, WaitInv
<1> QED BY <1>1, <1>2, <1>3, ProceedKeeps

LEMMA ReleaseKeeps == ASSUME CardInv, OneHumanCheck, NEW a \in tries, Release(a) PROVE CardInv'
<1>1. PICK ok \in BOOLEAN :
        /\ Proceed(a, ok, ok)
        /\ given' = IF ok THEN given \cup {a.id} ELSE given
        /\ IF ok THEN TellWidget("yes")
           ELSE IF Checks[a.leaf] = "human" THEN TellWidget("no") ELSE UNCHANGED <<widget, worldTab>>
  BY DEF Release
<1>2. a.at = "releasing" /\ UNCHANGED <<card, wants, begun, mail, clicked, entwined>> BY DEF Release
<1>3. CASE ok
  <2>1. TellWidget("yes") /\ given' = given \cup {a.id} BY <1>1, <1>3
  <2>2. /\ widget' \in [Widgets -> WidgetTypes] /\ worldTab' = 0
        /\ \A w \in Widgets : widget'[w].state = widget[w].state
        /\ \A w \in Widgets : w # worldTab => widget'[w] = widget[w]
    BY <2>1, Tells
  <2>3. ASSUME ~entwined, NEW w \in Widgets, widget'[w].verdict = "yes" PROVE w \in given'
    <3>1. CASE w = worldTab
      <4>1. SoleInv /\ worldTab # 0 BY <2>3, <3>1 DEF CardInv, Widgets
      <4>2. a.id = worldTab BY <4>1 DEF SoleInv
      <4> QED BY <2>1, <3>1, <4>2
    <3>2. CASE w # worldTab BY <2>1, <2>2, <2>3, <3>2 DEF CardInv, SoleInv
    <3> QED BY <3>1, <3>2
  <2> QED BY <1>1, <1>2, <2>2, <2>3, ProceedKeeps
<1>4. CASE ~ok /\ Checks[a.leaf] = "human"
  <2>1. TellWidget("no") /\ given' = given /\ Proceed(a, ok, ok) BY <1>1, <1>4
  <2>2. /\ widget' \in [Widgets -> WidgetTypes] /\ worldTab' = 0
        /\ \A w \in Widgets : widget'[w].state = widget[w].state
        /\ \A w \in Widgets : widget'[w].verdict = "yes" => widget[w].verdict = "yes"
    BY <2>1, Tells
  <2>3. ~entwined => \A w \in Widgets : widget'[w].verdict = "yes" => w \in given'
    BY <2>1, <2>2 DEF CardInv, SoleInv
  <2> QED BY <1>2, <2>1, <2>2, <2>3, ProceedKeeps
<1>5. CASE ~ok /\ Checks[a.leaf] # "human"
  <2>1. UNCHANGED <<widget, worldTab, given>> /\ Proceed(a, ok, ok) BY <1>1, <1>5
  <2>2. ~entwined => worldTab' = 0 BY <1>5, <2>1, NoTabWaits DEF CardInv, AtHuman
  <2>3. ~entwined => \A w \in Widgets : widget'[w].verdict = "yes" => w \in given'
    BY <2>1 DEF CardInv, SoleInv
  <2>4. widget' \in [Widgets -> WidgetTypes] BY <2>1 DEF CardInv, WaitInv
  <2> QED BY <1>2, <2>1, <2>2, <2>3, <2>4, ProceedKeeps
<1> QED BY <1>3, <1>4, <1>5

LEMMA CancelKeeps == ASSUME CardInv, OneHumanCheck, CancelWorld PROVE CardInv'
<1>1. UNCHANGED <<card, wants, begun, mail, clicked, given, entwined>> BY DEF CancelWorld
<1>2. CASE UNCHANGED <<tries, widget, worldTab>>
  <2>1. Opened' = Opened BY <1>2 DEF Opened
  <2>2. TabsDue' = TabsDue BY <1>1, <1>2 DEF TabsDue, WorldAhead, AtHuman, Checks
  <2>3. WaitInv' BY <1>1, <1>2, <2>1 DEF CardInv, WaitInv, NoOrphanWait, Checks
  <2>4. ~entwined => SoleInv' BY <1>1, <1>2, <2>1, <2>2 DEF CardInv, SoleInv, AtHuman, Checks
  <2> QED BY <1>1, <2>3, <2>4 DEF CardInv
<1>3. ASSUME NEW a \in tries, a.at = "waiting", a.id = cancel, Proceed(a, FALSE, FALSE), worldTab' = 0,
             widget' = [w \in Widgets |->
               CASE w = worldTab -> [widget[w] EXCEPT !.verdict = "no"]
                 [] w = cancel /\ w # worldTab -> [widget[w] EXCEPT !.state = "closed"]
                 [] OTHER -> widget[w]]
      PROVE  CardInv'
  <2> DEFINE b == Walk(a, FALSE, FALSE)
  <2>1. /\ b \in CardTries /\ b.leaf \in DOMAIN Checks /\ b.at \in {"leaf", "trying"} /\ b.by = a.by
        /\ b.at = "leaf" => b.leaf = a.leaf + 1
    BY Walks DEF CardInv
  <2>2. tries' = (tries \ {a}) \cup {b} BY <1>3 DEF Proceed, Swap
  <2> HIDE DEF b
  <2>3. /\ widget' \in [Widgets -> WidgetTypes]
        /\ \A w \in Widgets : /\ w # cancel => widget'[w].state = widget[w].state
                              /\ widget'[w].verdict = "yes" => widget[w].verdict = "yes"
                              /\ w = cancel => widget'[w].state \in {"closed", widget[w].state}
    BY <1>3 DEF CardInv, WaitInv, WidgetTypes
  <2>4. cancel \in Opened BY <1>3 DEF CardInv, WaitInv
  <2>5. Opened' = Opened BY <2>3, <2>4 DEF Opened
  <2>6. WaitInv'
    <3>1. ASSUME NEW c \in tries \cap tries', c.at = "waiting"
          PROVE  /\ widget'[c.id].state # "none"
                 /\ widget'[c.id].state = widget[c.id].state \/ \E m \in mail' : m.id = c.id
                 /\ \A m \in mail : m.id = c.id => m \in mail'
      <4>1. c # a BY <2>1, <2>2, <3>1
      <4>2. c.id \in Opened /\ c.id # cancel BY <1>3, <3>1, <4>1 DEF CardInv, WaitInv
      <4> QED BY <1>1, <2>3, <4>2 DEF Opened
    <3>2. begun' \in Nat /\ card' \in CardStates /\ card'.policy = card.policy BY <1>1 DEF CardInv, WaitInv
    <3> DEFINE new == {b}
    <3>3. new \in SUBSET CardTries /\ tries' \subseteq tries \cup new /\ \A c \in new : c.at # "waiting" /\ c.leaf \in DOMAIN Checks
      BY <2>1, <2>2
    <3> HIDE DEF new
    <3> QED BY <2>3, <3>1, <3>2, <3>3, WaitGoesOn DEF CardInv
  <2>7. ASSUME ~entwined PROVE SoleInv'
    <3>1. WorldAhead(b) => WorldAhead(a) BY <1>3, <2>1, WalkIsNoWait DEF CardInv
    <3>2. \A w \in Widgets : widget'[w].verdict = "yes" => w \in given' BY <1>1, <2>3, <2>7 DEF CardInv, SoleInv
    <3> QED BY <1>1, <1>3, <2>1, <2>2, <2>5, <2>7, <3>1, <3>2, SoleGoesOn DEF CardInv
  <2> QED BY <1>1, <2>6, <2>7 DEF CardInv
<1> QED BY <1>2, <1>3 DEF CancelWorld

LEMMA CardKeeps == ASSUME OneHumanCheck, CardInv, CardNext PROVE CardInv'
<1>1. CASE Load BY <1>1, LoadKeeps
<1>2. CASE CloseCard BY <1>2, CloseCardKeeps
<1>3. CASE TryPassphrase
  <2>1. Attempt("pass") /\ UNCHANGED <<card, wants, worldTab, widget, mail, clicked, given>>
    BY <1>3 DEF TryPassphrase
  <2>2. "pass" # "human" OBVIOUS
  <2> QED BY <2>1, <2>2, AttemptKeeps
<1>4. CASE VerifyHuman BY <1>4, AttemptKeeps DEF VerifyHuman
<1>5. CASE ProveNft BY <1>5, AttemptKeeps DEF ProveNft
<1>6. CASE CancelWorld BY <1>6, CancelKeeps
<1>7. ASSUME NEW a \in tries, AtPass(a) PROVE CardInv' BY <1>7, SkipKeeps DEF AtPass
<1>8. ASSUME NEW a \in tries, AtAfter(a) PROVE CardInv' BY <1>8, AsksKeep DEF AtAfter
<1>9. ASSUME NEW a \in tries, NftProof(a) PROVE CardInv' BY <1>9, SkipKeeps, AsksKeep DEF NftProof
<1>10. ASSUME NEW a \in tries, NotAsked(a) PROVE CardInv' BY <1>10, SkipKeeps DEF NotAsked
<1>11. ASSUME NEW a \in tries, NoChallenge(a) PROVE CardInv' BY <1>11, TellNo DEF NoChallenge
<1>12. ASSUME NEW a \in tries, OpenWorldTab(a) PROVE CardInv' BY <1>12, OpenWorldTabKeeps
<1>13. ASSUME NEW a \in tries, ProofArrives(a) PROVE CardInv' BY <1>13, ProofArrivesKeeps
<1>14. ASSUME NEW a \in tries, ClosedArrives(a) PROVE CardInv'
  <2>1. \A m \in mail : m.id # a.id => m \in mail' BY <1>14 DEF ClosedArrives
  <2> QED BY <1>14, <2>1, TellNo DEF ClosedArrives
<1>15. ASSUME NEW a \in tries, Release(a) PROVE CardInv' BY <1>15, ReleaseKeeps
<1>16. ASSUME NEW a \in tries, EndAttempt(a) PROVE CardInv' BY <1>16, EndAttemptKeeps
<1>17. ASSUME NEW w \in Widgets, Prove(w) \/ CloseTab(w) PROVE CardInv' BY <1>17, WidgetSpeaks
<1> QED BY <1>1, <1>2, <1>3, <1>4, <1>5, <1>6, <1>7, <1>8, <1>9, <1>10, <1>11, <1>12, <1>13, <1>14,
           <1>15, <1>16, <1>17 DEF CardNext

LEMMA CardIsSound == CardInv => NoOrphanWait /\ VerdictsAreTrue
BY OpenedIsFinite, TabsDueType DEF CardInv, WaitInv, SoleInv, VerdictsAreTrue, Opened

-----------------------------------------------------------------------------
(***************************************************************************)
(* The page.                                                               *)
(***************************************************************************)

\* What a scan found, each candidate under its index among the scan's blocks.
PageFinds == [i : Nat, text : Places]
PageScans == [n : Nat, blocks : SUBSET Places, queue : SUBSET PageFinds, frames : SUBSET PageFinds,
              keys : SUBSET {"pass", "token"}, opened : SUBSET PageFinds,
              at : {"decoding", "asking", "answered"}]
RightlyIndexed(s) ==
  \A c \in s.queue \cup s.frames \cup s.opened : c.text \in s.blocks /\ c.i = IndexIn(s.blocks, c.text)

\* Ids are given once: those of a scan that has not been answered are free, and
\* one scan gives an id to one text.
PageIds ==
  /\ here \subseteq Places /\ scans \subseteq PageScans /\ started \in Nat /\ ring \subseteq {"pass", "token"}
  /\ \A s \in scans : s.n <= started /\ RightlyIndexed(s)
  /\ \A s, t \in scans : s.n = t.n => s = t
  /\ texts \subseteq [id : Nat \X Nat, text : Places] /\ \A t \in texts : t.id[1] <= started
  /\ \A t, u \in texts : t.id = u.id => t = u
  /\ \A s \in scans : s.at # "answered" => \A t \in texts : t.id[1] # s.n
  /\ \A s \in scans : s.at = "answered" => \A c \in s.opened : [id |-> <<s.n, c.i>>, text |-> c.text] \in texts

\* A chip carries the id under which the text of its block is kept.
ChipInv ==
  /\ DOMAIN chips = Places
  /\ \A p \in Chipped : [id |-> chips[p][1], text |-> p] \in texts
  /\ shown # <<>> => shown[1] = shown[2]

\* Scan s has yet to say whether a keyring with these keys opens p.
Asks(s, p, keys) ==
  \E c : /\ c.text = p
         /\ \/ s.at = "decoding" /\ c \in s.queue \cup s.frames
            \/ s.at = "asking" /\ c \in s.frames /\ s.keys = keys
            \/ s.at = "answered" /\ c \in s.opened
Settled(p) == p \in missed \/ ~OpensWith(p, ring, TRUE)
TriedInv == ~notice => \A p \in seen \ Chipped : Settled(p) \/ \E s \in scans : Asks(s, p, ring)

ReachInv == auto /\ ~timer => CollectBlocks \subseteq seen \cup missed

PageInv == PageIds /\ ChipInv /\ TriedInv /\ ReachInv

-----------------------------------------------------------------------------
LEMMA PageStarts == PageInit => PageInv
<1> SUFFICES ASSUME PageInit PROVE PageInv OBVIOUS
<1> USE DEF PageInit
<1>1. Chipped = {} BY DEF Chipped
<1> QED BY <1>1 DEF PageInv, PageIds, ChipInv, TriedInv, ReachInv

LEMMA PageStays == ASSUME PageInv, UNCHANGED pageVars PROVE PageInv'
<1> USE DEF pageVars
<1>1. Chipped' = Chipped BY DEF Chipped
<1>2. CollectBlocks' = CollectBlocks BY <1>1 DEF CollectBlocks
<1>3. PageIds' BY DEF PageInv, PageIds, PageScans
<1>4. ChipInv' BY <1>1 DEF PageInv, ChipInv
<1>5. TriedInv' BY <1>1 DEF PageInv, TriedInv, Settled, OpensWith, Asks
<1> QED BY <1>2, <1>3, <1>4, <1>5 DEF PageInv, ReachInv

\* Two blocks of one list have different indices.
LEMMA IndexTells ==
  ASSUME NEW blocks \in SUBSET Places, NEW p \in blocks, NEW q \in blocks, IndexIn(blocks, p) = IndexIn(blocks, q)
  PROVE  p = q
<1>1. IsFiniteSet(blocks) /\ blocks \subseteq Nat BY PageAssumption, FS_Subset
<1> DEFINE upTo(r) == {b \in blocks : b <= r}
<1>2. ASSUME NEW r \in blocks, NEW t \in blocks, r < t PROVE IndexIn(blocks, r) # IndexIn(blocks, t)
  <2>0. r \in Nat /\ t \in Nat BY <1>1
  <2>1. upTo(r) \subseteq upTo(t) /\ t \in upTo(t) /\ t \notin upTo(r)
    <3>1. \A b \in blocks : b \in Nat /\ (b <= r => b <= t) BY <1>1, <1>2, <2>0
    <3>2. t <= t /\ ~(t <= r) BY <1>2, <2>0
    <3> QED BY <3>1, <3>2
  <2>2. IsFiniteSet(upTo(t)) BY <1>1, FS_Subset
  <2>3. Cardinality(upTo(r)) # Cardinality(upTo(t)) BY <2>1, <2>2, FS_Subset
  <2> QED BY <2>3 DEF IndexIn
<1> QED BY <1>1, <1>2

LEMMA IndexIsNat == ASSUME NEW blocks \in SUBSET Places, NEW p PROVE IndexIn(blocks, p) \in Nat
BY PageAssumption, FS_Subset, FS_CardinalityType DEF IndexIn

LEMMA CandidatesAre ==
  ASSUME NEW blocks \in SUBSET Places
  PROVE  /\ FindCandidates(blocks) \in SUBSET PageFinds
         /\ \A c \in FindCandidates(blocks) : c.text \in blocks /\ c.i = IndexIn(blocks, c.text)
BY IndexIsNat DEF FindCandidates, PageFinds

\* A scan that takes marks off blocks without a chip at most, and looks at all
\* within its reach that carries none.
LEMMA ScanKeeps ==
  ASSUME PageInv, NEW marks, marks \subseteq seen, seen \cap Chipped \subseteq marks, Scan(marks),
         UNCHANGED <<here, chips, ring, texts, shown>>,
         ~notice' => ~notice \/ marks \subseteq Chipped
  PROVE  PageInv'
<1> DEFINE blocks == CollectBlocks \ marks
           queue == FindCandidates(blocks)
           cut == blocks \ {c.text : c \in queue}
           new == [n |-> started + 1, blocks |-> blocks, queue |-> queue, frames |-> {},
                   keys |-> {}, opened |-> {}, at |-> "decoding"]
<1>1. Chipped' = Chipped BY DEF Chipped
<1>2. CollectBlocks' = CollectBlocks BY <1>1 DEF CollectBlocks
<1>3. blocks \in SUBSET Places BY DEF PageInv, PageIds, CollectBlocks
<1>4. queue \in SUBSET PageFinds /\ \A c \in queue : c.text \in blocks /\ c.i = IndexIn(blocks, c.text)
  BY <1>3, CandidatesAre
<1>5. \/ blocks = {} /\ seen' = marks /\ UNCHANGED <<scans, started, missed>>
      \/ /\ started' = started + 1 /\ seen' = marks \cup blocks
         /\ scans' = scans \cup {new}
         /\ missed' = (missed \ blocks) \cup {p \in cut : IsPost(p)}
  BY DEF Scan
<1>6. \A p \in cut : ~IsPost(p) => ~OpensWith(p, ring, TRUE) BY DEF IsPost, OpensWith
<1>7. \A p \in blocks \ cut : \E c \in queue : c.text = p OBVIOUS
<1>8. seen' = marks \cup blocks BY <1>5
<1>9. new.n = started + 1 /\ new.blocks = blocks /\ new.queue = queue /\ new.frames = {} /\ new.opened = {}
      /\ new.keys = {} /\ new.at = "decoding"
  OBVIOUS
<1>10. new \in PageScans
  <2>1. started + 1 \in Nat BY DEF PageInv, PageIds
  <2> HIDE DEF blocks, queue
  <2> QED BY <1>3, <1>4, <2>1 DEF PageScans
<1> HIDE DEF blocks, queue, cut, new
<1>11. RightlyIndexed(new) BY <1>4, <1>9 DEF RightlyIndexed
<1>12. PageIds'
  <2>1. CASE UNCHANGED <<scans, started>> BY <2>1 DEF PageInv, PageIds
  <2>2. CASE started' = started + 1 /\ scans' = scans \cup {new}
    <3>1. /\ here' \subseteq Places /\ scans' \subseteq PageScans /\ started' \in Nat /\ ring' \subseteq {"pass", "token"}
          /\ \A s \in scans' : s.n <= started' /\ RightlyIndexed(s)
      <4>1. \A s \in scans : s.n \in Nat BY DEF PageInv, PageIds, PageScans
      <4> QED BY <1>9, <1>10, <1>11, <2>2, <4>1 DEF PageInv, PageIds
    <3>2. \A s \in scans : s.n # new.n BY <1>9 DEF PageInv, PageIds, PageScans
    <3>3. \A s, t \in scans' : s.n = t.n => s = t BY <2>2, <3>2 DEF PageInv, PageIds
    <3>4. \A t \in texts : t.id[1] <= started' /\ t.id[1] # new.n
      BY <1>9, <2>2 DEF PageInv, PageIds
    <3>5. \A s \in scans' : s.at # "answered" => \A t \in texts : t.id[1] # s.n
      BY <2>2, <3>4 DEF PageInv, PageIds
    <3>6. \A s \in scans' : s.at = "answered" => \A c \in s.opened : [id |-> <<s.n, c.i>>, text |-> c.text] \in texts
      BY <1>9, <2>2 DEF PageInv, PageIds
    <3> QED BY <3>1, <3>3, <3>4, <3>5, <3>6 DEF PageInv, PageIds
  <2> QED BY <1>5, <2>1, <2>2
<1>13. ChipInv' BY <1>1 DEF PageInv, ChipInv
<1>14. TriedInv'
  <2> SUFFICES ASSUME ~notice', NEW p \in seen' \ Chipped' PROVE Settled(p)' \/ \E s \in scans' : Asks(s, p, ring')
    BY DEF TriedInv
  <2>1. CASE p \in blocks
    <3>1. new \in scans' /\ missed' = (missed \ blocks) \cup {q \in cut : IsPost(q)} BY <1>5, <2>1
    <3>2. CASE p \in cut
      <4>1. p \in missed' \/ ~OpensWith(p, ring, TRUE) BY <1>6, <3>1, <3>2
      <4> QED BY <4>1 DEF Settled, OpensWith
    <3>3. CASE p \notin cut
      <4>1. PICK c \in queue : c.text = p BY <1>7, <2>1, <3>3
      <4>2. Asks(new, p, ring') BY <1>9, <4>1 DEF Asks
      <4> QED BY <3>1, <4>2
    <3> QED BY <3>2, <3>3
  <2>2. CASE p \notin blocks
    <3>1. p \in marks /\ p \notin Chipped BY <1>1, <1>8, <2>2
    <3>2. ~notice /\ p \in seen BY <3>1
    <3>3. Settled(p) \/ \E s \in scans : Asks(s, p, ring) BY <1>1, <3>1, <3>2 DEF PageInv, TriedInv
    <3>4. Settled(p) => Settled(p)' BY <1>5, <2>2 DEF Settled, OpensWith
    <3>5. \A s \in scans : Asks(s, p, ring) => s \in scans' /\ Asks(s, p, ring') BY <1>5 DEF Asks
    <3> QED BY <3>3, <3>4, <3>5
  <2> QED BY <2>1, <2>2
<1>15. ReachInv'
  <2>1. CollectBlocks' \subseteq seen' BY <1>2, <1>8 DEF blocks
  <2> QED BY <2>1 DEF ReachInv
<1> QED BY <1>12, <1>13, <1>14, <1>15 DEF PageInv

\* A scan goes on as t; when it is answered its texts are kept under its ids.
LEMMA MoveKeeps ==
  ASSUME PageInv, NEW s \in scans, s.at # "answered", NEW t \in PageScans, scans' = (scans \ {s}) \cup {t},
         t.n = s.n, t.blocks = s.blocks, RightlyIndexed(t),
         texts' = IF t.at = "answered" THEN texts \cup {[id |-> <<s.n, c.i>>, text |-> c.text] : c \in t.opened}
                  ELSE texts,
         UNCHANGED <<here, auto, timer, seen, chips, started, ring, notice, shown>>, missed \subseteq missed',
         \A p \in Places : Asks(s, p, ring) => Asks(t, p, ring) \/ p \in missed' \/ ~OpensWith(p, ring, TRUE)
  PROVE  PageInv'
<1>1. Chipped' = Chipped BY DEF Chipped
<1>2. CollectBlocks' = CollectBlocks BY <1>1 DEF CollectBlocks
<1> DEFINE pairs(c) == [id |-> <<s.n, c.i>>, text |-> c.text]
<1>3. /\ s.n \in Nat /\ t.opened \in SUBSET PageFinds /\ t.blocks \in SUBSET Places
      /\ \A c \in t.opened : c.text \in t.blocks /\ c.i = IndexIn(t.blocks, c.text) /\ c.i \in Nat /\ c.text \in Places
  BY DEF PageInv, PageIds, PageScans, PageFinds, RightlyIndexed
<1>4. \A c \in t.opened : pairs(c).id = <<s.n, c.i>> /\ pairs(c).text = c.text /\ pairs(c).id[1] = s.n
      /\ pairs(c) \in [id : Nat \X Nat, text : Places]
  BY <1>3
<1>5. ASSUME NEW c \in t.opened, NEW d \in t.opened, pairs(c).id = pairs(d).id PROVE pairs(c) = pairs(d)
  <2>1. c.i = d.i BY <1>5
  <2>2. c.text = d.text BY <1>3, <2>1, IndexTells
  <2> QED BY <2>1, <2>2
<1> DEFINE kept == IF t.at = "answered" THEN {pairs(c) : c \in t.opened} ELSE {}
<1>6. texts' = texts \cup kept OBVIOUS
<1>7. \A k \in kept : k.id[1] = s.n /\ k \in [id : Nat \X Nat, text : Places] BY <1>4
<1>8. \A j, k \in kept : j.id = k.id => j = k BY <1>5
<1>9. t.at = "answered" => \A c \in t.opened : [id |-> <<t.n, c.i>>, text |-> c.text] \in texts' BY <1>6
<1>17. t.at # "answered" => kept = {} OBVIOUS
<1> HIDE DEF kept, pairs
<1>10. s.n <= started /\ \A k \in texts : k.id[1] # s.n BY DEF PageInv, PageIds
<1>11. PageIds'
  <2>1. /\ here' \subseteq Places /\ scans' \subseteq PageScans /\ started' \in Nat /\ ring' \subseteq {"pass", "token"}
        /\ \A r \in scans' : r.n <= started' /\ RightlyIndexed(r)
    BY <1>10 DEF PageInv, PageIds
  <2>2. \A q, r \in scans' : q.n = r.n => q = r BY DEF PageInv, PageIds
  <2>3. texts' \subseteq [id : Nat \X Nat, text : Places] /\ \A k \in texts' : k.id[1] <= started'
    BY <1>6, <1>7, <1>10 DEF PageInv, PageIds
  <2>4. \A j, k \in texts' : j.id = k.id => j = k
    <3>1. \A j \in texts, k \in kept : j.id # k.id BY <1>7, <1>10
    <3> QED BY <1>6, <1>8, <3>1 DEF PageInv, PageIds
  <2>5. \A r \in scans' : r.at # "answered" => \A k \in texts' : k.id[1] # r.n
    <3> SUFFICES ASSUME NEW r \in scans', r.at # "answered", NEW k \in texts' PROVE k.id[1] # r.n OBVIOUS
    <3>1. CASE r = t BY <1>6, <1>10, <1>17, <3>1
    <3>2. CASE r # t
      <4>1. r \in scans /\ r # s BY <3>2
      <4>2. r.n # s.n BY <4>1 DEF PageInv, PageIds
      <4> QED BY <1>6, <1>7, <4>1, <4>2 DEF PageInv, PageIds
    <3> QED BY <3>1, <3>2
  <2>6. \A r \in scans' : r.at = "answered" => \A c \in r.opened : [id |-> <<r.n, c.i>>, text |-> c.text] \in texts'
    <3> SUFFICES ASSUME NEW r \in scans', r.at = "answered", NEW c \in r.opened
                 PROVE  [id |-> <<r.n, c.i>>, text |-> c.text] \in texts'
      OBVIOUS
    <3>1. CASE r = t BY <1>9, <3>1
    <3>2. CASE r # t
      <4>1. r \in scans BY <3>2
      <4>2. [id |-> <<r.n, c.i>>, text |-> c.text] \in texts BY <4>1 DEF PageInv, PageIds
      <4> QED BY <1>6, <4>2
    <3> QED BY <3>1, <3>2
  <2> QED BY <2>1, <2>2, <2>3, <2>4, <2>5, <2>6 DEF PageIds
<1>12. ChipInv'
  <2>1. \A p \in Chipped : [id |-> chips[p][1], text |-> p] \in texts BY DEF PageInv, ChipInv
  <2> QED BY <1>1, <1>6, <2>1 DEF PageInv, ChipInv
<1>13. TriedInv'
  <2> SUFFICES ASSUME ~notice', NEW p \in seen' \ Chipped' PROVE Settled(p)' \/ \E r \in scans' : Asks(r, p, ring')
    BY DEF TriedInv
  <2>1. Settled(p) \/ \E r \in scans : Asks(r, p, ring) BY <1>1 DEF PageInv, TriedInv
  <2>2. CASE Settled(p) BY <2>2 DEF Settled, OpensWith
  <2>3. ASSUME NEW r \in scans, Asks(r, p, ring) PROVE Settled(p)' \/ \E q \in scans' : Asks(q, p, ring')
    <3>1. CASE r # s BY <2>3, <3>1
    <3>2. CASE r = s
      <4>1. p \in Places
        BY <2>3, <3>2 DEF PageInv, PageIds, PageScans, PageFinds, Asks
      <4>2. Asks(t, p, ring) \/ p \in missed' \/ ~OpensWith(p, ring, TRUE) BY <2>3, <3>2, <4>1
      <4> QED BY <4>2 DEF Settled, OpensWith
    <3> QED BY <3>1, <3>2
  <2> QED BY <2>1, <2>2, <2>3
<1>14. ReachInv'
  <2>1. auto /\ ~timer => CollectBlocks \subseteq seen \cup missed BY DEF PageInv, ReachInv
  <2> QED BY <1>2, <2>1 DEF ReachInv
<1> QED BY <1>11, <1>12, <1>13, <1>14 DEF PageInv

LEMMA DecodeKeeps == ASSUME PageInv, NEW s \in scans, DecodeNext(s) PROVE PageInv'
<1>1. s \in PageScans /\ s.at = "decoding" /\ RightlyIndexed(s) BY DEF PageInv, PageIds, DecodeNext
<1>2. PICK c \in s.queue :
        \/ /\ IsPost(c.text)
           /\ Move(s, [[s EXCEPT !.queue = @ \ {c}] EXCEPT !.frames = @ \cup {c}])
           /\ UNCHANGED missed
        \/ /\ ~IsPost(c.text)
           /\ Move(s, [s EXCEPT !.queue = @ \ {c}])
           /\ UNCHANGED missed
        \/ /\ IsPost(c.text)
           /\ Move(s, [s EXCEPT !.queue = @ \ {c}])
           /\ missed' = missed \cup {c.text}
  BY DEF DecodeNext
<1>3. UNCHANGED <<here, auto, timer, seen, chips, started, ring, notice, texts, shown>> /\ missed \subseteq missed'
  BY <1>2 DEF DecodeNext
<1> DEFINE found == [[s EXCEPT !.queue = @ \ {c}] EXCEPT !.frames = @ \cup {c}]
           skipped == [s EXCEPT !.queue = @ \ {c}]
<1>4. /\ found \in PageScans /\ found.n = s.n /\ found.blocks = s.blocks /\ found.at = "decoding"
      /\ found.queue = s.queue \ {c} /\ found.frames = s.frames \cup {c} /\ found.opened = s.opened
  BY <1>1 DEF PageScans
<1>5. /\ skipped \in PageScans /\ skipped.n = s.n /\ skipped.blocks = s.blocks /\ skipped.at = "decoding"
      /\ skipped.queue = s.queue \ {c} /\ skipped.frames = s.frames /\ skipped.opened = s.opened
  BY <1>1 DEF PageScans
<1>6. CASE IsPost(c.text) /\ Move(s, found)
  <2> HIDE DEF found
  <2>1. RightlyIndexed(found) BY <1>1, <1>4 DEF RightlyIndexed
  <2>2. \A p \in Places : Asks(s, p, ring) => Asks(found, p, ring) BY <1>1, <1>4 DEF Asks
  <2>3. scans' = (scans \ {s}) \cup {found} /\ "decoding" # "answered" BY <1>6 DEF Move
  <2> QED BY <1>1, <1>3, <1>4, <2>1, <2>2, <2>3, MoveKeeps
<1>7. CASE Move(s, skipped) /\ (~IsPost(c.text) \/ c.text \in missed')
  <2> HIDE DEF skipped
  <2>1. RightlyIndexed(skipped) BY <1>1, <1>5 DEF RightlyIndexed
  <2>2. ~IsPost(c.text) => ~OpensWith(c.text, ring, TRUE) BY DEF IsPost, OpensWith
  <2>3. \A p \in Places : Asks(s, p, ring) => Asks(skipped, p, ring) \/ p = c.text BY <1>1, <1>5 DEF Asks
  <2>4. scans' = (scans \ {s}) \cup {skipped} /\ "decoding" # "answered" BY <1>7 DEF Move
  <2>5. \A p \in Places : Asks(s, p, ring) => Asks(skipped, p, ring) \/ p \in missed' \/ ~OpensWith(p, ring, TRUE)
    BY <1>7, <2>2, <2>3
  <2> QED BY <1>1, <1>3, <1>5, <2>1, <2>4, <2>5, MoveKeeps
<1> QED BY <1>2, <1>6, <1>7

LEMMA ReadRingKeeps == ASSUME PageInv, NEW s \in scans, ReadRing(s) PROVE PageInv'
<1>1. s \in PageScans /\ s.at = "decoding" /\ s.queue = {} /\ RightlyIndexed(s) /\ ring \subseteq {"pass", "token"}
  BY DEF PageInv, PageIds, ReadRing
<1> DEFINE t == [s EXCEPT !.at = "asking", !.keys = ring]
<1>2. /\ t \in PageScans /\ t.n = s.n /\ t.blocks = s.blocks /\ t.at = "asking" /\ t.keys = ring
      /\ t.queue = s.queue /\ t.frames = s.frames /\ t.opened = s.opened
  BY <1>1 DEF PageScans
<1>3. scans' = (scans \ {s}) \cup {t} BY DEF ReadRing, Move
<1> HIDE DEF t
<1>4. RightlyIndexed(t) BY <1>1, <1>2 DEF RightlyIndexed
<1>5. \A p \in Places : Asks(s, p, ring) => Asks(t, p, ring) BY <1>1, <1>2 DEF Asks
<1>6. "decoding" # "answered" /\ "asking" # "answered" OBVIOUS
<1> QED BY <1>1, <1>2, <1>3, <1>4, <1>5, <1>6, MoveKeeps DEF ReadRing

LEMMA OpenCandidatesKeeps == ASSUME PageInv, NEW s \in scans, OpenCandidates(s) PROVE PageInv'
<1>1. s \in PageScans /\ s.at = "asking" /\ RightlyIndexed(s) BY DEF PageInv, PageIds, OpenCandidates
<1>2. PICK gate \in BOOLEAN :
        LET opened == {c \in s.frames : OpensWith(c.text, s.keys, gate)} IN
        /\ Move(s, [s EXCEPT !.at = "answered", !.opened = opened])
        /\ texts' = texts \cup {[id |-> <<s.n, c.i>>, text |-> c.text] : c \in opened}
        /\ missed' = missed \cup (IF gate THEN {} ELSE {c.text : c \in s.frames \ opened})
  BY DEF OpenCandidates
<1> DEFINE opened == {c \in s.frames : OpensWith(c.text, s.keys, gate)}
           t == [s EXCEPT !.at = "answered", !.opened = opened]
<1>3. scans' = (scans \ {s}) \cup {t} BY <1>2 DEF Move
<1>4. opened \subseteq s.frames OBVIOUS
<1>5. gate => \A c \in s.frames \ opened : ~OpensWith(c.text, s.keys, TRUE)
  BY DEF OpensWith
<1>6. /\ texts' = texts \cup {[id |-> <<s.n, c.i>>, text |-> c.text] : c \in opened}
      /\ missed \subseteq missed' /\ (~gate => \A c \in s.frames \ opened : c.text \in missed')
  BY <1>2
<1> HIDE DEF opened
<1>7. /\ t \in PageScans /\ t.n = s.n /\ t.blocks = s.blocks /\ t.at = "answered" /\ t.opened = opened
      /\ t.queue = s.queue /\ t.frames = s.frames
  BY <1>1, <1>4 DEF PageScans
<1> HIDE DEF t
<1>8. RightlyIndexed(t) BY <1>1, <1>4, <1>7 DEF RightlyIndexed
<1>9. ASSUME NEW p \in Places, Asks(s, p, ring)
      PROVE  Asks(t, p, ring) \/ p \in missed' \/ ~OpensWith(p, ring, TRUE)
  <2>1. PICK c : c.text = p /\ c \in s.frames /\ s.keys = ring BY <1>1, <1>9 DEF Asks
  <2>2. CASE c \in opened BY <1>7, <2>1, <2>2 DEF Asks
  <2>3. CASE c \notin opened BY <1>5, <1>6, <2>1, <2>3
  <2> QED BY <2>2, <2>3
<1>10. "asking" # "answered" OBVIOUS
<1> QED BY <1>1, <1>3, <1>6, <1>7, <1>8, <1>9, <1>10, MoveKeeps DEF OpenCandidates

\* Chips come where the scan's blocks are, each with the id of its text.
LEMMA AddChipsKeeps == ASSUME PageInv, NEW s \in scans, AddChips(s) PROVE PageInv'
<1> DEFINE Of(p) == {c \in s.opened : p \in s.blocks /\ IndexIn(s.blocks, p) = c.i /\ chips[p] = <<>>}
<1>1. /\ scans' = scans \ {s}
      /\ chips' = [p \in Places |-> IF Of(p) = {} THEN chips[p] ELSE << <<s.n, (CHOOSE c \in Of(p) : TRUE).i>> >>]
      /\ timer' = (timer \/ (auto /\ chips' # chips))
      /\ UNCHANGED <<here, auto, seen, started, ring, notice, texts, missed, shown>>
  BY DEF AddChips
<1>2. s \in PageScans /\ s.at = "answered" /\ RightlyIndexed(s) BY DEF PageInv, PageIds, AddChips
<1>3. ASSUME NEW p \in Places, NEW c \in Of(p) PROVE c.text = p /\ [id |-> <<s.n, c.i>>, text |-> p] \in texts
  <2>1. c \in s.opened /\ c.text \in s.blocks /\ p \in s.blocks /\ IndexIn(s.blocks, c.text) = IndexIn(s.blocks, p)
        /\ s.blocks \in SUBSET Places
    BY <1>2 DEF RightlyIndexed, PageScans
  <2>2. c.text = p BY <2>1, IndexTells
  <2>3. [id |-> <<s.n, c.i>>, text |-> c.text] \in texts BY <1>2, <2>1 DEF PageInv, PageIds
  <2> QED BY <2>2, <2>3
<1>4. ASSUME NEW p \in Places, Of(p) # {}
      PROVE  chips'[p] # <<>> /\ [id |-> chips'[p][1], text |-> p] \in texts
  <2>1. PICK c \in Of(p) : chips'[p] = << <<s.n, c.i>> >> BY <1>1, <1>4
  <2>2. chips'[p][1] = <<s.n, c.i>> /\ chips'[p] # <<>> BY <2>1
  <2> QED BY <1>3, <2>1, <2>2
<1>5. \A p \in Places : Of(p) = {} => chips'[p] = chips[p] BY <1>1
<1>6. Chipped \subseteq Chipped' BY <1>4, <1>5 DEF Chipped
<1>7. PageIds' BY <1>1 DEF PageInv, PageIds
<1>8. ChipInv'
  <2>1. \A p \in Chipped' : [id |-> chips'[p][1], text |-> p] \in texts'
    <3> SUFFICES ASSUME NEW p \in Chipped' PROVE [id |-> chips'[p][1], text |-> p] \in texts BY <1>1
    <3>1. p \in Places BY DEF Chipped
    <3>2. CASE Of(p) = {}
      <4>1. chips'[p] = chips[p] /\ p \in Chipped BY <1>5, <3>1, <3>2 DEF Chipped
      <4> QED BY <4>1 DEF PageInv, ChipInv
    <3> QED BY <1>4, <3>1, <3>2
  <2>2. DOMAIN chips' = Places BY <1>1
  <2> QED BY <1>1, <2>1, <2>2 DEF PageInv, ChipInv
<1>9. TriedInv'
  <2> SUFFICES ASSUME ~notice', NEW p \in seen' \ Chipped' PROVE Settled(p)' \/ \E r \in scans' : Asks(r, p, ring')
    BY DEF TriedInv
  <2>1. Settled(p) \/ \E r \in scans : Asks(r, p, ring) BY <1>1, <1>6 DEF PageInv, TriedInv
  <2>2. CASE Settled(p) BY <1>1, <2>2 DEF Settled, OpensWith
  <2>3. ASSUME NEW r \in scans, Asks(r, p, ring) PROVE \E q \in scans' : Asks(q, p, ring')
    <3>1. CASE r # s BY <1>1, <2>3, <3>1
    <3>2. CASE r = s
      <4>1. PICK c \in s.opened : c.text = p BY <1>2, <2>3, <3>2 DEF Asks
      <4>2. p \in Places /\ p \in s.blocks /\ c.i = IndexIn(s.blocks, p)
        BY <1>2, <4>1 DEF RightlyIndexed, PageScans
      <4>3. chips[p] = <<>> BY <1>6, <4>2 DEF Chipped
      <4>4. c \in Of(p) BY <4>2, <4>3
      <4>5. p \in Chipped' BY <1>4, <4>2, <4>4 DEF Chipped
      <4> QED BY <4>5
    <3> QED BY <3>1, <3>2
  <2> QED BY <2>1, <2>2, <2>3
<1>10. ReachInv'
  <2>1. CASE auto' /\ ~timer'
    <3>1. auto /\ ~timer /\ chips' = chips BY <1>1, <2>1
    <3>2. CollectBlocks' = CollectBlocks BY <1>1, <3>1 DEF CollectBlocks, Chipped
    <3> QED BY <1>1, <3>1, <3>2 DEF PageInv, ReachInv
  <2> QED BY <2>1 DEF ReachInv
<1> QED BY <1>7, <1>8, <1>9, <1>10 DEF PageInv

LEMMA WorkerStopsKeeps == ASSUME PageInv, WorkerStops PROVE PageInv'
<1> DEFINE lost == {s \in scans : s.at # "answered"}
           blocks == UNION {s.blocks : s \in lost}
<1>1. /\ scans' = scans \ lost /\ seen' = seen \ blocks /\ missed' = missed \cup blocks
      /\ UNCHANGED <<here, auto, timer, chips, started, ring, notice, texts, shown>>
  BY DEF WorkerStops
<1>2. Chipped' = Chipped BY <1>1 DEF Chipped
<1>3. CollectBlocks' = CollectBlocks BY <1>1, <1>2 DEF CollectBlocks
<1>4. PageIds' BY <1>1 DEF PageInv, PageIds
<1>5. ChipInv' BY <1>1, <1>2 DEF PageInv, ChipInv
<1>6. TriedInv'
  <2> SUFFICES ASSUME ~notice', NEW p \in seen' \ Chipped' PROVE Settled(p)' \/ \E r \in scans' : Asks(r, p, ring')
    BY DEF TriedInv
  <2>1. Settled(p) \/ \E r \in scans : Asks(r, p, ring) BY <1>1, <1>2 DEF PageInv, TriedInv
  <2>2. CASE Settled(p) BY <1>1, <2>2 DEF Settled, OpensWith
  <2>3. ASSUME NEW r \in scans, Asks(r, p, ring) PROVE \E q \in scans' : Asks(q, p, ring')
    <3>1. RightlyIndexed(r) BY DEF PageInv, PageIds
    <3>2. p \in r.blocks BY <2>3, <3>1 DEF Asks, RightlyIndexed
    <3>3. r \notin lost BY <1>1, <3>2
    <3> QED BY <1>1, <2>3, <3>3
  <2> QED BY <2>1, <2>2, <2>3
<1>7. ReachInv' BY <1>1, <1>3 DEF PageInv, ReachInv
<1> QED BY <1>4, <1>5, <1>6, <1>7 DEF PageInv

LEMMA ArriveKeeps == ASSUME PageInv, Arrive PROVE PageInv'
<1>1. here' \subseteq Places BY DEF Arrive, PageInv, PageIds
<1>2. /\ timer' = (timer \/ auto)
      /\ UNCHANGED <<auto, seen, chips, scans, started, ring, notice, texts, missed, shown>>
  BY DEF Arrive
<1>3. Chipped' = Chipped BY <1>2 DEF Chipped
<1>4. PageIds' BY <1>1, <1>2 DEF PageInv, PageIds
<1>5. ChipInv' BY <1>2, <1>3 DEF PageInv, ChipInv
<1>6. TriedInv' BY <1>2, <1>3 DEF PageInv, TriedInv, Settled, OpensWith, Asks
<1>7. ReachInv' BY <1>2 DEF ReachInv
<1> QED BY <1>4, <1>5, <1>6, <1>7 DEF PageInv

LEMMA RingChangesKeeps == ASSUME PageInv, RingChanges PROVE PageInv'
<1>1. notice' /\ ring' \subseteq {"pass", "token"} /\ UNCHANGED <<here, auto, timer, seen, chips, scans, started, texts, missed, shown>>
  BY DEF RingChanges
<1>2. Chipped' = Chipped BY <1>1 DEF Chipped
<1>3. CollectBlocks' = CollectBlocks BY <1>1, <1>2 DEF CollectBlocks
<1>4. PageIds' BY <1>1 DEF PageInv, PageIds
<1>5. ChipInv' BY <1>1, <1>2 DEF PageInv, ChipInv
<1>6. TriedInv' BY <1>1 DEF TriedInv
<1>7. ReachInv' BY <1>1, <1>3 DEF PageInv, ReachInv
<1> QED BY <1>4, <1>5, <1>6, <1>7 DEF PageInv

LEMMA RingChangedKeeps == ASSUME PageInv, RingChanged PROVE PageInv'
<1>1. notice /\ ~notice' /\ UNCHANGED <<here, auto, timer, chips, ring, texts, shown>> BY DEF RingChanged
<1>2. CASE seen \subseteq Chipped /\ UNCHANGED <<seen, scans, started, missed>>
  <2>1. Chipped' = Chipped BY <1>1 DEF Chipped
  <2>2. CollectBlocks' = CollectBlocks BY <1>1, <2>1 DEF CollectBlocks
  <2>3. PageIds' BY <1>1, <1>2 DEF PageInv, PageIds
  <2>4. ChipInv' BY <1>1, <2>1 DEF PageInv, ChipInv
  <2>5. TriedInv' BY <1>2, <2>1 DEF TriedInv
  <2>6. ReachInv' BY <1>1, <1>2, <2>2 DEF PageInv, ReachInv
  <2> QED BY <2>3, <2>4, <2>5, <2>6 DEF PageInv
<1>3. CASE Scan(seen \cap Chipped)
  <2> DEFINE marks == seen \cap Chipped
  <2>1. marks \subseteq seen /\ seen \cap Chipped \subseteq marks /\ marks \subseteq Chipped /\ Scan(marks) BY <1>3
  <2> HIDE DEF marks
  <2> QED BY <1>1, <2>1, ScanKeeps
<1> QED BY <1>2, <1>3 DEF RingChanged

\* The card shows the one text of the chip's id.
LEMMA TextsAreTheirs == ASSUME PageInv, NEW p \in Chipped PROVE TextOf(p) = p
<1> DEFINE e == [id |-> chips[p][1], text |-> p]
<1>1. e \in texts /\ e.id = chips[p][1] /\ e.text = p BY DEF PageInv, ChipInv
<1> HIDE DEF e
<1>2. \A t \in texts : t.id = chips[p][1] => t = e BY <1>1 DEF PageInv, PageIds
<1>3. (CHOOSE t \in texts : t.id = chips[p][1]) = e BY <1>1, <1>2
<1> QED BY <1>1, <1>3 DEF TextOf

LEMMA OpenChipKeeps == ASSUME PageInv, OpenChip PROVE PageInv'
<1>1. PICK p \in Chipped : shown' = <<p, TextOf(p)>> BY DEF OpenChip
<1>2. shown'[1] = shown'[2] BY <1>1, TextsAreTheirs
<1>3. UNCHANGED <<here, auto, timer, seen, chips, scans, started, ring, notice, texts, missed>> BY DEF OpenChip
<1>4. Chipped' = Chipped BY <1>3 DEF Chipped
<1>5. CollectBlocks' = CollectBlocks BY <1>3, <1>4 DEF CollectBlocks
<1>6. PageIds' BY <1>3 DEF PageInv, PageIds
<1>7. ChipInv' BY <1>2, <1>3, <1>4 DEF PageInv, ChipInv
<1>8. TriedInv' BY <1>3, <1>4 DEF PageInv, TriedInv, Settled, OpensWith, Asks
<1>9. ReachInv' BY <1>3, <1>5 DEF PageInv, ReachInv
<1> QED BY <1>6, <1>7, <1>8, <1>9 DEF PageInv

LEMMA PageKeeps == ASSUME PageInv, PageNext PROVE PageInv'
<1>1. CASE Arrive BY <1>1, ArriveKeeps
<1>2. CASE AutoScan \/ TimerFires
  <2>1. Scan(seen) /\ UNCHANGED <<here, chips, ring, notice, texts, shown>> BY <1>2 DEF AutoScan, TimerFires
  <2>2. seen \subseteq seen /\ seen \cap Chipped \subseteq seen OBVIOUS
  <2> QED BY <2>1, <2>2, ScanKeeps
<1>3. CASE ManualScan
  <2> DEFINE marks == seen \cap Chipped
  <2>1. Scan(marks) /\ UNCHANGED <<here, chips, ring, notice, texts, shown>> BY <1>3 DEF ManualScan
  <2>2. marks \subseteq seen /\ seen \cap Chipped \subseteq marks OBVIOUS
  <2> HIDE DEF marks
  <2> QED BY <2>1, <2>2, ScanKeeps
<1>4. ASSUME NEW s \in scans, DecodeNext(s) PROVE PageInv' BY <1>4, DecodeKeeps
<1>5. ASSUME NEW s \in scans, ReadRing(s) PROVE PageInv' BY <1>5, ReadRingKeeps
<1>6. ASSUME NEW s \in scans, OpenCandidates(s) PROVE PageInv' BY <1>6, OpenCandidatesKeeps
<1>7. ASSUME NEW s \in scans, AddChips(s) PROVE PageInv' BY <1>7, AddChipsKeeps
<1>8. CASE WorkerStops BY <1>8, WorkerStopsKeeps
<1>9. CASE RingChanges BY <1>9, RingChangesKeeps
<1>10. CASE RingChanged BY <1>10, RingChangedKeeps
<1>11. CASE OpenChip BY <1>11, OpenChipKeeps
<1> QED BY <1>1, <1>2, <1>3, <1>4, <1>5, <1>6, <1>7, <1>8, <1>9, <1>10, <1>11 DEF PageNext

LEMMA PageIsSound == PageInv => ChipsAreTheirs /\ ShutMeansTried /\ NothingOverlooked
<1> SUFFICES ASSUME PageInv PROVE ChipsAreTheirs /\ ShutMeansTried /\ NothingOverlooked OBVIOUS
<1>1. ChipsAreTheirs BY TextsAreTheirs DEF PageInv, ChipInv, ChipsAreTheirs
<1>2. ASSUME ~notice, NEW p \in seen \ (Chipped \cup InFlight \cup missed) PROVE ~OpensWith(p, ring, TRUE)
  <2>1. Settled(p) \/ \E s \in scans : Asks(s, p, ring) BY <1>2 DEF PageInv, TriedInv
  <2>2. ASSUME NEW s \in scans, Asks(s, p, ring) PROVE FALSE
    <3>1. RightlyIndexed(s) BY DEF PageInv, PageIds
    <3>2. p \in s.blocks BY <2>2, <3>1 DEF Asks, RightlyIndexed
    <3> QED BY <1>2, <3>2 DEF InFlight
  <2> QED BY <1>2, <2>1, <2>2 DEF Settled
<1>3. NothingOverlooked BY DEF PageInv, ReachInv, NothingOverlooked
<1> QED BY <1>1, <1>2, <1>3 DEF ShutMeansTried

-----------------------------------------------------------------------------
(***************************************************************************)
(* The sheet.                                                              *)
(***************************************************************************)

PresetChecks == UNION {PresetGroups(p) : p \in Ready \cup {"public"}}
SheetChecks == PresetChecks \cup {"public"}
SheetArgs == Passphrases \cup Labels \cup Known \cup {"", "SVK", "date"}
SheetDrafts == [check : SheetChecks, arg : SheetArgs]
SheetPolicies == SUBSET SUBSET SheetDrafts
SheetCalls == [n : Nat, at : {"spaces", "gate", "sign", "seal", "encode"}, text : Texts \cup {""},
               todo : SUBSET SheetDrafts, policy : SheetPolicies, signed : Known \cup {""}]

\* The rules a post may be locked under, whatever the gate says of them.
SheetRules(rules) == rules \in SheetPolicies /\ rules # {} /\ {} \notin rules
Finished(rules) == SheetRules(rules) /\ \A d \in UNION rules : Complete(d)

\* A call that has read the rules has complete ones, and one that has asked the
\* gate keeps to what it runs.
CallInv(g) ==
  /\ g.at # "spaces" => Finished(g.policy)
  /\ g.at \in {"sign", "seal", "encode"} => Gated(g.policy) \subseteq GateRuns
LockInv ==
  /\ SheetRules(groups) /\ goes \subseteq SheetCalls /\ presses \in Nat
  /\ signAs \in Known \cup {""} /\ msg \in Texts \cup {""} /\ lastWho \in Ready \cup {"public"}
  /\ \A g \in goes : CallInv(g)

\* As long as the author types nothing more, all calls are about the text in
\* the sheet, until its cover clears it.
TextInv ==
  /\ covers \in Seq(Texts \cup {""})
  /\ goes # {} => pressed # ""
  /\ ~touched /\ pressed # "" =>
       /\ \A g \in goes : g.text = pressed
       /\ msg = pressed \/ (msg = "" /\ \E c \in DOMAIN covers : covers[c] = pressed)

\* The last message of this frame on its way to the page has the last cover.
Ours(m) == m.from = frameNo
Inserted == \E b \in Boxes : boxes[b] \in {ToString(lastCover), "gone"}
PageMsgInv ==
  /\ lastCover \in Nat /\ frameNo \in Nat /\ frames \in Nat /\ frameNo <= frames
  /\ toPage \in Seq([from : Nat, cover : Nat])
  /\ \A i \in DOMAIN toPage : toPage[i].from \in 1..frames
  /\ (\E i \in DOMAIN toPage : Ours(toPage[i])) =>
       Ours(toPage[Len(toPage)]) /\ toPage[Len(toPage)].cover = lastCover /\ lastCover # 0
  /\ goes # {} => frameNo # 0
  /\ DOMAIN boxes = Boxes \cup {"none"} /\ boxes["none"] = "gone" /\ target \in Boxes \cup {"none"}
  /\ verdict = "inserted" =>
       lastCover # 0 /\ ((\E i \in DOMAIN toPage : Ours(toPage[i])) \/ Inserted)
  /\ verdict = "homeless" => lastCover # 0

SheetInv == LockInv /\ TextInv /\ PageMsgInv

-----------------------------------------------------------------------------
\* The rules.

LEMMA FreshDraftsAre == ASSUME NEW c \in SheetChecks PROVE FreshDrafts(c) \subseteq SheetDrafts
<1>1. \A a \in SheetArgs : Draft(c, a) \in SheetDrafts BY DEF Draft, SheetDrafts
<1>2. /\ Passphrases \subseteq SheetArgs /\ {""} \cup Known \subseteq SheetArgs
      /\ "date" \in SheetArgs /\ "" \in SheetArgs
  BY DEF SheetArgs
<1>3. CASE c = "passphrase"
  <2>1. FreshDrafts(c) = {Draft(c, w) : w \in Passphrases} BY <1>3 DEF FreshDrafts, SpaceRules
  <2> QED BY <1>1, <1>2, <2>1
<1>4. CASE c = "after"
  <2>1. FreshDrafts(c) = {Draft(c, "date")} BY <1>4 DEF FreshDrafts, SpaceRules
  <2> QED BY <1>1, <1>2, <2>1
<1>5. CASE c \in SpaceRules
  <2>1. c # "passphrase" /\ c # "after" BY <1>5 DEF SpaceRules
  <2>2. FreshDrafts(c) = {Draft(c, l) : l \in {""} \cup Known} BY <1>5, <2>1 DEF FreshDrafts
  <2> QED BY <1>1, <1>2, <2>2
<1>6. CASE c # "passphrase" /\ c # "after" /\ c \notin SpaceRules
  <2>1. FreshDrafts(c) = {Draft(c, "")} BY <1>6 DEF FreshDrafts
  <2> QED BY <1>1, <1>2, <2>1
<1> QED BY <1>3, <1>4, <1>5, <1>6

LEMMA PresetsAre == ASSUME NEW p \in Ready \cup {"public"}, NEW c \in PresetGroups(p) PROVE c \in SheetChecks
BY DEF SheetChecks, PresetChecks

LEMMA FreshRules == SheetRules({{Public}})
<1>0. "public" \in SheetChecks /\ "" \in SheetArgs
  BY DEF SheetChecks, SheetArgs
<1>1. Public \in SheetDrafts BY <1>0 DEF Public, Draft, SheetDrafts
<1> HIDE DEF Public
<1> QED BY <1>1 DEF SheetRules, SheetPolicies

LEMMA PresetRules == ASSUME NEW p \in Ready \cup {"public"}, StartFrom(p) PROVE SheetRules(groups')
<1>1. PICK G \in SUBSET UNION {FreshDrafts(c) : c \in PresetGroups(p)} :
        (\A c \in PresetGroups(p) : Cardinality(G \cap FreshDrafts(c)) = 1) /\ groups' = {G}
  BY DEF StartFrom
<1>2. G \subseteq SheetDrafts BY <1>1, PresetsAre, FreshDraftsAre
<1>3. PICK c : c \in PresetGroups(p) BY DEF PresetGroups
<1>4. Cardinality(G \cap FreshDrafts(c)) = 1 BY <1>1, <1>3
<1>5. G # {}
  <2> SUFFICES ASSUME G = {} PROVE FALSE OBVIOUS
  <2>1. G \cap FreshDrafts(c) = {} OBVIOUS
  <2> QED BY <1>4, <2>1, FS_EmptySet
<1> QED BY <1>1, <1>2, <1>5 DEF SheetRules, SheetPolicies

LEMMA AddedRules == ASSUME LockInv, AddRule PROVE SheetRules(groups')
<1>1. PICK G \in groups \cup {{}}, d \in UNION {FreshDrafts(c) : c \in UNION {PresetGroups(p) : p \in Ready}} :
        groups' = (groups \ {G}) \cup {G \cup {d}}
  BY DEF AddRule
<1>2. d \in SheetDrafts BY PresetsAre, FreshDraftsAre
<1>3. groups \in SheetPolicies /\ {} \notin groups BY DEF LockInv, SheetRules
<1>4. G \cup {d} \in SUBSET SheetDrafts /\ G \cup {d} # {} BY <1>2, <1>3 DEF SheetPolicies
<1> QED BY <1>1, <1>3, <1>4 DEF SheetRules, SheetPolicies

LEMMA RemovedRules == ASSUME LockInv, RemoveRule PROVE SheetRules(groups')
<1>1. PICK G \in groups : \E d \in G :
        LET rest == ((groups \ {G}) \cup {G \ {d}}) \ {{}} IN groups' = IF rest = {} THEN {{Public}} ELSE rest
  BY DEF RemoveRule
<1>2. PICK d \in G : LET rest == ((groups \ {G}) \cup {G \ {d}}) \ {{}} IN groups' = IF rest = {} THEN {{Public}} ELSE rest
  BY <1>1
<1> DEFINE rest == ((groups \ {G}) \cup {G \ {d}}) \ {{}}
<1>3. groups \in SheetPolicies BY DEF LockInv, SheetRules
<1>4. rest \in SheetPolicies /\ {} \notin rest BY <1>3 DEF SheetPolicies
<1>5. groups' = IF rest = {} THEN {{Public}} ELSE rest BY <1>2
<1> HIDE DEF rest
<1> QED BY <1>4, <1>5, FreshRules DEF SheetRules

LEMMA EditedRules ==
  ASSUME LockInv, EditRule
  PROVE  /\ SheetRules(groups')
         /\ \E d \in SheetDrafts, e \in SheetDrafts :
              goes' = {[g EXCEPT !.todo = {IF f = d THEN e ELSE f : f \in @}] : g \in goes}
<1>1. PICK d \in Drafts : \E a \in ArgsOf(d.check) \ {d.arg} :
        LET Edited(G) == {IF e = d THEN Draft(d.check, a) ELSE e : e \in G} IN
        /\ groups' = {Edited(G) : G \in groups}
        /\ goes' = {[g EXCEPT !.todo = Edited(@)] : g \in goes}
  BY DEF EditRule
<1>2. PICK a \in ArgsOf(d.check) \ {d.arg} :
        LET Edited(G) == {IF e = d THEN Draft(d.check, a) ELSE e : e \in G} IN
        /\ groups' = {Edited(G) : G \in groups}
        /\ goes' = {[g EXCEPT !.todo = Edited(@)] : g \in goes}
  BY <1>1
<1> DEFINE e == Draft(d.check, a)
           Edited(G) == {IF f = d THEN e ELSE f : f \in G}
<1>3. groups \in SheetPolicies /\ groups # {} /\ {} \notin groups BY DEF LockInv, SheetRules
<1>4. d \in SheetDrafts BY <1>3 DEF Drafts, SheetPolicies
<1>5. a \in SheetArgs BY DEF ArgsOf, SheetArgs
<1>6. e \in SheetDrafts BY <1>4, <1>5 DEF Draft, SheetDrafts
<1>7. groups' = {Edited(G) : G \in groups} /\ goes' = {[g EXCEPT !.todo = Edited(@)] : g \in goes} BY <1>2
<1> HIDE DEF e
<1>8. \A G \in groups : Edited(G) \in SUBSET SheetDrafts /\ Edited(G) # {}
  <2> SUFFICES ASSUME NEW G \in groups PROVE Edited(G) \in SUBSET SheetDrafts /\ Edited(G) # {} OBVIOUS
  <2>1. G \subseteq SheetDrafts /\ G # {} BY <1>3 DEF SheetPolicies
  <2> QED BY <1>6, <2>1
<1>9. groups' # {} /\ {} \notin groups' /\ groups' \in SheetPolicies
  <2> HIDE DEF Edited
  <2> QED BY <1>3, <1>7, <1>8 DEF SheetPolicies
<1> QED BY <1>4, <1>6, <1>7, <1>9 DEF SheetRules

-----------------------------------------------------------------------------
\* The calls.

LEMMA LockGoesOn ==
  ASSUME LockInv, SheetRules(groups'), presses' \in Nat, signAs' \in Known \cup {""},
         msg' \in Texts \cup {""}, lastWho' \in Ready \cup {"public"},
         \A g \in goes' : g \in goes \/ (g \in SheetCalls /\ CallInv(g))
  PROVE  LockInv'
<1>1. \A g \in goes' : g \in SheetCalls /\ CallInv(g) BY DEF LockInv
<1> QED BY <1>1 DEF LockInv, CallInv

LEMMA ReadsSign ==
  ASSUME LockInv, NEW g \in SheetCalls, Finished(g.policy), Gated(g.policy) \subseteq GateRuns
  PROVE  ReadSign(g) \in SheetCalls /\ CallInv(ReadSign(g)) /\ ReadSign(g).text = g.text
<1>1. signAs \in Known \cup {""} BY DEF LockInv
<1>2. /\ ReadSign(g) \in SheetCalls /\ ReadSign(g).text = g.text /\ ReadSign(g).policy = g.policy
  BY <1>1 DEF ReadSign, SheetCalls
<1> QED BY <1>2 DEF CallInv

LEMMA BuildsPolicy ==
  ASSUME LockInv, NEW g \in SheetCalls, NEW h \in BuildPolicy(g)
  PROVE  h \in SheetCalls /\ CallInv(h) /\ h.text = g.text
<1> DEFINE built == [g EXCEPT !.policy = groups]
           asked == [built EXCEPT !.at = "gate"]
<1>1. Finished(groups) BY DEF BuildPolicy, LockInv, Finished, Drafts
<1>2. groups \in SheetPolicies BY <1>1 DEF Finished, SheetRules
<1>3. built \in SheetCalls /\ built.policy = groups /\ built.text = g.text BY <1>2 DEF SheetCalls
<1>4. h = IF Gated(groups) = {} THEN ReadSign(built) ELSE asked BY DEF BuildPolicy
<1> HIDE DEF built
<1>5. CASE Gated(groups) = {}
  <2>1. Gated(built.policy) \subseteq GateRuns /\ Finished(built.policy) BY <1>1, <1>3, <1>5
  <2> QED BY <1>3, <1>4, <1>5, <2>1, ReadsSign
<1>6. CASE Gated(groups) # {}
  <2>1. asked \in SheetCalls /\ asked.at = "gate" /\ asked.policy = groups /\ asked.text = g.text
    BY <1>3 DEF SheetCalls
  <2> HIDE DEF asked
  <2> QED BY <1>1, <1>4, <1>6, <2>1 DEF CallInv
<1> QED BY <1>5, <1>6

\* What one step of a call leaves in its place is another call about the text.
NextCall(g, after) == \A h \in after : h \in SheetCalls /\ CallInv(h) /\ h.text = g.text
Steps(g) ==
  /\ \E after : goes' = (goes \ {g}) \cup after /\ NextCall(g, after)
  /\ verdict' \in {"", "failed"}

LEMMA LookUpSteps == ASSUME LockInv, NEW g \in goes, LookUpSpace(g) PROVE Steps(g)
<1>1. g \in SheetCalls /\ g.at = "spaces" BY DEF LockInv, LookUpSpace
<1>2. PICK d \in g.todo :
        LET next == [g EXCEPT !.todo = @ \ {d}] IN
        Fail(g) \/ Becomes(g, IF next.todo = {} THEN BuildPolicy(next) ELSE {next})
  BY DEF LookUpSpace
<1> DEFINE next == [g EXCEPT !.todo = @ \ {d}]
           after == IF next.todo = {} THEN BuildPolicy(next) ELSE {next}
<1>3. next \in SheetCalls /\ next.at = "spaces" /\ next.text = g.text BY <1>1 DEF SheetCalls
<1>4. Fail(g) \/ Becomes(g, after) BY <1>2
<1> HIDE DEF next
<1>5. CallInv(next) BY <1>3 DEF CallInv
<1>6. NextCall(g, after) BY <1>3, <1>5, BuildsPolicy DEF NextCall
<1>7. NextCall(g, {}) BY DEF NextCall
<1>8. CASE Fail(g) BY <1>7, <1>8 DEF Fail, Steps
<1>9. CASE Becomes(g, after)
  <2> HIDE DEF after
  <2> QED BY <1>6, <1>9 DEF Becomes, Steps
<1> QED BY <1>4, <1>8, <1>9

LEMMA HealthSteps == ASSUME LockInv, NEW g \in goes, Health(g) PROVE Steps(g)
<1>1. g \in SheetCalls /\ Finished(g.policy) BY DEF LockInv, Health, CallInv
<1>2. Fail(g) \/ (Gated(g.policy) \subseteq GateRuns /\ Becomes(g, {ReadSign(g)})) BY DEF Health
<1>3. NextCall(g, {}) BY DEF NextCall
<1>4. CASE Fail(g) BY <1>3, <1>4 DEF Fail, Steps
<1>5. CASE Gated(g.policy) \subseteq GateRuns /\ Becomes(g, {ReadSign(g)})
  <2> DEFINE after == {ReadSign(g)}
  <2>1. NextCall(g, after) BY <1>1, <1>5, ReadsSign DEF NextCall
  <2>2. Becomes(g, after) BY <1>5
  <2> HIDE DEF after
  <2> QED BY <2>1, <2>2 DEF Becomes, Steps
<1> QED BY <1>2, <1>4, <1>5

\* A call whose rules the gate runs goes on.
LEMMA AdvanceSteps ==
  ASSUME LockInv, NEW g \in goes, g.at \in {"sign", "seal", "encode"}, NEW at \in {"seal", "encode"},
         Fail(g) \/ Becomes(g, {[g EXCEPT !.at = at]})
  PROVE  Steps(g)
<1>1. g \in SheetCalls /\ Finished(g.policy) /\ Gated(g.policy) \subseteq GateRuns BY DEF LockInv, CallInv
<1> DEFINE h == [g EXCEPT !.at = at]
           after == {h}
<1>2. h \in SheetCalls /\ h.policy = g.policy /\ h.text = g.text BY <1>1 DEF SheetCalls
<1>3. Fail(g) \/ Becomes(g, after) OBVIOUS
<1> HIDE DEF h
<1>4. NextCall(g, after) BY <1>1, <1>2 DEF NextCall, CallInv
<1>5. NextCall(g, {}) BY DEF NextCall
<1> HIDE DEF after
<1>6. CASE Fail(g) BY <1>5, <1>6 DEF Fail, Steps
<1>7. CASE Becomes(g, after) BY <1>4, <1>7 DEF Becomes, Steps
<1> QED BY <1>3, <1>6, <1>7

\* The text in the sheet.
LEMMA TextGoesOn ==
  ASSUME TextInv, UNCHANGED <<covers, touched, pressed, msg>>, \A g \in goes' : \E h \in goes : g.text = h.text
  PROVE  TextInv'
<1>1. goes' # {} => goes # {} OBVIOUS
<1> QED BY <1>1 DEF TextInv

\* What is on its way to the page.
LEMMA MessagesGoOn ==
  ASSUME PageMsgInv, UNCHANGED <<lastCover, frameNo, frames, toPage, boxes>>, target' \in Boxes \cup {"none"},
         verdict' \in {"", "failed", verdict}, goes' # {} => frameNo # 0
  PROVE  PageMsgInv'
<1>1. Inserted' = Inserted BY DEF Inserted
<1> QED BY <1>1 DEF PageMsgInv, Ours

LEMMA StepKeeps ==
  ASSUME SheetInv, NEW g \in goes, Steps(g),
         UNCHANGED <<groups, presses, lastWho, msg, signAs, covers, lastCover, frameNo, frames, toPage, target, boxes,
                     pressed, touched>>
  PROVE  SheetInv'
<1>1. PICK after : goes' = (goes \ {g}) \cup after /\ NextCall(g, after) BY DEF Steps
<1>2. LockInv'
  <2>1. \A h \in goes' : h \in goes \/ (h \in SheetCalls /\ CallInv(h)) BY <1>1 DEF NextCall
  <2> QED BY <2>1, LockGoesOn DEF SheetInv, LockInv
<1>3. TextInv' BY <1>1, TextGoesOn DEF SheetInv, NextCall
<1>4. PageMsgInv'
  <2>1. goes' # {} => frameNo # 0 /\ target' \in Boxes \cup {"none"} BY DEF SheetInv, PageMsgInv
  <2> QED BY <2>1, MessagesGoOn DEF SheetInv, Steps, PageMsgInv
<1> QED BY <1>2, <1>3, <1>4 DEF SheetInv

\* The author edits the rules, signs or moves to another box.
LEMMA RulesKeep ==
  ASSUME SheetInv, SheetRules(groups'), signAs' \in Known \cup {""}, lastWho' \in Ready \cup {"public"},
         target' \in Boxes \cup {"none"},
         UNCHANGED <<goes, presses, msg, covers, lastCover, verdict, frameNo, frames, toPage, boxes, pressed, touched>>
  PROVE  SheetInv'
<1>1. LockInv' BY LockGoesOn DEF SheetInv, LockInv
<1>2. TextInv' BY TextGoesOn DEF SheetInv
<1>3. PageMsgInv'
  <2>1. goes' # {} => frameNo # 0 BY DEF SheetInv, PageMsgInv
  <2> QED BY <2>1, MessagesGoOn DEF SheetInv
<1> QED BY <1>1, <1>2, <1>3 DEF SheetInv

LEMMA EditRuleKeeps == ASSUME SheetInv, EditRule PROVE SheetInv'
<1>1. LockInv BY DEF SheetInv
<1>2. PICK d \in SheetDrafts, e \in SheetDrafts :
        goes' = {[g EXCEPT !.todo = {IF f = d THEN e ELSE f : f \in @}] : g \in goes}
  BY <1>1, EditedRules
<1> DEFINE Edited(g) == [g EXCEPT !.todo = {IF f = d THEN e ELSE f : f \in g.todo}]
<1>3. goes' = {Edited(g) : g \in goes} BY <1>2
<1>4. ASSUME NEW g \in goes PROVE Edited(g) \in SheetCalls /\ Edited(g).text = g.text /\ CallInv(Edited(g))
  <2>1. g \in SheetCalls /\ CallInv(g) BY <1>1 DEF LockInv
  <2> DEFINE todo == {IF f = d THEN e ELSE f : f \in g.todo}
  <2>2. todo \in SUBSET SheetDrafts BY <2>1 DEF SheetCalls
  <2> HIDE DEF todo
  <2> DEFINE h == [g EXCEPT !.todo = todo]
  <2>3. h \in SheetCalls /\ h.text = g.text /\ h.at = g.at /\ h.policy = g.policy BY <2>1, <2>2 DEF SheetCalls
  <2> HIDE DEF h
  <2>4. CallInv(h) BY <2>1, <2>3 DEF CallInv
  <2>5. h = Edited(g) BY DEF h, todo
  <2> QED BY <2>3, <2>4, <2>5
<1> HIDE DEF Edited
<1>5. /\ UNCHANGED <<presses, lastWho, msg, signAs, covers, lastCover, verdict, frameNo, frames, toPage, target, boxes,
                     pressed, touched>>
  BY DEF EditRule
<1>6. LockInv'
  <2>1. \A h \in goes' : h \in SheetCalls /\ CallInv(h) BY <1>3, <1>4
  <2> QED BY <1>1, <1>5, <2>1, EditedRules, LockGoesOn DEF LockInv
<1>7. TextInv' BY <1>3, <1>4, <1>5, TextGoesOn DEF SheetInv
<1>8. PageMsgInv'
  <2>1. goes' # {} => frameNo # 0 BY <1>3 DEF SheetInv, PageMsgInv
  <2> QED BY <1>5, <2>1, MessagesGoOn DEF SheetInv, PageMsgInv
<1> QED BY <1>6, <1>7, <1>8 DEF SheetInv

LEMMA TypeKeeps == ASSUME SheetInv, Type PROVE SheetInv'
<1>1. /\ msg' \in Texts \cup {""} /\ touched' = Busy /\ pressed' = (IF Busy THEN pressed ELSE "")
      /\ UNCHANGED <<groups, edits, lastWho, booted, signAs, goes, presses, covers, lastCover, verdict, frameNo,
                     frames, toPage, target, boxes, joined>>
  BY DEF Type
<1>2. LockInv' BY <1>1, LockGoesOn DEF SheetInv, LockInv
<1>3. TextInv' BY <1>1 DEF SheetInv, TextInv, Busy
<1>4. PageMsgInv'
  <2>1. goes' # {} => frameNo # 0 BY <1>1 DEF SheetInv, PageMsgInv
  <2> QED BY <1>1, <2>1, MessagesGoOn DEF SheetInv, PageMsgInv
<1> QED BY <1>2, <1>3, <1>4 DEF SheetInv

LEMMA GoKeeps == ASSUME SheetInv, Go PROVE SheetInv'
<1> DEFINE todo == {d \in Drafts : d.check \in SpaceRules}
           g == [n |-> presses', at |-> "spaces", text |-> msg, todo |-> todo, policy |-> {}, signed |-> ""]
           after == IF todo = {} THEN BuildPolicy(g) ELSE {g}
<1>0. Becomes(g, after) BY Zenon DEF Go
<1>1. /\ SheetOpen /\ msg # "" /\ presses' = presses + 1
      /\ pressed' = msg /\ touched' = (touched /\ Busy)
      /\ UNCHANGED <<groups, edits, lastWho, booted, msg, signAs, covers, lastCover, frameNo, frames, toPage,
                     target, boxes, joined>>
  BY DEF Go
<1>2. LockInv BY DEF SheetInv
<1>13. msg \in Texts \cup {""} BY <1>2 DEF LockInv
<1>15. presses \in Nat BY <1>2 DEF LockInv
<1>14. presses' = presses + 1 BY DEF Go
<1>12. presses' \in Nat
  <2> HIDE DEF g, after
  <2> QED BY <1>14, <1>15
<1>3. todo \in SUBSET SheetDrafts BY <1>2 DEF Drafts, LockInv, SheetRules, SheetPolicies
<1> HIDE DEF todo
<1>4. {} \in SheetPolicies /\ "" \in Known \cup {""} BY DEF SheetPolicies
<1>5. g \in SheetCalls /\ g.at = "spaces" /\ g.text = msg BY <1>12, <1>13, <1>3, <1>4 DEF SheetCalls
<1> HIDE DEF g
<1>6. NextCall(g, after) BY <1>2, <1>5, BuildsPolicy DEF NextCall, CallInv
<1> HIDE DEF after
<1>7. goes' = (goes \ {g}) \cup after /\ verdict' \in {"", "failed"} BY <1>0 DEF Becomes
<1>8. \A h \in goes' : h \in goes \/ (h \in SheetCalls /\ CallInv(h) /\ h.text = msg) BY <1>5, <1>6, <1>7 DEF NextCall
<1>9. LockInv' BY <1>1, <1>2, <1>8, <1>12, <1>13, LockGoesOn DEF LockInv
<1>10. TextInv'
  <2>1. ASSUME ~touched' PROVE \A h \in goes : h.text = msg
    <3>1. goes = {} \/ (~touched /\ pressed # "") BY <1>1, <2>1 DEF Busy, SheetInv, TextInv
    <3>2. CASE goes = {} BY <3>2
    <3>3. CASE goes # {} /\ ~touched /\ pressed # ""
      <4>1. \A h \in goes : h.text = pressed BY <3>3 DEF SheetInv, TextInv
      <4>2. msg = pressed BY <1>1, <3>3 DEF SheetInv, TextInv
      <4> QED BY <4>1, <4>2
    <3> QED BY <3>1, <3>2, <3>3
  <2> QED BY <1>1, <1>8, <2>1 DEF SheetInv, TextInv
<1>11. PageMsgInv'
  <2>1. frameNo # 0 BY <1>1 DEF SheetOpen
  <2> QED BY <1>1, <1>7, <2>1, MessagesGoOn DEF SheetInv, PageMsgInv
<1> QED BY <1>9, <1>10, <1>11 DEF SheetInv

\* The cover goes to the page and the text is cleared.
LEMMA SendCoverKeeps == ASSUME SheetInv, NEW g \in goes, SendCover(g) PROVE SheetInv'
<1>1. /\ UNCHANGED <<groups, edits, lastWho, booted, signAs, presses, frameNo, frames, target, boxes, joined, pressed, touched>>
      /\ goes' = goes \ {g} /\ verdict' \in {"", "failed"}
      /\ \/ UNCHANGED <<covers, lastCover, msg, toPage>>
         \/ /\ covers' = Append(covers, g.text) /\ msg' = ""
            /\ lastCover' = Len(covers')
            /\ toPage' = Append(toPage, [from |-> frameNo, cover |-> lastCover'])
  BY DEF SendCover, Fail
<1>2. LockInv'
  <2>1. msg' \in Texts \cup {""} BY <1>1 DEF SheetInv, LockInv
  <2>2. \A h \in goes' : h \in goes BY <1>1
  <2> QED BY <1>1, <2>1, <2>2, LockGoesOn DEF SheetInv, LockInv
<1>3. CASE UNCHANGED <<covers, lastCover, msg, toPage>>
  <2>1. TextInv' BY <1>1, <1>3, TextGoesOn DEF SheetInv
  <2>2. PageMsgInv'
    <3>1. goes' # {} => frameNo # 0 BY <1>1 DEF SheetInv, PageMsgInv
    <3> QED BY <1>1, <1>3, <3>1, MessagesGoOn DEF SheetInv, PageMsgInv
  <2> QED BY <1>2, <2>1, <2>2 DEF SheetInv
<1>4. CASE /\ covers' = Append(covers, g.text) /\ msg' = ""
           /\ lastCover' = Len(covers')
           /\ toPage' = Append(toPage, [from |-> frameNo, cover |-> lastCover'])
  <2>1. covers \in Seq(Texts \cup {""}) BY DEF SheetInv, TextInv
  <2>2. g.text \in Texts \cup {""} BY DEF SheetInv, LockInv, SheetCalls
  <2> DEFINE TextSet == Texts \cup {""}
             t == g.text
  <2>11. covers \in Seq(TextSet) /\ t \in TextSet /\ covers' = Append(covers, t) BY <1>4, <2>1, <2>2
  <2> HIDE DEF TextSet, t
  <2>12. /\ covers' \in Seq(TextSet) /\ Len(covers') = Len(covers) + 1
         /\ covers'[Len(covers')] = t /\ Len(covers') \in DOMAIN covers' /\ Len(covers) \in Nat
         /\ \A c \in DOMAIN covers : c \in DOMAIN covers' /\ covers'[c] = covers[c]
    BY <2>11
  <2> USE DEF TextSet, t
  <2>3. /\ covers' \in Seq(Texts \cup {""}) /\ Len(covers') = Len(covers) + 1
        /\ covers'[Len(covers')] = g.text /\ Len(covers') \in DOMAIN covers' /\ Len(covers) \in Nat
        /\ \A c \in DOMAIN covers : c \in DOMAIN covers' /\ covers'[c] = covers[c]
    BY <2>12
  <2>4. TextInv'
    <3>1. goes # {} /\ pressed # "" BY DEF SheetInv, TextInv
    <3>2. ~touched => \A h \in goes : h.text = pressed BY <3>1 DEF SheetInv, TextInv
    <3>3. ~touched' => \E c \in DOMAIN covers' : covers'[c] = pressed' BY <1>1, <2>3, <3>2
    <3>4. ~touched' => \A h \in goes' : h.text = pressed' BY <1>1, <3>2
    <3>5. goes' # {} => pressed' # "" BY <1>1, <3>1
    <3> QED BY <1>4, <2>3, <3>3, <3>4, <3>5 DEF TextInv
  <2> DEFINE word == [from |-> frameNo, cover |-> lastCover']
  <2>5. frameNo \in 1..frames /\ frames \in Nat /\ lastCover' \in Nat /\ lastCover' # 0
    <3>1. frameNo # 0 /\ frameNo \in Nat /\ frames \in Nat /\ frameNo <= frames BY DEF SheetInv, PageMsgInv
    <3>2. Len(covers') = Len(covers) + 1 /\ Len(covers) \in Nat BY <2>12
    <3>3. lastCover' = Len(covers') BY <1>4
    <3> QED BY <3>1, <3>2, <3>3
  <2>6. word \in [from : Nat, cover : Nat] /\ word.from = frameNo /\ word.cover = lastCover' BY <2>5
  <2>7. toPage' = Append(toPage, word) BY <1>4
  <2> HIDE DEF word
  <2>8. toPage \in Seq([from : Nat, cover : Nat]) BY DEF SheetInv, PageMsgInv
  <2>9. /\ toPage' \in Seq([from : Nat, cover : Nat]) /\ Len(toPage') \in DOMAIN toPage' /\ toPage'[Len(toPage')] = word
        /\ \A i \in DOMAIN toPage' : (i \in DOMAIN toPage /\ toPage'[i] = toPage[i]) \/ toPage'[i] = word
    BY <2>6, <2>7, <2>8
  <2>10. PageMsgInv'
    <3>1. \A i \in DOMAIN toPage' : toPage'[i].from \in 1..frames'
      BY <1>1, <2>5, <2>6, <2>9 DEF SheetInv, PageMsgInv
    <3>2. goes' # {} => frameNo' # 0 BY <1>1 DEF SheetInv, PageMsgInv
    <3>3. verdict' # "inserted" /\ verdict' # "homeless" BY <1>1
    <3>4. frameNo \in Nat /\ frames \in Nat /\ frameNo <= frames
      BY DEF SheetInv, PageMsgInv
    <3>5. DOMAIN boxes = Boxes \cup {"none"} /\ boxes["none"] = "gone" /\ target \in Boxes \cup {"none"}
      BY DEF SheetInv, PageMsgInv
    <3>6. /\ toPage'[Len(toPage')].from = frameNo' /\ toPage'[Len(toPage')].cover = lastCover' /\ lastCover' # 0
      BY <1>1, <2>5, <2>6, <2>9 DEF Ours
    <3>7. DOMAIN boxes' = Boxes \cup {"none"} /\ boxes'["none"] = "gone" /\ target' \in Boxes \cup {"none"}
      BY <1>1, <3>5
    <3>8. lastCover' \in Nat /\ frameNo' \in Nat /\ frames' \in Nat /\ frameNo' <= frames' BY <1>1, <2>5, <3>4
    <3> QED BY <2>9, <3>1, <3>2, <3>3, <3>6, <3>7, <3>8 DEF PageMsgInv, Ours
  <2> QED BY <1>2, <2>4, <2>10 DEF SheetInv
<1> QED BY <1>1, <1>3, <1>4

LEMMA InsertAgainKeeps == ASSUME SheetInv, InsertAgain PROVE SheetInv'
<1> DEFINE word == [from |-> frameNo, cover |-> lastCover]
<1>1. /\ frameNo # 0 /\ verdict = "homeless" /\ toPage' = Append(toPage, word)
      /\ UNCHANGED <<groups, lastWho, msg, signAs, goes, presses, covers, lastCover, verdict,
                     frameNo, frames, target, boxes, pressed, touched>>
  BY DEF InsertAgain, SheetOpen
<1>2. LockInv' BY <1>1, LockGoesOn DEF SheetInv, LockInv
<1>3. TextInv' BY <1>1, TextGoesOn DEF SheetInv
<1>4. /\ lastCover \in Nat /\ lastCover # 0 /\ frameNo \in Nat /\ frames \in Nat /\ frameNo <= frames
      /\ toPage \in Seq([from : Nat, cover : Nat])
  BY <1>1 DEF SheetInv, PageMsgInv
<1>5. word \in [from : Nat, cover : Nat] /\ word.from = frameNo /\ word.cover = lastCover BY <1>4
<1> HIDE DEF word
<1>6. /\ toPage' \in Seq([from : Nat, cover : Nat]) /\ Len(toPage') \in DOMAIN toPage' /\ toPage'[Len(toPage')] = word
      /\ \A i \in DOMAIN toPage' : (i \in DOMAIN toPage /\ toPage'[i] = toPage[i]) \/ toPage'[i] = word
  BY <1>1, <1>4, <1>5
<1>7. \A i \in DOMAIN toPage' : toPage'[i].from \in 1..frames'
  BY <1>1, <1>4, <1>5, <1>6 DEF SheetInv, PageMsgInv
<1>8. PageMsgInv' BY <1>1, <1>4, <1>5, <1>6, <1>7 DEF SheetInv, PageMsgInv, Ours
<1> QED BY <1>2, <1>3, <1>8 DEF SheetInv

\* A frame opens or closes: what is on its way is an older frame's.
LEMMA FreshKeeps ==
  ASSUME SheetInv, FreshSheet, UNCHANGED <<lastWho, presses, covers, toPage, boxes>>, target' \in Boxes \cup {"none"},
         frames' \in {frames, frames + 1}, frameNo' = 0 \/ (frameNo' = frames' /\ frames' = frames + 1)
  PROVE  SheetInv'
<1>1. LockInv' BY FreshRules, LockGoesOn DEF SheetInv, LockInv, FreshSheet
<1>2. TextInv' BY DEF SheetInv, TextInv, FreshSheet
<1>3. /\ frames \in Nat /\ toPage \in Seq([from : Nat, cover : Nat])
      /\ \A i \in DOMAIN toPage : toPage[i].from \in 1..frames
  BY DEF SheetInv, PageMsgInv
<1>4. frames' \in Nat /\ frameNo' \in Nat /\ frameNo' <= frames' BY <1>3
<1>5. \A i \in DOMAIN toPage' : toPage'[i].from \in 1..frames' /\ toPage'[i].from # frameNo' BY <1>3
<1>6. PageMsgInv' BY <1>3, <1>4, <1>5 DEF SheetInv, PageMsgInv, Ours, FreshSheet
<1> QED BY <1>1, <1>2, <1>6 DEF SheetInv

LEMMA BoxGoesKeeps == ASSUME SheetInv, BoxGoes PROVE SheetInv'
<1>1. PICK b \in Boxes : boxes' = [boxes EXCEPT ![b] = "gone"] BY DEF BoxGoes
<1>2. UNCHANGED <<groups, lastWho, msg, signAs, goes, presses, covers, lastCover, verdict,
                  frameNo, frames, toPage, target, pressed, touched>>
  BY DEF BoxGoes
<1>3. LockInv' BY <1>2, LockGoesOn DEF SheetInv, LockInv
<1>4. TextInv' BY <1>2, TextGoesOn DEF SheetInv
<1>5. DOMAIN boxes' = Boxes \cup {"none"} /\ boxes'["none"] = "gone" BY <1>1 DEF SheetInv, PageMsgInv
<1>6. Inserted => Inserted'
  <2>1. \A c \in Boxes : boxes'[c] \in {boxes[c], "gone"} BY <1>1 DEF SheetInv, PageMsgInv
  <2> QED BY <1>2, <2>1 DEF Inserted
<1>7. PageMsgInv' BY <1>2, <1>5, <1>6 DEF SheetInv, PageMsgInv, Ours
<1> QED BY <1>3, <1>4, <1>7 DEF SheetInv

LEMMA InsertCoverKeeps == ASSUME SheetInv, InsertCover PROVE SheetInv'
<1> DEFINE m == Head(toPage)
<1>1. /\ toPage # <<>> /\ toPage' = Tail(toPage)
      /\ UNCHANGED <<groups, lastWho, msg, signAs, goes, presses, covers, lastCover, frameNo,
                     frames, target, pressed, touched>>
      /\ \/ ~Ours(m) /\ UNCHANGED <<boxes, verdict>>
         \/ /\ Ours(m) /\ boxes[target] # "gone"
            /\ boxes' = [boxes EXCEPT ![target] = ToString(m.cover)] /\ verdict' = "inserted"
         \/ Ours(m) /\ verdict' = "homeless" /\ UNCHANGED boxes
  BY DEF InsertCover, Ours
<1>2. LockInv' BY <1>1, LockGoesOn DEF SheetInv, LockInv
<1>3. TextInv' BY <1>1, TextGoesOn DEF SheetInv
<1>4. PageMsgInv BY DEF SheetInv
<1>5. toPage \in Seq([from : Nat, cover : Nat]) /\ 1 \in DOMAIN toPage /\ m = toPage[1]
  BY <1>1, <1>4 DEF PageMsgInv
<1>6. /\ toPage' \in Seq([from : Nat, cover : Nat])
      /\ \A i \in DOMAIN toPage' : i + 1 \in DOMAIN toPage /\ toPage'[i] = toPage[i + 1]
      /\ \A i \in DOMAIN toPage : i = 1 \/ (i - 1 \in DOMAIN toPage' /\ toPage'[i - 1] = toPage[i])
  BY <1>1, <1>5
<1>14. /\ Len(toPage') = Len(toPage) - 1 /\ Len(toPage) \in Nat
       /\ DOMAIN toPage = 1..Len(toPage) /\ DOMAIN toPage' = 1..Len(toPage')
  BY <1>1, <1>5
<1> HIDE DEF m
<1>7. \A i \in DOMAIN toPage' : toPage'[i].from \in 1..frames' BY <1>1, <1>4, <1>6 DEF PageMsgInv
<1>8. ASSUME NEW i \in DOMAIN toPage', toPage'[i].from = frameNo'
      PROVE  toPage'[Len(toPage')].from = frameNo' /\ toPage'[Len(toPage')].cover = lastCover' /\ lastCover' # 0
  <2>1. Ours(toPage[i + 1]) /\ i + 1 \in DOMAIN toPage
    <3>1. i + 1 \in DOMAIN toPage /\ toPage'[i] = toPage[i + 1] BY <1>6
    <3> QED BY <1>1, <1>8, <3>1 DEF Ours
  <2>2. Ours(toPage[Len(toPage)]) /\ toPage[Len(toPage)].cover = lastCover /\ lastCover # 0 BY <1>4, <2>1 DEF PageMsgInv
  <2>3. toPage'[Len(toPage')] = toPage[Len(toPage)]
    <3>1. Len(toPage') \in DOMAIN toPage' BY <1>14
    <3>2. toPage'[Len(toPage')] = toPage[Len(toPage') + 1] BY <1>6, <3>1
    <3> QED BY <1>14, <3>2
  <2> QED BY <1>1, <2>2, <2>3 DEF Ours
<1>9. Ours(m) => lastCover # 0 /\ ((\E i \in DOMAIN toPage' : toPage'[i].from = frameNo) \/ m.cover = lastCover)
  <2> SUFFICES ASSUME Ours(m) PROVE lastCover # 0 /\ ((\E i \in DOMAIN toPage' : toPage'[i].from = frameNo) \/ m.cover = lastCover)
    OBVIOUS
  <2>1. Ours(toPage[Len(toPage)]) /\ toPage[Len(toPage)].cover = lastCover /\ lastCover # 0 BY <1>4, <1>5 DEF PageMsgInv
  <2>2. Len(toPage) = 1 \/ (Len(toPage) - 1 \in DOMAIN toPage' /\ toPage'[Len(toPage) - 1] = toPage[Len(toPage)])
    <3>1. Len(toPage) \in DOMAIN toPage BY <1>5, <1>14
    <3> QED BY <1>6, <3>1
  <2> QED BY <1>5, <2>1, <2>2 DEF Ours
<1>10. DOMAIN boxes' = Boxes \cup {"none"} /\ boxes'["none"] = "gone"
  BY <1>1, <1>4 DEF PageMsgInv
<1>11. verdict' = "inserted" => lastCover # 0 /\ ((\E i \in DOMAIN toPage' : toPage'[i].from = frameNo) \/ Inserted')
  <2> SUFFICES ASSUME verdict' = "inserted" PROVE lastCover # 0 /\ ((\E i \in DOMAIN toPage' : toPage'[i].from = frameNo) \/ Inserted')
    OBVIOUS
  <2>1. CASE ~Ours(m) /\ UNCHANGED <<boxes, verdict>>
    <3>1. lastCover # 0 /\ ((\E i \in DOMAIN toPage : Ours(toPage[i])) \/ Inserted) BY <1>4, <2>1 DEF PageMsgInv
    <3>2. ASSUME NEW i \in DOMAIN toPage, Ours(toPage[i]) PROVE \E j \in DOMAIN toPage' : toPage'[j].from = frameNo
      <4>1. i # 1 BY <1>5, <2>1, <3>2
      <4> QED BY <1>6, <3>2, <4>1 DEF Ours
    <3>3. Inserted => Inserted' BY <1>1, <2>1 DEF Inserted
    <3> QED BY <3>1, <3>2, <3>3
  <2>2. CASE Ours(m) /\ boxes[target] # "gone" /\ boxes' = [boxes EXCEPT ![target] = ToString(m.cover)]
    <3>1. target \in Boxes /\ target \in DOMAIN boxes BY <1>4, <2>2 DEF PageMsgInv
    <3>2. boxes'[target] = ToString(m.cover) BY <2>2, <3>1
    <3>3. m.cover = lastCover => Inserted' BY <1>1, <3>1, <3>2 DEF Inserted
    <3> QED BY <1>9, <2>2, <3>3
  <2> QED BY <1>1, <2>1, <2>2
<1>12. verdict' = "homeless" => lastCover # 0 BY <1>1, <1>4, <1>9 DEF PageMsgInv
<1>13. PageMsgInv' BY <1>1, <1>4, <1>6, <1>7, <1>8, <1>10, <1>11, <1>12 DEF PageMsgInv, Ours
<1> QED BY <1>2, <1>3, <1>13 DEF SheetInv

-----------------------------------------------------------------------------
LEMMA SheetStarts == SheetInit => SheetInv
<1> SUFFICES ASSUME SheetInit PROVE SheetInv OBVIOUS
<1>1. LockInv BY FreshRules DEF SheetInit, LockInv
<1>2. TextInv
  <2>1. covers = <<>> /\ goes = {} /\ pressed = "" BY DEF SheetInit
  <2>2. <<>> \in Seq(Texts \cup {""}) OBVIOUS
  <2> QED BY <2>1, <2>2 DEF TextInv
<1>3. PageMsgInv
  <2>1. lastCover = 0 /\ frameNo = 0 /\ frames = 0 /\ toPage = <<>> /\ goes = {} /\ verdict = "" BY DEF SheetInit
  <2>2. DOMAIN boxes = Boxes \cup {"none"} /\ boxes["none"] = "gone" /\ target \in Boxes \cup {"none"}
    BY DEF SheetInit
  <2>3. toPage \in Seq([from : Nat, cover : Nat])
    <3>1. toPage = <<>> BY <2>1
    <3> QED BY <3>1
  <2>4. \A i \in DOMAIN toPage : FALSE
    <3>1. toPage = <<>> BY <2>1
    <3> QED BY <3>1
  <2>5. lastCover \in Nat /\ frameNo \in Nat /\ frames \in Nat /\ frameNo <= frames
    <3>1. lastCover = 0 /\ frameNo = 0 /\ frames = 0 BY <2>1
    <3> QED BY <3>1
  <2>6. goes = {} /\ verdict # "inserted" /\ verdict # "homeless" BY <2>1
  <2> QED BY <2>2, <2>3, <2>4, <2>5, <2>6 DEF PageMsgInv
<1> QED BY <1>1, <1>2, <1>3 DEF SheetInv

LEMMA SheetStays == ASSUME SheetInv, UNCHANGED sheetVars PROVE SheetInv'
<1> USE DEF sheetVars
<1>1. LockInv' BY LockGoesOn DEF SheetInv, LockInv
<1>2. TextInv' BY TextGoesOn DEF SheetInv
<1>3. PageMsgInv' BY MessagesGoOn DEF SheetInv, PageMsgInv
<1> QED BY <1>1, <1>2, <1>3 DEF SheetInv

LEMMA SheetKeeps == ASSUME SheetInv, SheetNext PROVE SheetInv'
<1>1. LockInv /\ target \in Boxes \cup {"none"} BY DEF SheetInv, PageMsgInv
<1>2. SheetRules(groups) /\ signAs \in Known \cup {""} /\ lastWho \in Ready \cup {"public"} BY <1>1 DEF LockInv
<1>3. CASE Boot BY <1>1, <1>2, <1>3, PresetRules, RulesKeep DEF Boot
<1>4. CASE ChoosePreset
  <2>1. PICK p \in Ready : lastWho' = p /\ StartFrom(p) BY <1>4 DEF ChoosePreset
  <2>2. SheetRules(groups') /\ lastWho' \in Ready \cup {"public"} BY <2>1, PresetRules
  <2> QED BY <1>1, <1>2, <1>4, <2>2, RulesKeep DEF ChoosePreset
<1>5. CASE AddRule BY <1>1, <1>2, <1>5, AddedRules, RulesKeep DEF AddRule
<1>6. CASE RemoveRule BY <1>1, <1>2, <1>6, RemovedRules, RulesKeep DEF RemoveRule
<1>7. CASE EditRule BY <1>7, EditRuleKeeps
<1>8. CASE Type BY <1>8, TypeKeeps
<1>9. CASE ToggleSign
  <2>1. signAs' \in Known \cup {""} BY <1>9 DEF ToggleSign
  <2> QED BY <1>1, <1>2, <1>9, <2>1, RulesKeep DEF ToggleSign
<1>10. CASE Go BY <1>10, GoKeeps
<1>11. ASSUME NEW g \in goes, LookUpSpace(g) PROVE SheetInv'
  BY <1>1, <1>11, LookUpSteps, StepKeeps DEF LookUpSpace
<1>12. ASSUME NEW g \in goes, Health(g) PROVE SheetInv' BY <1>1, <1>12, HealthSteps, StepKeeps DEF Health
<1>13. ASSUME NEW g \in goes, SignAsMember(g) PROVE SheetInv'
  <2>1. g.at \in {"sign", "seal", "encode"} /\ "seal" \in {"seal", "encode"} BY <1>13 DEF SignAsMember
  <2>2. Fail(g) \/ Becomes(g, {[g EXCEPT !.at = "seal"]}) BY <1>13 DEF SignAsMember
  <2>3. Steps(g) BY <1>1, <2>1, <2>2, AdvanceSteps
  <2> QED BY <1>13, <2>3, StepKeeps DEF SignAsMember
<1>14. ASSUME NEW g \in goes, LockPost(g) PROVE SheetInv'
  <2>1. g.at \in {"sign", "seal", "encode"} /\ "encode" \in {"seal", "encode"} BY <1>14 DEF LockPost
  <2>2. Fail(g) \/ Becomes(g, {[g EXCEPT !.at = "encode"]}) BY <1>14 DEF LockPost
  <2>3. Steps(g) BY <1>1, <2>1, <2>2, AdvanceSteps
  <2> QED BY <1>14, <2>3, StepKeeps DEF LockPost
<1>15. ASSUME NEW g \in goes, SendCover(g) PROVE SheetInv' BY <1>15, SendCoverKeeps
<1>16. CASE InsertAgain BY <1>16, InsertAgainKeeps
<1>17. CASE OpenSheet
  <2>1. target' \in Boxes \cup {"none"} BY <1>17 DEF OpenSheet
  <2> QED BY <1>17, <2>1, FreshKeeps DEF OpenSheet
<1>18. CASE CloseSheet BY <1>1, <1>18, FreshKeeps DEF CloseSheet
<1>19. CASE FocusBox
  <2>1. target' \in Boxes \cup {"none"} BY <1>19 DEF FocusBox
  <2> QED BY <1>1, <1>2, <1>19, <2>1, RulesKeep DEF FocusBox
<1>20. CASE BoxGoes BY <1>20, BoxGoesKeeps
<1>21. CASE InsertCover BY <1>21, InsertCoverKeeps
<1> QED BY <1>3, <1>4, <1>5, <1>6, <1>7, <1>8, <1>9, <1>10, <1>11, <1>12, <1>13, <1>14, <1>15, <1>16,
           <1>17, <1>18, <1>19, <1>20, <1>21 DEF SheetNext

LEMMA SheetIsSound == SheetInv => LockedAsPromised /\ TextKept /\ InsertedIsThere
<1> SUFFICES ASSUME SheetInv PROVE LockedAsPromised /\ TextKept /\ InsertedIsThere OBVIOUS
<1>1. LockedAsPromised BY DEF SheetInv, LockInv, CallInv, Finished, SheetRules, LockedAsPromised
<1>2. TextKept BY DEF SheetInv, TextInv, TextKept
<1>3. InsertedIsThere BY DEF SheetInv, PageMsgInv, InsertedIsThere, Inserted
<1> QED BY <1>1, <1>2, <1>3

-----------------------------------------------------------------------------
(***************************************************************************)
(* X, posting.                                                             *)
(***************************************************************************)

Fragments == {Real(n) : n \in Nat} \cup {Cover(m, i) : m \in Nat, i \in Nat}
FrameSeqs == Seq([from : Int, to : Int])
SwapSteps == {"none", "resolve", "single", "parts", "layout", "mounting", "gate", "press"}
SwapRecs == [at : SwapSteps, real : SUBSET Fragments, id : Nat, size : Nat, try : 0..2, first : Int,
             frames : FrameSeqs, done : Nat, tries : Nat]

\* What the author typed is in one composer only, and what is typed next in none.
BoxesInv ==
  /\ authorEdits \in Nat
  /\ composers \in Seq(SUBSET Fragments) /\ composers # <<>>
  /\ \A n \in Nat : n > authorEdits => \A i \in DOMAIN composers : Real(n) \notin composers[i]
  /\ \A i, j \in DOMAIN composers : i # j => \A f \in composers[i] \cap composers[j] : ~IsReal(f)

\* The text that is swapped is in the first composer, all of it or nothing.
Clear(c, real) == \A f \in c : IsReal(f) => f \notin real
RealInv ==
  /\ \A n \in Nat : n > authorEdits => Real(n) \notin swap.real
  /\ swap.at # "none" =>
       /\ swap.real \subseteq composers[1] \/ Clear(composers[1], swap.real)
       /\ \A i \in DOMAIN composers : i # 1 => Clear(composers[i], swap.real)
  /\ swap.at = "press" => ~(swap.real \subseteq composers[1])

\* The frames carry the message without a gap.
Gapless(fs, size) ==
  \A i \in DOMAIN fs : /\ fs[i].from = IF i = 1 THEN 0 ELSE fs[i - 1].to
                       /\ i = Len(fs) => fs[i].to = size
FramesInv ==
  /\ swap.at \in {"parts", "layout", "mounting", "gate", "press"} => Gapless(swap.frames, swap.size)
  /\ swap.at = "parts" => swap.first > PostLimit

\* The parts laid out so far are in their composers, or the author has undone
\* the first one.
Covered(i) == composers[i] = {Cover(swap.id, i)} \/ (i = 1 /\ composers[1] = swap.real)
LaidInv ==
  /\ swap.at \in {"none", "resolve", "single", "parts"} => swap.tries = 0
  /\ swap.at \in {"layout", "mounting", "gate", "press"} =>
       \A i \in 1..(Part - 1) : i \in DOMAIN composers /\ Covered(i)
  /\ swap.at = "layout" => Part \in DOMAIN composers
  /\ swap.at \in {"layout", "mounting"} => Part <= Len(swap.frames)
  /\ swap.at \in {"gate", "press"} => swap.tries = 3 * Len(swap.frames)

SwapInv == swaps \in Nat /\ swap \in SwapRecs /\ RealInv /\ FramesInv /\ LaidInv
PostInv == BoxesInv /\ SwapInv /\ PostedWhole

-----------------------------------------------------------------------------
\* The frames.

LEMMA ChunkIsPositive ==
  ASSUME NEW size \in Nat, NEW first \in Int, first > PostLimit, NEW try \in 0..2
  PROVE  Chunk(size, first, try) \in Nat /\ Chunk(size, first, try) >= 2
<1> DEFINE budget == (PostLimit - TagCost) * Safety
           num == Shrunk(budget, try) * (size + Header(1))
           den == (first - TagCost) * 100
           fit == num \div den
<1>1. budget \in Int BY XPostAssumption
<1>2. Shrunk(budget, try) \in Int
  <2> HIDE DEF budget
  <2>1. CASE try = 0 BY <1>1, <2>1 DEF Shrunk
  <2>2. CASE try = 1
    <3>1. budget * Safety \in Int BY <1>1, XPostAssumption
    <3>2. (budget * Safety) \div 100 \in Int BY <3>1
    <3> QED BY <2>2, <3>2 DEF Shrunk
  <2>3. CASE try = 2
    <3>1. budget * Safety * Safety \in Int BY <1>1, XPostAssumption
    <3>2. (budget * Safety * Safety) \div 10000 \in Int BY <3>1
    <3> QED BY <2>3, <3>2 DEF Shrunk
  <2> QED BY <2>1, <2>2, <2>3
<1>3. size + Header(1) \in Int BY DEF Header
<1>4. num \in Int BY <1>2, <1>3
<1>5. den \in Int /\ den > 0 BY XPostAssumption
<1>6. Chunk(size, first, try) = IF fit - 4 < 2 THEN 2 ELSE fit - 4 BY DEF Chunk
<1> HIDE DEF num, den
<1>7. fit \in Int BY <1>4, <1>5
<1> HIDE DEF fit
<1> QED BY <1>6, <1>7

LEMMA FramesAreWhole ==
  ASSUME NEW size \in Nat, NEW chunk \in Nat, chunk >= 2
  PROVE  Frames(size, chunk) \in FrameSeqs /\ Gapless(Frames(size, chunk), size)
<1> DEFINE n == (size + chunk - 1) \div chunk
           Up(i) == IF i = n THEN size ELSE i * chunk
           fs == [i \in 1..n |-> [from |-> (i - 1) * chunk, to |-> Up(i)]]
<1>1. Frames(size, chunk) = fs BY DEF Frames, Ceil
<1>2. n \in Nat
  <2> DEFINE a == size + chunk - 1
  <2>1. a \in Nat BY DEF a
  <2> HIDE DEF a
  <2>2. a \div chunk \in Int /\ a \div chunk >= 0 BY <2>1
  <2> QED BY <2>2 DEF a
<1> HIDE DEF n
<1>3. ASSUME NEW i \in 1..n PROVE (i - 1) * chunk \in Int /\ i * chunk \in Int OBVIOUS
<1>4. ASSUME NEW i \in 1..n PROVE fs[i] \in [from : Int, to : Int] /\ fs[i].from = (i - 1) * chunk /\ fs[i].to = Up(i)
  BY <1>3
<1>5. fs \in FrameSeqs /\ Len(fs) = n /\ DOMAIN fs = 1..n BY <1>2, <1>4 DEF FrameSeqs
<1> HIDE DEF fs
<1>6. ASSUME NEW i \in 1..n PROVE fs[i].from = IF i = 1 THEN 0 ELSE fs[i - 1].to
  <2>1. CASE i = 1 BY <1>4, <2>1
  <2>2. CASE i # 1
    <3>1. i - 1 \in 1..n /\ i - 1 # n BY <1>2, <2>2
    <3>2. fs[i - 1].to = (i - 1) * chunk BY <1>4, <3>1
    <3> QED BY <1>4, <2>2, <3>2
  <2> QED BY <2>1, <2>2
<1>7. ASSUME NEW i \in 1..n, i = n PROVE fs[i].to = size BY <1>4, <1>7
<1> QED BY <1>1, <1>5, <1>6, <1>7 DEF Gapless

-----------------------------------------------------------------------------
\* A message that only moves on.

LEMMA SwapEnds ==
  ASSUME PostInv, swap' = NoSwap, UNCHANGED <<swaps, authorEdits, posted>>, BoxesInv'
  PROVE  PostInv'
<1>1. NoSwap \in SwapRecs /\ NoSwap.at = "none" /\ NoSwap.real = {} /\ NoSwap.tries = 0
  <2>1. <<>> \in FrameSeqs BY DEF FrameSeqs
  <2> QED BY <2>1 DEF NoSwap, SwapRecs, SwapSteps
<1>2. SwapInv' BY <1>1 DEF PostInv, SwapInv, RealInv, FramesInv, LaidInv
<1>3. PostedWhole' BY DEF PostInv, PostedWhole, OursPosted
<1> QED BY <1>2, <1>3 DEF PostInv

LEMMA AbortKeeps == ASSUME PostInv, Aborts PROVE PostInv'
<1>1. swap' = NoSwap /\ UNCHANGED <<composers, swaps, authorEdits, posted>> BY DEF Aborts
<1>2. BoxesInv' BY <1>1 DEF PostInv, BoxesInv
<1> QED BY <1>1, <1>2, SwapEnds

\* Before a part is laid out, and at the last look.
LEMMA SwapMoves ==
  ASSUME PostInv, UNCHANGED <<composers, swaps, authorEdits, posted>>, swap' \in SwapRecs,
         swap.at # "none", swap'.real = swap.real, swap'.at \in {"single", "parts", "layout"},
         swap'.at \in {"parts", "layout"} => Gapless(swap'.frames, swap'.size),
         swap'.at = "parts" => swap'.first > PostLimit,
         swap'.tries = 0, swap'.at = "layout" => Len(swap'.frames) >= 1
  PROVE  PostInv'
<1>1. BoxesInv' BY DEF PostInv, BoxesInv
<1>2. RealInv' BY DEF PostInv, SwapInv, RealInv
<1>3. FramesInv' BY DEF FramesInv
<1>4. LaidInv'
  <2>1. Part' = 1 BY DEF Part
  <2>2. 1 \in DOMAIN composers' BY <1>1 DEF BoxesInv
  <2> QED BY <2>1, <2>2 DEF LaidInv
<1>5. PostedWhole' BY DEF PostInv, PostedWhole, OursPosted
<1> QED BY <1>1, <1>2, <1>3, <1>4, <1>5 DEF PostInv, SwapInv

LEMMA ResolveKeeps == ASSUME PostInv, Resolve PROVE PostInv'
<1>1. swap \in SwapRecs BY DEF PostInv, SwapInv
<1>2. swap' = [swap EXCEPT !.at = "single"] /\ swap.at = "resolve" /\ UNCHANGED <<composers, swaps, authorEdits, posted>>
  BY DEF Resolve, SwapGoes
<1>3. swap' \in SwapRecs /\ swap'.at = "single" /\ swap'.real = swap.real /\ swap'.tries = swap.tries
  BY <1>1, <1>2 DEF SwapRecs, SwapSteps
<1>4. swap.tries = 0 BY <1>2 DEF PostInv, SwapInv, LaidInv
<1> QED BY <1>2, <1>3, <1>4, SwapMoves

LEMMA EncodeSingleKeeps == ASSUME PostInv, EncodeSingle PROVE PostInv'
<1>1. swap \in SwapRecs /\ swap.size \in Nat BY DEF PostInv, SwapInv, SwapRecs
<1>2. PICK cost \in Costs :
        LET whole == [from |-> 0, to |-> swap.size]
            length == Length(whole, 1, cost) IN
        swap' = IF length <= PostLimit THEN [swap EXCEPT !.frames = <<whole>>, !.at = "layout"]
                ELSE [swap EXCEPT !.first = length, !.at = "parts",
                                  !.frames = Frames(swap.size, Chunk(swap.size, length, 0))]
  BY DEF EncodeSingle
<1>3. swap.at = "single" /\ UNCHANGED <<composers, swaps, authorEdits, posted>> BY DEF EncodeSingle
<1>4. swap.tries = 0 BY <1>3 DEF PostInv, SwapInv, LaidInv
<1> DEFINE whole == [from |-> 0, to |-> swap.size]
           length == Length(whole, 1, cost)
           chunk == Chunk(swap.size, length, 0)
           fs == Frames(swap.size, chunk)
<1>5. cost \in Int /\ TagCost \in Int /\ Header(1) = 2 /\ PostLimit \in Int BY XPostAssumption DEF Header
<1>6. length \in Int
  <2>1. whole.to - whole.from + Header(1) \in Int BY <1>1, <1>5
  <2> QED BY <1>5, <2>1 DEF Length
<1>7. CASE length <= PostLimit
  <2> DEFINE one == <<whole>>
  <2>1. swap' = [swap EXCEPT !.frames = one, !.at = "layout"] BY <1>2, <1>7
  <2>2. one \in FrameSeqs /\ Gapless(one, swap.size) /\ Len(one) = 1
    <3>1. whole \in [from : Int, to : Int] /\ whole.from = 0 /\ whole.to = swap.size BY <1>1
    <3> HIDE DEF whole
    <3> QED BY <3>1 DEF FrameSeqs, Gapless
  <2> HIDE DEF one
  <2>3. swap' \in SwapRecs BY <1>1, <2>1, <2>2 DEF SwapRecs, SwapSteps
  <2>4. /\ swap'.at = "layout" /\ swap'.real = swap.real /\ swap'.tries = swap.tries
        /\ swap'.frames = one /\ swap'.size = swap.size
    BY <1>1, <2>1 DEF SwapRecs
  <2>5. Len(swap'.frames) >= 1 /\ Gapless(swap'.frames, swap'.size) BY <2>2, <2>4
  <2>6. swap'.at # "parts" /\ swap.at # "none" BY <1>3, <2>4
  <2> QED BY <1>3, <1>4, <2>3, <2>4, <2>5, <2>6, SwapMoves
<1>8. CASE ~(length <= PostLimit)
  <2>1. swap' = [swap EXCEPT !.first = length, !.at = "parts", !.frames = fs] BY <1>2, <1>8
  <2>2. length > PostLimit BY <1>5, <1>6, <1>8
  <2> HIDE DEF length
  <2>3. chunk \in Nat /\ chunk >= 2 BY <1>1, <1>6, <2>2, ChunkIsPositive
  <2> HIDE DEF chunk
  <2>4. fs \in FrameSeqs /\ Gapless(fs, swap.size) BY <1>1, <2>3, FramesAreWhole
  <2> HIDE DEF fs
  <2>5. swap' \in SwapRecs BY <1>1, <1>6, <2>1, <2>4 DEF SwapRecs, SwapSteps
  <2>6. /\ swap'.at = "parts" /\ swap'.real = swap.real /\ swap'.tries = swap.tries
        /\ swap'.frames = fs /\ swap'.size = swap.size /\ swap'.first = length
    BY <1>1, <2>1 DEF SwapRecs
  <2>7. swap'.tries = 0 /\ swap'.first > PostLimit /\ Gapless(swap'.frames, swap'.size) BY <1>4, <2>2, <2>4, <2>6
  <2>8. swap'.at # "layout" /\ swap.at # "none" BY <1>3, <2>6
  <2> QED BY <1>3, <2>5, <2>6, <2>7, <2>8, SwapMoves
<1> QED BY <1>7, <1>8

\* A part that fits is the next one done, one that does not starts over.
LEMMA EncodePartKeeps == ASSUME PostInv, EncodePart PROVE PostInv'
<1>1. swap \in SwapRecs /\ swap.size \in Nat /\ swap.done \in Nat /\ swap.first \in Int /\ swap.try \in 0..2
  BY DEF PostInv, SwapInv, SwapRecs
<1>2. swap.at = "parts" /\ UNCHANGED <<composers, swaps, authorEdits, posted>> BY DEF EncodePart
<1>3. swap.tries = 0 /\ Gapless(swap.frames, swap.size) /\ swap.first > PostLimit
  BY <1>2 DEF PostInv, SwapInv, LaidInv, FramesInv
<1>4. swap.frames \in FrameSeqs /\ Len(swap.frames) \in Nat BY <1>1 DEF SwapRecs, FrameSeqs
<1> DEFINE done == swap.done + 1
           step == IF done = Len(swap.frames) THEN "layout" ELSE "parts"
           try == swap.try + 1
           chunk == Chunk(swap.size, swap.first, try)
           fs == Frames(swap.size, chunk)
<1>5. \/ swap' = [swap EXCEPT !.done = done, !.at = step]
      \/ swap.try < 2 /\ swap' = [swap EXCEPT !.try = try, !.done = 0, !.frames = fs]
  <2>1. PICK cost \in Costs :
          IF Length(swap.frames[swap.done + 1], Len(swap.frames), cost) <= PostLimit
          THEN swap' = [swap EXCEPT !.done = @ + 1,
                                    !.at = IF swap.done + 1 = Len(swap.frames) THEN "layout" ELSE "parts"]
          ELSE /\ swap.try < 2
               /\ swap' = [swap EXCEPT !.try = @ + 1, !.done = 0,
                                       !.frames = Frames(swap.size, Chunk(swap.size, swap.first, swap.try + 1))]
    BY DEF EncodePart
  <2> QED BY <2>1
<1>6. CASE swap' = [swap EXCEPT !.done = done, !.at = step]
  <2>1. done \in Nat /\ step \in SwapSteps BY <1>1 DEF SwapSteps
  <2>2. step = "layout" => Len(swap.frames) >= 1 BY <1>1, <1>4
  <2>3. step \in {"parts", "layout"} OBVIOUS
  <2> HIDE DEF done, step
  <2>4. swap' \in SwapRecs BY <1>1, <1>6, <2>1 DEF SwapRecs
  <2>5. /\ swap'.at = step /\ swap'.real = swap.real /\ swap'.tries = swap.tries
        /\ swap'.frames = swap.frames /\ swap'.size = swap.size /\ swap'.first = swap.first
    BY <1>1, <1>6 DEF SwapRecs
  <2> QED BY <1>2, <1>3, <2>2, <2>3, <2>4, <2>5, SwapMoves
<1>7. CASE swap.try < 2 /\ swap' = [swap EXCEPT !.try = try, !.done = 0, !.frames = fs]
  <2>1. try \in 0..2 BY <1>1, <1>7
  <2> HIDE DEF try
  <2>2. chunk \in Nat /\ chunk >= 2 BY <1>1, <1>3, <2>1, ChunkIsPositive
  <2> HIDE DEF chunk
  <2>3. fs \in FrameSeqs /\ Gapless(fs, swap.size) BY <1>1, <2>2, FramesAreWhole
  <2> HIDE DEF fs
  <2>4. swap' \in SwapRecs BY <1>1, <1>7, <2>1, <2>3 DEF SwapRecs
  <2>5. /\ swap'.at = swap.at /\ swap'.real = swap.real /\ swap'.tries = swap.tries
        /\ swap'.frames = fs /\ swap'.size = swap.size /\ swap'.first = swap.first
    BY <1>1, <1>7 DEF SwapRecs
  <2> QED BY <1>2, <1>3, <2>3, <2>4, <2>5, SwapMoves
<1> QED BY <1>5, <1>6, <1>7

LEMMA InterceptKeeps == ASSUME PostInv, Intercept PROVE PostInv'
<1>1. PICK s \in CipherSizes :
        swap' = [NoSwap EXCEPT !.at = "resolve", !.real = composers[1], !.id = swaps + 1, !.size = s]
  BY DEF Intercept
<1>2. swaps' = swaps + 1 /\ UNCHANGED <<composers, authorEdits, posted>> BY DEF Intercept
<1>3. s \in Nat /\ swaps \in Nat BY XPostAssumption DEF PostInv, SwapInv
<1>4. composers[1] \in SUBSET Fragments /\ 1 \in DOMAIN composers BY DEF PostInv, BoxesInv
<1>5. NoSwap \in SwapRecs /\ NoSwap.tries = 0
  <2>1. <<>> \in FrameSeqs BY DEF FrameSeqs
  <2> QED BY <2>1 DEF NoSwap, SwapRecs, SwapSteps
<1>6. swap' \in SwapRecs
  <2> DEFINE id == swaps + 1
             real == composers[1]
  <2>1. id \in Nat /\ real \in SUBSET Fragments /\ "resolve" \in SwapSteps BY <1>3, <1>4 DEF SwapSteps
  <2>2. swap' = [NoSwap EXCEPT !.at = "resolve", !.real = real, !.id = id, !.size = s] BY <1>1
  <2> HIDE DEF id, real
  <2> QED BY <1>3, <1>5, <2>1, <2>2 DEF SwapRecs
<1>7. swap'.at = "resolve" /\ swap'.real = composers[1] /\ swap'.tries = 0 BY <1>1, <1>5 DEF SwapRecs
<1>8. BoxesInv' BY <1>2 DEF PostInv, BoxesInv
<1>9. RealInv'
  <2>1. \A n \in Nat : n > authorEdits' => Real(n) \notin swap'.real BY <1>2, <1>4, <1>7 DEF PostInv, BoxesInv
  <2>2. ASSUME NEW i \in DOMAIN composers, i # 1 PROVE Clear(composers[i], composers[1])
    BY <1>4, <2>2 DEF PostInv, BoxesInv, Clear
  <2> QED BY <1>2, <1>7, <2>1, <2>2 DEF RealInv
<1>10. FramesInv' /\ LaidInv' BY <1>7 DEF FramesInv, LaidInv
<1>11. PostedWhole' BY <1>2 DEF PostInv, PostedWhole, OursPosted
<1>12. swaps' \in Nat BY <1>2, <1>3
<1> QED BY <1>6, <1>8, <1>9, <1>10, <1>11, <1>12 DEF PostInv, SwapInv

-----------------------------------------------------------------------------
\* The author.

LEMMA RealIsFresh == ASSUME NEW n \in Nat, NEW m \in Nat, Real(n) = Real(m) PROVE n = m
BY DEF Real

LEMMA CoverIsNotReal == ASSUME NEW m, NEW i PROVE ~IsReal(Cover(m, i))
BY DEF Cover, IsReal

LEMMA AuthorTypesKeeps == ASSUME PostInv, NEW b \in DOMAIN composers, AuthorTypes(b) PROVE PostInv'
<1> DEFINE new == Real(authorEdits + 1)
           boxed == composers[b] \cup {new}
<1>1. /\ Typing /\ authorEdits' = authorEdits + 1 /\ composers' = [composers EXCEPT ![b] = boxed]
      /\ UNCHANGED <<swap, swaps, posted>>
  BY DEF AuthorTypes
<1>2. /\ authorEdits \in Nat /\ composers \in Seq(SUBSET Fragments) /\ composers # <<>>
  BY DEF PostInv, BoxesInv
<1>3. new \in Fragments BY <1>2 DEF Fragments
<1>4. /\ \A i \in DOMAIN composers : new \notin composers[i]
      /\ new \notin swap.real
  BY <1>2 DEF PostInv, BoxesInv, SwapInv, RealInv
<1>5. \A n \in Nat : n > authorEdits' => Real(n) # new BY <1>1, <1>2, RealIsFresh
<1> HIDE DEF new
<1>6. boxed \in SUBSET Fragments BY <1>2, <1>3
<1>7. /\ DOMAIN composers' = DOMAIN composers /\ Len(composers') = Len(composers)
      /\ \A i \in DOMAIN composers : composers'[i] = IF i = b THEN boxed ELSE composers[i]
  BY <1>1, <1>2
<1>8. composers' \in Seq(SUBSET Fragments) /\ composers' # <<>>
  <2> HIDE DEF boxed
  <2> QED BY <1>1, <1>2, <1>6
<1>9. authorEdits' \in Nat /\ \A n \in Nat : n > authorEdits' => n > authorEdits BY <1>1, <1>2
<1>10. \A n \in Nat : n > authorEdits' => \A i \in DOMAIN composers' : Real(n) \notin composers'[i]
  BY <1>5, <1>7, <1>9 DEF PostInv, BoxesInv
<1>11. \A i, j \in DOMAIN composers' : i # j => \A f \in composers'[i] \cap composers'[j] : ~IsReal(f)
  BY <1>4, <1>7 DEF PostInv, BoxesInv
<1>12. BoxesInv' BY <1>8, <1>9, <1>10, <1>11 DEF BoxesInv
<1>13. RealInv'
  <2>1. \A n \in Nat : n > authorEdits' => Real(n) \notin swap'.real
    BY <1>1, <1>9 DEF PostInv, SwapInv, RealInv
  <2>2. \A i \in DOMAIN composers : Clear(composers[i], swap.real) => Clear(composers'[i], swap.real)
    BY <1>4, <1>7 DEF Clear
  <2>3. swap.real \subseteq composers[1] => swap.real \subseteq composers'[1]
    <3>1. 1 \in DOMAIN composers BY <1>2
    <3> QED BY <1>7, <3>1
  <2>4. 1 \in DOMAIN composers BY <1>2
  <2>5. swap.at # "press" BY <1>1 DEF Typing
  <2> QED BY <1>1, <1>7, <2>1, <2>2, <2>3, <2>4, <2>5 DEF PostInv, SwapInv, RealInv
<1>14. FramesInv' BY <1>1 DEF PostInv, SwapInv, FramesInv
<1>15. LaidInv' BY <1>1 DEF PostInv, SwapInv, LaidInv, Typing
<1>16. PostedWhole' BY <1>1 DEF PostInv, PostedWhole, OursPosted
<1> QED BY <1>1, <1>12, <1>13, <1>14, <1>15, <1>16 DEF PostInv, SwapInv

\* A composer is added below the others, by hand or by layoutThread.
LEMMA AppendedBoxes ==
  ASSUME PostInv, composers' = Append(composers, {}), UNCHANGED authorEdits
  PROVE  /\ BoxesInv'
         /\ Len(composers') = Len(composers) + 1 /\ Len(composers) \in Nat
         /\ DOMAIN composers = 1..Len(composers) /\ DOMAIN composers' = 1..(Len(composers) + 1)
         /\ \A i \in DOMAIN composers : composers'[i] = composers[i]
         /\ composers'[Len(composers) + 1] = {}
         /\ 1 \in DOMAIN composers
<1>1. composers \in Seq(SUBSET Fragments) /\ composers # <<>> /\ {} \in SUBSET Fragments BY DEF PostInv, BoxesInv
<1>2. /\ composers' \in Seq(SUBSET Fragments) /\ composers' # <<>>
      /\ Len(composers') = Len(composers) + 1 /\ Len(composers) \in Nat
      /\ DOMAIN composers = 1..Len(composers) /\ DOMAIN composers' = 1..(Len(composers) + 1)
      /\ \A i \in DOMAIN composers : composers'[i] = composers[i]
      /\ composers'[Len(composers) + 1] = {}
      /\ 1 \in DOMAIN composers
  BY <1>1
<1>3. \A i \in DOMAIN composers' : i \in DOMAIN composers \/ composers'[i] = {} BY <1>2
<1>4. \A n \in Nat : n > authorEdits' => \A i \in DOMAIN composers' : Real(n) \notin composers'[i]
  BY <1>2, <1>3 DEF PostInv, BoxesInv
<1>5. \A i, j \in DOMAIN composers' : i # j => \A f \in composers'[i] \cap composers'[j] : ~IsReal(f)
  BY <1>2, <1>3 DEF PostInv, BoxesInv
<1>6. BoxesInv' BY <1>2, <1>4, <1>5 DEF PostInv, BoxesInv
<1> QED BY <1>2, <1>6

LEMMA AddByHandKeeps == ASSUME PostInv, AddByHand PROVE PostInv'
<1>1. /\ swap.at = "none" /\ composers' = Append(composers, {}) /\ UNCHANGED <<swap, swaps, authorEdits, posted>>
  BY DEF AddByHand
<1>2. BoxesInv' BY <1>1, AppendedBoxes
<1>3. RealInv' /\ FramesInv' /\ LaidInv' BY <1>1 DEF PostInv, SwapInv, RealInv, FramesInv, LaidInv
<1>4. PostedWhole' BY <1>1 DEF PostInv, PostedWhole, OursPosted
<1> QED BY <1>1, <1>2, <1>3, <1>4 DEF PostInv, SwapInv

LEMMA UndoKeeps == ASSUME PostInv, Undo PROVE PostInv'
<1>1. /\ swap.at \in {"layout", "mounting", "gate"} /\ composers' = [composers EXCEPT ![1] = swap.real]
      /\ UNCHANGED <<swap, swaps, authorEdits, posted>>
  BY DEF Undo
<1>2. composers \in Seq(SUBSET Fragments) /\ composers # <<>> /\ authorEdits \in Nat BY DEF PostInv, BoxesInv
<1>3. swap \in SwapRecs /\ swap.real \in SUBSET Fragments BY DEF PostInv, SwapInv, SwapRecs
<1>4. /\ composers' \in Seq(SUBSET Fragments) /\ composers' # <<>> /\ 1 \in DOMAIN composers
      /\ DOMAIN composers' = DOMAIN composers /\ Len(composers') = Len(composers)
      /\ composers'[1] = swap.real
      /\ \A i \in DOMAIN composers : i # 1 => composers'[i] = composers[i]
  BY <1>1, <1>2, <1>3
<1>5. /\ \A n \in Nat : n > authorEdits => Real(n) \notin swap.real
      /\ \A i \in DOMAIN composers : i # 1 => Clear(composers[i], swap.real)
  BY <1>1 DEF PostInv, SwapInv, RealInv
<1>6. \A n \in Nat : n > authorEdits' => \A i \in DOMAIN composers' : Real(n) \notin composers'[i]
  BY <1>1, <1>4, <1>5 DEF PostInv, BoxesInv
<1>7. \A i, j \in DOMAIN composers' : i # j => \A f \in composers'[i] \cap composers'[j] : ~IsReal(f)
  BY <1>4, <1>5 DEF PostInv, BoxesInv, Clear
<1>8. BoxesInv' BY <1>1, <1>2, <1>4, <1>6, <1>7 DEF BoxesInv
<1>9. RealInv' BY <1>1, <1>4, <1>5 DEF RealInv
<1>10. FramesInv' BY <1>1 DEF PostInv, SwapInv, FramesInv
<1>11. LaidInv'
  <2>1. Part' = Part BY <1>1 DEF Part
  <2>2. \A i \in DOMAIN composers : Covered(i) => Covered(i)' BY <1>1, <1>4 DEF Covered
  <2> QED BY <1>1, <1>4, <2>1, <2>2 DEF PostInv, SwapInv, LaidInv
<1>12. PostedWhole' BY <1>1 DEF PostInv, PostedWhole, OursPosted
<1> QED BY <1>1, <1>3, <1>8, <1>9, <1>10, <1>11, <1>12 DEF PostInv, SwapInv

LEMMA SwitchKeeps == ASSUME PostInv, Switch PROVE PostInv'
BY DEF Switch, PostInv, BoxesInv, SwapInv, RealInv, FramesInv, LaidInv, Part, Covered, PostedWhole, OursPosted

-----------------------------------------------------------------------------
\* Laying out the thread.

LEMMA WrittenBoxes ==
  ASSUME PostInv, swap.at = "layout", NEW result \in {"taken", "append", "deaf"},
         composers' = WriteBox(Part, result), UNCHANGED <<swap, authorEdits>> \/ UNCHANGED authorEdits
  PROVE  /\ BoxesInv'
         /\ DOMAIN composers' = DOMAIN composers
         /\ \A i \in DOMAIN composers : i # Part => composers'[i] = composers[i]
         /\ swap.real \subseteq composers'[1] \/ Clear(composers'[1], swap.real)
         /\ \A i \in DOMAIN composers : i # 1 => Clear(composers'[i], swap.real)
<1> DEFINE b == Part
           f == Cover(swap.id, b)
           new == CASE result = "taken" -> {f} [] result = "append" -> composers[b] \cup {f} [] result = "deaf" -> composers[b]
<1>1. composers \in Seq(SUBSET Fragments) /\ composers # <<>> /\ 1 \in DOMAIN composers BY DEF PostInv, BoxesInv
<1>2. swap \in SwapRecs /\ swap.id \in Nat /\ swap.tries \in Nat BY DEF PostInv, SwapInv, SwapRecs
<1>3. b \in DOMAIN composers /\ b \in Nat BY <1>2 DEF PostInv, SwapInv, LaidInv, Part
<1>4. f \in Fragments /\ ~IsReal(f) BY <1>2, <1>3, CoverIsNotReal DEF Fragments
<1>5. composers' = [composers EXCEPT ![b] = new]
  <2>1. CASE result = "taken" BY <2>1 DEF WriteBox
  <2>2. CASE result = "append" BY <2>2 DEF WriteBox
  <2>3. CASE result = "deaf"
    <3>1. composers' = composers /\ new = composers[b] BY <2>3 DEF WriteBox
    <3> HIDE DEF new
    <3> QED BY <1>1, <1>3, <3>1
  <2> QED BY <2>1, <2>2, <2>3
<1>6. new = {f} \/ new = composers[b] \cup {f} \/ new = composers[b] OBVIOUS
<1> HIDE DEF new, b, f
<1>7. new \in SUBSET Fragments BY <1>1, <1>3, <1>4, <1>6
<1>8. /\ composers' \in Seq(SUBSET Fragments) /\ composers' # <<>>
      /\ DOMAIN composers' = DOMAIN composers
      /\ composers'[b] = new
      /\ \A i \in DOMAIN composers : i # b => composers'[i] = composers[i]
  BY <1>1, <1>3, <1>5, <1>7
<1>9. \A g \in new : IsReal(g) => g \in composers[b] BY <1>4, <1>6
<1>10. \A i \in DOMAIN composers : \A g \in composers'[i] : IsReal(g) => g \in composers[i] BY <1>8, <1>9
<1>11. \A n \in Nat : IsReal(Real(n)) BY DEF Real, IsReal
<1>12. \A n \in Nat : n > authorEdits' => \A i \in DOMAIN composers' : Real(n) \notin composers'[i]
  BY <1>8, <1>10, <1>11 DEF PostInv, BoxesInv
<1>13. \A i, j \in DOMAIN composers' : i # j => \A g \in composers'[i] \cap composers'[j] : ~IsReal(g)
  BY <1>8, <1>10 DEF PostInv, BoxesInv
<1>14. BoxesInv' BY <1>8, <1>12, <1>13 DEF PostInv, BoxesInv
<1>15. \A i \in DOMAIN composers : Clear(composers[i], swap.real) => Clear(composers'[i], swap.real)
  BY <1>10 DEF Clear
<1>16. swap.real \subseteq composers[1] => swap.real \subseteq composers'[1] \/ Clear(composers'[1], swap.real)
  <2>1. CASE b = 1
    <3>1. CASE new = {f} BY <1>4, <1>8, <2>1, <3>1 DEF Clear
    <3>2. CASE new # {f} BY <1>6, <1>8, <2>1, <3>2
    <3> QED BY <3>1, <3>2
  <2>2. CASE b # 1 BY <1>1, <1>8, <2>2
  <2> QED BY <2>1, <2>2
<1> QED BY <1>1, <1>8, <1>14, <1>15, <1>16 DEF b, PostInv, SwapInv, RealInv

LEMMA ReplaceComposeKeeps == ASSUME PostInv, ReplaceCompose PROVE PostInv'
<1> DEFINE good(result) ==
             LET after == WriteBox(Part, result) IN
             after[Part] = {Cover(swap.id, Part)} /\ result # "deaf" /\ \A i \in DOMAIN after : after[i] # {}
           next == IF Part = Len(swap.frames) THEN "gate" ELSE "mounting"
           retried == [swap EXCEPT !.tries = swap.tries + 1]
           taken == [swap EXCEPT !.at = next, !.tries = Part * 3]
<1>1. PICK result \in {"taken"} \cup (XFaults \cap {"append", "deaf"}) :
        /\ composers' = WriteBox(Part, result)
        /\ IF good(result) THEN swap' = taken /\ UNCHANGED swapping
           ELSE IF swap.tries % 3 < 2 THEN swap' = retried /\ UNCHANGED swapping
           ELSE swap' = NoSwap /\ swapping' = FALSE
  BY Zenon DEF ReplaceCompose, NextPart
<1>2. swap.at = "layout" /\ UNCHANGED <<swaps, authorEdits, posted>> BY DEF ReplaceCompose
<1>3. /\ BoxesInv'
      /\ DOMAIN composers' = DOMAIN composers
      /\ \A i \in DOMAIN composers : i # Part => composers'[i] = composers[i]
      /\ swap.real \subseteq composers'[1] \/ Clear(composers'[1], swap.real)
      /\ \A i \in DOMAIN composers : i # 1 => Clear(composers'[i], swap.real)
  BY <1>1, <1>2, WrittenBoxes
<1>4. swap \in SwapRecs /\ swap.tries \in Nat /\ swap.frames \in FrameSeqs /\ Len(swap.frames) \in Nat
  BY DEF PostInv, SwapInv, SwapRecs, FrameSeqs
<1>5. /\ \A i \in 1..(Part - 1) : i \in DOMAIN composers /\ Covered(i)
      /\ Part \in DOMAIN composers /\ Part <= Len(swap.frames) /\ Gapless(swap.frames, swap.size)
  BY <1>2 DEF PostInv, SwapInv, LaidInv, FramesInv
<1>6. Part \in Nat \ {0} BY <1>4 DEF Part
<1>7. PostedWhole' BY <1>2 DEF PostInv, PostedWhole, OursPosted
<1>8. \A n \in Nat : n > authorEdits' => Real(n) \notin swap.real BY <1>2 DEF PostInv, SwapInv, RealInv
<1>9. \A i \in 1..(Part - 1) : i \in DOMAIN composers' /\ composers'[i] = composers[i] /\ (i = 1 => composers'[1] = composers[1])
  <2>1. \A i \in 1..(Part - 1) : i \in DOMAIN composers /\ i # Part BY <1>5, <1>6
  <2> QED BY <1>3, <2>1
<1>10. CASE good(result)
  <2>1. swap' = taken BY <1>1, <1>10
  <2>2. composers'[Part] = {Cover(swap.id, Part)} BY <1>1, <1>10
  <2>3. next \in {"gate", "mounting"} /\ (next = "gate" <=> Part = Len(swap.frames)) /\ next \in SwapSteps BY DEF SwapSteps
  <2>4. Part * 3 \in Nat BY <1>6
  <2> HIDE DEF next
  <2>5. swap' \in SwapRecs BY <1>4, <2>1, <2>3, <2>4 DEF SwapRecs
  <2>6. /\ swap'.at = next /\ swap'.tries = Part * 3 /\ swap'.frames = swap.frames /\ swap'.size = swap.size
        /\ swap'.real = swap.real /\ swap'.id = swap.id
    BY <1>4, <2>1 DEF SwapRecs
  <2>7. Part' = Part + 1
    <3> DEFINE k == Part
    <3>1. k \in Nat /\ Part' = swap'.tries \div 3 + 1 /\ swap'.tries = k * 3 BY <1>6, <2>6 DEF Part
    <3> HIDE DEF k
    <3>2. (k * 3) \div 3 = k BY <3>1
    <3>3. Part' = k + 1 BY <3>1, <3>2
    <3> QED BY <3>3 DEF k
  <2>8. RealInv' BY <1>3, <1>8, <2>3, <2>6 DEF RealInv
  <2>9. FramesInv' BY <1>5, <2>3, <2>6 DEF FramesInv
  <2>10. \A i \in 1..(Part' - 1) : i \in DOMAIN composers' /\ Covered(i)'
    <3> SUFFICES ASSUME NEW i \in 1..(Part' - 1) PROVE i \in DOMAIN composers' /\ Covered(i)' OBVIOUS
    <3>1. CASE i = Part BY <1>3, <1>5, <2>2, <2>6, <3>1 DEF Covered
    <3>2. CASE i # Part
      <4>1. i \in 1..(Part - 1) BY <1>6, <2>7, <3>2
      <4> QED BY <1>5, <1>9, <2>6, <4>1 DEF Covered
    <3> QED BY <3>1, <3>2
  <2>11. swap'.at = "gate" => swap'.tries = 3 * Len(swap'.frames) BY <1>4, <2>3, <2>6
  <2>12. swap'.at = "mounting" => Part' <= Len(swap'.frames) BY <1>4, <1>5, <1>6, <2>3, <2>6, <2>7
  <2>13. swap'.at \in {"gate", "mounting"} BY <2>3, <2>6
  <2>14. LaidInv' BY <2>10, <2>11, <2>12, <2>13 DEF LaidInv
  <2> QED BY <1>2, <1>3, <1>7, <2>5, <2>8, <2>9, <2>14 DEF PostInv, SwapInv
<1>11. CASE ~good(result) /\ swap.tries % 3 < 2
  <2>1. swap' = retried BY <1>1, <1>11
  <2>2. swap.tries + 1 \in Nat BY <1>4
  <2>3. swap' \in SwapRecs BY <1>4, <2>1, <2>2 DEF SwapRecs
  <2>4. /\ swap'.at = "layout" /\ swap'.tries = swap.tries + 1 /\ swap'.frames = swap.frames /\ swap'.size = swap.size
        /\ swap'.real = swap.real /\ swap'.id = swap.id
    BY <1>2, <1>4, <2>1 DEF SwapRecs
  <2>5. Part' = Part
    <3> DEFINE k == swap.tries
    <3>1. k \in Nat /\ k % 3 < 2 BY <1>4, <1>11
    <3>2. Part = k \div 3 + 1 /\ Part' = (k + 1) \div 3 + 1 BY <2>4 DEF Part
    <3> HIDE DEF k
    <3>3. (k + 1) \div 3 = k \div 3 BY <3>1
    <3> QED BY <3>2, <3>3
  <2>6. RealInv' BY <1>3, <1>8, <2>4 DEF RealInv
  <2>7. FramesInv' BY <1>5, <2>4 DEF FramesInv
  <2>8. \A i \in 1..(Part' - 1) : i \in DOMAIN composers' /\ Covered(i)' BY <1>5, <1>9, <2>4, <2>5 DEF Covered
  <2>9. LaidInv' BY <1>3, <1>5, <2>4, <2>5, <2>8 DEF LaidInv
  <2> QED BY <1>2, <1>3, <1>7, <2>3, <2>6, <2>7, <2>9 DEF PostInv, SwapInv
<1>12. CASE ~good(result) /\ ~(swap.tries % 3 < 2)
  <2>1. swap' = NoSwap BY <1>1, <1>12
  <2> QED BY <1>2, <1>3, <2>1, SwapEnds
<1> QED BY <1>10, <1>11, <1>12

LEMMA MountNextKeeps == ASSUME PostInv, MountNext PROVE PostInv'
<1>1. /\ swap.at = "mounting" /\ composers' = Append(composers, {}) /\ swap' = [swap EXCEPT !.at = "layout"]
      /\ UNCHANGED <<swaps, authorEdits, posted>>
  BY DEF MountNext, SwapGoes
<1>2. /\ BoxesInv' /\ Len(composers') = Len(composers) + 1 /\ Len(composers) \in Nat
      /\ DOMAIN composers = 1..Len(composers) /\ DOMAIN composers' = 1..(Len(composers) + 1)
      /\ \A i \in DOMAIN composers : composers'[i] = composers[i]
      /\ composers'[Len(composers) + 1] = {} /\ 1 \in DOMAIN composers
  BY <1>1, AppendedBoxes
<1>3. swap \in SwapRecs /\ swap.tries \in Nat BY DEF PostInv, SwapInv, SwapRecs
<1>4. swap' \in SwapRecs BY <1>1, <1>3 DEF SwapRecs, SwapSteps
<1>5. /\ swap'.at = "layout" /\ swap'.tries = swap.tries /\ swap'.frames = swap.frames /\ swap'.size = swap.size
      /\ swap'.real = swap.real /\ swap'.id = swap.id
  BY <1>1, <1>3 DEF SwapRecs
<1>6. Part' = Part /\ Part \in Nat \ {0} BY <1>3, <1>5 DEF Part
<1>7. RealInv'
  <2>1. \A i \in DOMAIN composers' : i \in DOMAIN composers \/ composers'[i] = {} BY <1>2
  <2> QED BY <1>1, <1>2, <1>5, <2>1 DEF PostInv, SwapInv, RealInv, Clear
<1>8. FramesInv' BY <1>1, <1>5 DEF PostInv, SwapInv, FramesInv
<1>9. \A i \in 1..(Part - 1) : i \in DOMAIN composers /\ Covered(i) BY <1>1 DEF PostInv, SwapInv, LaidInv
<1>10. \A i \in 1..(Part' - 1) : i \in DOMAIN composers' /\ Covered(i)'
  BY <1>2, <1>5, <1>6, <1>9 DEF Covered
<1>11. Part' \in DOMAIN composers'
  <2>1. CASE Part = 1 BY <1>2, <1>6, <2>1
  <2>2. CASE Part # 1
    <3>1. Part - 1 \in 1..(Part - 1) BY <1>6, <2>2
    <3>2. Part - 1 \in 1..Len(composers) BY <1>2, <1>9, <3>1
    <3> QED BY <1>2, <1>6, <3>2
  <2> QED BY <2>1, <2>2
<1>12. Part' <= Len(swap'.frames) BY <1>1, <1>5, <1>6 DEF PostInv, SwapInv, LaidInv
<1>13. LaidInv' BY <1>5, <1>10, <1>11, <1>12 DEF LaidInv
<1>14. PostedWhole' BY <1>1 DEF PostInv, PostedWhole, OursPosted
<1> QED BY <1>1, <1>2, <1>4, <1>7, <1>8, <1>13, <1>14 DEF PostInv, SwapInv

LEMMA LastGateKeeps == ASSUME PostInv, LastGate PROVE PostInv'
<1>1. /\ swap.at = "gate" /\ swap' = [swap EXCEPT !.at = "press"]
      /\ \A i \in DOMAIN composers : ~(swap.real \subseteq composers[i])
      /\ UNCHANGED <<composers, swaps, authorEdits, posted>>
  BY DEF LastGate, SwapGoes
<1>2. swap \in SwapRecs BY DEF PostInv, SwapInv
<1>3. swap' \in SwapRecs BY <1>1, <1>2 DEF SwapRecs, SwapSteps
<1>4. /\ swap'.at = "press" /\ swap'.tries = swap.tries /\ swap'.frames = swap.frames /\ swap'.size = swap.size
      /\ swap'.real = swap.real /\ swap'.id = swap.id
  BY <1>1, <1>2 DEF SwapRecs
<1>5. 1 \in DOMAIN composers BY DEF PostInv, BoxesInv
<1>6. BoxesInv' BY <1>1 DEF PostInv, BoxesInv
<1>7. RealInv' BY <1>1, <1>4, <1>5 DEF PostInv, SwapInv, RealInv
<1>8. FramesInv' BY <1>1, <1>4 DEF PostInv, SwapInv, FramesInv
<1>9. LaidInv'
  <2>1. Part' = Part BY <1>4 DEF Part
  <2>2. \A i : Covered(i)' <=> Covered(i) BY <1>1, <1>4 DEF Covered
  <2> QED BY <1>1, <1>4, <2>1, <2>2 DEF PostInv, SwapInv, LaidInv
<1>10. PostedWhole' BY <1>1 DEF PostInv, PostedWhole, OursPosted
<1> QED BY <1>1, <1>3, <1>6, <1>7, <1>8, <1>9, <1>10 DEF PostInv, SwapInv

-----------------------------------------------------------------------------
\* Publishing.

LEMMA NewBoxes == ASSUME PostInv, composers' = << {} >>, UNCHANGED authorEdits PROVE BoxesInv'
<1>1. authorEdits' \in Nat BY DEF PostInv, BoxesInv
<1>2. /\ composers' \in Seq(SUBSET Fragments) /\ composers' # <<>>
      /\ \A i \in DOMAIN composers' : i = 1 /\ composers'[i] = {}
  OBVIOUS
<1> QED BY <1>1, <1>2 DEF BoxesInv

LEMMA PostWhileOffKeeps == ASSUME PostInv, PostWhileOff PROVE PostInv'
<1> DEFINE p == [by |-> "author", composers |-> composers, id |-> swap.id, frames |-> swap.frames, real |-> swap.real, size |-> swap.size]
<1>1. /\ swap.at = "none" /\ posted' = posted \cup {p} /\ composers' = << {} >>
      /\ UNCHANGED <<swap, swaps, authorEdits>>
  BY DEF PostWhileOff, PublishThread
<1>2. p.by # "extension" OBVIOUS
<1> HIDE DEF p
<1>3. BoxesInv' BY <1>1, NewBoxes
<1>4. RealInv' /\ FramesInv' /\ LaidInv' BY <1>1 DEF PostInv, SwapInv, RealInv, FramesInv, LaidInv
<1>5. OursPosted' = OursPosted BY <1>1, <1>2 DEF OursPosted
<1>6. PostedWhole' BY <1>5 DEF PostInv, PostedWhole
<1> QED BY <1>1, <1>3, <1>4, <1>6 DEF PostInv, SwapInv

LEMMA PressKeeps == ASSUME PostInv, Press PROVE PostInv'
<1> DEFINE p == [by |-> "extension", composers |-> composers, id |-> swap.id, frames |-> swap.frames, real |-> swap.real, size |-> swap.size]
<1>1. /\ swap.at = "press" /\ posted' = posted \cup {p} /\ composers' = << {} >> /\ swap' = NoSwap
      /\ UNCHANGED <<swaps, authorEdits>>
  BY DEF Press, PublishThread
<1>2. p.composers = composers /\ p.id = swap.id /\ p.frames = swap.frames /\ p.real = swap.real /\ p.size = swap.size
  OBVIOUS
<1> HIDE DEF p
<1>3. /\ ~(swap.real \subseteq composers[1]) /\ Clear(composers[1], swap.real)
      /\ \A i \in DOMAIN composers : i # 1 => Clear(composers[i], swap.real)
      /\ Gapless(swap.frames, swap.size)
      /\ \A i \in 1..(Part - 1) : i \in DOMAIN composers /\ Covered(i)
      /\ swap.tries = 3 * Len(swap.frames)
  BY <1>1 DEF PostInv, SwapInv, RealInv, FramesInv, LaidInv
<1>4. swap.frames \in FrameSeqs BY DEF PostInv, SwapInv, SwapRecs
<1>5. DOMAIN swap.frames = 1..Len(swap.frames) /\ Len(swap.frames) \in Nat BY <1>4 DEF FrameSeqs
<1>6. Part - 1 = Len(swap.frames)
  <2> DEFINE k == Len(swap.frames)
  <2>1. k \in Nat /\ Part = (3 * k) \div 3 + 1 BY <1>3, <1>5 DEF Part
  <2> HIDE DEF k
  <2>2. (3 * k) \div 3 = k BY <2>1
  <2>3. Part - 1 = k BY <2>1, <2>2
  <2> QED BY <2>3 DEF k
<1>7. \A i \in DOMAIN composers : \A f \in composers[i] : ~IsReal(f) \/ f \notin swap.real BY <1>3 DEF Clear
<1>8. \A i \in DOMAIN swap.frames : composers[i] = {Cover(swap.id, i)}
  BY <1>3, <1>5, <1>6 DEF Covered
<1>9. PostedWhole'
  <2> SUFFICES ASSUME NEW q \in OursPosted'
               PROVE  /\ \A i \in DOMAIN q.composers : \A f \in q.composers[i] : ~IsReal(f) \/ f \notin q.real
                      /\ \A i \in DOMAIN q.frames :
                           /\ q.composers[i] = {Cover(q.id, i)}
                           /\ q.frames[i].from = IF i = 1 THEN 0 ELSE q.frames[i - 1].to
                           /\ i = Len(q.frames) => q.frames[i].to = q.size
    BY DEF PostedWhole
  <2>1. CASE q = p BY <1>2, <1>3, <1>7, <1>8, <2>1 DEF Gapless
  <2>2. CASE q \in OursPosted BY <2>2 DEF PostInv, PostedWhole
  <2> QED BY <1>1, <2>1, <2>2 DEF OursPosted
<1>10. BoxesInv' BY <1>1, NewBoxes
<1>11. NoSwap \in SwapRecs /\ NoSwap.at = "none" /\ NoSwap.real = {} /\ NoSwap.tries = 0
  <2>1. <<>> \in FrameSeqs BY DEF FrameSeqs
  <2> QED BY <2>1 DEF NoSwap, SwapRecs, SwapSteps
<1>12. SwapInv' BY <1>1, <1>11 DEF PostInv, SwapInv, RealInv, FramesInv, LaidInv
<1> QED BY <1>9, <1>10, <1>12 DEF PostInv

-----------------------------------------------------------------------------
LEMMA PostStarts == XPostInit => PostInv
<1> SUFFICES ASSUME XPostInit PROVE PostInv OBVIOUS
<1>1. composers = << {} >> /\ swap = NoSwap /\ swaps = 0 /\ authorEdits = 0 /\ posted = {} BY DEF XPostInit
<1>2. NoSwap \in SwapRecs /\ NoSwap.at = "none" /\ NoSwap.real = {} /\ NoSwap.tries = 0
  <2>1. <<>> \in FrameSeqs BY DEF FrameSeqs
  <2> QED BY <2>1 DEF NoSwap, SwapRecs, SwapSteps
<1>3. BoxesInv
  <2>1. /\ composers \in Seq(SUBSET Fragments) /\ composers # <<>>
        /\ \A i \in DOMAIN composers : i = 1 /\ composers[i] = {}
    BY <1>1
  <2> QED BY <1>1, <2>1 DEF BoxesInv
<1>4. SwapInv BY <1>1, <1>2 DEF SwapInv, RealInv, FramesInv, LaidInv
<1>5. PostedWhole BY <1>1 DEF PostedWhole, OursPosted
<1> QED BY <1>3, <1>4, <1>5 DEF PostInv

LEMMA PostStays == ASSUME PostInv, UNCHANGED xpostVars PROVE PostInv'
BY DEF xpostVars, PostInv, BoxesInv, SwapInv, RealInv, FramesInv, LaidInv, Part, Covered, PostedWhole, OursPosted

LEMMA PostKeeps == ASSUME PostInv, XPostNext PROVE PostInv'
<1>1. CASE \E b \in DOMAIN composers : AuthorTypes(b) BY <1>1, AuthorTypesKeeps
<1>2. CASE AddByHand BY <1>2, AddByHandKeeps
<1>3. CASE Undo BY <1>3, UndoKeeps
<1>4. CASE Switch BY <1>4, SwitchKeeps
<1>5. CASE PostWhileOff BY <1>5, PostWhileOffKeeps
<1>6. CASE Intercept BY <1>6, InterceptKeeps
<1>7. CASE Resolve BY <1>7, ResolveKeeps
<1>8. CASE EncodeSingle BY <1>8, EncodeSingleKeeps
<1>9. CASE EncodePart BY <1>9, EncodePartKeeps
<1>10. CASE ReplaceCompose BY <1>10, ReplaceComposeKeeps
<1>11. CASE MountNext BY <1>11, MountNextKeeps
<1>12. CASE LastGate BY <1>12, LastGateKeeps
<1>13. CASE Press BY <1>13, PressKeeps
<1>14. CASE Unresolved \/ TooLong \/ NeverFits \/ EncodeFails \/ NeverMounts \/ Leaked
  <2>1. Aborts BY <1>14 DEF Unresolved, TooLong, NeverFits, EncodeFails, NeverMounts, Leaked
  <2> QED BY <2>1, AbortKeeps
<1> QED BY <1>1, <1>2, <1>3, <1>4, <1>5, <1>6, <1>7, <1>8, <1>9, <1>10, <1>11, <1>12, <1>13, <1>14 DEF XPostNext

-----------------------------------------------------------------------------
(***************************************************************************)
(* X, reading.                                                             *)
(***************************************************************************)

Painted == {"", "m", "wait", "failed", "label"}
NodeRecs == [post : PostIds, shows : PostIds \cup {0}, rendered : BOOLEAN, state : Painted, late : PostIds \cup {0}]
Verdicts == {Unknown, "null", "message", "part"}
TextStates == {Unknown, "failed", "message"}
HeldThreads == [thread : Threads, parts : SUBSET PostIds]
ScanRecs == [at : {"idle", "pass", "looking", "decoding"}, todo : SUBSET Articles, restarts : Nat,
             dirty : BOOLEAN, article : Articles \cup {0}, post : PostIds \cup {0}]
Keys == {"none"} \cup FeedKeys

PageTypes == node \in [Articles -> NodeRecs] /\ scan \in ScanRecs
CodecTypes ==
  /\ decoded \in [PostIds -> Verdicts] /\ threadText \in [Threads -> TextStates]
  /\ collector \in Seq(HeldThreads) /\ overflowed \in BOOLEAN
  /\ identity \in Keys /\ vault \in Keys

\* A part that was decoded is held, with its thread, until a thread is pushed out.
CollectInv ==
  /\ \A i \in DOMAIN collector : collector[i].parts \subseteq PartsOf(collector[i].thread)
  /\ \A i, j \in DOMAIN collector : collector[i].thread = collector[j].thread => i = j
  /\ \A p \in PostIds : decoded[p] = "part" =>
       /\ Posts[p].total > 1
       /\ ~overflowed => \E i \in DOMAIN collector : collector[i].thread = Posts[p].thread /\ p \in collector[i].parts
  /\ NothingIsLost

\* The post that the codec works on is the one its article holds, or held.
BusyInv ==
  scan.at = "decoding" =>
    /\ scan.article \in Articles /\ scan.post \in PostIds
    /\ decoded[scan.post] = Unknown /\ Tagged(scan.post)
    /\ ~scan.dirty => node[scan.article].post = scan.post
    /\ scan.post \in {node[scan.article].post, node[scan.article].late}

\* A pass that nothing disturbed is done with every article it has left behind.
ScanInv ==
  /\ scan.at # "idle" => scan.restarts \in 1..MaxRestarts
  /\ ~unheard /\ scan.at \in {"looking", "decoding"} /\ ~scan.dirty =>
       \A a \in Backlog : a \in scan.todo \/ (scan.at = "decoding" /\ scan.article = a) \/ Done(a)
  /\ RestIsPainted

FeedInv == PageTypes /\ CodecTypes /\ CollectInv /\ BusyInv /\ ScanInv /\ ShownIsOwn

-----------------------------------------------------------------------------
\* Painting.

LEMMA WantedIs ==
  ASSUME NEW p \in PostIds, NEW v \in {"message", "part"}, v = "part" => Posts[p].total > 1,
         NEW plain \in [Threads -> TextStates]
  PROVE  /\ Wanted(p, v, plain) \in {"m", "wait", "failed", "label"}
         /\ v = "part" /\ Posts[p].seq = 0 /\ plain[Posts[p].thread] = "message" => Wanted(p, v, plain) = "m"
<1>1. CASE v = "message" BY <1>1 DEF Wanted
<1>2. CASE v = "part"
  <2>1. Posts[p].thread \in Threads BY <1>2 DEF Threads
  <2>2. plain[Posts[p].thread] \in TextStates BY <2>1
  <2>3. CASE plain[Posts[p].thread] = Unknown BY <1>2, <2>3 DEF Wanted, Unknown
  <2>4. CASE plain[Posts[p].thread] = "failed" BY <1>2, <2>4 DEF Wanted, Unknown
  <2>5. CASE plain[Posts[p].thread] = "message" BY <1>2, <2>5 DEF Wanted, Unknown
  <2> QED BY <2>2, <2>3, <2>4, <2>5 DEF TextStates
<1> QED BY <1>1, <1>2

LEMMA PaintIs ==
  ASSUME NEW n \in NodeRecs, NEW p \in PostIds, NEW v \in {"message", "part"}, v = "part" => Posts[p].total > 1,
         NEW plain \in [Threads -> TextStates]
  PROVE  /\ Paint(n, p, v, plain) \in NodeRecs
         /\ Paint(n, p, v, plain).post = n.post /\ Paint(n, p, v, plain).late = n.late
         /\ Paint(n, p, v, plain).shows \in {n.shows, p}
         /\ v = "part" /\ Posts[p].seq = 0 /\ plain[Posts[p].thread] = "message" => Paint(n, p, v, plain).shows = p
<1> DEFINE face == Wanted(p, v, plain)
           painted == [n EXCEPT !.state = face, !.shows = IF face = "m" THEN p ELSE n.shows,
                                !.rendered = n.rendered \/ face \in {"m", "label"}]
<1>1. Paint(n, p, v, plain) = IF n.state = face /\ (face = "m" => n.shows = p) THEN n ELSE painted BY DEF Paint
<1>2. face \in Painted
  <2>1. face \in {"m", "wait", "failed", "label"} BY WantedIs
  <2> HIDE DEF face
  <2> QED BY <2>1 DEF Painted
<1>5. v = "part" /\ Posts[p].seq = 0 /\ plain[Posts[p].thread] = "message" => face = "m" BY WantedIs
<1> HIDE DEF face
<1>3. painted \in NodeRecs BY <1>2 DEF NodeRecs
<1>4. painted.post = n.post /\ painted.late = n.late /\ painted.shows = IF face = "m" THEN p ELSE n.shows BY DEF NodeRecs
<1> HIDE DEF painted
<1> QED BY <1>1, <1>3, <1>4, <1>5

\* Painting the visible posts: each gets the text of its own.
LEMMA RepaintIs ==
  ASSUME NEW nodes \in [Articles -> NodeRecs], NEW v \in [PostIds -> Verdicts], NEW plain \in [Threads -> TextStates],
         \A p \in PostIds : v[p] = "part" => Posts[p].total > 1
  PROVE  /\ RepaintVisible(nodes, v, plain) \in [Articles -> NodeRecs]
         /\ \A a \in Articles :
              LET n == RepaintVisible(nodes, v, plain)[a]
                  p == nodes[a].post IN
              /\ n.post = p /\ n.late = nodes[a].late /\ n.shows \in {nodes[a].shows, p}
              /\ v[p] = "part" /\ Posts[p].seq = 0 /\ plain[Posts[p].thread] = "message" => n.shows = p
<1> DEFINE New(a) == IF IsOurs(nodes[a].post, v) THEN Paint(nodes[a], nodes[a].post, v[nodes[a].post], plain) ELSE nodes[a]
<1>1. RepaintVisible(nodes, v, plain) = [a \in Articles |-> New(a)] BY DEF RepaintVisible
<1>2. ASSUME NEW a \in Articles
      PROVE  /\ New(a) \in NodeRecs /\ New(a).post = nodes[a].post /\ New(a).late = nodes[a].late
             /\ New(a).shows \in {nodes[a].shows, nodes[a].post}
             /\ v[nodes[a].post] = "part" /\ Posts[nodes[a].post].seq = 0 /\ plain[Posts[nodes[a].post].thread] = "message"
                  => New(a).shows = nodes[a].post
  <2> DEFINE n == nodes[a]
             p == n.post
  <2>1. n \in NodeRecs /\ p \in PostIds BY DEF NodeRecs
  <2> HIDE DEF n
  <2>2. CASE IsOurs(p, v)
    <3>1. v[p] \in {"message", "part"} BY <2>2 DEF IsOurs
    <3>2. New(a) = Paint(n, p, v[p], plain) BY <2>2 DEF n
    <3> HIDE DEF New
    <3> QED BY <2>1, <3>1, <3>2, PaintIs DEF n
  <2>3. CASE ~IsOurs(p, v)
    <3>1. New(a) = n /\ v[p] # "part" BY <2>3 DEF n, IsOurs
    <3> HIDE DEF New
    <3> QED BY <2>1, <3>1 DEF n
  <2> QED BY <2>2, <2>3
<1> HIDE DEF New
<1> QED BY <1>1, <1>2

-----------------------------------------------------------------------------
\* What the codec said, when it says nothing new.

LEMMA CodecStays ==
  ASSUME CodecTypes, CollectInv, UNCHANGED <<decoded, threadText, collector, overflowed>>, identity' \in Keys, vault' \in Keys
  PROVE  CodecTypes' /\ CollectInv'
BY DEF CodecTypes, CollectInv, NothingIsLost

\* Nothing is known any more.
LEMMA CodecForgets ==
  ASSUME CodecTypes, CollectInv, UNCHANGED <<collector, overflowed, identity>>, vault' \in Keys,
         decoded' = [p \in PostIds |-> Unknown], threadText' = [t \in Threads |-> Unknown]
  PROVE  CodecTypes' /\ CollectInv'
<1>1. CodecTypes' BY DEF CodecTypes, Verdicts, TextStates
<1>2. \A p \in PostIds : decoded'[p] # "part" /\ decoded'[p] # "null" BY DEF Unknown
<1>3. \A t \in Threads : \E p \in PostIds : p \in PartsOf(t) BY DEF Threads, PartsOf
<1>4. NothingIsLost' BY <1>2, <1>3 DEF NothingIsLost, PartsOf
<1> QED BY <1>1, <1>2, <1>4 DEF CollectInv

\* A post is put aside, as plain text or as somebody else's.
Foreign(p) == Posts[p].kind = "plain" \/ (Posts[p].kind = "sealed" /\ Posts[p].to \notin FeedKeys)
LEMMA PostIsDecided ==
  ASSUME CodecTypes, CollectInv, UNCHANGED <<threadText, collector, overflowed>>, identity' \in Keys, vault' \in Keys,
         NEW p \in PostIds, decoded[p] = Unknown, NEW v \in {"null", "message"}, v = "null" => Foreign(p),
         decoded' = [decoded EXCEPT ![p] = v]
  PROVE  CodecTypes' /\ CollectInv'
<1>1. CodecTypes' BY DEF CodecTypes, Verdicts
<1>2. \A q \in PostIds : decoded'[q] = "part" => decoded[q] = "part" BY DEF CodecTypes
<1>3. \A q \in PostIds : decoded'[q] = "null" => decoded[q] = "null" \/ Foreign(q) BY DEF CodecTypes
<1>4. \A t \in Threads : PartsOf(t) \subseteq PostIds BY DEF PartsOf
<1>5. NothingIsLost' BY <1>2, <1>3, <1>4 DEF CollectInv, NothingIsLost, Foreign
<1> QED BY <1>1, <1>2, <1>5 DEF CollectInv

\* ThreadCollector.offer keeps what it holds, but for a thread that it pushes out.
LEMMA OfferedIs ==
  ASSUME CodecTypes, CollectInv, NEW p \in PostIds, Posts[p].total > 1
  PROVE  LET held == Offered(p)
             t == Posts[p].thread IN
         /\ held \in Seq(HeldThreads)
         /\ \A i \in DOMAIN held : held[i].parts \subseteq PartsOf(held[i].thread)
         /\ \A i, j \in DOMAIN held : held[i].thread = held[j].thread => i = j
         /\ \E i \in DOMAIN held : held[i].thread = t /\ p \in held[i].parts
         /\ ~(Slot(t) = {} /\ Len(collector) >= MaxThreads) =>
              \A i \in DOMAIN collector : \E j \in DOMAIN held :
                held[j].thread = collector[i].thread /\ collector[i].parts \subseteq held[j].parts
<1> DEFINE held == Offered(p)
           t == Posts[p].thread
           kept == IF Len(collector) >= MaxThreads THEN Tail(collector) ELSE collector
           new == [thread |-> t, parts |-> {p}]
<1>1. t \in Threads /\ p \in PartsOf(t) BY DEF Threads, PartsOf
<1>2. collector \in Seq(HeldThreads) BY DEF CodecTypes
<1>3. /\ \A i \in DOMAIN collector : collector[i].parts \subseteq PartsOf(collector[i].thread)
      /\ \A i, j \in DOMAIN collector : collector[i].thread = collector[j].thread => i = j
  BY DEF CollectInv
<1>4. CASE Slot(t) = {}
  <2>1. held = Append(kept, new) BY <1>4 DEF Offered
  <2>2. new \in HeldThreads /\ new.thread = t /\ new.parts = {p} BY <1>1 DEF HeldThreads
  <2>3. \A i \in DOMAIN collector : collector[i].thread # t BY <1>4 DEF Slot
  <2>4. /\ kept \in Seq(HeldThreads)
        /\ \A i \in DOMAIN kept : kept[i].parts \subseteq PartsOf(kept[i].thread) /\ kept[i].thread # t
        /\ \A i, j \in DOMAIN kept : kept[i].thread = kept[j].thread => i = j
    <3>1. CASE Len(collector) >= MaxThreads
      <4>1. kept = Tail(collector) /\ collector # <<>>
        <5>1. MaxThreads > 0 /\ MaxThreads \in Nat BY FeedAssumption
        <5> QED BY <1>2, <3>1, <5>1
      <4>2. /\ kept \in Seq(HeldThreads)
            /\ \A i \in DOMAIN kept : i + 1 \in DOMAIN collector /\ kept[i] = collector[i + 1]
        BY <1>2, <4>1
      <4>3. DOMAIN kept \subseteq Nat BY <4>2
      <4> HIDE DEF kept
      <4>4. \A i, j \in DOMAIN kept : kept[i].thread = kept[j].thread => i + 1 = j + 1 BY <1>3, <4>2
      <4> QED BY <1>3, <2>3, <4>2, <4>3, <4>4
    <3>2. CASE ~(Len(collector) >= MaxThreads)
      <4>1. kept = collector BY <3>2
      <4> QED BY <1>2, <1>3, <2>3, <4>1
    <3> QED BY <3>1, <3>2
  <2>5. ~(Len(collector) >= MaxThreads) => kept = collector OBVIOUS
  <2> HIDE DEF kept, new
  <2>6. /\ held \in Seq(HeldThreads) /\ DOMAIN held = 1..(Len(kept) + 1) /\ DOMAIN kept = 1..Len(kept) /\ Len(kept) \in Nat
        /\ \A i \in DOMAIN kept : held[i] = kept[i]
        /\ held[Len(kept) + 1] = new
    BY <2>1, <2>2, <2>4
  <2> HIDE DEF held
  <2>7. \A i \in DOMAIN held : i \in DOMAIN kept \/ (i = Len(kept) + 1 /\ held[i] = new) BY <2>6
  <2>8. \A i \in DOMAIN held : held[i].parts \subseteq PartsOf(held[i].thread) BY <1>1, <2>2, <2>4, <2>6, <2>7
  <2>9. \A i, j \in DOMAIN held : held[i].thread = held[j].thread => i = j BY <2>2, <2>4, <2>6, <2>7
  <2>10. \E i \in DOMAIN held : held[i].thread = t /\ p \in held[i].parts
    <3>1. Len(kept) + 1 \in DOMAIN held BY <2>6
    <3> QED BY <2>2, <2>6, <3>1
  <2>11. ~(Len(collector) >= MaxThreads) =>
           \A i \in DOMAIN collector : \E j \in DOMAIN held :
             held[j].thread = collector[i].thread /\ collector[i].parts \subseteq held[j].parts
    <3> SUFFICES ASSUME ~(Len(collector) >= MaxThreads), NEW i \in DOMAIN collector
                 PROVE  i \in DOMAIN held /\ held[i] = collector[i]
      OBVIOUS
    <3>1. i \in DOMAIN kept BY <2>5
    <3>2. i \in DOMAIN held BY <2>6, <3>1
    <3> QED BY <2>5, <2>6, <3>1, <3>2
  <2> QED BY <1>4, <2>6, <2>8, <2>9, <2>10, <2>11 DEF held
<1>5. CASE Slot(t) # {}
  <2> DEFINE grown(i) == [collector[i] EXCEPT !.parts = collector[i].parts \cup {p}]
             at(i) == IF i \in Slot(t) THEN grown(i) ELSE collector[i]
  <2>1. held = [i \in DOMAIN collector |-> at(i)] BY <1>5 DEF Offered
  <2>2. ASSUME NEW i \in DOMAIN collector
        PROVE  /\ at(i) \in HeldThreads /\ at(i).thread = collector[i].thread
               /\ collector[i].parts \subseteq at(i).parts
               /\ i \in Slot(t) => p \in at(i).parts
               /\ at(i).parts \subseteq PartsOf(at(i).thread)
    <3>1. collector[i] \in HeldThreads /\ collector[i].parts \subseteq PartsOf(collector[i].thread) BY <1>2, <1>3
    <3>2. grown(i) \in HeldThreads /\ grown(i).thread = collector[i].thread /\ grown(i).parts = collector[i].parts \cup {p}
      BY <3>1 DEF HeldThreads
    <3> HIDE DEF grown
    <3>3. i \in Slot(t) => collector[i].thread = t BY DEF Slot
    <3> QED BY <1>1, <3>1, <3>2, <3>3
  <2>3. PICK k \in DOMAIN collector : k \in Slot(t) /\ collector[k].thread = t BY <1>5 DEF Slot
  <2> HIDE DEF at
  <2>4. DOMAIN held = DOMAIN collector /\ \A i \in DOMAIN held : held[i] = at(i) BY <2>1
  <2>5. held \in Seq(HeldThreads) BY <1>2, <2>1, <2>2
  <2> HIDE DEF held
  <2> QED BY <1>3, <2>2, <2>3, <2>4, <2>5 DEF held
<1> QED BY <1>4, <1>5

-----------------------------------------------------------------------------
\* The page.

LEMMA MutationStops ==
  ASSUME PageTypes, ScanInv, Mutated, UNCHANGED unheard
  PROVE  /\ ScanInv' /\ scan' \in ScanRecs
         /\ scan'.at = scan.at /\ scan'.article = scan.article /\ scan'.post = scan.post
         /\ scan'.at # "idle" => scan'.dirty
<1>1. scan \in ScanRecs BY DEF PageTypes
<1>2. rescan' /\ (scan' = scan \/ scan' = [scan EXCEPT !.dirty = TRUE]) /\ (scan.at # "idle" => scan' = [scan EXCEPT !.dirty = TRUE])
  BY DEF Mutated
<1>3. /\ scan' \in ScanRecs /\ scan'.at = scan.at /\ scan'.article = scan.article /\ scan'.post = scan.post
      /\ scan'.restarts = scan.restarts
  BY <1>1, <1>2 DEF ScanRecs
<1>4. scan'.at # "idle" => scan'.dirty BY <1>1, <1>2, <1>3 DEF ScanRecs
<1>5. ScanInv' BY <1>2, <1>3, <1>4 DEF ScanInv, RestIsPainted
<1> QED BY <1>3, <1>4, <1>5

LEMMA RecycleKeeps == ASSUME FeedInv, NEW a \in Articles, NEW p \in PostIds, Recycle(a, p) PROVE FeedInv'
<1> DEFINE former == IF scan.at = "decoding" /\ scan.article = a THEN scan.post ELSE 0
           old == [node[a] EXCEPT !.post = p, !.shows = 0]
<1>1. PICK n \in {NewNode(p), old} :
        /\ node' = [node EXCEPT ![a] = [n EXCEPT !.late = former]]
        /\ Mutated /\ UNCHANGED <<decoded, threadText, collector, identity, vault, overflowed, unheard>>
  BY DEF Recycle
<1>2. /\ ScanInv' /\ scan' \in ScanRecs /\ scan'.at = scan.at /\ scan'.article = scan.article /\ scan'.post = scan.post
      /\ scan'.at # "idle" => scan'.dirty
  BY <1>1, MutationStops DEF FeedInv
<1>3. node \in [Articles -> NodeRecs] /\ former \in PostIds \cup {0} BY DEF FeedInv, PageTypes, BusyInv
<1>4. NewNode(p) \in NodeRecs /\ NewNode(p).shows = 0 BY DEF NewNode, NodeRecs, Painted
<1>5. old \in NodeRecs /\ old.shows = 0
  <2>1. node[a] \in NodeRecs BY <1>3
  <2> QED BY <2>1 DEF NodeRecs
<1>15. scan.at = "decoding" /\ scan.article = a => former = scan.post OBVIOUS
<1> HIDE DEF old, former
<1> DEFINE new == [n EXCEPT !.late = former]
<1>16. n \in NodeRecs /\ n.shows = 0 BY <1>1, <1>4, <1>5
<1>17. new \in NodeRecs BY <1>3, <1>16 DEF NodeRecs
<1>18. new.shows = 0 /\ new.late = former BY <1>16 DEF NodeRecs
<1> HIDE DEF new
<1>6. /\ node' \in [Articles -> NodeRecs] /\ node'[a].shows = 0 /\ node'[a].late = former
      /\ \A b \in Articles : b # a => node'[b] = node[b]
  BY <1>1, <1>3, <1>17, <1>18 DEF new
<1>7. PageTypes' BY <1>2, <1>6 DEF PageTypes
<1>8. CodecTypes' /\ CollectInv' BY <1>1, CodecStays DEF FeedInv, CodecTypes
<1>9. BusyInv'
  <2> SUFFICES ASSUME scan'.at = "decoding" PROVE BusyInv' BY DEF BusyInv
  <2>1. scan'.dirty /\ decoded' = decoded BY <1>1, <1>2
  <2>2. /\ scan.article \in Articles /\ scan.post \in PostIds /\ decoded[scan.post] = Unknown /\ Tagged(scan.post)
        /\ scan.post \in {node[scan.article].post, node[scan.article].late}
    BY <1>2 DEF FeedInv, BusyInv
  <2>3. scan.post \in {node'[scan.article].post, node'[scan.article].late}
    <3>1. CASE scan.article = a BY <1>2, <1>6, <1>15, <3>1
    <3>2. CASE scan.article # a BY <1>6, <2>2, <3>2
    <3> QED BY <3>1, <3>2
  <2> QED BY <1>2, <2>1, <2>2, <2>3 DEF BusyInv
<1>10. ShownIsOwn' BY <1>6 DEF FeedInv, ShownIsOwn
<1> QED BY <1>2, <1>7, <1>8, <1>9, <1>10 DEF FeedInv

LEMMA PageMovesKeeps == ASSUME FeedInv, PageMoves PROVE FeedInv'
<1>1. Mutated /\ UNCHANGED <<node, decoded, threadText, collector, identity, vault, overflowed, unheard>> BY DEF PageMoves
<1>2. /\ ScanInv' /\ scan' \in ScanRecs /\ scan'.at = scan.at /\ scan'.article = scan.article /\ scan'.post = scan.post
      /\ scan'.at # "idle" => scan'.dirty
  BY <1>1, MutationStops DEF FeedInv
<1>3. PageTypes' BY <1>1, <1>2 DEF FeedInv, PageTypes
<1>4. CodecTypes' /\ CollectInv' BY <1>1, CodecStays DEF FeedInv, CodecTypes
<1>5. BusyInv' BY <1>1, <1>2 DEF FeedInv, BusyInv
<1>6. ShownIsOwn' BY <1>1 DEF FeedInv, ShownIsOwn
<1> QED BY <1>2, <1>3, <1>4, <1>5, <1>6 DEF FeedInv

-----------------------------------------------------------------------------
\* The passes.

\* A scan that begins has its first pass before it.
LEMMA ScanStarts ==
  LET first == [NoScan EXCEPT !.at = "pass", !.restarts = 1] IN
  first \in ScanRecs /\ first.at = "pass" /\ first.restarts \in 1..MaxRestarts
<1>1. NoScan \in ScanRecs BY DEF NoScan, ScanRecs
<1>2. 1 \in 1..MaxRestarts BY FeedAssumption
<1> QED BY <1>1, <1>2 DEF ScanRecs

LEMMA RescanFiresKeeps == ASSUME FeedInv, RescanFires PROVE FeedInv'
<1> DEFINE first == [NoScan EXCEPT !.at = "pass", !.restarts = 1]
<1>1. /\ scan' = IF scan.at = "idle" THEN first ELSE scan
      /\ UNCHANGED <<node, decoded, threadText, collector, identity, vault, again, overflowed, unheard>>
  BY DEF RescanFires
<1>2. first \in ScanRecs /\ first.at = "pass" /\ first.restarts \in 1..MaxRestarts BY ScanStarts
<1> HIDE DEF first
<1>3. PageTypes' BY <1>1, <1>2 DEF FeedInv, PageTypes
<1>4. CodecTypes' /\ CollectInv' BY <1>1, CodecStays DEF FeedInv, CodecTypes
<1>5. BusyInv' BY <1>1, <1>2 DEF FeedInv, BusyInv
<1>6. ScanInv'
  <2>1. \A a : Done(a)' <=> Done(a) BY <1>1 DEF Done
  <2>2. CASE scan.at = "idle" BY <1>1, <1>2, <2>2 DEF ScanInv, RestIsPainted
  <2>3. CASE scan.at # "idle" BY <1>1, <2>1, <2>3 DEF FeedInv, ScanInv, RestIsPainted
  <2> QED BY <2>2, <2>3
<1>7. ShownIsOwn' BY <1>1 DEF FeedInv, ShownIsOwn
<1> QED BY <1>3, <1>4, <1>5, <1>6, <1>7 DEF FeedInv

LEMMA StartPassKeeps == ASSUME FeedInv, StartPass PROVE FeedInv'
<1>1. /\ scan.at = "pass" /\ scan' = [scan EXCEPT !.at = "looking", !.dirty = FALSE, !.todo = Backlog]
      /\ UNCHANGED <<node, decoded, threadText, collector, identity, vault, overflowed, unheard>>
  BY DEF StartPass
<1>2. scan \in ScanRecs /\ Backlog \in SUBSET Articles BY DEF FeedInv, PageTypes, Backlog
<1>3. scan' \in ScanRecs BY <1>1, <1>2 DEF ScanRecs
<1>4. scan'.at = "looking" /\ scan'.todo = Backlog /\ scan'.restarts = scan.restarts BY <1>1, <1>2 DEF ScanRecs
<1>5. PageTypes' BY <1>1, <1>3 DEF FeedInv, PageTypes
<1>6. CodecTypes' /\ CollectInv' BY <1>1, CodecStays DEF FeedInv, CodecTypes
<1>7. BusyInv' BY <1>4 DEF BusyInv
<1>8. ScanInv' BY <1>1, <1>4 DEF FeedInv, ScanInv, RestIsPainted
<1>9. ShownIsOwn' BY <1>1 DEF FeedInv, ShownIsOwn
<1> QED BY <1>5, <1>6, <1>7, <1>8, <1>9 DEF FeedInv

LEMMA EndPassKeeps == ASSUME FeedInv, EndPass PROVE FeedInv'
<1> DEFINE more == scan.dirty /\ scan.restarts < MaxRestarts
           next == [scan EXCEPT !.at = "pass", !.restarts = scan.restarts + 1]
<1>1. /\ scan.at = "looking" /\ (scan.dirty \/ scan.todo = {})
      /\ scan' = (IF more THEN next ELSE NoScan)
      /\ unheard' = (unheard \/ (scan.dirty /\ scan.restarts = MaxRestarts /\ ~rescan))
      /\ UNCHANGED <<node, decoded, threadText, collector, identity, vault, rescan, again, overflowed>>
  BY DEF EndPass
<1>2. scan \in ScanRecs /\ scan.restarts \in 1..MaxRestarts /\ MaxRestarts \in Nat
  BY <1>1, FeedAssumption DEF FeedInv, PageTypes, ScanInv
<1>3. NoScan \in ScanRecs /\ NoScan.at = "idle" BY DEF NoScan, ScanRecs
<1>4. scan.restarts + 1 \in Nat BY <1>2
<1>5. next \in ScanRecs BY <1>2, <1>4 DEF ScanRecs
<1>6. next.at = "pass" /\ next.restarts = scan.restarts + 1 BY <1>2 DEF ScanRecs
<1>7. more => next.restarts \in 1..MaxRestarts BY <1>2, <1>6
<1> HIDE DEF next
<1>8. PageTypes' BY <1>1, <1>3, <1>5 DEF FeedInv, PageTypes
<1>9. CodecTypes' /\ CollectInv' BY <1>1, CodecStays DEF FeedInv, CodecTypes
<1>10. BusyInv' BY <1>1, <1>3, <1>6 DEF BusyInv
<1>11. ScanInv'
  <2>1. CASE more BY <1>1, <1>6, <1>7, <2>1 DEF ScanInv, RestIsPainted
  <2>2. CASE ~more
    <3>1. scan' = NoScan BY <1>1, <2>2
    <3>2. scan.dirty => scan.restarts = MaxRestarts BY <1>2, <2>2
    <3>3. \A a : Done(a)' <=> Done(a) BY <1>1 DEF Done
    <3>4. ASSUME ~unheard', ~rescan' PROVE \A a \in Backlog : Done(a)'
      <4>1. ~unheard /\ ~scan.dirty /\ scan.todo = {} BY <1>1, <3>2, <3>4
      <4> QED BY <1>1, <3>3, <4>1 DEF FeedInv, ScanInv
    <3> QED BY <1>3, <3>1, <3>4 DEF ScanInv, RestIsPainted
  <2> QED BY <2>1, <2>2
<1>12. ShownIsOwn' BY <1>1 DEF FeedInv, ShownIsOwn
<1> QED BY <1>8, <1>9, <1>10, <1>11, <1>12 DEF FeedInv

-----------------------------------------------------------------------------
\* The popup.

LEMMA ResetKeeps ==
  ASSUME FeedInv, Reset, vault' \in Keys, UNCHANGED <<node, collector, identity, rescan, overflowed>>
  PROVE  FeedInv'
<1> DEFINE first == [NoScan EXCEPT !.at = "pass", !.restarts = 1]
<1>1. /\ decoded' = [p \in PostIds |-> Unknown] /\ threadText' = [t \in Threads |-> Unknown]
      /\ unheard' = (unheard \/ scan.at # "idle")
      /\ scan' = IF scan.at = "idle" THEN first ELSE scan
  BY DEF Reset
<1>2. first \in ScanRecs /\ first.at = "pass" /\ first.restarts \in 1..MaxRestarts BY ScanStarts
<1> HIDE DEF first
<1>3. PageTypes' BY <1>1, <1>2 DEF FeedInv, PageTypes
<1>4. CodecTypes' /\ CollectInv' BY <1>1, CodecForgets DEF FeedInv
<1>5. BusyInv' BY <1>1, <1>2 DEF FeedInv, BusyInv
<1>6. ScanInv' BY <1>1, <1>2 DEF FeedInv, ScanInv, RestIsPainted
<1>7. ShownIsOwn' BY DEF FeedInv, ShownIsOwn
<1> QED BY <1>3, <1>4, <1>5, <1>6, <1>7 DEF FeedInv

-----------------------------------------------------------------------------
\* One article.

LEMMA PassGoesOn ==
  ASSUME ScanInv, scan.at = "looking", ~scan.dirty, NEW a, UNCHANGED unheard,
         scan'.at \in {"looking", "decoding"}, scan'.todo = scan.todo \ {a}, scan'.restarts = scan.restarts,
         ~scan'.dirty => /\ \A b \in Backlog : Done(b) => Done(b)'
                         /\ Done(a)' \/ (scan'.at = "decoding" /\ scan'.article = a)
  PROVE  ScanInv'
BY DEF ScanInv, RestIsPainted

LEMMA PassReturns ==
  ASSUME ScanInv, scan.at = "decoding", NEW a, a = scan.article, UNCHANGED unheard,
         scan'.at = "looking", scan'.todo = scan.todo, scan'.restarts = scan.restarts,
         ~scan'.dirty => /\ ~scan.dirty
                         /\ \A b \in Backlog : Done(b) => Done(b)'
                         /\ Done(a)'
  PROVE  ScanInv'
<1>1. \A b \in Backlog : ~unheard' /\ ~scan'.dirty => b \in scan'.todo \/ Done(b)' BY DEF ScanInv
<1> QED BY <1>1 DEF ScanInv, RestIsPainted

LEMMA LookAtKeeps == ASSUME FeedInv, NEW a \in scan.todo, scan.at = "looking", ~scan.dirty, LookAtArticle(a),
                            UNCHANGED <<threadText, collector, identity, vault, again, overflowed, unheard>>
                     PROVE  FeedInv'
<1> DEFINE p == node[a].post
           next == [scan EXCEPT !.todo = scan.todo \ {a}]
           painted == Paint(node[a], p, decoded[p], threadText)
           busy == [next EXCEPT !.at = "decoding", !.article = a, !.post = p]
<1>1. scan \in ScanRecs /\ a \in Articles /\ node \in [Articles -> NodeRecs] BY DEF FeedInv, PageTypes, ScanRecs
<1>2. node[a] \in NodeRecs /\ p \in PostIds BY <1>1 DEF NodeRecs
<1>3. next \in ScanRecs BY <1>1 DEF ScanRecs
<1>4. /\ next.at = "looking" /\ next.todo = scan.todo \ {a} /\ next.restarts = scan.restarts /\ ~next.dirty
  BY <1>1 DEF ScanRecs
<1>5. /\ decoded \in [PostIds -> Verdicts] /\ threadText \in [Threads -> TextStates]
      /\ \A q \in PostIds : decoded[q] = "part" => Posts[q].total > 1
  BY DEF FeedInv, CodecTypes, CollectInv
<1>6. CASE decoded[p] # Unknown
  <2>1. /\ node' = (IF IsOurs(p, decoded) THEN [node EXCEPT ![a] = painted] ELSE node)
        /\ scan' = [next EXCEPT !.dirty = (node' # node)] /\ UNCHANGED decoded
    BY <1>6 DEF LookAtArticle
  <2>2. IsOurs(p, decoded) =>
          /\ painted \in NodeRecs /\ painted.post = p /\ painted.late = node[a].late /\ painted.shows \in {node[a].shows, p}
          /\ decoded[p] = "part" /\ Posts[p].seq = 0 /\ threadText[Posts[p].thread] = "message" => painted.shows = p
    BY <1>2, <1>5, PaintIs DEF IsOurs
  <2> HIDE DEF painted, next
  <2>3. /\ node' \in [Articles -> NodeRecs] /\ node'[a].post = p /\ node'[a].late = node[a].late /\ node'[a].shows \in {node[a].shows, p}
        /\ \A b \in Articles : b # a => node'[b] = node[b]
        /\ decoded[p] = "part" /\ Posts[p].seq = 0 /\ threadText[Posts[p].thread] = "message" => node'[a].shows = p
    <3>1. CASE IsOurs(p, decoded) BY <1>1, <2>1, <2>2, <3>1
    <3>2. CASE ~IsOurs(p, decoded) BY <1>1, <2>1, <3>2 DEF IsOurs
    <3> QED BY <3>1, <3>2
  <2>4. (node' # node) \in BOOLEAN OBVIOUS
  <2>5. scan' \in ScanRecs BY <1>3, <2>1, <2>4 DEF ScanRecs
  <2>6. /\ scan'.at = "looking" /\ scan'.todo = scan.todo \ {a} /\ scan'.restarts = scan.restarts
        /\ scan'.dirty = (node' # node)
    BY <1>3, <1>4, <2>1, <2>4 DEF ScanRecs
  <2>7. PageTypes' BY <2>3, <2>5 DEF PageTypes
  <2>8. CodecTypes' /\ CollectInv' BY <2>1, CodecStays DEF FeedInv, CodecTypes
  <2>9. BusyInv' BY <2>6 DEF BusyInv
  <2>10. ~scan'.dirty => (\A b \in Backlog : Done(b) => Done(b)') /\ Done(a)'
    <3> SUFFICES ASSUME ~scan'.dirty PROVE (\A b \in Backlog : Done(b) => Done(b)') /\ Done(a)' OBVIOUS
    <3>1. node' = node BY <2>6
    <3>2. \A b : Done(b)' <=> Done(b) BY <2>1, <3>1 DEF Done
    <3>3. Done(a)' BY <1>6, <2>1, <2>3 DEF Done
    <3> QED BY <3>2, <3>3
  <2>11. ScanInv' BY <2>6, <2>10, PassGoesOn DEF FeedInv
  <2>12. ShownIsOwn' BY <2>3 DEF FeedInv, ShownIsOwn
  <2> QED BY <2>7, <2>8, <2>9, <2>11, <2>12 DEF FeedInv
<1>7. CASE decoded[p] = Unknown /\ node[a].rendered
  <2>1. scan' = next /\ UNCHANGED <<node, decoded>> BY <1>7 DEF LookAtArticle
  <2> HIDE DEF next
  <2>2. PageTypes' BY <1>3, <2>1 DEF FeedInv, PageTypes
  <2>3. CodecTypes' /\ CollectInv' BY <2>1, CodecStays DEF FeedInv, CodecTypes
  <2>4. BusyInv' BY <1>4, <2>1 DEF BusyInv
  <2>5. \A b : Done(b)' <=> Done(b) BY <2>1 DEF Done
  <2>6. Done(a) BY <1>7 DEF Done, Unknown
  <2>7. ScanInv' BY <1>4, <2>1, <2>5, <2>6, PassGoesOn DEF FeedInv
  <2>8. ShownIsOwn' BY <2>1 DEF FeedInv, ShownIsOwn
  <2> QED BY <2>2, <2>3, <2>4, <2>7, <2>8 DEF FeedInv
<1>8. CASE decoded[p] = Unknown /\ ~node[a].rendered /\ ~Tagged(p)
  <2>1. scan' = next /\ decoded' = [decoded EXCEPT ![p] = "null"] /\ UNCHANGED node BY <1>8 DEF LookAtArticle
  <2> HIDE DEF next
  <2>2. PageTypes' BY <1>3, <2>1 DEF FeedInv, PageTypes
  <2>3. Foreign(p) BY <1>8 DEF Tagged, Foreign
  <2>4. identity' \in Keys /\ vault' \in Keys BY DEF FeedInv, CodecTypes
  <2>5. CodecTypes' /\ CollectInv' BY <1>2, <1>8, <2>1, <2>3, <2>4, PostIsDecided DEF FeedInv
  <2>6. BusyInv' BY <1>4, <2>1 DEF BusyInv
  <2>7. \A q \in PostIds : decoded'[q] = decoded[q] \/ decoded'[q] = "null" BY <1>5, <2>1
  <2>8. \A b \in Backlog : Done(b) => Done(b)'
    <3>1. \A b \in Backlog : node[b].post \in PostIds BY <1>1 DEF Backlog, NodeRecs
    <3> QED BY <2>1, <2>7, <3>1 DEF Done, Unknown
  <2>9. Done(a)'
    <3>1. decoded'[p] = "null" BY <1>2, <1>5, <2>1
    <3> QED BY <2>1, <3>1 DEF Done, Unknown
  <2>10. ScanInv' BY <1>4, <2>1, <2>8, <2>9, PassGoesOn DEF FeedInv
  <2>11. ShownIsOwn' BY <2>1 DEF FeedInv, ShownIsOwn
  <2> QED BY <2>2, <2>5, <2>6, <2>10, <2>11 DEF FeedInv
<1>9. CASE decoded[p] = Unknown /\ ~node[a].rendered /\ Tagged(p)
  <2>1. scan' = busy /\ UNCHANGED <<node, decoded>>
    <3>1. /\ ~(decoded[p] # Unknown) /\ ~(decoded[p] = Unknown /\ node[a].rendered)
          /\ ~(decoded[p] = Unknown /\ ~node[a].rendered /\ ~Tagged(p))
      BY <1>9
    <3> QED BY <3>1 DEF LookAtArticle
  <2> HIDE DEF next
  <2>2. scan' \in ScanRecs BY <1>1, <1>2, <1>3, <2>1 DEF ScanRecs
  <2>3. /\ scan'.at = "decoding" /\ scan'.todo = scan.todo \ {a} /\ scan'.restarts = scan.restarts
        /\ scan'.article = a /\ scan'.post = p
    BY <1>3, <1>4, <2>1 DEF ScanRecs
  <2>4. PageTypes' BY <2>1, <2>2 DEF FeedInv, PageTypes
  <2>5. CodecTypes' /\ CollectInv' BY <2>1, CodecStays DEF FeedInv, CodecTypes
  <2>6. BusyInv' BY <1>1, <1>2, <1>9, <2>1, <2>3 DEF BusyInv
  <2>7. \A b : Done(b)' <=> Done(b) BY <2>1 DEF Done
  <2>8. ScanInv' BY <2>3, <2>7, PassGoesOn DEF FeedInv
  <2>9. ShownIsOwn' BY <2>1 DEF FeedInv, ShownIsOwn
  <2> QED BY <2>4, <2>5, <2>6, <2>8, <2>9 DEF FeedInv
<1> QED BY <1>6, <1>7, <1>8, <1>9

-----------------------------------------------------------------------------
\* The codec's answers.

\* An answer that decides nothing.
LEMMA UndoneKeeps ==
  ASSUME FeedInv, scan.at = "decoding", node' = node, decoded' = decoded, threadText' = threadText, UNCHANGED unheard,
         scan' = [scan EXCEPT !.at = "looking"], again' = again \cup {scan.post}, CodecTypes', CollectInv'
  PROVE  FeedInv'
<1>1. scan \in ScanRecs BY DEF FeedInv, PageTypes
<1>2. scan' \in ScanRecs BY <1>1 DEF ScanRecs
<1>3. /\ scan'.at = "looking" /\ scan'.todo = scan.todo /\ scan'.restarts = scan.restarts /\ scan'.dirty = scan.dirty
  BY <1>1 DEF ScanRecs
<1>4. PageTypes' BY <1>2 DEF FeedInv, PageTypes
<1>5. BusyInv' BY <1>3 DEF BusyInv
<1>6. \A b : Done(b) => Done(b)' BY DEF Done
<1>0. PICK a : a = scan.article OBVIOUS
<1>7. ~scan.dirty => Done(a)'
  <2> SUFFICES ASSUME ~scan.dirty PROVE Done(a)' OBVIOUS
  <2>1. node[a].post = scan.post /\ decoded[scan.post] = Unknown BY <1>0 DEF FeedInv, BusyInv
  <2> QED BY <2>1 DEF Done, Unknown
<1>8. ScanInv' BY <1>0, <1>3, <1>6, <1>7, PassReturns DEF FeedInv
<1>9. ShownIsOwn' BY DEF FeedInv, ShownIsOwn
<1> QED BY <1>4, <1>5, <1>8, <1>9 DEF FeedInv

LEMMA CodecFailsKeeps == ASSUME FeedInv, CodecFails PROVE FeedInv'
<1>1. CodecTypes' /\ CollectInv' BY CodecStays DEF CodecFails, Undone, FeedInv, CodecTypes
<1> QED BY <1>1, UndoneKeeps DEF CodecFails, Undone

\* An answer that decides the post, and what of the page that repaints.
LEMMA PassOnKeeps ==
  ASSUME FeedInv, scan.at = "decoding", NEW a, a = scan.article, NEW nodes \in [Articles -> NodeRecs], NEW v, NEW plain,
         PassOn(nodes, v, plain), UNCHANGED unheard, again \subseteq again', CodecTypes', CollectInv',
         \A b \in Articles : nodes[b].shows \in {0, nodes[b].post, nodes[b].late},
         nodes = node /\ ~scan.dirty => (\A b \in Backlog : Done(b) => Done(b)') /\ Done(a)'
  PROVE  FeedInv'
<1> DEFINE dirty == scan.dirty \/ nodes # node
<1>1. scan \in ScanRecs BY DEF FeedInv, PageTypes
<1>2. node' = nodes /\ scan' = [scan EXCEPT !.at = "looking", !.dirty = dirty] BY DEF PassOn
<1>3. dirty \in BOOLEAN OBVIOUS
<1>4. ~dirty => nodes = node /\ ~scan.dirty OBVIOUS
<1> HIDE DEF dirty
<1>5. scan' \in ScanRecs BY <1>1, <1>2, <1>3 DEF ScanRecs
<1>6. /\ scan'.at = "looking" /\ scan'.todo = scan.todo /\ scan'.restarts = scan.restarts /\ scan'.dirty = dirty
  BY <1>1, <1>2 DEF ScanRecs
<1>7. PageTypes' BY <1>2, <1>5 DEF PageTypes
<1>8. BusyInv' BY <1>6 DEF BusyInv
<1>9. ScanInv' BY <1>4, <1>6, PassReturns DEF FeedInv
<1>10. ShownIsOwn' BY <1>2 DEF ShownIsOwn
<1> QED BY <1>7, <1>8, <1>9, <1>10 DEF FeedInv

LEMMA SingleKeeps == ASSUME FeedInv, Single PROVE FeedInv'
<1>0. PICK a : a = scan.article OBVIOUS
<1> DEFINE p == scan.post
           v == [decoded EXCEPT ![p] = IF OpensFor(p) THEN "message" ELSE "null"]
           painted == Paint(node[a], p, "message", threadText)
           nodes == IF OpensFor(p) THEN [node EXCEPT ![a] = painted] ELSE node
<1>1. /\ scan.at = "decoding" /\ Posts[p].total = 1 /\ UNCHANGED <<collector, vault, overflowed, unheard>>
      /\ identity' = (IF Posts[p].kind = "sealed" THEN Current ELSE identity)
      /\ IF Posts[p].kind = "sealed" /\ Current = "none" THEN Undone /\ again' = again \cup {p}
         ELSE PassOn(nodes, v, threadText) /\ UNCHANGED again
  BY <1>0 DEF Single
<1>2. identity \in Keys /\ vault \in Keys BY DEF FeedInv, CodecTypes
<1>3. Current \in Keys /\ identity' \in Keys BY <1>1, <1>2 DEF Current
<1>4. CASE Posts[p].kind = "sealed" /\ Current = "none"
  <2>1. Undone /\ again' = again \cup {p} BY <1>1, <1>4
  <2>2. CodecTypes' /\ CollectInv' BY <1>1, <1>2, <1>3, <2>1, CodecStays DEF FeedInv, Undone
  <2> QED BY <1>1, <2>1, <2>2, UndoneKeeps DEF Undone
<1>5. CASE ~(Posts[p].kind = "sealed" /\ Current = "none")
  <2>1. PassOn(nodes, v, threadText) /\ again' = again BY <1>1, <1>5
  <2>2. /\ a \in Articles /\ p \in PostIds /\ decoded[p] = Unknown /\ Tagged(p)
        /\ p \in {node[a].post, node[a].late} /\ (~scan.dirty => node[a].post = p)
    BY <1>0, <1>1 DEF FeedInv, BusyInv
  <2>3. ~OpensFor(p) => Foreign(p)
    <3> SUFFICES ASSUME ~OpensFor(p) PROVE Foreign(p) OBVIOUS
    <3>1. Posts[p].kind = "sealed" \/ Posts[p].kind = "plain" BY <2>2, FeedAssumption DEF OpensFor, Kinds, PostIds
    <3>2. CASE Posts[p].kind = "sealed"
      <4>1. Current \in FeedKeys /\ Posts[p].to # Current BY <1>3, <1>5, <3>2 DEF Keys, OpensFor
      <4> QED BY <3>2, <4>1 DEF Foreign, FeedKeys
    <3> QED BY <3>1, <3>2 DEF Foreign
  <2>4. CodecTypes' /\ CollectInv'
    <3> DEFINE w == IF OpensFor(p) THEN "message" ELSE "null"
    <3>1. w \in {"null", "message"} /\ (w = "null" => Foreign(p)) BY <2>3
    <3>2. decoded' = [decoded EXCEPT ![p] = w] /\ threadText' = threadText BY <2>1 DEF PassOn
    <3> HIDE DEF w
    <3> QED BY <1>1, <1>2, <1>3, <2>2, <3>1, <3>2, PostIsDecided DEF FeedInv
  <2>5. node \in [Articles -> NodeRecs] /\ threadText \in [Threads -> TextStates] /\ decoded \in [PostIds -> Verdicts]
    BY DEF FeedInv, PageTypes, CodecTypes
  <2>6. painted \in NodeRecs /\ painted.post = node[a].post /\ painted.late = node[a].late /\ painted.shows \in {node[a].shows, p}
    BY <2>2, <2>5, PaintIs
  <2> HIDE DEF painted
  <2>7. nodes \in [Articles -> NodeRecs] BY <2>5, <2>6
  <2>8. ASSUME NEW b \in Articles PROVE nodes[b].shows \in {0, nodes[b].post, nodes[b].late}
    <3>1. node[b].shows \in {0, node[b].post, node[b].late} /\ node[a].shows \in {0, node[a].post, node[a].late}
      BY <2>2 DEF FeedInv, ShownIsOwn
    <3> QED BY <2>2, <2>5, <2>6, <3>1
  <2>9. \A q \in PostIds : decoded'[q] = IF q = p THEN (IF OpensFor(p) THEN "message" ELSE "null") ELSE decoded[q]
    BY <2>2, <2>5, <2>1 DEF PassOn
  <2>10. nodes = node /\ ~scan.dirty => (\A b \in Backlog : Done(b) => Done(b)') /\ Done(a)'
    <3> SUFFICES ASSUME nodes = node, ~scan.dirty PROVE (\A b \in Backlog : Done(b) => Done(b)') /\ Done(a)' OBVIOUS
    <3>1. node' = node /\ threadText' = threadText BY <2>1 DEF PassOn
    <3>2. \A b \in Articles : node[b].post \in PostIds BY <2>5 DEF NodeRecs
    <3>3. node[a].post = p BY <2>2
    <3>4. Backlog \subseteq Articles BY DEF Backlog
    <3>5. decoded'[p] # Unknown /\ decoded'[p] # "part" BY <2>2, <2>9 DEF Unknown
    <3>6. \A q \in PostIds : q # p => decoded'[q] = decoded[q] BY <2>9
    <3>7. ASSUME NEW b \in Articles, node[b].post = p PROVE Done(b)' BY <3>1, <3>5, <3>7 DEF Done
    <3>8. ASSUME NEW b \in Articles, node[b].post # p, Done(b) PROVE Done(b)' BY <2>1, <3>1, <3>2, <3>6, <3>8 DEF Done
    <3> QED BY <2>2, <3>3, <3>4, <3>7, <3>8
  <2> HIDE DEF nodes, v
  <2> QED BY <1>0, <1>1, <2>1, <2>4, <2>7, <2>8, <2>10, PassOnKeeps
<1> QED BY <1>4, <1>5

\* A part of a thread that is complete, by whatever part came last.
LEMMA ThreadPartKeeps == ASSUME FeedInv, ThreadPart PROVE FeedInv'
<1>0. PICK a : a = scan.article OBVIOUS
<1>20. PICK p : p = scan.post OBVIOUS
<1> DEFINE t == Posts[p].thread
           held == Offered(p)
           whole == WholeThread(p, held)
           locked == whole /\ Posts[p].kind = "sealed" /\ Current = "none"
           plain == IF ~whole THEN threadText
                    ELSE [threadText EXCEPT ![t] = IF OpensFor(p) THEN "message" ELSE "failed"]
           v == [decoded EXCEPT ![p] = "part"]
           nodes == PaintThread(p, v, plain)
<1>1. /\ scan.at = "decoding" /\ Posts[p].total > 1 /\ collector' = held /\ UNCHANGED <<vault, unheard>>
      /\ overflowed' = (overflowed \/ (Slot(t) = {} /\ Len(collector) >= MaxThreads))
      /\ identity' = (IF whole /\ Posts[p].kind = "sealed" THEN Current ELSE identity)
      /\ IF locked THEN Undone /\ again' = again \cup {p}
         ELSE PassOn(nodes, v, plain) /\ UNCHANGED again
  BY <1>20 DEF ThreadPart
<1>2. CodecTypes /\ CollectInv BY DEF FeedInv
<1>3. identity' \in Keys /\ vault' \in Keys BY <1>1, <1>2 DEF CodecTypes, Current
<1>4. /\ a \in Articles /\ p \in PostIds /\ decoded[p] = Unknown
      /\ p \in {node[a].post, node[a].late} /\ (~scan.dirty => node[a].post = p)
  BY <1>0, <1>1, <1>20 DEF FeedInv, BusyInv
<1>5. t \in Threads /\ p \in PartsOf(t) BY <1>1, <1>4 DEF Threads, PartsOf
<1>6. /\ held \in Seq(HeldThreads)
      /\ \A i \in DOMAIN held : held[i].parts \subseteq PartsOf(held[i].thread)
      /\ \A i, j \in DOMAIN held : held[i].thread = held[j].thread => i = j
      /\ \E i \in DOMAIN held : held[i].thread = t /\ p \in held[i].parts
      /\ ~overflowed' => \A i \in DOMAIN collector : \E j \in DOMAIN held :
           held[j].thread = collector[i].thread /\ collector[i].parts \subseteq held[j].parts
  BY <1>1, <1>2, <1>4, OfferedIs
<1> HIDE DEF held
<1>7. ~overflowed' => ~overflowed BY <1>1
<1>8. overflowed' \in BOOLEAN BY <1>1, <1>2 DEF CodecTypes
<1>9. \A q \in PostIds : decoded[q] = "part" =>
        /\ Posts[q].total > 1
        /\ ~overflowed' => \E i \in DOMAIN held : held[i].thread = Posts[q].thread /\ q \in held[i].parts
  <2> SUFFICES ASSUME NEW q \in PostIds, decoded[q] = "part", ~overflowed'
               PROVE  \E i \in DOMAIN held : held[i].thread = Posts[q].thread /\ q \in held[i].parts
    BY <1>2 DEF CollectInv
  <2>1. PICK i \in DOMAIN collector : collector[i].thread = Posts[q].thread /\ q \in collector[i].parts
    BY <1>2, <1>7 DEF CollectInv
  <2> QED BY <1>6, <2>1
<1>10. CASE locked
  <2>1. Undone /\ again' = again \cup {scan.post} BY <1>1, <1>10, <1>20
  <2>2. CodecTypes' BY <1>1, <1>2, <1>3, <1>6, <1>8, <2>1 DEF CodecTypes, Undone
  <2>3. NothingIsLost' BY <1>2, <1>7, <2>1 DEF CollectInv, NothingIsLost, Undone
  <2>4. CollectInv' BY <1>1, <1>6, <1>9, <2>1, <2>3 DEF CollectInv, Undone
  <2> QED BY <1>1, <2>1, <2>2, <2>4, UndoneKeeps DEF Undone
<1>11. CASE ~locked
  <2>1. PassOn(nodes, v, plain) /\ again' = again BY <1>1, <1>11
  <2>2. decoded' = v /\ threadText' = plain /\ node' = nodes BY <2>1 DEF PassOn
  <2>3. node \in [Articles -> NodeRecs] /\ threadText \in [Threads -> TextStates] /\ decoded \in [PostIds -> Verdicts]
    BY DEF FeedInv, PageTypes, CodecTypes
  <2>4. v \in [PostIds -> Verdicts] /\ v[p] = "part" /\ \A q \in PostIds : q # p => v[q] = decoded[q]
    BY <1>4, <2>3 DEF Verdicts
  <2>5. plain \in [Threads -> TextStates] BY <1>5, <2>3 DEF TextStates
  <2>6. /\ whole => plain[t] # Unknown
        /\ \A u \in Threads : u # t => plain[u] = threadText[u]
        /\ ~whole => plain = threadText
    BY <1>5, <2>3 DEF Unknown
  <2> HIDE DEF v, plain
  <2>7. \A q \in PostIds : v[q] = "part" => Posts[q].total > 1 BY <1>1, <1>9, <2>4
  <2>8. \A u \in Threads : (\A q \in PartsOf(u) : Cardinality(PartsOf(u)) = Posts[q].total /\ v[q] = "part") /\ ~overflowed'
          => plain[u] # Unknown
    <3> SUFFICES ASSUME NEW u \in Threads, ~overflowed',
                        \A q \in PartsOf(u) : Cardinality(PartsOf(u)) = Posts[q].total /\ v[q] = "part"
                 PROVE  plain[u] # Unknown
      OBVIOUS
    <3>1. PartsOf(u) \subseteq PostIds BY DEF PartsOf
    <3>2. CASE u = t
      <4>1. PICK i \in DOMAIN held : held[i].thread = t /\ p \in held[i].parts BY <1>6
      <4>2. PartsOf(t) \subseteq held[i].parts
        <5> SUFFICES ASSUME NEW q \in PartsOf(t) PROVE q \in held[i].parts OBVIOUS
        <5>1. q \in PostIds /\ Posts[q].thread = t BY DEF PartsOf
        <5>2. CASE q = p BY <4>1, <5>2
        <5>3. CASE q # p
          <6>1. decoded[q] = "part" BY <2>4, <3>2, <5>1, <5>3
          <6>2. PICK j \in DOMAIN held : held[j].thread = t /\ q \in held[j].parts BY <1>9, <5>1, <6>1
          <6> QED BY <1>6, <4>1, <6>2
        <5> QED BY <5>2, <5>3
      <4>3. held[i].parts = PartsOf(t) BY <1>6, <4>1, <4>2
      <4>4. Cardinality(held[i].parts) = Posts[p].total BY <1>5, <3>2, <4>3
      <4>5. whole BY <4>1, <4>4 DEF WholeThread
      <4> QED BY <2>6, <3>2, <4>5
    <3>3. CASE u # t
      <4>1. p \notin PartsOf(u) BY <3>3 DEF PartsOf
      <4>2. \A q \in PartsOf(u) : decoded[q] = "part" BY <2>4, <3>1, <4>1
      <4>3. threadText[u] # Unknown BY <1>2, <1>7, <4>2 DEF CollectInv, NothingIsLost
      <4> QED BY <2>6, <3>3, <4>3
    <3> QED BY <3>2, <3>3
  <2>9. \A q \in PostIds : v[q] = "null" => Foreign(q)
    <3>1. \A q \in PostIds : v[q] = "null" => decoded[q] = "null" BY <2>4
    <3> QED BY <1>2, <3>1 DEF CollectInv, NothingIsLost, Foreign
  <2>10. NothingIsLost' BY <2>2, <2>8, <2>9 DEF NothingIsLost, Foreign
  <2>11. CodecTypes' BY <1>1, <1>3, <1>6, <1>8, <2>2, <2>4, <2>5 DEF CodecTypes
  <2>12. \A q \in PostIds : v[q] = "part" /\ ~overflowed' =>
           \E i \in DOMAIN held : held[i].thread = Posts[q].thread /\ q \in held[i].parts
    BY <1>6, <1>9, <2>4
  <2>13. CollectInv' BY <1>1, <1>6, <2>2, <2>7, <2>10, <2>12 DEF CollectInv
  <2> DEFINE first == Paint(node[a], p, v[p], plain)
             painted == [node EXCEPT ![a] = first]
  <2>14. /\ first \in NodeRecs /\ first.post = node[a].post /\ first.late = node[a].late /\ first.shows \in {node[a].shows, p}
    BY <1>1, <1>4, <2>3, <2>4, <2>5, PaintIs
  <2>15. nodes = IF plain[t] = Unknown THEN painted ELSE RepaintVisible(painted, v, plain) BY <1>0 DEF PaintThread
  <2> HIDE DEF first
  <2>16. /\ painted \in [Articles -> NodeRecs] /\ painted[a] = first
         /\ \A b \in Articles : b # a => painted[b] = node[b]
    BY <1>4, <2>3, <2>14
  <2>17. \A b \in Articles : painted[b].post = node[b].post BY <2>14, <2>16
  <2>18. \A b \in Articles : painted[b].shows \in {0, painted[b].post, painted[b].late}
    BY <1>4, <2>14, <2>16 DEF FeedInv, ShownIsOwn
  <2> HIDE DEF painted
  <2>19. /\ RepaintVisible(painted, v, plain) \in [Articles -> NodeRecs]
         /\ \A b \in Articles :
              LET n == RepaintVisible(painted, v, plain)[b]
                  q == painted[b].post IN
              /\ n.post = q /\ n.late = painted[b].late /\ n.shows \in {painted[b].shows, q}
              /\ v[q] = "part" /\ Posts[q].seq = 0 /\ plain[Posts[q].thread] = "message" => n.shows = q
    BY <2>4, <2>5, <2>7, <2>16, RepaintIs
  <2> HIDE DEF nodes
  <2>20. nodes \in [Articles -> NodeRecs] BY <2>15, <2>16, <2>19
  <2>21. \A b \in Articles : nodes[b].shows \in {0, nodes[b].post, nodes[b].late}
    <3>1. CASE plain[t] = Unknown BY <2>15, <2>18, <3>1
    <3>2. CASE plain[t] # Unknown BY <2>15, <2>18, <2>19, <3>2
    <3> QED BY <3>1, <3>2
  <2>22. nodes = node /\ ~scan.dirty => (\A b \in Backlog : Done(b) => Done(b)') /\ Done(a)'
    <3> SUFFICES ASSUME nodes = node, ~scan.dirty PROVE (\A b \in Backlog : Done(b) => Done(b)') /\ Done(a)' OBVIOUS
    <3>1. node' = node BY <2>2
    <3>2. \A b \in Articles : node[b].post \in PostIds BY <2>3 DEF NodeRecs
    <3>3. node[a].post = p BY <1>4
    <3>4. Backlog \subseteq Articles BY DEF Backlog
    <3>5. ASSUME NEW b \in Articles, node[b].post = p \/ Done(b) PROVE Done(b)'
      <4> DEFINE q == node[b].post
      <4>1. q \in PostIds BY <3>2
      <4>2. v[q] # Unknown \/ node[b].rendered \/ q \in again'
        <5>1. CASE q = p BY <2>4, <5>1 DEF Unknown
        <5>2. CASE q # p BY <2>1, <2>4, <3>5, <4>1, <5>2 DEF Done
        <5> QED BY <5>1, <5>2
      <4>3. ASSUME v[q] = "part", Posts[q].seq = 0, plain[Posts[q].thread] = "message" PROVE node[b].shows = q
        <5>1. CASE plain[t] # Unknown BY <2>15, <2>17, <2>19, <4>3, <5>1
        <5>2. CASE plain[t] = Unknown
          <6>1. ~whole /\ plain = threadText BY <2>6, <5>2
          <6>2. Posts[q].thread # t BY <4>3, <5>2 DEF Unknown
          <6>3. q # p BY <6>2
          <6>4. decoded[q] = "part" BY <2>4, <4>1, <4>3, <6>3
          <6> QED BY <3>5, <4>3, <6>1, <6>3, <6>4 DEF Done
        <5> QED BY <5>1, <5>2
      <4> QED BY <2>2, <3>1, <4>2, <4>3 DEF Done
    <3> QED BY <1>4, <3>3, <3>4, <3>5
  <2> QED BY <1>0, <1>1, <2>1, <2>11, <2>13, <2>20, <2>21, <2>22, PassOnKeeps
<1> QED BY <1>10, <1>11

-----------------------------------------------------------------------------
LEMMA FeedStarts == FeedInit => FeedInv
<1> SUFFICES ASSUME FeedInit PROVE FeedInv OBVIOUS
<1>1. PICK ps \in [Articles -> PostIds] : node = [a \in Articles |-> NewNode(ps[a])] BY DEF FeedInit
<1>2. \A p \in PostIds : NewNode(p) \in NodeRecs /\ NewNode(p).shows = 0 BY DEF NewNode, NodeRecs, Painted
<1>3. node \in [Articles -> NodeRecs] /\ \A a \in Articles : node[a].shows = 0 BY <1>1, <1>2
<1>4. scan \in ScanRecs /\ scan.at = "pass" /\ scan.restarts \in 1..MaxRestarts BY ScanStarts DEF FeedInit
<1>5. /\ decoded = [p \in PostIds |-> Unknown] /\ threadText = [t \in Threads |-> Unknown]
      /\ collector = <<>> /\ identity = "none" /\ vault \in Keys /\ overflowed = FALSE
  BY DEF FeedInit, Keys
<1>6. CodecTypes
  <2>1. decoded \in [PostIds -> Verdicts] BY <1>5 DEF Verdicts
  <2>2. threadText \in [Threads -> TextStates] BY <1>5 DEF TextStates
  <2>3. collector \in Seq(HeldThreads) BY <1>5
  <2>4. identity \in Keys /\ vault \in Keys BY <1>5 DEF Keys
  <2>5. overflowed \in BOOLEAN BY <1>5
  <2> QED BY <2>1, <2>2, <2>3, <2>4, <2>5 DEF CodecTypes
<1>7. \A p \in PostIds : decoded[p] # "part" /\ decoded[p] # "null" BY <1>5 DEF Unknown
<1>8. \A t \in Threads : \E p \in PostIds : p \in PartsOf(t) BY DEF Threads, PartsOf
<1>9. NothingIsLost BY <1>7, <1>8 DEF NothingIsLost, PartsOf
<1>10. CollectInv BY <1>5, <1>7, <1>9 DEF CollectInv
<1>11. BusyInv BY <1>4 DEF BusyInv
<1>12. ScanInv BY <1>4 DEF ScanInv, RestIsPainted
<1>13. ShownIsOwn BY <1>3 DEF ShownIsOwn
<1> QED BY <1>3, <1>4, <1>6, <1>10, <1>11, <1>12, <1>13 DEF FeedInv, PageTypes

LEMMA FeedStays == ASSUME FeedInv, UNCHANGED feedVars PROVE FeedInv'
<1> USE DEF feedVars
<1>1. PageTypes' BY DEF FeedInv, PageTypes
<1>2. CodecTypes' /\ CollectInv' BY CodecStays DEF FeedInv, CodecTypes
<1>3. BusyInv' BY DEF FeedInv, BusyInv
<1>4. ScanInv'
  <2>1. \A a : Done(a)' <=> Done(a) BY DEF Done
  <2> QED BY <2>1 DEF FeedInv, ScanInv, RestIsPainted
<1>5. ShownIsOwn' BY DEF FeedInv, ShownIsOwn
<1> QED BY <1>1, <1>2, <1>3, <1>4, <1>5 DEF FeedInv

LEMMA FeedKeeps == ASSUME FeedInv, FeedNext PROVE FeedInv'
<1>1. ASSUME NEW a \in Articles, NEW p \in PostIds, Recycle(a, p) PROVE FeedInv' BY <1>1, RecycleKeeps
<1>2. CASE PageMoves BY <1>2, PageMovesKeeps
<1>3. CASE RescanFires BY <1>3, RescanFiresKeeps
<1>4. CASE StartPass BY <1>4, StartPassKeeps
<1>5. CASE EndPass BY <1>5, EndPassKeeps
<1>6. CASE LookAt BY <1>6, LookAtKeeps DEF LookAt
<1>7. CASE CodecFails BY <1>7, CodecFailsKeeps
<1>8. CASE Single BY <1>8, SingleKeeps
<1>9. CASE ThreadPart BY <1>9, ThreadPartKeeps
<1>10. ASSUME NEW k \in FeedKeys, VaultUnlocks(k) PROVE FeedInv'
  <2>1. Reset /\ vault' \in Keys /\ UNCHANGED <<node, collector, identity, rescan, overflowed>>
    BY <1>10 DEF VaultUnlocks, Keys
  <2> QED BY <2>1, ResetKeeps
<1>11. CASE Lock
  <2>1. Reset /\ vault' \in Keys /\ UNCHANGED <<node, collector, identity, rescan, overflowed>> BY <1>11 DEF Lock, Keys
  <2> QED BY <2>1, ResetKeeps
<1> QED BY <1>1, <1>2, <1>3, <1>4, <1>5, <1>6, <1>7, <1>8, <1>9, <1>10, <1>11 DEF FeedNext

LEMMA FeedIsSound == FeedInv => ShownIsOwn /\ NothingIsLost /\ RestIsPainted
BY DEF FeedInv, CollectInv, ScanInv

-----------------------------------------------------------------------------
(***************************************************************************)
(* The parts together.                                                     *)
(***************************************************************************)

\* The full page: a mark beside a field is about what is in it, what is paid was
\* checked, and a listed site is one the browser lets the extension run on.
THEOREM FieldsAndSitesAreHonest == BrowserSpec => []HomeSound
<1>1. scene \in BrowserParts /\ BrowserInit => HomeInv BY HomeStarts DEF BrowserInit
<1>2. HomeInv /\ [BrowserNext]_browserVars => HomeInv'
  <2> SUFFICES ASSUME HomeInv, [BrowserNext]_browserVars PROVE HomeInv' OBVIOUS
  <2>1. FormNext \/ SiteNext \/ UNCHANGED homeVars BY DEF BrowserNext, browserVars, partVars
  <2> QED BY <2>1, FormKeeps, SiteKeeps, HomeStays
<1>3. HomeInv => HomeSound BY HomeIsSound DEF HomeSound
<1> QED BY <1>1, <1>2, <1>3, PTL DEF BrowserSpec

\* The keyring: as long as no two handlers were at work on it at once, it holds
\* the passphrases that were chosen and a token for everything that was proven;
\* and a proof handed over reaches the gate once at the most, and does reach it
\* when the worker was restarted before it was handed on.
THEOREM KeyringLosesNothing == BrowserSpec => []KeyringSound
<1>1. scene \in BrowserParts /\ BrowserInit => KeyringInv BY KeyringStarts DEF BrowserInit
<1>2. KeyringInv /\ [BrowserNext]_browserVars => KeyringInv'
  <2> SUFFICES ASSUME KeyringInv, [BrowserNext]_browserVars PROVE KeyringInv' OBVIOUS
  <2>1. KeyringNext \/ UNCHANGED keyringVars BY DEF BrowserNext, browserVars, partVars
  <2> QED BY <2>1, KeyringKeeps, KeyringStays
<1>3. KeyringInv => KeyringSound BY KeyringIsKept DEF KeyringSound
<1> QED BY <1>1, <1>2, <1>3, PTL DEF BrowserSpec

\* Spaces: a remembered membership is one the gate admitted, bans add up, and the
\* passes that open a space are given within the limits of an hour and a day,
\* counted right and moved by their owners alone.
THEOREM SpacesAreHonest == BrowserSpec => []SpacesSound
<1>1. scene \in BrowserParts /\ BrowserInit => SpacesInv /\ DemoInv BY SpacesStart, DemoStarts DEF BrowserInit
<1>2. SpacesInv /\ DemoInv /\ [BrowserNext]_browserVars => SpacesInv' /\ DemoInv'
  <2> SUFFICES ASSUME SpacesInv, DemoInv, [BrowserNext]_browserVars PROVE SpacesInv' /\ DemoInv' OBVIOUS
  <2>1. JoinNext \/ BanNext \/ UNCHANGED spacesVars BY DEF BrowserNext, browserVars, partVars
  <2>2. (MinterNext \/ PassNext) \/ UNCHANGED demoVars BY DEF BrowserNext, browserVars, partVars
  <2>3. SpacesInv' BY <2>1, SpacesKeep, SpacesStay
  <2>4. DemoInv' BY <2>2, DemoKeeps, DemoStays
  <2> QED BY <2>3, <2>4
<1>3. SpacesInv /\ DemoInv => SpacesSound BY SpacesAreSound, DemoIsSound DEF SpacesSound
<1> QED BY <1>1, <1>2, <1>3, PTL DEF BrowserSpec

\* Reading: a chip sits beside the words that it opens and no block is left out;
\* a post marked as shut was tried; a card waits for a tab that exists and tells
\* a verdict of its own attempt.  A policy asks for World ID in one check at the
\* most: with two, one click would open two tabs.
THEOREM ReadingIsSound == OneHumanCheck => (BrowserSpec => []ReadingSound)
<1> SUFFICES ASSUME OneHumanCheck PROVE BrowserSpec => []ReadingSound OBVIOUS
<1>1. scene \in BrowserParts /\ BrowserInit => CardInv /\ PageInv BY CardStarts, PageStarts DEF BrowserInit
<1>2. CardInv /\ PageInv /\ [BrowserNext]_browserVars => CardInv' /\ PageInv'
  <2> SUFFICES ASSUME CardInv, PageInv, [BrowserNext]_browserVars PROVE CardInv' /\ PageInv' OBVIOUS
  <2>1. CardNext \/ UNCHANGED cardVars BY DEF BrowserNext, browserVars, partVars
  <2>2. PageNext \/ UNCHANGED pageVars BY DEF BrowserNext, browserVars, partVars
  <2>3. CardInv' BY <2>1, CardKeeps, CardStays
  <2>4. PageInv' BY <2>2, PageKeeps, PageStays
  <2> QED BY <2>3, <2>4
<1>3. CardInv /\ PageInv => ReadingSound BY CardIsSound, PageIsSound DEF ReadingSound
<1> QED BY <1>1, <1>2, <1>3, PTL DEF BrowserSpec

\* Writing: a post is locked as the sheet said, the author's text is kept until
\* it is replaced, and what was inserted is what was made.
THEOREM WritingIsSound == BrowserSpec => []WritingSound
<1>1. scene \in BrowserParts /\ BrowserInit => SheetInv BY SheetStarts DEF BrowserInit
<1>2. SheetInv /\ [BrowserNext]_browserVars => SheetInv'
  <2> SUFFICES ASSUME SheetInv, [BrowserNext]_browserVars PROVE SheetInv' OBVIOUS
  <2>1. SheetNext \/ UNCHANGED sheetVars BY DEF BrowserNext, browserVars, partVars
  <2> QED BY <2>1, SheetKeeps, SheetStays
<1>3. SheetInv => WritingSound BY SheetIsSound DEF WritingSound
<1> QED BY <1>1, <1>2, <1>3, PTL DEF BrowserSpec

\* X, writing: a thread that was posted begins with the whole message as covers,
\* one part to a post and in their order, and the text that was swapped for them
\* is nowhere in it.
THEOREM ThreadsArePostedWhole == BrowserSpec => []PostedWhole
<1>1. scene \in BrowserParts /\ BrowserInit => PostInv BY PostStarts DEF BrowserInit
<1>2. PostInv /\ [BrowserNext]_browserVars => PostInv'
  <2> SUFFICES ASSUME PostInv, [BrowserNext]_browserVars PROVE PostInv' OBVIOUS
  <2>1. XPostNext \/ UNCHANGED xpostVars BY DEF BrowserNext, browserVars, partVars
  <2> QED BY <2>1, PostKeeps, PostStays
<1>3. PostInv => PostedWhole BY DEF PostInv
<1> QED BY <1>1, <1>2, <1>3, PTL DEF BrowserSpec

\* X, reading: an article shows the text of the post that it holds, or of the
\* one that it was taken from in the middle of a decode; no post of ours is given
\* up while the codec may come back, and a feed at rest leaves nothing decoded
\* unpainted.
THEOREM FeedIsSoundlyRead == BrowserSpec => []FeedSound
<1>1. scene \in BrowserParts /\ BrowserInit => FeedInv BY FeedStarts DEF BrowserInit
<1>2. FeedInv /\ [BrowserNext]_browserVars => FeedInv'
  <2> SUFFICES ASSUME FeedInv, [BrowserNext]_browserVars PROVE FeedInv' OBVIOUS
  <2>1. FeedNext \/ UNCHANGED feedVars BY DEF BrowserNext, browserVars, partVars
  <2> QED BY <2>1, FeedKeeps, FeedStays
<1>3. FeedInv => FeedSound BY FeedIsSound DEF FeedSound
<1> QED BY <1>1, <1>2, <1>3, PTL DEF BrowserSpec
=============================================================================
