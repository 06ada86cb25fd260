------------------------------ MODULE Keyring ------------------------------
(***************************************************************************)
(* The reader's keyring: one record in storage.local that every handler of *)
(* the service worker reads, keeps across its awaits and writes back       *)
(* whole.  Source: extension-everywhere/src/background/sealed.ts, the tab  *)
(* of World's widget (background/index.ts, world/world.ts) and the         *)
(* sessions of the gate (gate/keyring.mjs).                                *)
(***************************************************************************)
EXTENDS Integers, FiniteSets

CONSTANTS
  Words,          \* passphrases
  MaxHandlers,    \* bound on the handlers of a behaviour
  MaxTabs,        \* bound on the tabs of World's widget
  KeyringKinds,   \* what the reader does: subset of {"add", "remove", "view", "forget", "world", "wallet"}
  KeyringFaults   \* subset of {"worker", "expiry", "gateDown"}

ASSUME KeyringAssumption == MaxHandlers \in Nat

VARIABLES
  kr,       \* the stored keyring: [pass, token]
  gateRows, \* the gate's sessions: token -> credentials, {} when expired
  rows,     \* tokens that the gate has a row for
  ops,      \* handlers in flight
  count,    \* how many handlers there were
  pending,  \* storage.session: connect:id -> the token it began with
  waiters,  \* ids that a handler in this worker waits for
  letters,  \* messages from the widget's tab on their way to the worker
  tab,      \* id -> "none", "open", "sent", "closed"
  proofs,   \* ghost: how often the proof of each id reached the gate
  broken,   \* ghost: ids whose handler a stop of the worker cut short
  want,     \* ghost: the passphrases the reader added and did not remove
  proven,   \* ghost: credentials proven, neither forgotten nor expired
  crossed   \* ghost: two handlers were between their read and their write

keyringVars == <<kr, gateRows, rows, ops, count, pending, waiters, letters, tab,
                 proofs, broken, want, proven, crossed>>

NoRingToken == 0
RingTokens == 1..MaxHandlers + 1
RingIds == 1..MaxHandlers
Cred(kind) == IF kind = "world" THEN "human" ELSE "address"

Live(t) == t # NoRingToken /\ gateRows[t] # {}
AtWidget(o) == o.at = "waiting"
\* A connection or another handler is open.
Open == ops # {} \/ \E id \in RingIds : pending[id] # {}
Calm == \A o \in ops : AtWidget(o)

To(o, step) == ops' = (ops \ {o}) \cup {[o EXCEPT !.at = step]}
End(o) == ops' = ops \ {o}

-----------------------------------------------------------------------------
(* Handlers.  Each begins by reading the keyring.                          *)

Handler(kind, word, at) ==
  [kind |-> kind, word |-> word, at |-> at, mine |-> kr, id |-> count + 1,
   answer |-> NoRingToken, dead |-> FALSE]

\* keyringView; without a token there is nothing to ask.
View == IF kr.token = NoRingToken THEN {} ELSE {Handler("view", "-", "asking")}

Start(kind, new) ==
  /\ kind \in KeyringKinds
  /\ count < MaxHandlers
  /\ count' = count + 1
  /\ ops' = ops \cup new
  /\ crossed' = (crossed \/ ~Calm \/ (Open /\ kind \in {"world", "wallet", "forget"}))

KeyringView ==
  /\ Start("view", View)
  /\ UNCHANGED <<kr, gateRows, rows, pending, waiters, letters, tab, proofs, broken, want, proven>>

AddPassphrase ==
  /\ \E w \in Words : /\ Start("add", {Handler("add", w, "saving")})
                      /\ want' = want \cup {w}
  /\ UNCHANGED <<kr, gateRows, rows, pending, waiters, letters, tab, proofs, broken, proven>>

RemovePassphrase ==
  /\ \E w \in kr.pass : /\ Start("remove", {Handler("remove", w, "saving")})
                        /\ want' = want \ {w}
  /\ UNCHANGED <<kr, gateRows, rows, pending, waiters, letters, tab, proofs, broken, proven>>

ForgetConnected ==
  /\ Start("forget", {Handler("forget", "-", "forgetting")})
  /\ proven' = {}
  /\ UNCHANGED <<kr, gateRows, rows, pending, waiters, letters, tab, proofs, broken, want>>

\* saveKeyring of add and remove, and the keyringView that follows.
SavePass(o) ==
  /\ o.at = "saving"
  /\ kr' = [o.mine EXCEPT !.pass = IF o.kind = "add" THEN @ \cup {o.word} ELSE @ \ {o.word}]
  /\ IF o.mine.token = NoRingToken THEN End(o)
     ELSE ops' = (ops \ {o}) \cup {[o EXCEPT !.kind = "view", !.at = "asking", !.mine = kr']}
  /\ UNCHANGED <<gateRows, rows, count, pending, waiters, letters, tab, proofs, broken, want, proven, crossed>>

\* The gate says which credentials the token holds, or does not answer.
ViewAsks(o) ==
  /\ o.kind = "view" /\ o.at = "asking"
  /\ \/ ops' = (ops \ {o}) \cup {[o EXCEPT !.at = "told", !.dead = ~Live(o.mine.token)]}
     \/ "gateDown" \in KeyringFaults /\ End(o)
  /\ UNCHANGED <<kr, gateRows, rows, count, pending, waiters, letters, tab, proofs, broken, want, proven, crossed>>

ViewSaves(o) ==
  /\ o.kind = "view" /\ o.at = "told"
  /\ kr' = IF o.dead THEN [o.mine EXCEPT !.token = NoRingToken] ELSE o.mine
  /\ End(o)
  /\ UNCHANGED <<gateRows, rows, count, pending, waiters, letters, tab, proofs, broken, want, proven, crossed>>

GateForgets(o) ==
  /\ o.at = "forgetting"
  /\ To(o, "forgotten")
  /\ \/ /\ gateRows' = [t \in RingTokens |-> IF t = o.mine.token THEN {} ELSE gateRows[t]]
        /\ rows' = rows \ {o.mine.token}
     \/ "gateDown" \in KeyringFaults /\ UNCHANGED <<gateRows, rows>>
  /\ UNCHANGED <<kr, count, pending, waiters, letters, tab, proofs, broken, want, proven, crossed>>

ForgetSaves(o) ==
  /\ o.at = "forgotten"
  /\ kr' = [o.mine EXCEPT !.token = NoRingToken]
  /\ End(o)
  /\ UNCHANGED <<gateRows, rows, count, pending, waiters, letters, tab, proofs, broken, want, proven, crossed>>

-----------------------------------------------------------------------------
(* Connections.  worldConnect stores what a restarted worker needs, opens  *)
(* the widget's tab and waits for a message of the tab.                    *)

ConnectWorld ==
  /\ Start("world", {Handler("world", "-", "challenged")})
  /\ Cardinality({i \in RingIds : tab[i] # "none"} \cup {o.id : o \in {o \in ops : o.kind = "world"}}) < MaxTabs
  /\ UNCHANGED <<kr, gateRows, rows, pending, waiters, letters, tab, proofs, broken, want, proven>>

OpenTab(o) ==
  /\ o.kind = "world" /\ o.at = "challenged"
  /\ pending' = [pending EXCEPT ![o.id] = {o.mine.token}]
  /\ waiters' = waiters \cup {o.id}
  /\ tab' = [tab EXCEPT ![o.id] = "open"]
  /\ To(o, "waiting")
  /\ UNCHANGED <<kr, gateRows, rows, count, letters, proofs, broken, want, proven, crossed>>

\* The widget has a proof; the tab is closed, before or after.
WidgetProves(id) ==
  /\ tab[id] = "open"
  /\ tab' = [tab EXCEPT ![id] = "sent"]
  /\ letters' = letters \cup {[id |-> id, proof |-> TRUE]}
  /\ UNCHANGED <<kr, gateRows, rows, ops, count, pending, waiters, proofs, broken, want, proven, crossed>>

TabCloses(id) ==
  /\ tab[id] \in {"open", "sent"}
  /\ tab' = [tab EXCEPT ![id] = "closed"]
  /\ letters' = letters \cup {[id |-> id, proof |-> FALSE]}
  /\ UNCHANGED <<kr, gateRows, rows, ops, count, pending, waiters, proofs, broken, want, proven, crossed>>

\* finishConnect, up to the request to the gate.
Finish(o, token, proof) ==
  /\ pending' = [pending EXCEPT ![o.id] = {}]
  /\ ops' = (ops \ {o}) \cup
            (IF proof THEN {[o EXCEPT !.at = "proving", !.mine.token = token]} ELSE {})
  /\ crossed' = (crossed \/ \E p \in ops \ {o} : ~AtWidget(p))

\* onWidgetMessage, with a waiter in memory.
MessageToWaiter(m) ==
  /\ m.id \in waiters
  /\ letters' = letters \ {m}
  /\ waiters' = waiters \ {m.id}
  /\ LET o == CHOOSE o \in ops : o.kind = "world" /\ o.id = m.id IN Finish(o, o.mine.token, m.proof)
  /\ UNCHANGED <<kr, gateRows, rows, count, tab, proofs, broken, want, proven>>

\* Without one, the worker was restarted: what it saved is looked up.
\* Mutant: it only knows waiters.
MessageForNobody(m) ==
  /\ m.id \notin waiters
  /\ letters' = letters \ {m}
  /\ UNCHANGED <<kr, gateRows, rows, ops, count, pending, waiters, tab, proofs, broken, want, proven, crossed>>
MessageAfterRestart(m) ==
  /\ m.id \notin waiters
  /\ letters' = letters \ {m}
  /\ ops' = ops \cup {[kind |-> "world", word |-> IF m.proof THEN "proof" ELSE "closed",
                       at |-> "loaded", mine |-> [kr EXCEPT !.token = t], id |-> m.id,
                       answer |-> NoRingToken, dead |-> FALSE] : t \in pending[m.id]}
  /\ UNCHANGED <<kr, gateRows, rows, count, pending, waiters, tab, proofs, broken, want, proven, crossed>>

FinishLoaded(o) ==
  /\ o.at = "loaded"
  /\ Finish(o, o.mine.token, o.word = "proof")
  /\ UNCHANGED <<kr, gateRows, rows, count, waiters, letters, tab, proofs, broken, want, proven>>

\* The wallet signs the gate's message, or the reader declines.
ConnectWallet ==
  /\ Start("wallet", {Handler("wallet", "-", "waiting")})
  /\ UNCHANGED <<kr, gateRows, rows, pending, waiters, letters, tab, proofs, broken, want, proven>>
WalletSigns(o) ==
  /\ o.kind = "wallet" /\ o.at = "waiting"
  /\ \/ To(o, "proving")
     \/ End(o)
  /\ crossed' = (crossed \/ \E p \in ops \ {o} : ~AtWidget(p))
  /\ UNCHANGED <<kr, gateRows, rows, count, pending, waiters, letters, tab, proofs, broken, want, proven>>

\* The gate merges what was proven into the session of the token, or makes a
\* new one; it may refuse, and its answer may be lost.
GateGrants(o) ==
  /\ o.at = "proving"
  /\ proofs' = IF o.kind = "world" THEN [proofs EXCEPT ![o.id] = @ + 1] ELSE proofs
  /\ \/ LET t == IF o.mine.token \in rows THEN o.mine.token ELSE o.id + 1
        IN /\ gateRows' = [gateRows EXCEPT ![t] = @ \cup {Cred(o.kind)}]
           /\ rows' = rows \cup {t}
           /\ proven' = proven \cup {Cred(o.kind)}
           /\ ops' = (ops \ {o}) \cup {[o EXCEPT !.at = "granted", !.answer = t]}
     \/ "gateDown" \in KeyringFaults /\ End(o) /\ UNCHANGED <<gateRows, rows, proven>>
  /\ UNCHANGED <<kr, count, pending, waiters, letters, tab, broken, want, crossed>>

\* Mutant: the keyring read before the reader was asked is written back.
GrantWritesOld(o) ==
  /\ o.at = "granted"
  /\ kr' = [o.mine EXCEPT !.token = o.answer]
  /\ End(o)
  /\ UNCHANGED <<gateRows, rows, count, pending, waiters, letters, tab, proofs, broken, want, proven, crossed>>
\* granted reads the keyring again, then writes it.
GrantReads(o) ==
  /\ o.at = "granted"
  /\ ops' = (ops \ {o}) \cup {[o EXCEPT !.at = "writing", !.mine = kr]}
  /\ UNCHANGED <<kr, gateRows, rows, count, pending, waiters, letters, tab, proofs, broken, want, proven, crossed>>
GrantWrites(o) ==
  /\ o.at = "writing"
  /\ kr' = [o.mine EXCEPT !.token = o.answer]
  /\ End(o)
  /\ UNCHANGED <<gateRows, rows, count, pending, waiters, letters, tab, proofs, broken, want, proven, crossed>>

-----------------------------------------------------------------------------
WorkerRestarts ==
  /\ "worker" \in KeyringFaults /\ ops # {}
  /\ ops' = {}
  /\ waiters' = {}
  /\ broken' = broken \cup {o.id : o \in {o \in ops : ~AtWidget(o)}}
  /\ crossed' = (crossed \/ \E o \in ops : ~AtWidget(o))
  /\ UNCHANGED <<kr, gateRows, rows, count, pending, letters, tab, proofs, want, proven>>

SessionExpires ==
  /\ "expiry" \in KeyringFaults
  /\ \E t \in RingTokens : /\ Live(t)
                       /\ gateRows' = [gateRows EXCEPT ![t] = {}]
                       /\ proven' = proven \ gateRows[t]
  /\ crossed' = (crossed \/ ~Calm)
  /\ UNCHANGED <<kr, rows, ops, count, pending, waiters, letters, tab, proofs, broken, want>>

KeyringInit ==
  /\ kr \in [pass : {{}}, token : {NoRingToken, 1}]
  /\ rows = {kr.token} \cap RingTokens
  /\ gateRows = [t \in RingTokens |-> IF t = kr.token THEN {"address"} ELSE {}]
  /\ ops = {} /\ count = 0
  /\ pending = [i \in RingIds |-> {}] /\ waiters = {} /\ letters = {}
  /\ tab = [i \in RingIds |-> "none"]
  /\ proofs = [i \in RingIds |-> 0] /\ broken = {}
  /\ want = {} /\ proven = IF kr.token = NoRingToken THEN {} ELSE {"address"}
  /\ crossed = FALSE

KeyringNext ==
  \/ KeyringView \/ AddPassphrase \/ RemovePassphrase \/ ForgetConnected
  \/ ConnectWorld \/ ConnectWallet
  \/ \E o \in ops : SavePass(o) \/ ViewAsks(o) \/ ViewSaves(o) \/ GateForgets(o) \/ ForgetSaves(o)
                      \/ OpenTab(o) \/ FinishLoaded(o) \/ WalletSigns(o)
                      \/ GateGrants(o) \/ GrantReads(o) \/ GrantWrites(o)
  \/ \E m \in letters : MessageToWaiter(m) \/ MessageAfterRestart(m)
  \/ \E id \in RingIds : WidgetProves(id) \/ TabCloses(id)
  \/ WorkerRestarts \/ SessionExpires

KeyringSpec == KeyringInit /\ [][KeyringNext]_keyringVars

-----------------------------------------------------------------------------
Kept == /\ kr.pass = want
        /\ proven # {} => kr.token # NoRingToken /\ proven \subseteq gateRows[kr.token]

\* As long as no two handlers were at work on the keyring at once, it holds
\* the passphrases the reader chose and a token for everything proven,
\* across restarts while a proof was awaited, expiry and refusals.
KeyringKept == ~crossed /\ Calm => Kept

\* A proof that the widget handed over reaches the gate once, and does so
\* also when the worker was restarted in between, unless it was stopped in
\* the middle of handing it on.
ProofReachesGate ==
  \A id \in RingIds :
    /\ proofs[id] <= 1
    /\ tab[id] = "sent" /\ id \notin broken =>
         \/ proofs[id] = 1
         \/ [id |-> id, proof |-> TRUE] \in letters
         \/ \E o \in ops : o.id = id /\ o.at \in {"loaded", "proving"}

=============================================================================
