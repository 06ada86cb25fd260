---------------------------- MODULE MeteredSend ----------------------------
(***************************************************************************)
(* The Telegram extension's side of the free tier, composed with the gate  *)
(* of the codec (CodecGate): the compose interceptor that asks for a cover *)
(* (content/compose.ts, content/index.ts), the meter that mirrors the      *)
(* server's count (content/metering.ts) and the bridge that stores a       *)
(* membership token (content/appbridge.ts).                                *)
(*                                                                         *)
(* Every tab caches the meter of its browser profile; the copy in          *)
(* storage.local is shared by the tabs of a profile and announced to them  *)
(* by events.  All profiles belong to one account, hence to one bucket.    *)
(***************************************************************************)
EXTENDS CodecGate

CONSTANTS
  Tabs,        \* content scripts
  Profiles,    \* browser profiles, each with its own storage.local
  ProfileOf,   \* the profile of each tab
  Account,     \* the handle all of them send under
  NoThread,    \* a tab that waits for no answer
  Faults,      \* what may go wrong here, see FaultKinds
  MaxAsks,     \* bound: encodes asked for
  MaxFaults    \* bound: faults

FaultKinds == {"encode", "timeout", "restart", "button", "expire"}

ASSUME MeterAssumption ==
  /\ IsFiniteSet(Tabs) /\ ProfileOf \in [Tabs -> Profiles] /\ Account \in Names
  /\ Faults \subseteq FaultKinds
  /\ MaxAsks \in Nat /\ MaxFaults \in Nat /\ NoThread \notin Threads

VARIABLES
  meter,      \* meter[c]: the state a tab caches
  stored,     \* stored[f]: the copy in storage.local
  token,      \* token[f]: the membership token in storage.local
  bridge,     \* bridge[f]: sends the app bridge has read and not yet written
  waiting,    \* waiting[c]: thread that serves the encode of tab c
  delivered,  \* ghost: covers a tab has received
  posted,     \* ghost: covers that became messages
  disturbed,  \* ghost: the codec has forgotten its counts, or a tab its request
  asks, faults

clientVars == <<meter, stored, token, bridge, waiting, delivered, posted, disturbed>>
vars == <<gateVars, clientVars, asks, faults>>

Meter == [sends : Nat, paid : BOOLEAN]
NoRead == -1

-----------------------------------------------------------------------------

\* Mutant: off by one, the last free send is refused.
BlockedEarly(m) == ~m.paid /\ m.sends >= FreeLimit - 1

\* isBlocked
Blocked(m) == ~m.paid /\ m.sends >= FreeLimit

\* The local pre-gate: the paywall is shown and the codec is not asked.
LocalRefusal(c) == token[ProfileOf[c]] = NoToken /\ Blocked(meter[c])

\* persist: the cached state of the tab replaces the stored one.
Persist(c, m) ==
  /\ meter' = [meter EXCEPT ![c] = m]
  /\ stored' = [stored EXCEPT ![ProfileOf[c]] = m]

\* Mutants: the server's number is taken for the sends; a send is counted by the
\* codec's answer and again here.
MirrorRemaining(m, r) ==
  IF r.member THEN [m EXCEPT !.paid = TRUE]
  ELSE [m EXCEPT !.sends = IF r.remaining >= 0 THEN r.remaining ELSE @ + 1]
CountTwice(m, r) ==
  IF r.member THEN [m EXCEPT !.paid = TRUE]
  ELSE [m EXCEPT !.sends = IF r.remaining >= 0 THEN FreeLimit - r.remaining ELSE @ + 2]

\* syncFromServer when the codec meters, increment when it does not.
Counted(m, r) ==
  IF r.member THEN [m EXCEPT !.paid = TRUE]
  ELSE [m EXCEPT !.sends = IF r.remaining >= 0 THEN FreeLimit - r.remaining ELSE @ + 1]

Fault(k) == k \in Faults /\ faults < MaxFaults /\ faults' = faults + 1

Done(c) == waiting' = [waiting EXCEPT ![c] = NoThread]

-----------------------------------------------------------------------------
(***************************************************************************)
(* The tab.                                                                *)
(***************************************************************************)

AskWith(c) == [handle |-> Account, fast |-> FALSE, token |-> token[ProfileOf[c]]]

\* Enter in the compose box, past the local pre-gate: ENCODE goes to the codec.
Ask(c) ==
  /\ waiting[c] = NoThread /\ asks < MaxAsks
  /\ ~LocalRefusal(c)
  /\ \E t \in Threads \ {waiting[d] : d \in Tabs} :
       /\ RefusePaused(t) \/ Encode(t, AskWith(c))
       /\ waiting' = [waiting EXCEPT ![c] = t]
  /\ asks' = asks + 1
  /\ UNCHANGED <<meter, stored, token, bridge, delivered, posted, disturbed, faults>>

Answered(c) == waiting[c] # NoThread /\ work[waiting[c]] = Idle

\* 402: markBlocked, and the paywall.
MeetPaywall(c) ==
  /\ Answered(c) /\ reply[waiting[c]].status = 402
  /\ Persist(c, [meter[c] EXCEPT !.sends = FreeLimit])
  /\ Done(c)
  /\ UNCHANGED <<gateVars, token, bridge, delivered, posted, disturbed, asks, faults>>

\* Mutant: a failure leaves the compose box held.
HoldOnFailure(c) ==
  /\ Answered(c) /\ reply[waiting[c]].status \notin {200, 402}
  /\ UNCHANGED vars

\* Any other failure, a connection the restarted codec dropped included: the
\* draft stays and nothing is counted.
AskFailed(c) ==
  /\ Answered(c) /\ reply[waiting[c]].status \notin {200, 402}
  /\ Done(c)
  /\ UNCHANGED <<gateVars, meter, stored, token, bridge, delivered, posted,
                 disturbed, asks, faults>>

\* The cover: it is counted first, then typed and sent, if there is a button.
ReceiveCover(c) ==
  /\ Answered(c) /\ reply[waiting[c]].status = 200
  /\ Persist(c, Counted(meter[c], reply[waiting[c]]))
  /\ delivered' = delivered + 1
  /\ \/ posted' = posted + 1 /\ UNCHANGED faults
     \/ Fault("button") /\ UNCHANGED posted
  /\ Done(c)
  /\ UNCHANGED <<gateVars, token, bridge, disturbed, asks>>

\* AbortSignal.timeout: the tab gives up, the codec does not notice.
Timeout(c) ==
  /\ "timeout" \in Faults
  /\ waiting[c] # NoThread /\ work[waiting[c]] # Idle
  /\ Done(c)
  /\ disturbed' = TRUE
  /\ UNCHANGED <<gateVars, meter, stored, token, bridge, delivered, posted, asks,
                 faults>>

\* storage.onChanged: the tab loads what another context has stored.
LoadMeter(c) ==
  /\ meter[c] # stored[ProfileOf[c]]
  /\ meter' = [meter EXCEPT ![c] = stored[ProfileOf[c]]]
  /\ UNCHANGED <<gateVars, stored, token, bridge, waiting, delivered, posted,
                 disturbed, asks, faults>>

(***************************************************************************)
(* The app delivers a membership token: the bridge reads the stored count, *)
(* then writes it back with the token and paid set.                        *)
(***************************************************************************)

BridgeReads(f) ==
  /\ token[f] = NoToken /\ bridge[f] = NoRead
  /\ bridge' = [bridge EXCEPT ![f] = stored[f].sends]
  /\ UNCHANGED <<gateVars, meter, stored, token, waiting, delivered, posted,
                 disturbed, asks, faults>>

BridgeWrites(f) ==
  /\ bridge[f] # NoRead
  /\ \E k \in Token : token' = [token EXCEPT ![f] = k]
  /\ stored' = [stored EXCEPT ![f] = [sends |-> bridge[f], paid |-> TRUE]]
  /\ bridge' = [bridge EXCEPT ![f] = NoRead]
  /\ UNCHANGED <<gateVars, meter, waiting, delivered, posted, disturbed, asks, faults>>

(***************************************************************************)
(* The codec.                                                              *)
(***************************************************************************)

Server ==
  /\ \/ \E t \in Threads : EncodeSucceeds(t) /\ UNCHANGED <<disturbed, faults>>
     \/ \E t \in Threads : EncodeFails(t) /\ Fault("encode") /\ UNCHANGED disturbed
     \/ Restart /\ Fault("restart") /\ disturbed' = TRUE
     \/ Tick /\ "expire" \in Faults /\ UNCHANGED <<disturbed, faults>>
  /\ UNCHANGED <<meter, stored, token, bridge, waiting, delivered, posted, asks>>

-----------------------------------------------------------------------------

MeteredInit ==
  /\ Init
  /\ meter = [c \in Tabs |-> [sends |-> 0, paid |-> FALSE]]
  /\ stored = [f \in Profiles |-> [sends |-> 0, paid |-> FALSE]]
  /\ token = [f \in Profiles |-> NoToken]
  /\ bridge = [f \in Profiles |-> NoRead]
  /\ waiting = [c \in Tabs |-> NoThread]
  /\ delivered = 0 /\ posted = 0 /\ disturbed = FALSE
  /\ asks = 0 /\ faults = 0

Answer1(c) == MeetPaywall(c) \/ AskFailed(c) \/ ReceiveCover(c)

Tab(c) == Ask(c) \/ Answer1(c) \/ Timeout(c) \/ LoadMeter(c)

MeteredNext ==
  \/ \E c \in Tabs : Tab(c)
  \/ \E f \in Profiles : BridgeReads(f) \/ BridgeWrites(f)
  \/ Server

MeteredSpec == MeteredInit /\ [][MeteredNext]_vars

\* A tab handles the answer it gets, and its timer fires when none comes.
MeteredFairSpec ==
  /\ MeteredSpec
  /\ \A c \in Tabs : WF_vars(Answer1(c)) /\ WF_vars(Timeout(c))

-----------------------------------------------------------------------------

MeteredTypeOK ==
  /\ TypeOK
  /\ meter \in [Tabs -> Meter] /\ stored \in [Profiles -> Meter]
  /\ token \in [Profiles -> Token \cup {NoToken}]
  /\ bridge \in [Profiles -> Nat \cup {NoRead}]
  /\ waiting \in [Tabs -> Threads \cup {NoThread}]
  /\ posted \in Nat /\ delivered \in Nat /\ asks \in Nat /\ faults \in Nat
  /\ disturbed \in BOOLEAN

\* Every cover a tab received was asked for, once, and no message was posted
\* without one.
NothingUnasked == posted <= delivered /\ delivered <= asks

\* Nothing is in flight, no tab has given up on a request the codec went on
\* with, and the codec has not forgotten what it counted.
Settled ==
  /\ ~disturbed
  /\ \A c \in Tabs : waiting[c] = NoThread
  /\ \A t \in Threads : work[t] = Idle

\* The mirror is exact: once nothing is in flight the stored count of a profile
\* without a membership is the server's count of the account.
MirrorsServer ==
  enforce /\ Settled
    => \A f \in Profiles : token[f] = NoToken => stored[f].sends = counts[Account]

\* The paywall does not fire early: a tab that refuses on its own, with nothing
\* in flight, spares a request the codec would have refused.
LocalRefusalIsDoomed ==
  enforce /\ Settled
    => \A c \in Tabs : LocalRefusal(c) => counts[Account] >= FreeLimit

\* While the codec does not meter, the local count is the covers handed out.
CountsDeliveries ==
  ~enforce /\ Settled
    => \A f \in Profiles : token[f] = NoToken => stored[f].sends = delivered

\* The compose box is never held for good: every encode asked for ends, however
\* the codec, the network and the restarts treat it.
ComposeFrees ==
  \A c \in Tabs : waiting[c] # NoThread ~> waiting[c] = NoThread

=============================================================================
