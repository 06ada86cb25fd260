----------------------------- MODULE Handshake -----------------------------
(***************************************************************************)
(* The in-band key handshake of the Telegram extension, between the        *)
(* content scripts of two browsers that watch the same chat.               *)
(*                                                                         *)
(* Each side keeps a session (content/session.ts), scans the bubbles of    *)
(* the chat newest first and caches its verdicts (content/inbound.ts), and *)
(* acts on the frames it decodes (content/index.ts).  Encoding and         *)
(* decoding are calls to the codec that take seconds: a decode is split in *)
(* BeginDecode and the action that uses its result, and an encode is a     *)
(* member of jobs[p] until FinishJob, so that clicks, arrivals and the     *)
(* other side's steps happen in between.                                   *)
(***************************************************************************)
EXTENDS Integers, Sequences, FiniteSets

CONSTANTS
  Peers,      \* the two browsers
  NoPub,      \* "no peer public key yet"
  Backlog,    \* MAX_BACKLOG: how many of the newest bubbles a scan considers
  Faults,     \* what may go wrong in this instance, see FaultKinds
  MaxKeys,    \* bound: key pairs one browser may generate
  MaxChat,    \* bound: bubbles in the chat
  MaxMsgs,    \* bound: user messages among them
  MaxClicks,  \* bound: Connect clicks in one behaviour
  MaxFaults   \* bound: faults in one behaviour

FaultKinds == {"encode", "decode", "expire", "disconnect", "reload", "restart"}
FrameTypes == {"OFFER", "ACK"}
Pub == Peers \X (1..MaxKeys)

ASSUME HandshakeAssumption ==
  /\ Backlog \in Nat \ {0}
  /\ MaxKeys \in Nat /\ MaxChat \in Nat /\ MaxMsgs \in Nat
  /\ MaxClicks \in Nat /\ MaxFaults \in Nat
  /\ Faults \subseteq FaultKinds
  /\ NoPub \notin Pub

VARIABLES
  chat,       \* the bubbles of the chat, oldest first
  keyPair,    \* keyPair[p]: number of p's current key pair, 0 when it has none
  generated,  \* generated[p]: how many key pairs p has generated so far
  peerPub,    \* peerPub[p]: the public key p holds for the other side
  convKey,    \* convKey[p]: the conversation key, {} when there is none
  status,     \* status[p]: "none", "offered" or "established"
  handled,    \* handled[p]: the replay guard handledFrames
  live,       \* live[p]: the content script of p watches the chat
  history,    \* history[p]: bubbles 1..history[p] were there when it started
  rejected,   \* rejected[p]: bubbles cached as "definitely not ours"
  rendered,   \* rendered[p]: bubbles decrypted and rendered in place
  skipped,    \* skipped[p]: bubbles the current pass left undecided (RETRY)
  decoding,   \* decoding[p]: bubble being decoded, 0 when there is none
  jobs,       \* jobs[p]: encodes in progress, each with what will be sent
  banners,    \* banners[p]: accept banners on screen, by the key they offer
  clicks,     \* Connect clicks so far
  faults      \* faults so far

session == <<keyPair, generated, peerPub, convKey, status>>
scan    == <<history, rejected, rendered, skipped, decoding>>
vars == <<chat, session, handled, live, scan, jobs, banners, clicks, faults>>

Frame(k, pub) == [kind |-> k, pub |-> pub, key |-> {}]
Message(key)  == [kind |-> "MSG", pub |-> NoPub, key |-> key]
Bubble == [kind : FrameTypes, pub : Pub, key : {{}}]
            \cup [kind : {"MSG"}, pub : {NoPub}, key : SUBSET Pub]

Job(b, via) == [bubble |-> b, via |-> via]
Jobs == [bubble : Bubble, via : {"user", "scan"}]

(***************************************************************************)
(* Reading the state.                                                      *)
(***************************************************************************)

MyPub(p) == <<p, keyPair[p]>>

\* isMine: only the current key pair counts as ours.
IsMine(p, pub) == keyPair[p] # 0 /\ pub = MyPub(p)

\* Mutant: an offer never counts as coming from the present peer.
NeverPeer(p, pub) == FALSE

IsPeer(p, pub) == peerPub[p] = pub

\* deriveConvKey: symmetric, and bound to both public keys.
DeriveConvKey(mine, theirs) == {mine, theirs}

\* A user message being encoded holds the compose box (compose.ts: swapping).
Swapping(p) == \E j \in jobs[p] : j.bubble.kind = "MSG"

\* The scan waits in handleFrame for the ACK that answers an OFFER.
Accepting(p) == \E j \in jobs[p] : j.via = "scan"

\* The bubbles the current pass of p may still decode: in the newest Backlog,
\* with no cached verdict, not rendered and not left undecided in this pass.
Candidates(p) ==
  {i \in 1..Len(chat) : i > Len(chat) - Backlog}
    \ (rejected[p] \cup rendered[p] \cup skipped[p])

Current(p) == chat[decoding[p]]

\* Mutant: the newest bubble of the history counts as live.
NewestIsLive(p) == decoding[p] < history[p]

\* fromHistory: the bubble was on screen when the page was first looked at.
Fossil(p) == decoding[p] <= history[p]
Decoded(p, kinds) ==
  decoding[p] # 0 /\ ~Accepting(p) /\ Current(p).kind \in kinds

\* A frame handleFrame is called with: live, and not our own echoed back.
LiveFrame(p, kinds) ==
  Decoded(p, kinds) /\ ~Fossil(p) /\ ~IsMine(p, Current(p).pub)

GuardKey(p) == <<Current(p).kind, Current(p).pub>>

(***************************************************************************)
(* Pieces of the handlers.                                                 *)
(***************************************************************************)

CanHaveKey(p) == keyPair[p] # 0 \/ generated[p] < MaxKeys

\* Mutant: a new key pair for every handshake.
RotateKeyPair(p) ==
  /\ generated[p] < MaxKeys
  /\ generated' = [generated EXCEPT ![p] = @ + 1]
  /\ keyPair' = [keyPair EXCEPT ![p] = generated[p] + 1]

\* ensureKeyPair
EnsureKeyPair(p) ==
  /\ CanHaveKey(p)
  /\ IF keyPair[p] # 0
       THEN UNCHANGED <<keyPair, generated>>
       ELSE /\ generated' = [generated EXCEPT ![p] = @ + 1]
            /\ keyPair' = [keyPair EXCEPT ![p] = generated[p] + 1]

\* Mutant: no ensureKeyPair before the derivation.
EstablishKeyless(p, pub) ==
  /\ UNCHANGED <<keyPair, generated>>
  /\ peerPub' = [peerPub EXCEPT ![p] = pub]
  /\ convKey' = [convKey EXCEPT ![p] = DeriveConvKey(<<p, keyPair'[p]>>, pub)]
  /\ status' = [status EXCEPT ![p] = "established"]

\* onAck and the first half of acceptOffer: derive the key for pub.
Establish(p, pub) ==
  /\ EnsureKeyPair(p)
  /\ peerPub' = [peerPub EXCEPT ![p] = pub]
  /\ convKey' = [convKey EXCEPT ![p] = DeriveConvKey(<<p, keyPair'[p]>>, pub)]
  /\ status' = [status EXCEPT ![p] = "established"]

\* establishFromOffer up to the encode of the ACK.
AcceptOffer(p, pub, via) ==
  /\ Establish(p, pub)
  /\ jobs' = [jobs EXCEPT ![p] =
                @ \cup {Job(Frame("ACK", <<p, keyPair'[p]>>), via)}]

\* The page of every p in S changed: the pass restarts from the newest bubble.
Mutated(S) == skipped' = [q \in Peers |-> IF q \in S THEN {} ELSE skipped[q]]

\* The decode of p ends with the verdict null, which is cached.
Reject(p) ==
  /\ rejected' = [rejected EXCEPT ![p] = @ \cup {decoding[p]}]
  /\ decoding' = [decoding EXCEPT ![p] = 0]

Fault(kind) ==
  /\ kind \in Faults
  /\ faults < MaxFaults
  /\ faults' = faults + 1

(***************************************************************************)
(* The user.                                                               *)
(***************************************************************************)

\* START_HANDSHAKE: sendOffer up to the encode of the OFFER.  A click on an
\* established session only shows a toast.
Connect(p) ==
  /\ live[p] /\ clicks < MaxClicks
  /\ status[p] # "established"
  /\ EnsureKeyPair(p)
  /\ status' = [status EXCEPT ![p] = "offered"]
  /\ jobs' = [jobs EXCEPT ![p] =
                @ \cup {Job(Frame("OFFER", <<p, keyPair'[p]>>), "user")}]
  /\ clicks' = clicks + 1
  /\ UNCHANGED <<chat, peerPub, convKey, handled, live, scan, banners, faults>>

\* The tap on an accept banner, whatever has happened since it was shown.
TapAccept(p) ==
  /\ live[p]
  /\ \E pub \in banners[p] :
       /\ AcceptOffer(p, pub, "user")
       /\ banners' = [banners EXCEPT ![p] = @ \ {pub}]
  /\ UNCHANGED <<chat, handled, live, scan, clicks, faults>>

\* A user presses Enter: the message is encrypted now, encoded by the codec.
SendMessage(p) ==
  /\ live[p] /\ convKey[p] # {} /\ ~Swapping(p)
  /\ Cardinality({i \in 1..Len(chat) : chat[i].kind = "MSG"}) < MaxMsgs
  /\ jobs' = [jobs EXCEPT ![p] = @ \cup {Job(Message(convKey[p]), "user")}]
  /\ UNCHANGED <<chat, session, handled, live, scan, banners, clicks, faults>>

\* HS_RESET: forget the session and the replay guard.
Disconnect(p) ==
  /\ Fault("disconnect") /\ live[p]
  /\ keyPair' = [keyPair EXCEPT ![p] = 0]
  /\ peerPub' = [peerPub EXCEPT ![p] = NoPub]
  /\ convKey' = [convKey EXCEPT ![p] = {}]
  /\ status' = [status EXCEPT ![p] = "none"]
  /\ handled' = [handled EXCEPT ![p] = {}]
  /\ UNCHANGED <<chat, generated, live, scan, jobs, banners, clicks>>

(***************************************************************************)
(* The page: loading, reloading, timers and the codec's failures.          *)
(***************************************************************************)

\* Everything the content script keeps in memory only is lost.
Unload(p) ==
  /\ live[p]
  /\ live' = [live EXCEPT ![p] = FALSE]
  /\ handled' = [handled EXCEPT ![p] = {}]
  /\ rejected' = [rejected EXCEPT ![p] = {}]
  /\ rendered' = [rendered EXCEPT ![p] = {}]
  /\ skipped' = [skipped EXCEPT ![p] = {}]
  /\ decoding' = [decoding EXCEPT ![p] = 0]
  /\ jobs' = [jobs EXCEPT ![p] = {}]
  /\ banners' = [banners EXCEPT ![p] = {}]
  /\ UNCHANGED <<chat, generated, history, clicks>>

\* The tab is reloaded: loadSession restores the session from storage.session.
Reload(p) ==
  /\ Fault("reload") /\ Unload(p)
  /\ UNCHANGED <<keyPair, peerPub, convKey, status>>

\* The browser is closed: storage.session is gone too.
Restart(p) ==
  /\ Fault("restart") /\ Unload(p)
  /\ keyPair' = [keyPair EXCEPT ![p] = 0]
  /\ peerPub' = [peerPub EXCEPT ![p] = NoPub]
  /\ convKey' = [convKey EXCEPT ![p] = {}]
  /\ status' = [status EXCEPT ![p] = "none"]

\* The first pass after loading: what is on screen now is history.
Boot(p) ==
  /\ ~live[p]
  /\ live' = [live EXCEPT ![p] = TRUE]
  /\ history' = [history EXCEPT ![p] = Len(chat)]
  /\ UNCHANGED <<chat, session, handled, rejected, rendered, skipped, decoding,
                 jobs, banners, clicks, faults>>

\* A banner nobody tapped for 30 seconds disappears.
BannerExpires(p) ==
  /\ Fault("expire")
  /\ \E pub \in banners[p] : banners' = [banners EXCEPT ![p] = @ \ {pub}]
  /\ UNCHANGED <<chat, session, handled, live, scan, jobs, clicks>>

\* Telegram changes the page on its own: a new scan starts from the top.
TelegramMutates(p) ==
  /\ skipped[p] # {}
  /\ skipped' = [skipped EXCEPT ![p] = {}]
  /\ UNCHANGED <<chat, session, handled, live, history, rejected, rendered,
                 decoding, jobs, banners, clicks, faults>>

(***************************************************************************)
(* The scan: newest first, one decode at a time.                           *)
(***************************************************************************)

BeginDecode(p) ==
  /\ live[p] /\ decoding[p] = 0
  /\ \E i \in Candidates(p) :
       /\ \A k \in Candidates(p) : k <= i
       /\ decoding' = [decoding EXCEPT ![p] = i]
  /\ UNCHANGED <<chat, session, handled, live, history, rejected, rendered,
                 skipped, jobs, banners, clicks, faults>>

\* Mutant: the transient verdict is cached as if it were final.
CacheUndecided(p) ==
  /\ \/ Decoded(p, FrameTypes \cup {"MSG"}) /\ Fault("decode")
     \/ Decoded(p, {"MSG"}) /\ convKey[p] = {} /\ UNCHANGED faults
  /\ Reject(p)
  /\ UNCHANGED <<chat, session, handled, live, history, rendered, skipped, jobs,
                 banners, clicks>>

\* RETRY: the codec failed, or it is a message and there is no key yet.  Nothing
\* is cached: the bubble is decoded again in a later pass.
Undecided(p) ==
  /\ \/ Decoded(p, FrameTypes \cup {"MSG"}) /\ Fault("decode")
     \/ Decoded(p, {"MSG"}) /\ convKey[p] = {} /\ UNCHANGED faults
  /\ skipped' = [skipped EXCEPT ![p] = @ \cup {decoding[p]}]
  /\ decoding' = [decoding EXCEPT ![p] = 0]
  /\ UNCHANGED <<chat, session, handled, live, history, rejected, rendered, jobs,
                 banners, clicks>>

\* A message under our key is rendered in place.
OpenMessage(p) ==
  /\ Decoded(p, {"MSG"}) /\ convKey[p] # {} /\ Current(p).key = convKey[p]
  /\ rendered' = [rendered EXCEPT ![p] = @ \cup {decoding[p]}]
  /\ decoding' = [decoding EXCEPT ![p] = 0]
  /\ Mutated({p})
  /\ UNCHANGED <<chat, session, handled, live, history, rejected, jobs, banners,
                 clicks, faults>>

\* A message under any other key fails the AES-SIV tag.
TagFailure(p) ==
  /\ Decoded(p, {"MSG"}) /\ convKey[p] # {} /\ Current(p).key # convKey[p]
  /\ Reject(p)
  /\ UNCHANGED <<chat, session, handled, live, history, rendered, skipped, jobs,
                 banners, clicks, faults>>

\* A frame that changes nothing: a fossil, our own, one from the peer we are
\* established with, an ACK while established, or one already acted on.
IgnoreFrame(p) ==
  /\ Decoded(p, FrameTypes)
  /\ \/ Fossil(p)
     \/ IsMine(p, Current(p).pub)
     \/ /\ status[p] = "established"
        /\ Current(p).kind = "ACK" \/ IsPeer(p, Current(p).pub)
     \/ /\ status[p] # "established"
        /\ GuardKey(p) \in handled[p]
  /\ Reject(p)
  /\ UNCHANGED <<chat, session, handled, live, history, rendered, skipped, jobs,
                 banners, clicks, faults>>

\* An OFFER with a key that is not our peer's: they restarted.
PeerRestarted(p) ==
  /\ LiveFrame(p, {"OFFER"})
  /\ status[p] = "established" /\ ~IsPeer(p, Current(p).pub)
  /\ handled' = [handled EXCEPT ![p] = {}]
  /\ AcceptOffer(p, Current(p).pub, "scan")
  /\ UNCHANGED <<chat, live, scan, banners, clicks, faults>>

\* A frame alreadyHandled has not seen: it is recorded, then acted on.
FirstSight(p, kinds) ==
  /\ LiveFrame(p, kinds)
  /\ status[p] # "established"
  /\ GuardKey(p) \notin handled[p]
  /\ handled' = [handled EXCEPT ![p] = @ \cup {GuardKey(p)}]

\* Mutant: every offer is taken for glare.
GlareAnyway(p) ==
  /\ FirstSight(p, {"OFFER"})
  /\ AcceptOffer(p, Current(p).pub, "scan")
  /\ UNCHANGED <<chat, live, scan, banners, clicks, faults>>

\* Both sides clicked Connect: no tap is needed.
Glare(p) ==
  /\ FirstSight(p, {"OFFER"}) /\ status[p] = "offered"
  /\ AcceptOffer(p, Current(p).pub, "scan")
  /\ UNCHANGED <<chat, live, scan, banners, clicks, faults>>

\* A fresh invite: show the banner and go on scanning.
ShowBanner(p) ==
  /\ FirstSight(p, {"OFFER"}) /\ status[p] = "none"
  /\ banners' = [banners EXCEPT ![p] = @ \cup {Current(p).pub}]
  /\ Reject(p)
  /\ Mutated({p})
  /\ UNCHANGED <<chat, session, live, history, rendered, jobs, clicks, faults>>

\* The peer accepted: onAck, then inbound.reset() before the verdict is cached.
ReceiveAck(p) ==
  /\ FirstSight(p, {"ACK"})
  /\ Establish(p, Current(p).pub)
  /\ rejected' = [rejected EXCEPT ![p] = {decoding[p]}]
  /\ decoding' = [decoding EXCEPT ![p] = 0]
  /\ Mutated({p})
  /\ UNCHANGED <<chat, live, history, rendered, jobs, banners, clicks, faults>>

(***************************************************************************)
(* An encode ends: the cover is sent unless the codec failed or a message  *)
(* holds the compose box.  After an ACK, sent or not, establishFromOffer   *)
(* resets the inbound cache; then the scan that waited for it goes on and  *)
(* caches its verdict.                                                     *)
(***************************************************************************)

Append1(b) == Len(chat) < MaxChat /\ chat' = Append(chat, b)

Sent(p, j) ==
  \/ /\ j.bubble.kind = "MSG" \/ ~Swapping(p)
     /\ Append1(j.bubble)
     /\ UNCHANGED faults
  \/ /\ j.bubble.kind # "MSG" /\ Swapping(p)
     /\ UNCHANGED <<chat, faults>>
  \/ Fault("encode") /\ UNCHANGED chat

\* Mutant: the verdict of the waiting scan is added, the old ones are kept.
NoInboundReset(p, j) ==
  IF j.bubble.kind = "ACK" /\ j.via = "scan"
    THEN Reject(p)
    ELSE UNCHANGED <<rejected, decoding>>

InboundReset(p, j) ==
  IF j.bubble.kind # "ACK"
    THEN UNCHANGED <<rejected, decoding>>
    ELSE IF j.via = "scan"
      THEN /\ rejected' = [rejected EXCEPT ![p] = {decoding[p]}]
           /\ decoding' = [decoding EXCEPT ![p] = 0]
      ELSE /\ rejected' = [rejected EXCEPT ![p] = {}]
           /\ UNCHANGED decoding

FinishJob(p) ==
  /\ \E j \in jobs[p] :
       /\ Sent(p, j)
       /\ InboundReset(p, j)
       /\ jobs' = [jobs EXCEPT ![p] = @ \ {j}]
       /\ Mutated(IF chat' = chat THEN {p} ELSE Peers)
  /\ UNCHANGED <<session, handled, live, history, rendered, banners, clicks>>

-----------------------------------------------------------------------------

Init ==
  /\ chat = <<>>
  /\ keyPair = [p \in Peers |-> 0] /\ generated = [p \in Peers |-> 0]
  /\ peerPub = [p \in Peers |-> NoPub] /\ convKey = [p \in Peers |-> {}]
  /\ status = [p \in Peers |-> "none"]
  /\ handled = [p \in Peers |-> {}]
  /\ live = [p \in Peers |-> TRUE]
  /\ history = [p \in Peers |-> 0]
  /\ rejected = [p \in Peers |-> {}] /\ rendered = [p \in Peers |-> {}]
  /\ skipped = [p \in Peers |-> {}] /\ decoding = [p \in Peers |-> 0]
  /\ jobs = [p \in Peers |-> {}] /\ banners = [p \in Peers |-> {}]
  /\ clicks = 0 /\ faults = 0

User(p) == Connect(p) \/ TapAccept(p) \/ SendMessage(p) \/ Disconnect(p)

Page(p) ==
  \/ Reload(p) \/ Restart(p) \/ Boot(p)
  \/ BannerExpires(p) \/ TelegramMutates(p)

Scan(p) ==
  \/ BeginDecode(p) \/ Undecided(p) \/ OpenMessage(p) \/ TagFailure(p)
  \/ IgnoreFrame(p) \/ PeerRestarted(p) \/ Glare(p) \/ ShowBanner(p)
  \/ ReceiveAck(p)

Next == \E p \in Peers : User(p) \/ Page(p) \/ Scan(p) \/ FinishJob(p)

Spec == Init /\ [][Next]_vars

\* The scan, the codec and the page go on; a user who sees a banner taps it.
Fairness ==
  \A p \in Peers :
    /\ WF_vars(Boot(p)) /\ WF_vars(Scan(p)) /\ WF_vars(FinishJob(p))
    /\ WF_vars(TelegramMutates(p)) /\ WF_vars(TapAccept(p))

FairSpec == Spec /\ Fairness

-----------------------------------------------------------------------------
TypeOK ==
  /\ chat \in Seq(Bubble)
  /\ keyPair \in [Peers -> 0..MaxKeys] /\ generated \in [Peers -> 0..MaxKeys]
  /\ peerPub \in [Peers -> Pub \cup {NoPub}]
  /\ convKey \in [Peers -> SUBSET Pub]
  /\ status \in [Peers -> {"none", "offered", "established"}]
  /\ handled \in [Peers -> SUBSET (FrameTypes \X Pub)]
  /\ live \in [Peers -> BOOLEAN]
  /\ history \in [Peers -> Nat] /\ skipped \in [Peers -> SUBSET Nat]
  /\ decoding \in [Peers -> Nat]
  /\ rejected \in [Peers -> SUBSET Nat] /\ rendered \in [Peers -> SUBSET Nat]
  /\ jobs \in [Peers -> SUBSET Jobs] /\ banners \in [Peers -> SUBSET Pub]
  /\ clicks \in 0..MaxClicks /\ faults \in 0..MaxFaults

-----------------------------------------------------------------------------
(***************************************************************************)
(* Properties.                                                             *)
(***************************************************************************)

InChat(k, pub) == \E i \in 1..Len(chat) : chat[i] = Frame(k, pub)

\* Nothing is left to do on either side: no encode, no decode, no bubble to look at.
AtRest ==
  \A p \in Peers : /\ live[p] /\ jobs[p] = {} /\ decoding[p] = 0
                   /\ skipped[p] = {} /\ Candidates(p) = {}

\* A verdict "not ours" never outlives the key it was reached under: a message
\* under p's present key is not cached as rejected, except until the ACK being
\* encoded ends in inbound.reset().  (The asymmetric-decode bug of index.ts.)
NoStaleVerdict ==
  \A p \in Peers : \A i \in rejected[p] :
    (chat[i].kind = "MSG" /\ convKey[p] # {} /\ chat[i].key = convKey[p])
      => \E j \in jobs[p] : j.bubble.kind = "ACK"

\* Two sides that both show "connected" hold the same conversation key.
OneKey ==
  \A p, q \in Peers :
    status[p] = "established" /\ status[q] = "established"
      => convKey[p] = convKey[q]

\* The same, once both sides have acted on everything in the chat.
OneKeyAtRest == AtRest => OneKey

\* Every OFFER is acted on at most once: under one key pair a side sends no more
\* ACKs than there are keys offered to it.
AckPerOffer ==
  \A mine \in Pub :
    Cardinality({i \in 1..Len(chat) : chat[i] = Frame("ACK", mine)})
      <= Cardinality({pub \in Pub : pub[1] # mine[1] /\ InChat("OFFER", pub)})

\* A side is keyed only to a public key in a frame that arrived after its page
\* was loaded: a fossil of an earlier session drives nothing.
LiveFramesOnly ==
  [][\A p \in Peers :
       peerPub'[p] \notin {peerPub[p], NoPub}
         => \E i \in (history[p] + 1)..Len(chat) : chat[i].pub = peerPub'[p]]_vars

\* A side that sent an invite ends up connected, and so does the other, on one
\* key, glare included, as long as frames are sent and users tap.
Converges ==
  \A p \in Peers :
    status[p] = "offered"
      ~> (OneKey /\ \A q \in Peers : status[q] = "established")

=============================================================================
