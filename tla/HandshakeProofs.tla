-------------------------- MODULE HandshakeProofs --------------------------
(***************************************************************************)
(* For every number of key pairs, bubbles, messages and faults: the        *)
(* handshake is type correct, no cached verdict is stale, and no fossil    *)
(* keys a side; and for two sides whose sessions nobody ends, one key, one *)
(* ACK per offer, and consent first.                                       *)
(***************************************************************************)
EXTENDS MCHandshake, FiniteSetTheorems, TLAPS

-----------------------------------------------------------------------------
(* Facts about the pieces of the handlers.                                 *)

\* A key pair that exists makes a public key, and so does the one about to be
\* generated.
LEMMA EnsuredPub ==
  ASSUME TypeOK, NEW p \in Peers, EnsureKeyPair(p)
  PROVE  /\ keyPair' \in [Peers -> 0..MaxKeys]
         /\ generated' \in [Peers -> 0..MaxKeys]
         /\ <<p, keyPair'[p]>> \in Pub
<1>1. MaxKeys \in Nat BY HandshakeAssumption
<1>2. keyPair[p] \in 0..MaxKeys /\ generated[p] \in 0..MaxKeys BY DEF TypeOK
<1>3. CASE keyPair[p] # 0
  <2>1. keyPair' = keyPair /\ generated' = generated BY <1>3 DEF EnsureKeyPair
  <2>2. keyPair'[p] \in 1..MaxKeys BY <1>1, <1>2, <1>3, <2>1
  <2> QED BY <2>1, <2>2 DEF TypeOK, Pub
<1>4. CASE keyPair[p] = 0
  <2>1. generated[p] + 1 \in 1..MaxKeys /\ generated[p] + 1 \in 0..MaxKeys
    BY <1>1, <1>2, <1>4 DEF EnsureKeyPair, CanHaveKey
  <2>2. /\ keyPair' = [keyPair EXCEPT ![p] = generated[p] + 1]
        /\ generated' = [generated EXCEPT ![p] = generated[p] + 1]
    BY <1>4 DEF EnsureKeyPair
  <2>3. keyPair'[p] = generated[p] + 1 BY <2>2 DEF TypeOK
  <2> QED BY <2>1, <2>2, <2>3 DEF TypeOK, Pub
<1> QED BY <1>3, <1>4

\* onAck and acceptOffer leave a well-typed session.
LEMMA EstablishedSession ==
  ASSUME TypeOK, NEW p \in Peers, NEW pub \in Pub, Establish(p, pub)
  PROVE  /\ keyPair' \in [Peers -> 0..MaxKeys]
         /\ generated' \in [Peers -> 0..MaxKeys]
         /\ peerPub' \in [Peers -> Pub \cup {NoPub}]
         /\ convKey' \in [Peers -> SUBSET Pub]
         /\ status' \in [Peers -> {"none", "offered", "established"}]
         /\ <<p, keyPair'[p]>> \in Pub
  BY EnsuredPub DEF TypeOK, Establish, DeriveConvKey

\* A frame of a public key is a bubble, and so is a message under a key.
LEMMA FrameIsJob ==
  ASSUME NEW k \in FrameTypes, NEW pub \in Pub, NEW via \in {"user", "scan"}
  PROVE  Job(Frame(k, pub), via) \in Jobs
  BY DEF Job, Jobs, Frame, Bubble

LEMMA MessageIsJob ==
  ASSUME NEW key \in SUBSET Pub
  PROVE  Job(Message(key), "user") \in Jobs
  BY DEF Job, Jobs, Message, Bubble

\* acceptOffer also leaves a well-typed set of encodes.
LEMMA AcceptedOffer ==
  ASSUME TypeOK, NEW p \in Peers, NEW pub \in Pub, NEW via \in {"user", "scan"},
         AcceptOffer(p, pub, via)
  PROVE  /\ keyPair' \in [Peers -> 0..MaxKeys]
         /\ generated' \in [Peers -> 0..MaxKeys]
         /\ peerPub' \in [Peers -> Pub \cup {NoPub}]
         /\ convKey' \in [Peers -> SUBSET Pub]
         /\ status' \in [Peers -> {"none", "offered", "established"}]
         /\ jobs' \in [Peers -> SUBSET Jobs]
<1>1. Establish(p, pub) BY DEF AcceptOffer
<1>2. Job(Frame("ACK", <<p, keyPair'[p]>>), via) \in Jobs
  BY <1>1, EstablishedSession, FrameIsJob DEF FrameTypes
<1>3. jobs' \in [Peers -> SUBSET Jobs]
  BY <1>2 DEF AcceptOffer, TypeOK
<1> QED BY <1>1, <1>3, EstablishedSession

-----------------------------------------------------------------------------
(* Type correctness: one step per action.                                  *)

\* The bubble under decode is in the chat: needed to type what it carries.
DecodeInChat == \A p \in Peers : decoding[p] \in 0..Len(chat)

LEMMA InitType == Init => TypeOK /\ DecodeInChat
  BY HandshakeAssumption DEF Init, TypeOK, DecodeInChat

\* What a handler reads from the bubble under decode.
LEMMA CurrentType ==
  ASSUME TypeOK, DecodeInChat, NEW p \in Peers, NEW kinds, Decoded(p, kinds)
  PROVE  /\ decoding[p] \in 1..Len(chat)
         /\ Current(p) \in Bubble
         /\ Current(p).kind \in kinds
  BY DEF TypeOK, DecodeInChat, Decoded, Current

LEMMA UserType ==
  ASSUME TypeOK, DecodeInChat, NEW p \in Peers, User(p)
  PROVE  TypeOK' /\ DecodeInChat'
<1>1. CASE Connect(p)
  <2>1. Job(Frame("OFFER", <<p, keyPair'[p]>>), "user") \in Jobs
    BY <1>1, EnsuredPub, FrameIsJob DEF Connect, FrameTypes
  <2>2. jobs' \in [Peers -> SUBSET Jobs] BY <1>1, <2>1 DEF Connect, TypeOK
  <2>3. keyPair' \in [Peers -> 0..MaxKeys] /\ generated' \in [Peers -> 0..MaxKeys]
    BY <1>1, EnsuredPub DEF Connect
  <2>4. clicks' \in 0..MaxClicks
    BY <1>1, HandshakeAssumption DEF Connect, TypeOK
  <2> QED BY <1>1, <2>2, <2>3, <2>4 DEF Connect, TypeOK, DecodeInChat, scan
<1>2. CASE TapAccept(p)
  <2>1. PICK pub \in banners[p] :
          /\ AcceptOffer(p, pub, "user")
          /\ banners' = [banners EXCEPT ![p] = @ \ {pub}]
    BY <1>2 DEF TapAccept
  <2>2. pub \in Pub BY DEF TypeOK
  <2> QED BY <1>2, <2>1, <2>2, AcceptedOffer DEF TapAccept, TypeOK, DecodeInChat, scan
<1>3. CASE SendMessage(p)
  <2>1. Job(Message(convKey[p]), "user") \in Jobs BY MessageIsJob DEF TypeOK
  <2> QED BY <1>3, <2>1 DEF SendMessage, TypeOK, DecodeInChat, session, scan
<1>4. CASE Disconnect(p)
  <2>1. faults' \in 0..MaxFaults
    BY <1>4, HandshakeAssumption DEF Disconnect, Fault, TypeOK
  <2> QED BY <1>4, <2>1, HandshakeAssumption
          DEF Disconnect, TypeOK, DecodeInChat, scan
<1> QED BY <1>1, <1>2, <1>3, <1>4 DEF User

LEMMA PageType ==
  ASSUME TypeOK, DecodeInChat, NEW p \in Peers, Page(p)
  PROVE  TypeOK' /\ DecodeInChat'
<1>0. ASSUME NEW kind, Fault(kind) PROVE faults' \in 0..MaxFaults
  BY <1>0, HandshakeAssumption DEF Fault, TypeOK
<1>1. CASE Reload(p)
  BY <1>0, <1>1 DEF Reload, Unload, TypeOK, DecodeInChat
<1>2. CASE Restart(p)
  BY <1>0, <1>2, HandshakeAssumption DEF Restart, Unload, TypeOK, DecodeInChat
<1>3. CASE Boot(p)
  BY <1>3 DEF Boot, TypeOK, DecodeInChat, session
<1>4. CASE BannerExpires(p)
  BY <1>0, <1>4 DEF BannerExpires, TypeOK, DecodeInChat, session, scan
<1>5. CASE TelegramMutates(p)
  BY <1>5 DEF TelegramMutates, TypeOK, DecodeInChat, session
<1> QED BY <1>1, <1>2, <1>3, <1>4, <1>5 DEF Page

LEMMA ScanType ==
  ASSUME TypeOK, DecodeInChat, NEW p \in Peers, Scan(p)
  PROVE  TypeOK' /\ DecodeInChat'
<1>1. CASE BeginDecode(p)
  BY <1>1 DEF BeginDecode, Candidates, TypeOK, DecodeInChat, session
<1>2. CASE Undecided(p)
  <2>1. faults' \in 0..MaxFaults
    BY <1>2, HandshakeAssumption DEF Undecided, Fault, TypeOK
  <2> QED BY <1>2, <2>1 DEF Undecided, TypeOK, DecodeInChat, session
<1>3. CASE OpenMessage(p)
  BY <1>3 DEF OpenMessage, Mutated, TypeOK, DecodeInChat, session
<1>4. CASE TagFailure(p)
  BY <1>4 DEF TagFailure, Reject, TypeOK, DecodeInChat, session
<1>5. CASE IgnoreFrame(p)
  BY <1>5 DEF IgnoreFrame, Reject, TypeOK, DecodeInChat, session
<1>6. ASSUME NEW kinds \in SUBSET FrameTypes, LiveFrame(p, kinds)
      PROVE  Current(p).pub \in Pub /\ GuardKey(p) \in FrameTypes \X Pub
  <2>1. Current(p) \in Bubble /\ Current(p).kind \in FrameTypes
    BY <1>6, CurrentType DEF LiveFrame
  <2>2. Current(p) \in [kind : FrameTypes, pub : Pub, key : {{}}]
    BY <2>1 DEF Bubble, FrameTypes
  <2> QED BY <2>2 DEF GuardKey
<1>7. CASE PeerRestarted(p)
  <2>1. Current(p).pub \in Pub BY <1>6, <1>7 DEF PeerRestarted, FrameTypes
  <2> QED BY <1>7, <2>1, AcceptedOffer DEF PeerRestarted, TypeOK, DecodeInChat, scan
<1>8. CASE Glare(p)
  <2>1. Current(p).pub \in Pub /\ GuardKey(p) \in FrameTypes \X Pub
    BY <1>6, <1>8 DEF Glare, FirstSight, FrameTypes
  <2> QED BY <1>8, <2>1, AcceptedOffer
          DEF Glare, FirstSight, TypeOK, DecodeInChat, scan
<1>9. CASE ShowBanner(p)
  <2>1. Current(p).pub \in Pub /\ GuardKey(p) \in FrameTypes \X Pub
    BY <1>6, <1>9 DEF ShowBanner, FirstSight, FrameTypes
  <2> QED BY <1>9, <2>1
          DEF ShowBanner, FirstSight, Reject, Mutated, TypeOK, DecodeInChat, session
<1>10. CASE ReceiveAck(p)
  <2>1. Current(p).pub \in Pub /\ GuardKey(p) \in FrameTypes \X Pub
    BY <1>6, <1>10 DEF ReceiveAck, FirstSight, FrameTypes
  <2>2. Establish(p, Current(p).pub) BY <1>10 DEF ReceiveAck
  <2>3. rejected' \in [Peers -> SUBSET Nat] BY <1>10 DEF ReceiveAck, TypeOK
  <2>4. /\ decoding' = [decoding EXCEPT ![p] = 0]
        /\ decoding' \in [Peers -> Nat]
    BY <1>10 DEF ReceiveAck, TypeOK
  <2>5. skipped' \in [Peers -> SUBSET Nat]
    BY <1>10 DEF ReceiveAck, Mutated, TypeOK
  <2>6. handled' \in [Peers -> SUBSET (FrameTypes \X Pub)]
    BY <1>10, <2>1 DEF ReceiveAck, FirstSight, TypeOK
  <2>7. TypeOK'
    BY <1>10, <2>1, <2>2, <2>3, <2>4, <2>5, <2>6, EstablishedSession
    DEF ReceiveAck, TypeOK
  <2>8. DecodeInChat' BY <1>10, <2>4 DEF ReceiveAck, DecodeInChat, TypeOK
  <2> QED BY <2>7, <2>8
<1> QED BY <1>1, <1>2, <1>3, <1>4, <1>5, <1>7, <1>8, <1>9, <1>10 DEF Scan

\* What FinishJob does to the chat and to the inbound cache.
LEMMA SentChat ==
  ASSUME TypeOK, NEW p \in Peers, NEW j \in jobs[p], Sent(p, j)
  PROVE  /\ chat' \in Seq(Bubble)
         /\ Len(chat') \in Nat /\ Len(chat) <= Len(chat')
         /\ \A i \in 1..Len(chat) : chat'[i] = chat[i]
         /\ faults' \in 0..MaxFaults
<1>1. j.bubble \in Bubble BY DEF TypeOK, Jobs
<1>2. CASE Append1(j.bubble) /\ UNCHANGED faults
  BY <1>1, <1>2 DEF Append1, TypeOK
<1>3. CASE UNCHANGED <<chat, faults>>
  BY <1>3 DEF TypeOK
<1>4. CASE Fault("encode") /\ UNCHANGED chat
  BY <1>4, HandshakeAssumption DEF Fault, TypeOK
<1> QED BY <1>2, <1>3, <1>4 DEF Sent

LEMMA JobType ==
  ASSUME TypeOK, DecodeInChat, NEW p \in Peers, FinishJob(p)
  PROVE  TypeOK' /\ DecodeInChat'
<1>1. PICK j \in jobs[p] :
        /\ Sent(p, j)
        /\ InboundReset(p, j)
        /\ jobs' = [jobs EXCEPT ![p] = @ \ {j}]
        /\ Mutated(IF chat' = chat THEN {p} ELSE Peers)
  BY DEF FinishJob
<1>2. /\ rejected' \in [Peers -> SUBSET Nat] /\ decoding' \in [Peers -> Nat]
      /\ \A q \in Peers : decoding'[q] \in {0, decoding[q]}
  <2>1. CASE j.bubble.kind # "ACK"
    BY <1>1, <2>1 DEF InboundReset, TypeOK
  <2>2. CASE j.bubble.kind = "ACK" /\ j.via = "scan"
    <3>1. /\ rejected' = [rejected EXCEPT ![p] = {decoding[p]}]
          /\ decoding' = [decoding EXCEPT ![p] = 0]
      BY <1>1, <2>2 DEF InboundReset
    <3> QED BY <3>1 DEF TypeOK
  <2>3. CASE j.bubble.kind = "ACK" /\ j.via # "scan"
    <3>1. rejected' = [rejected EXCEPT ![p] = {}] /\ decoding' = decoding
      BY <1>1, <2>3 DEF InboundReset
    <3> QED BY <3>1 DEF TypeOK
  <2> QED BY <2>1, <2>2, <2>3
<1>3. skipped' \in [Peers -> SUBSET Nat] BY <1>1 DEF Mutated, TypeOK
<1>4. jobs' \in [Peers -> SUBSET Jobs] BY <1>1 DEF TypeOK
<1>5. /\ chat' \in Seq(Bubble) /\ faults' \in 0..MaxFaults
      /\ Len(chat') \in Nat /\ Len(chat) <= Len(chat')
  BY <1>1, SentChat
<1>6. TypeOK' BY <1>2, <1>3, <1>4, <1>5 DEF FinishJob, TypeOK, session
<1>7. DecodeInChat'
  <2> SUFFICES ASSUME NEW q \in Peers PROVE decoding'[q] \in 0..Len(chat')
    BY DEF DecodeInChat
  <2>1. decoding[q] \in 0..Len(chat) /\ Len(chat) \in Nat
    BY DEF DecodeInChat, TypeOK
  <2> QED BY <1>2, <1>5, <2>1
<1> QED BY <1>6, <1>7

\* Type correctness of every state.
THEOREM TypeCorrect == Spec => []TypeOK
<1>1. Init => TypeOK /\ DecodeInChat BY InitType
<1>2. (TypeOK /\ DecodeInChat) /\ [Next]_vars => (TypeOK /\ DecodeInChat)'
  <2> SUFFICES ASSUME TypeOK, DecodeInChat, [Next]_vars
               PROVE  TypeOK' /\ DecodeInChat'
    OBVIOUS
  <2>1. CASE UNCHANGED vars
    BY <2>1 DEF vars, session, scan, TypeOK, DecodeInChat
  <2>2. CASE Next
    BY <2>2, UserType, PageType, ScanType, JobType DEF Next
  <2> QED BY <2>1, <2>2
<1> QED BY <1>1, <1>2, PTL DEF Spec

-----------------------------------------------------------------------------
(***************************************************************************)
(* No stale verdict.  The invariant says nothing about the scan that waits *)
(* for the ACK of an OFFER; it is inductive only with what that scan caches*)
(* when the ACK is out: the bubble under decode, which is a frame.         *)
(***************************************************************************)

RejectedInChat == \A p \in Peers : rejected[p] \subseteq 1..Len(chat)

ScanWaitsOnFrame ==
  \A p \in Peers : Accepting(p) =>
    /\ decoding[p] \in 1..Len(chat)
    /\ chat[decoding[p]].kind \in FrameTypes
    /\ \A j, k \in jobs[p] : j.via = "scan" /\ k.via = "scan" => j = k

IInv == TypeOK /\ DecodeInChat /\ RejectedInChat /\ ScanWaitsOnFrame /\ NoStaleVerdict

\* NoStaleVerdict for one browser.
Fresh(p) ==
  \A i \in rejected[p] :
    (chat[i].kind = "MSG" /\ convKey[p] # {} /\ chat[i].key = convKey[p])
      => \E j \in jobs[p] : j.bubble.kind = "ACK"

Waits(p) ==
  Accepting(p) =>
    /\ decoding[p] \in 1..Len(chat)
    /\ chat[decoding[p]].kind \in FrameTypes
    /\ \A j, k \in jobs[p] : j.via = "scan" /\ k.via = "scan" => j = k

\* An ACK being encoded excuses every verdict of p.
LEMMA AcceptedIsFresh ==
  ASSUME TypeOK, NEW p \in Peers, NEW pub, NEW via, AcceptOffer(p, pub, via)
  PROVE  Fresh(p)' /\ \A q \in Peers \ {p} : convKey'[q] = convKey[q] /\ jobs'[q] = jobs[q]
<1> DEFINE ack == Job(Frame("ACK", <<p, keyPair'[p]>>), via)
<1>1. jobs' = [jobs EXCEPT ![p] = @ \cup {ack}] BY DEF AcceptOffer
<1>2. ack \in jobs'[p] BY <1>1 DEF TypeOK
<1>3. ack.bubble.kind = "ACK" BY DEF Job, Frame
<1>4. Fresh(p)' BY <1>2, <1>3 DEF Fresh
<1> QED BY <1>1, <1>4 DEF AcceptOffer, Establish, TypeOK

\* A step of p that appends nothing cannot disturb the other browsers.
LEMMA OnlyMine ==
  ASSUME IInv, NEW p \in Peers, chat' = chat,
         \A q \in Peers \ {p} :
           /\ rejected'[q] = rejected[q] /\ decoding'[q] = decoding[q]
           /\ convKey'[q] = convKey[q] /\ jobs'[q] = jobs[q],
         rejected'[p] \subseteq 1..Len(chat), Waits(p)', Fresh(p)'
  PROVE  RejectedInChat' /\ ScanWaitsOnFrame' /\ NoStaleVerdict'
<1> SUFFICES ASSUME NEW q \in Peers, q # p
             PROVE  rejected'[q] \subseteq 1..Len(chat') /\ Waits(q)' /\ Fresh(q)'
  BY DEF RejectedInChat, ScanWaitsOnFrame, NoStaleVerdict, Waits, Fresh
<1>1. rejected'[q] \subseteq 1..Len(chat') BY DEF IInv, RejectedInChat
<1>2. Waits(q)' BY DEF IInv, ScanWaitsOnFrame, Waits, Accepting
<1>3. Fresh(q)' BY DEF IInv, NoStaleVerdict, Fresh
<1> QED BY <1>1, <1>2, <1>3

LEMMA UserFresh ==
  ASSUME IInv, NEW p \in Peers, User(p)
  PROVE  RejectedInChat' /\ ScanWaitsOnFrame' /\ NoStaleVerdict'
<1>0. /\ rejected[p] \subseteq 1..Len(chat) /\ Waits(p) /\ Fresh(p)
      /\ jobs \in [Peers -> SUBSET Jobs] /\ convKey \in [Peers -> SUBSET Pub]
  BY DEF IInv, TypeOK, RejectedInChat, ScanWaitsOnFrame, NoStaleVerdict, Waits, Fresh
<1>1. CASE Connect(p)
  <2>1. PICK bubble : jobs' = [jobs EXCEPT ![p] = @ \cup {Job(bubble, "user")}]
    BY <1>1 DEF Connect
  <2>2. Waits(p)' BY <1>0, <1>1, <2>1 DEF Connect, Waits, Accepting, Job, scan
  <2>3. Fresh(p)' BY <1>0, <1>1, <2>1 DEF Connect, Fresh, scan
  <2> QED BY <1>0, <1>1, <2>1, <2>2, <2>3, OnlyMine DEF Connect, scan
<1>2. CASE TapAccept(p)
  <2>1. PICK pub \in banners[p] : AcceptOffer(p, pub, "user")
    BY <1>2 DEF TapAccept
  <2>2. jobs' = [jobs EXCEPT ![p] =
                   @ \cup {Job(Frame("ACK", <<p, keyPair'[p]>>), "user")}]
    BY <2>1 DEF AcceptOffer
  <2>3. Fresh(p)' /\ \A q \in Peers \ {p} : convKey'[q] = convKey[q]
    BY <2>1, AcceptedIsFresh DEF IInv
  <2>4. Waits(p)' BY <1>0, <1>2, <2>2 DEF TapAccept, Waits, Accepting, Job, scan
  <2> QED BY <1>0, <1>2, <2>2, <2>3, <2>4, OnlyMine DEF TapAccept, scan
<1>3. CASE SendMessage(p)
  <2>1. Waits(p)' BY <1>0, <1>3 DEF SendMessage, Waits, Accepting, Job, scan
  <2>2. Fresh(p)' BY <1>0, <1>3 DEF SendMessage, Fresh, session, scan
  <2> QED BY <1>0, <1>3, <2>1, <2>2, OnlyMine DEF SendMessage, session, scan
<1>4. CASE Disconnect(p)
  <2>1. Waits(p)' BY <1>0, <1>4 DEF Disconnect, Waits, Accepting, scan
  <2>2. Fresh(p)' BY <1>0, <1>4 DEF Disconnect, Fresh, scan
  <2> QED BY <1>0, <1>4, <2>1, <2>2, OnlyMine DEF Disconnect, scan
<1> QED BY <1>1, <1>2, <1>3, <1>4 DEF User

LEMMA PageFresh ==
  ASSUME IInv, NEW p \in Peers, Page(p)
  PROVE  RejectedInChat' /\ ScanWaitsOnFrame' /\ NoStaleVerdict'
<1>0. /\ rejected[p] \subseteq 1..Len(chat) /\ Waits(p) /\ Fresh(p) /\ TypeOK
  BY DEF IInv, RejectedInChat, ScanWaitsOnFrame, NoStaleVerdict, Waits, Fresh
<1>1. CASE Unload(p) /\ \A q \in Peers \ {p} : convKey'[q] = convKey[q]
  <2>1. rejected'[p] = {} /\ jobs'[p] = {} /\ chat' = chat
    BY <1>0, <1>1 DEF Unload, TypeOK
  <2>2. \A q \in Peers \ {p} : /\ rejected'[q] = rejected[q]
                               /\ decoding'[q] = decoding[q]
                               /\ jobs'[q] = jobs[q]
    BY <1>0, <1>1 DEF Unload, TypeOK
  <2>3. Waits(p)' /\ Fresh(p)' BY <2>1 DEF Waits, Fresh, Accepting
  <2> QED BY <1>1, <2>1, <2>2, <2>3, OnlyMine
<1>2. CASE Reload(p) BY <1>1, <1>2 DEF Reload
<1>3. CASE Restart(p) BY <1>0, <1>1, <1>3 DEF Restart, TypeOK
<1>4. CASE UNCHANGED <<chat, convKey, rejected, decoding, jobs>>
  BY <1>0, <1>4, OnlyMine DEF Waits, Fresh, Accepting
<1>5. CASE Boot(p) BY <1>4, <1>5 DEF Boot, session
<1>6. CASE BannerExpires(p) BY <1>4, <1>6 DEF BannerExpires, session, scan
<1>7. CASE TelegramMutates(p) BY <1>4, <1>7 DEF TelegramMutates, session
<1> QED BY <1>2, <1>3, <1>5, <1>6, <1>7 DEF Page

LEMMA ScanFresh ==
  ASSUME IInv, NEW p \in Peers, Scan(p)
  PROVE  RejectedInChat' /\ ScanWaitsOnFrame' /\ NoStaleVerdict'
<1>0. /\ rejected[p] \subseteq 1..Len(chat) /\ Waits(p) /\ Fresh(p)
      /\ TypeOK /\ DecodeInChat
  BY DEF IInv, RejectedInChat, ScanWaitsOnFrame, NoStaleVerdict, Waits, Fresh
<1>1. ASSUME NEW kinds, Decoded(p, kinds)
      PROVE  ~Accepting(p) /\ decoding[p] \in 1..Len(chat) /\ Current(p).kind \in kinds
  BY <1>0, <1>1, CurrentType DEF Decoded
\* the decode ends and no session, encode or verdict changes
<1>2. CASE /\ ~Accepting(p)
           /\ \A q \in Peers \ {p} : decoding'[q] = decoding[q]
           /\ UNCHANGED <<chat, convKey, rejected, jobs>>
  <2>1. Waits(p)' BY <1>2 DEF Waits, Accepting
  <2>2. Fresh(p)' BY <1>0, <1>2 DEF Fresh
  <2> QED BY <1>0, <1>2, <2>1, <2>2, OnlyMine
\* the verdict null is cached for a bubble that is no message under our key
<1>3. CASE /\ ~Accepting(p) /\ decoding[p] \in 1..Len(chat)
           /\ Current(p).kind = "MSG" => Current(p).key # convKey[p]
           /\ Reject(p)
           /\ UNCHANGED <<chat, convKey, jobs>>
  <2>1. /\ rejected'[p] = rejected[p] \cup {decoding[p]}
        /\ \A q \in Peers \ {p} : /\ rejected'[q] = rejected[q]
                                  /\ decoding'[q] = decoding[q]
    BY <1>0, <1>3 DEF Reject, TypeOK
  <2>2. Waits(p)' BY <1>3 DEF Waits, Accepting
  <2>3. Fresh(p)' BY <1>0, <1>3, <2>1 DEF Fresh, Current
  <2>4. rejected'[p] \subseteq 1..Len(chat) BY <1>0, <1>3, <2>1
  <2> QED BY <1>3, <2>1, <2>2, <2>3, <2>4, OnlyMine
\* the scan starts to wait for the ACK of the OFFER under decode
<1>4. ASSUME NEW pub, AcceptOffer(p, pub, "scan"), LiveFrame(p, {"OFFER"}),
             UNCHANGED <<chat, rejected, decoding>>
      PROVE  RejectedInChat' /\ ScanWaitsOnFrame' /\ NoStaleVerdict'
  <2>1. /\ Fresh(p)'
        /\ \A q \in Peers \ {p} : convKey'[q] = convKey[q] /\ jobs'[q] = jobs[q]
    BY <1>0, <1>4, AcceptedIsFresh
  <2>2. decoding[p] \in 1..Len(chat) /\ Current(p).kind = "OFFER"
    BY <1>1, <1>4 DEF LiveFrame
  <2>3. Waits(p)'
    <3>1. \A j \in jobs[p] : j.via # "scan" BY <1>1, <1>4 DEF LiveFrame, Accepting
    <3> QED BY <1>0, <1>4, <2>2, <3>1
            DEF Waits, Current, FrameTypes, AcceptOffer, TypeOK
  <2> QED BY <1>0, <1>4, <2>1, <2>3, OnlyMine
<1>5. CASE BeginDecode(p)
  <2>1. decoding[p] = 0 /\ ~Accepting(p) BY <1>0, <1>5 DEF BeginDecode, Waits
  <2> QED BY <1>0, <1>2, <1>5, <2>1 DEF BeginDecode, session, TypeOK
<1>6. CASE Undecided(p)
  <2>1. ~Accepting(p) BY <1>6 DEF Undecided, Decoded
  <2> QED BY <1>0, <1>2, <1>6, <2>1 DEF Undecided, session, TypeOK
<1>7. CASE OpenMessage(p)
  <2>1. ~Accepting(p) BY <1>7 DEF OpenMessage, Decoded
  <2> QED BY <1>0, <1>2, <1>7, <2>1 DEF OpenMessage, session, TypeOK
<1>8. CASE TagFailure(p) BY <1>1, <1>3, <1>8 DEF TagFailure, session
<1>9. CASE IgnoreFrame(p)
  <2>1. /\ ~Accepting(p) /\ decoding[p] \in 1..Len(chat)
        /\ Current(p).kind # "MSG"
    BY <1>1, <1>9 DEF IgnoreFrame, FrameTypes
  <2> QED BY <1>3, <1>9, <2>1 DEF IgnoreFrame, session
<1>10. CASE PeerRestarted(p) BY <1>4, <1>10 DEF PeerRestarted, scan
<1>11. CASE Glare(p) BY <1>4, <1>11 DEF Glare, FirstSight, scan
<1>12. CASE ShowBanner(p)
  <2>1. /\ ~Accepting(p) /\ decoding[p] \in 1..Len(chat)
        /\ Current(p).kind # "MSG"
    BY <1>1, <1>12 DEF ShowBanner, FirstSight, LiveFrame
  <2> QED BY <1>3, <1>12, <2>1 DEF ShowBanner, session
<1>13. CASE ReceiveAck(p)
  <2>1. /\ ~Accepting(p) /\ decoding[p] \in 1..Len(chat)
        /\ Current(p).kind = "ACK"
    BY <1>1, <1>13 DEF ReceiveAck, FirstSight, LiveFrame
  <2>2. /\ rejected'[p] = {decoding[p]} /\ chat' = chat /\ jobs' = jobs
        /\ \A q \in Peers \ {p} : /\ rejected'[q] = rejected[q]
                                  /\ decoding'[q] = decoding[q]
                                  /\ convKey'[q] = convKey[q]
    BY <1>0, <1>13 DEF ReceiveAck, Establish, TypeOK
  <2>3. Waits(p)' BY <2>1, <2>2 DEF Waits, Accepting
  <2>4. Fresh(p)' BY <2>1, <2>2 DEF Fresh, Current
  <2> QED BY <2>1, <2>2, <2>3, <2>4, OnlyMine
<1> QED BY <1>5, <1>6, <1>7, <1>8, <1>9, <1>10, <1>11, <1>12, <1>13 DEF Scan

LEMMA JobFresh ==
  ASSUME IInv, NEW p \in Peers, FinishJob(p)
  PROVE  RejectedInChat' /\ ScanWaitsOnFrame' /\ NoStaleVerdict'
<1>1. PICK j \in jobs[p] :
        /\ Sent(p, j)
        /\ InboundReset(p, j)
        /\ jobs' = [jobs EXCEPT ![p] = @ \ {j}]
  BY DEF FinishJob
<1>2. /\ Len(chat') \in Nat /\ Len(chat) \in Nat /\ Len(chat) <= Len(chat')
      /\ \A i \in 1..Len(chat) : chat'[i] = chat[i]
  BY <1>1, SentChat DEF IInv, TypeOK
<1>3. convKey' = convKey /\ jobs'[p] = jobs[p] \ {j}
      /\ \A q \in Peers \ {p} : jobs'[q] = jobs[q]
  BY <1>1 DEF FinishJob, session, IInv, TypeOK
<1>4. SUFFICES ASSUME NEW q \in Peers
               PROVE  rejected'[q] \subseteq 1..Len(chat') /\ Waits(q)' /\ Fresh(q)'
  BY DEF RejectedInChat, ScanWaitsOnFrame, NoStaleVerdict, Waits, Fresh
<1>5. /\ rejected[q] \subseteq 1..Len(chat) /\ Waits(q) /\ Fresh(q)
      /\ rejected \in [Peers -> SUBSET Nat] /\ decoding \in [Peers -> Nat]
  BY DEF IInv, TypeOK, RejectedInChat, ScanWaitsOnFrame, NoStaleVerdict, Waits, Fresh
<1>6. rejected[q] \subseteq 1..Len(chat') BY <1>2, <1>5
\* nothing but a job other than an ACK, or an encode of another browser, is gone
<1>7. CASE /\ rejected'[q] = rejected[q] /\ decoding'[q] = decoding[q]
           /\ jobs'[q] \subseteq jobs[q]
           /\ \A k \in jobs[q] : k.bubble.kind = "ACK" => k \in jobs'[q]
  <2>1. Waits(q)' BY <1>2, <1>5, <1>7 DEF Waits, Accepting
  <2>2. Fresh(q)' BY <1>2, <1>3, <1>5, <1>7 DEF Fresh
  <2> QED BY <1>6, <1>7, <2>1, <2>2
<1>8. CASE q # p
  BY <1>1, <1>3, <1>5, <1>7, <1>8 DEF InboundReset
<1>9. CASE q = p /\ j.bubble.kind # "ACK"
  BY <1>1, <1>3, <1>7, <1>9 DEF InboundReset
\* after an ACK the cache is empty but for the frame the scan waited on
<1>10. CASE q = p /\ j.bubble.kind = "ACK" /\ j.via = "scan"
  <2>1. rejected'[p] = {decoding[p]} /\ decoding'[p] = 0
    BY <1>1, <1>5, <1>10 DEF InboundReset
  <2>2. decoding[p] \in 1..Len(chat) /\ chat[decoding[p]].kind \in FrameTypes
    BY <1>1, <1>5, <1>10 DEF Waits, Accepting
  <2>3. Fresh(p)' BY <1>2, <2>1, <2>2 DEF Fresh, FrameTypes
  <2>4. ~Accepting(p)' BY <1>1, <1>3, <1>5, <1>10 DEF Waits, Accepting
  <2> QED BY <1>2, <1>10, <2>1, <2>2, <2>3, <2>4 DEF Waits
<1>11. CASE q = p /\ j.bubble.kind = "ACK" /\ j.via # "scan"
  <2>1. rejected'[p] = {} /\ decoding'[p] = decoding[p]
    BY <1>1, <1>5, <1>11 DEF InboundReset
  <2>2. Waits(p)' BY <1>2, <1>3, <1>5, <1>11, <2>1 DEF Waits, Accepting
  <2> QED BY <1>11, <2>1, <2>2 DEF Fresh
<1> QED BY <1>8, <1>9, <1>10, <1>11

\* No cached verdict is stale, whatever happens to the two sessions.
THEOREM VerdictsFresh == Spec => []NoStaleVerdict
<1>1. Init => IInv
  BY InitType DEF Init, IInv, RejectedInChat, ScanWaitsOnFrame, Accepting, NoStaleVerdict
<1>2. IInv /\ [Next]_vars => IInv'
  <2> SUFFICES ASSUME IInv, [Next]_vars PROVE IInv' OBVIOUS
  <2>1. CASE UNCHANGED vars
    BY <2>1 DEF vars, session, scan, IInv, TypeOK, DecodeInChat, RejectedInChat,
                ScanWaitsOnFrame, Accepting, NoStaleVerdict
  <2>2. CASE Next
    <3>1. TypeOK' /\ DecodeInChat'
      BY <2>2, UserType, PageType, ScanType, JobType DEF Next, IInv
    <3>2. RejectedInChat' /\ ScanWaitsOnFrame' /\ NoStaleVerdict'
      BY <2>2, UserFresh, PageFresh, ScanFresh, JobFresh DEF Next
    <3> QED BY <3>1, <3>2 DEF IInv
  <2> QED BY <2>1, <2>2
<1>3. IInv => NoStaleVerdict BY DEF IInv
<1> QED BY <1>1, <1>2, <1>3, PTL DEF Spec

-----------------------------------------------------------------------------
(***************************************************************************)
(* A side is keyed by frames that arrived since its page was loaded.       *)
(***************************************************************************)

\* Bubbles of the chat that are no history of p and carry the key pub.
Arrived(p, pub) == \E i \in (history[p] + 1)..Len(chat) : chat[i].pub = pub

\* A page that is gone shows and decodes nothing; a banner is for a frame that
\* arrived while the page was there.
Awake ==
  \A p \in Peers :
    /\ ~live[p] => banners[p] = {} /\ decoding[p] = 0
    /\ \A pub \in banners[p] : Arrived(p, pub)

AInv == TypeOK /\ DecodeInChat /\ Awake

\* A frame that is acted on is such a frame.
LEMMA LiveFrameArrived ==
  ASSUME AInv, NEW p \in Peers, NEW kinds, LiveFrame(p, kinds)
  PROVE  live[p] /\ Arrived(p, Current(p).pub)
<1>1. decoding[p] \in 1..Len(chat) /\ decoding[p] # 0
  BY CurrentType DEF AInv, LiveFrame
<1>2. history[p] \in Nat /\ Len(chat) \in Nat BY DEF AInv, TypeOK
<1>3. ~(decoding[p] <= history[p]) BY DEF LiveFrame, Fossil
<1>4. decoding[p] \in (history[p] + 1)..Len(chat) BY <1>1, <1>2, <1>3
<1>5. live[p] BY <1>1 DEF AInv, Awake, TypeOK
<1> QED BY <1>4, <1>5 DEF Arrived, Current

\* Only its own loading moves what is history to a side.
LEMMA ArrivedKept ==
  ASSUME AInv, NEW p \in Peers, NEW pub, Arrived(p, pub), history'[p] = history[p],
         Len(chat') \in Nat, Len(chat) <= Len(chat'), \A i \in 1..Len(chat) : chat'[i] = chat[i]
  PROVE  Arrived(p, pub)'
<1>1. history[p] \in Nat /\ Len(chat) \in Nat BY DEF AInv, TypeOK
<1>2. PICK i \in (history[p] + 1)..Len(chat) : chat[i].pub = pub BY DEF Arrived
<1>3. i \in 1..Len(chat) /\ i \in (history'[p] + 1)..Len(chat') BY <1>1, <1>2
<1> QED BY <1>2, <1>3 DEF Arrived

\* The chat keeps its bubbles.
Longer ==
  /\ Len(chat') \in Nat /\ Len(chat) <= Len(chat')
  /\ \A i \in 1..Len(chat) : chat'[i] = chat[i]

\* The pages stay, and show at most a new banner for a frame that arrived.
Calm ==
  /\ history' = history /\ live' = live /\ Longer
  /\ \A q \in Peers : \A pub \in banners'[q] : \/ pub \in banners[q]
                                               \/ live[q] /\ Arrived(q, pub)
  /\ \A q \in Peers : decoding'[q] \in {0, decoding[q]} \/ live[q]

LEMMA CalmStaysAwake ==
  ASSUME AInv, Calm
  PROVE  Awake'
<1> SUFFICES ASSUME NEW q \in Peers
             PROVE  /\ ~live'[q] => banners'[q] = {} /\ decoding'[q] = 0
                    /\ \A pub \in banners'[q] : Arrived(q, pub)'
  BY DEF Awake
<1>1. \A pub \in banners'[q] : Arrived(q, pub) BY DEF AInv, Awake, Calm
<1>2. \A pub \in banners'[q] : Arrived(q, pub)'
  BY <1>1, ArrivedKept DEF Calm, Longer
<1>3. ~live'[q] => banners'[q] = {} /\ decoding'[q] = 0 BY DEF AInv, Awake, Calm
<1> QED BY <1>2, <1>3

LEMMA AwakeStep ==
  ASSUME AInv, NEW p \in Peers, User(p) \/ Page(p) \/ Scan(p) \/ FinishJob(p)
  PROVE  Awake'
<1>0. TypeOK /\ Awake /\ Len(chat) \in Nat BY DEF AInv, TypeOK
<1>1. /\ Calm => Awake'
      /\ chat' = chat => Longer
  BY <1>0, CalmStaysAwake DEF Longer
<1>2. CASE User(p)
  <2>1. \A q \in Peers : banners'[q] \subseteq banners[q]
    BY <1>0, <1>2 DEF User, Connect, TapAccept, SendMessage, Disconnect, TypeOK
  <2>2. history' = history /\ live' = live /\ decoding' = decoding /\ chat' = chat
    BY <1>2 DEF User, Connect, TapAccept, SendMessage, Disconnect, scan
  <2> QED BY <1>1, <2>1, <2>2 DEF Calm
<1>3. CASE Page(p)
  <2>1. CASE Unload(p)
    <3>1. /\ history' = history /\ chat' = chat
          /\ banners' = [banners EXCEPT ![p] = {}] /\ decoding' = [decoding EXCEPT ![p] = 0]
          /\ live' = [live EXCEPT ![p] = FALSE]
      BY <2>1 DEF Unload
    <3>2. \A q \in Peers : /\ banners'[q] = IF q = p THEN {} ELSE banners[q]
                           /\ decoding'[q] = IF q = p THEN 0 ELSE decoding[q]
      BY <1>0, <3>1 DEF TypeOK
    <3>3. \A q \in Peers \ {p} : live'[q] = live[q] BY <1>0, <3>1 DEF TypeOK
    <3> QED BY <1>0, <3>1, <3>2, <3>3 DEF Awake, Arrived
  <2>2. CASE Boot(p)
    <3>1. banners[p] = {} BY <1>0, <2>2 DEF Boot, Awake
    <3>2. /\ \A q \in Peers \ {p} : live'[q] = live[q] /\ history'[q] = history[q]
          /\ live'[p] = TRUE /\ banners' = banners /\ decoding' = decoding /\ chat' = chat
      BY <1>0, <2>2 DEF Boot, TypeOK
    <3> QED BY <1>0, <3>1, <3>2 DEF Awake, Arrived
  <2>3. CASE BannerExpires(p)
    <3>1. \A q \in Peers : banners'[q] \subseteq banners[q] BY <1>0, <2>3 DEF BannerExpires, TypeOK
    <3>2. history' = history /\ live' = live /\ decoding' = decoding /\ chat' = chat
      BY <2>3 DEF BannerExpires, scan
    <3> QED BY <1>1, <3>1, <3>2 DEF Calm
  <2>4. CASE TelegramMutates(p) BY <1>1, <2>4 DEF TelegramMutates, Calm
  <2> QED BY <1>3, <2>1, <2>2, <2>3, <2>4 DEF Page, Reload, Restart
<1>4. CASE Scan(p)
  <2>0. decoding[p] = 0 \/ live[p] BY <1>0 DEF Awake
  <2>1. CASE BeginDecode(p)
    <3>1. \A q \in Peers \ {p} : decoding'[q] = decoding[q] BY <1>0, <2>1 DEF BeginDecode, TypeOK
    <3> QED BY <1>1, <2>1, <3>1 DEF BeginDecode, Calm
  <2>2. CASE Undecided(p) \/ OpenMessage(p) \/ TagFailure(p) \/ IgnoreFrame(p)
    <3>1. decoding' = [decoding EXCEPT ![p] = 0]
      BY <2>2 DEF Undecided, OpenMessage, TagFailure, IgnoreFrame, Reject
    <3>2. history' = history /\ live' = live /\ banners' = banners /\ chat' = chat
      BY <2>2 DEF Undecided, OpenMessage, TagFailure, IgnoreFrame
    <3>3. \A q \in Peers : decoding'[q] \in {0, decoding[q]} BY <1>0, <3>1 DEF TypeOK
    <3> QED BY <1>1, <3>2, <3>3 DEF Calm
  <2>3. CASE PeerRestarted(p) \/ Glare(p)
    <3>1. history' = history /\ live' = live /\ banners' = banners /\ chat' = chat /\ decoding' = decoding
      BY <2>3 DEF PeerRestarted, Glare, scan
    <3> QED BY <1>1, <3>1 DEF Calm
  <2>4. CASE ShowBanner(p)
    <3>1. live[p] /\ Arrived(p, Current(p).pub)
      BY <2>4, LiveFrameArrived DEF ShowBanner, FirstSight
    <3>2. history' = history /\ live' = live /\ chat' = chat
      BY <2>4 DEF ShowBanner
    <3>3. \A q \in Peers : decoding'[q] \in {0, decoding[q]} BY <1>0, <2>4 DEF ShowBanner, Reject, TypeOK
    <3>4. \A q \in Peers : \A pub \in banners'[q] : \/ pub \in banners[q]
                                                    \/ q = p /\ pub = Current(p).pub
      <4> DEFINE shown == Current(p).pub
      <4>1. banners' = [banners EXCEPT ![p] = @ \cup {shown}] BY <2>4 DEF ShowBanner
      <4> HIDE DEF shown
      <4>2. \A q \in Peers : banners'[q] = IF q = p THEN banners[q] \cup {shown} ELSE banners[q]
        BY <1>0, <4>1 DEF TypeOK
      <4>3. \A q \in Peers : \A pub \in banners'[q] : pub \in banners[q] \/ (q = p /\ pub = shown)
        BY <4>2
      <4> QED BY <4>3 DEF shown
    <3> QED BY <1>1, <3>1, <3>2, <3>3, <3>4 DEF Calm
  <2>5. CASE ReceiveAck(p)
    <3>1. history' = history /\ live' = live /\ banners' = banners /\ chat' = chat
      BY <2>5 DEF ReceiveAck
    <3>2. \A q \in Peers : decoding'[q] \in {0, decoding[q]} BY <1>0, <2>5 DEF ReceiveAck, TypeOK
    <3> QED BY <1>1, <3>1, <3>2 DEF Calm
  <2> QED BY <1>4, <2>1, <2>2, <2>3, <2>4, <2>5 DEF Scan
<1>5. CASE FinishJob(p)
  <2>1. PICK j \in jobs[p] : Sent(p, j) /\ InboundReset(p, j) BY <1>5 DEF FinishJob
  <2>2. Longer BY <1>0, <2>1, SentChat DEF Longer
  <2>3. history' = history /\ live' = live /\ banners' = banners BY <1>5 DEF FinishJob
  <2>4. \A q \in Peers : decoding'[q] \in {0, decoding[q]} BY <1>0, <2>1 DEF InboundReset, TypeOK
  <2> QED BY <1>1, <2>2, <2>3, <2>4 DEF Calm
<1> QED BY <1>2, <1>3, <1>4, <1>5

LEMMA AlwaysAwake == Spec => []AInv
<1>1. Init => AInv
  BY InitType DEF Init, AInv, Awake
<1>2. AInv /\ [Next]_vars => AInv'
  <2> SUFFICES ASSUME AInv, [Next]_vars PROVE AInv' OBVIOUS
  <2>1. CASE UNCHANGED vars
    BY <2>1 DEF vars, session, scan, AInv, TypeOK, DecodeInChat, Awake, Arrived
  <2>2. CASE Next
    BY <2>2, UserType, PageType, ScanType, JobType, AwakeStep DEF Next, AInv
  <2> QED BY <2>1, <2>2
<1> QED BY <1>1, <1>2, PTL DEF Spec

\* A fossil of an earlier session keys no side, whatever is reloaded, reset or
\* restarted.
THEOREM FossilsAreDead == Spec => LiveFramesOnly
<1>1. AInv /\ [Next]_vars =>
        [\A p \in Peers :
           peerPub'[p] \notin {peerPub[p], NoPub}
             => \E i \in (history[p] + 1)..Len(chat) : chat[i].pub = peerPub'[p]]_vars
  <2> SUFFICES ASSUME AInv, Next, NEW p \in Peers, peerPub'[p] \notin {peerPub[p], NoPub}
               PROVE  Arrived(p, peerPub'[p])
    BY DEF Arrived
  <2>1. PICK q \in Peers : User(q) \/ Page(q) \/ Scan(q) \/ FinishJob(q) BY DEF Next
  <2>2. TypeOK /\ Awake BY DEF AInv
  <2>3. ASSUME NEW pub, Establish(q, pub) PROVE p = q /\ peerPub'[p] = pub
    BY <2>2, <2>3 DEF Establish, TypeOK
  <2>4. CASE TapAccept(q)
    <3>1. PICK pub \in banners[q] : Establish(q, pub) BY <2>4 DEF TapAccept, AcceptOffer
    <3> QED BY <2>2, <2>3, <3>1 DEF Awake
  <2>5. CASE PeerRestarted(q) \/ Glare(q) \/ ReceiveAck(q)
    <3>1. Establish(q, Current(q).pub) BY <2>5 DEF PeerRestarted, Glare, ReceiveAck, AcceptOffer
    <3>2. Arrived(q, Current(q).pub)
      BY <2>5, LiveFrameArrived DEF PeerRestarted, Glare, ReceiveAck, FirstSight
    <3> QED BY <2>3, <3>1, <3>2
  <2>6. CASE Disconnect(q) \/ Restart(q) BY <2>2, <2>6 DEF Disconnect, Restart, TypeOK
  <2>7. CASE Connect(q) \/ SendMessage(q) \/ Reload(q) \/ Boot(q) \/ BannerExpires(q) \/ TelegramMutates(q)
    BY <2>7 DEF Connect, SendMessage, Reload, Boot, BannerExpires, TelegramMutates, session
  <2>8. CASE \/ BeginDecode(q) \/ Undecided(q) \/ OpenMessage(q) \/ TagFailure(q)
             \/ IgnoreFrame(q) \/ ShowBanner(q) \/ FinishJob(q)
    BY <2>8 DEF BeginDecode, Undecided, OpenMessage, TagFailure, IgnoreFrame, ShowBanner, FinishJob, session
  <2> QED BY <2>1, <2>4, <2>5, <2>6, <2>7, <2>8 DEF User, Page, Scan
<1> QED BY AlwaysAwake, <1>1, PTL DEF Spec, LiveFramesOnly

-----------------------------------------------------------------------------
(***************************************************************************)
(* One handshake of two sides whose sessions nobody ends: neither side has *)
(* a second key pair, so every frame says who sent it.                     *)
(***************************************************************************)

\* Two browsers in one chat, no Disconnect and no restart; pages reload, the
\* codec fails, banners expire and invites cross.
Lasting == /\ \A p \in Peers : \A q, r \in Peers \ {p} : q = r
           /\ Faults \cap {"disconnect", "restart"} = {}

OnlyKey(p) == <<p, 1>>
Others(p) == Peers \ {p}
AckAt(p, i) == i \in 1..Len(chat) /\ chat[i] = Frame("ACK", OnlyKey(p))
AckJob(p, j) == j \in jobs[p] /\ j.bubble.kind = "ACK"
Invited(p) == \E q \in Others(p) : InChat("OFFER", OnlyKey(q))

KeptKey(p) == /\ keyPair[p] = generated[p] /\ keyPair[p] \in {0, 1}
              /\ keyPair[p] = 0 => status[p] = "none"
OwnFrames(p) ==
  \A j \in jobs[p] : j.bubble.kind \in FrameTypes =>
    j.bubble = Frame(j.bubble.kind, OnlyKey(p)) /\ status[p] # "none"
Paired(p) ==
  status[p] = "established" =>
    \E q \in Others(p) : peerPub[p] = OnlyKey(q) /\ convKey[p] = {OnlyKey(p), OnlyKey(q)}
\* A banner stands for an offer that the replay guard has.
Guarded(p) ==
  \A pub \in banners[p] :
    /\ \E q \in Others(p) : pub = OnlyKey(q)
    /\ InChat("OFFER", pub) /\ <<"OFFER", pub>> \in handled[p]
\* The other side's offer was accepted, and will not be again.
Done(p) == status[p] = "established" /\ banners[p] = {} /\ Invited(p)
AckOnce(p) ==
  /\ \A i : AckAt(p, i) => Done(p)
  /\ \A j : AckJob(p, j) => Done(p)
  /\ \A i, k : AckAt(p, i) /\ AckAt(p, k) => i = k
  /\ \A j, k : AckJob(p, j) /\ AckJob(p, k) => j = k
  /\ \A i, j : ~(AckAt(p, i) /\ AckJob(p, j))
Side(p) == KeptKey(p) /\ OwnFrames(p) /\ Paired(p) /\ Guarded(p) /\ AckOnce(p)

SignedFrames ==
  \A i \in 1..Len(chat) : chat[i].kind \in FrameTypes =>
    \E q \in Peers : chat[i] = Frame(chat[i].kind, OnlyKey(q)) /\ status[q] # "none"

KInv == TypeOK /\ DecodeInChat /\ SignedFrames /\ \A p \in Peers : Side(p)

LEMMA FrameFields ==
  ASSUME NEW k, NEW pub
  PROVE  /\ Frame(k, pub).kind = k /\ Frame(k, pub).pub = pub
         /\ \A l, pub2 : Frame(k, pub) = Frame(l, pub2) => k = l /\ pub = pub2
<1>1. Frame(k, pub).kind = k /\ Frame(k, pub).pub = pub BY DEF Frame
<1>2. ASSUME NEW l, NEW pub2, Frame(k, pub) = Frame(l, pub2) PROVE k = l /\ pub = pub2
  <2>1. Frame(l, pub2).kind = l /\ Frame(l, pub2).pub = pub2 BY DEF Frame
  <2> QED BY <1>1, <1>2, <2>1
<1> QED BY <1>1, <1>2

\* A frame that is acted on is the other side's, which has begun a handshake.
LEMMA ForeignFrame ==
  ASSUME KInv, NEW p \in Peers, NEW kinds \in SUBSET FrameTypes, LiveFrame(p, kinds)
  PROVE  \E q \in Others(p) : /\ Current(p) = Frame(Current(p).kind, OnlyKey(q))
                              /\ Current(p).pub = OnlyKey(q) /\ status[q] # "none"
                              /\ InChat(Current(p).kind, OnlyKey(q))
<1>1. decoding[p] \in 1..Len(chat) /\ Current(p).kind \in FrameTypes
  BY CurrentType DEF KInv, LiveFrame
<1>2. PICK q \in Peers : /\ Current(p) = Frame(Current(p).kind, OnlyKey(q))
                         /\ status[q] # "none"
  BY <1>1 DEF KInv, SignedFrames, Current
<1>3. Current(p).pub = OnlyKey(q) BY <1>2, FrameFields
<1>4. q # p
  <2> SUFFICES ASSUME q = p PROVE FALSE OBVIOUS
  <2>1. keyPair[p] = 1 BY <1>2 DEF KInv, Side, KeptKey
  <2>2. IsMine(p, Current(p).pub) BY <1>3, <2>1 DEF IsMine, MyPub, OnlyKey
  <2> QED BY <2>2 DEF LiveFrame
<1> QED BY <1>1, <1>2, <1>3, <1>4 DEF InChat, Current, Others

\* The first key pair of a side is its only one.
LEMMA FirstKey ==
  ASSUME KInv, NEW p \in Peers, EnsureKeyPair(p)
  PROVE  keyPair'[p] = 1 /\ generated'[p] = 1
         /\ \A q \in Others(p) : keyPair'[q] = keyPair[q] /\ generated'[q] = generated[q]
<1>1. TypeOK /\ KeptKey(p) BY DEF KInv, Side
<1>2. CASE keyPair[p] # 0
  <2>1. keyPair' = keyPair /\ generated' = generated BY <1>2 DEF EnsureKeyPair
  <2> QED BY <1>1, <1>2, <2>1 DEF KeptKey
<1>3. CASE keyPair[p] = 0
  <2>1. /\ generated' = [generated EXCEPT ![p] = @ + 1]
        /\ keyPair' = [keyPair EXCEPT ![p] = generated[p] + 1]
    BY <1>3 DEF EnsureKeyPair
  <2>2. generated[p] = 0 BY <1>1, <1>3 DEF KeptKey
  <2> QED BY <1>1, <2>1, <2>2 DEF TypeOK, Others
<1> QED BY <1>2, <1>3

LEMMA Keyed ==
  ASSUME KInv, NEW p \in Peers, NEW q \in Others(p), Establish(p, OnlyKey(q))
  PROVE  /\ KeptKey(p)' /\ Paired(p)' /\ status'[p] = "established" /\ keyPair'[p] = 1
         /\ \A r \in Others(p) : /\ keyPair'[r] = keyPair[r] /\ generated'[r] = generated[r]
                                 /\ peerPub'[r] = peerPub[r] /\ convKey'[r] = convKey[r]
                                 /\ status'[r] = status[r]
<1>1. TypeOK BY DEF KInv
<1>2. EnsureKeyPair(p) BY DEF Establish
<1>3. /\ keyPair'[p] = 1 /\ generated'[p] = 1
      /\ \A r \in Others(p) : keyPair'[r] = keyPair[r] /\ generated'[r] = generated[r]
  BY <1>2, FirstKey
<1>4. /\ peerPub'[p] = OnlyKey(q) /\ status'[p] = "established"
      /\ convKey'[p] = DeriveConvKey(<<p, keyPair'[p]>>, OnlyKey(q))
      /\ \A r \in Others(p) : /\ peerPub'[r] = peerPub[r] /\ convKey'[r] = convKey[r]
                              /\ status'[r] = status[r]
  BY <1>1 DEF Establish, TypeOK, Others
<1>5. convKey'[p] = {OnlyKey(p), OnlyKey(q)} BY <1>3, <1>4 DEF DeriveConvKey, OnlyKey
<1> QED BY <1>3, <1>4, <1>5 DEF KeptKey, Paired, Others

-----------------------------------------------------------------------------
(* A step of p that appends nothing leaves the other side as it was.       *)

OthersStill(p) ==
  \A q \in Others(p) :
    /\ keyPair'[q] = keyPair[q] /\ generated'[q] = generated[q] /\ peerPub'[q] = peerPub[q]
    /\ convKey'[q] = convKey[q] /\ status'[q] = status[q] /\ handled'[q] = handled[q]
    /\ jobs'[q] = jobs[q] /\ banners'[q] = banners[q]

LEMMA SideStill ==
  ASSUME NEW q \in Peers, Side(q), chat' = chat,
         keyPair'[q] = keyPair[q], generated'[q] = generated[q], peerPub'[q] = peerPub[q],
         convKey'[q] = convKey[q], status'[q] = status[q], handled'[q] = handled[q],
         jobs'[q] = jobs[q], banners'[q] = banners[q]
  PROVE  Side(q)'
<1>1. KeptKey(q)' /\ Paired(q)' BY DEF Side, KeptKey, Paired
<1>2. OwnFrames(q)' BY DEF Side, OwnFrames
<1>3. Guarded(q)' BY DEF Side, Guarded, InChat
<1>4. AckOnce(q)' BY DEF Side, AckOnce, AckAt, AckJob, Done, Invited, InChat
<1> QED BY <1>1, <1>2, <1>3, <1>4 DEF Side

LEMMA OnlyOneSide ==
  ASSUME KInv, NEW p \in Peers, chat' = chat, OthersStill(p), Side(p)',
         status[p] # "none" => status'[p] # "none"
  PROVE  SignedFrames' /\ \A q \in Peers : Side(q)'
<1>1. \A q \in Peers : status[q] # "none" => status'[q] # "none" BY DEF OthersStill, Others
<1>2. SignedFrames' BY <1>1 DEF KInv, SignedFrames
<1>3. ASSUME NEW q \in Others(p) PROVE Side(q)'
  <2>1. q \in Peers /\ Side(q) BY <1>3 DEF KInv, Others
  <2> QED BY <1>3, <2>1, SideStill DEF OthersStill
<1> QED BY <1>2, <1>3 DEF Others

\* Nothing that a handshake is made of moves.
LEMMA NothingMoves ==
  ASSUME KInv, UNCHANGED <<chat, session, handled, jobs, banners>>
  PROVE  SignedFrames' /\ \A q \in Peers : Side(q)'
<1>1. ASSUME NEW q \in Peers PROVE Side(q)'
  BY <1>1, SideStill DEF KInv, session
<1>2. SignedFrames' BY DEF KInv, SignedFrames, session
<1> QED BY <1>1, <1>2

\* The other side's offer is accepted for the first time.
LEMMA FirstAccept ==
  ASSUME KInv, NEW p \in Peers, NEW q \in Others(p), NEW via,
         AcceptOffer(p, OnlyKey(q), via), ~Done(p), chat' = chat,
         banners'[p] = {}, InChat("OFFER", OnlyKey(q)),
         \A r \in Others(p) : banners'[r] = banners[r] /\ handled'[r] = handled[r]
  PROVE  SignedFrames' /\ \A r \in Peers : Side(r)'
<1> DEFINE ack == Job(Frame("ACK", OnlyKey(p)), via)
<1>1. TypeOK /\ Side(p) BY DEF KInv
<1>2. Establish(p, OnlyKey(q)) BY DEF AcceptOffer
<1>3. /\ KeptKey(p)' /\ Paired(p)' /\ status'[p] = "established" /\ keyPair'[p] = 1
      /\ \A r \in Others(p) : /\ keyPair'[r] = keyPair[r] /\ generated'[r] = generated[r]
                              /\ peerPub'[r] = peerPub[r] /\ convKey'[r] = convKey[r]
                              /\ status'[r] = status[r]
  BY <1>2, Keyed
<1>4. jobs' = [jobs EXCEPT ![p] = @ \cup {ack}]
  BY <1>3 DEF AcceptOffer, OnlyKey
<1>5. ack.bubble = Frame("ACK", OnlyKey(p)) /\ ack.bubble.kind = "ACK"
  BY FrameFields DEF Job
<1> HIDE DEF ack
<1>6. jobs'[p] = jobs[p] \cup {ack} /\ \A r \in Others(p) : jobs'[r] = jobs[r]
  BY <1>1, <1>4 DEF TypeOK, Others
<1>7. OwnFrames(p)' BY <1>1, <1>3, <1>5, <1>6 DEF Side, OwnFrames
<1>8. Guarded(p)' BY DEF Guarded
<1>9. \A i, j : ~AckAt(p, i) /\ ~AckJob(p, j) BY <1>1 DEF Side, AckOnce
<1>10. Done(p)' BY <1>3 DEF Done, Invited, InChat
<1>11. \A i, j : ~AckAt(p, i)' /\ (AckJob(p, j)' => j = ack)
  BY <1>6, <1>9 DEF AckAt, AckJob
<1>12. AckOnce(p)' BY <1>10, <1>11 DEF AckOnce
<1>13. Side(p)' BY <1>3, <1>7, <1>8, <1>12 DEF Side
<1>14. OthersStill(p) BY <1>3, <1>6 DEF OthersStill
<1> QED BY <1>3, <1>13, <1>14, OnlyOneSide

-----------------------------------------------------------------------------

LEMMA UserKeys ==
  ASSUME KInv, Lasting, NEW p \in Peers, User(p)
  PROVE  SignedFrames' /\ \A q \in Peers : Side(q)'
<1>0. TypeOK /\ Side(p) BY DEF KInv
<1>1. CASE Connect(p)
  <2> DEFINE offer == Job(Frame("OFFER", OnlyKey(p)), "user")
  <2>1. /\ keyPair'[p] = 1 /\ generated'[p] = 1
        /\ \A q \in Others(p) : keyPair'[q] = keyPair[q] /\ generated'[q] = generated[q]
    BY <1>1, FirstKey DEF Connect
  <2>2. jobs' = [jobs EXCEPT ![p] = @ \cup {offer}] BY <1>1, <2>1 DEF Connect, OnlyKey
  <2>3. offer.bubble = Frame("OFFER", OnlyKey(p)) /\ offer.bubble.kind = "OFFER"
    BY FrameFields DEF Job
  <2> HIDE DEF offer
  <2>4. jobs'[p] = jobs[p] \cup {offer} /\ \A q \in Others(p) : jobs'[q] = jobs[q]
    BY <1>0, <2>2 DEF TypeOK, Others
  <2>5. status'[p] = "offered" /\ \A q \in Others(p) : status'[q] = status[q]
    BY <1>0, <1>1 DEF Connect, TypeOK, Others
  <2>6. UNCHANGED <<chat, peerPub, convKey, handled, banners>> BY <1>1 DEF Connect
  <2>7. KeptKey(p)' /\ Paired(p)' BY <2>1, <2>5 DEF KeptKey, Paired
  <2>8. OwnFrames(p)' BY <1>0, <2>3, <2>4, <2>5 DEF Side, OwnFrames
  <2>9. Guarded(p)' BY <1>0, <2>6 DEF Side, Guarded, InChat
  <2>10. \A i, j : ~AckAt(p, i) /\ ~AckJob(p, j) BY <1>0, <1>1 DEF Connect, Side, AckOnce, Done
  <2>11. \A i, j : ~AckAt(p, i)' /\ ~AckJob(p, j)' BY <2>3, <2>4, <2>6, <2>10 DEF AckAt, AckJob
  <2>12. Side(p)' BY <2>7, <2>8, <2>9, <2>11 DEF Side, AckOnce
  <2> QED BY <2>1, <2>4, <2>5, <2>6, <2>12, OnlyOneSide DEF OthersStill
<1>2. CASE TapAccept(p)
  <2>1. PICK pub \in banners[p] : /\ AcceptOffer(p, pub, "user")
                                  /\ banners' = [banners EXCEPT ![p] = @ \ {pub}]
    BY <1>2 DEF TapAccept
  <2>2. PICK q \in Others(p) : pub = OnlyKey(q) BY <1>0, <2>1 DEF Side, Guarded
  <2>3. InChat("OFFER", pub) /\ ~Done(p) BY <1>0, <2>1 DEF Side, Guarded, Done
  <2>4. \A pub2 \in banners[p] : pub2 = pub
    <3>1. \A pub2 \in banners[p] : \E r \in Others(p) : pub2 = OnlyKey(r)
      BY <1>0 DEF Side, Guarded
    <3>2. \A r \in Others(p) : r = q BY DEF Lasting, Others
    <3> QED BY <2>2, <3>1, <3>2
  <2>5. banners'[p] = {} /\ \A r \in Others(p) : banners'[r] = banners[r]
    BY <1>0, <2>1, <2>4 DEF TypeOK, Others
  <2>6. chat' = chat /\ handled' = handled BY <1>2 DEF TapAccept
  <2> QED BY <2>1, <2>2, <2>3, <2>5, <2>6, FirstAccept
<1>3. CASE SendMessage(p)
  <2> DEFINE message == Job(Message(convKey[p]), "user")
  <2>1. jobs' = [jobs EXCEPT ![p] = @ \cup {message}] BY <1>3 DEF SendMessage
  <2>2. message.bubble.kind = "MSG" BY DEF Job, Message
  <2> HIDE DEF message
  <2>3. jobs'[p] = jobs[p] \cup {message} /\ \A q \in Others(p) : jobs'[q] = jobs[q]
    BY <1>0, <2>1 DEF TypeOK, Others
  <2>4. UNCHANGED <<chat, session, handled, banners>> BY <1>3 DEF SendMessage
  <2>5. KeptKey(p)' /\ Paired(p)' /\ Guarded(p)'
    BY <1>0, <2>4 DEF Side, KeptKey, Paired, Guarded, InChat, session
  <2>6. OwnFrames(p)' BY <1>0, <2>2, <2>3, <2>4 DEF Side, OwnFrames, FrameTypes, session
  <2>7. \A i, j : (AckAt(p, i)' <=> AckAt(p, i)) /\ (AckJob(p, j)' <=> AckJob(p, j))
    BY <2>2, <2>3, <2>4 DEF AckAt, AckJob
  <2>8. Done(p)' <=> Done(p) BY <2>4 DEF Done, Invited, InChat, session
  <2>9. AckOnce(p)' BY <1>0, <2>7, <2>8 DEF Side, AckOnce
  <2>10. Side(p)' BY <2>5, <2>6, <2>9 DEF Side
  <2> QED BY <2>3, <2>4, <2>10, OnlyOneSide DEF OthersStill, session
<1>4. CASE Disconnect(p) BY <1>4 DEF Disconnect, Fault, Lasting
<1> QED BY <1>1, <1>2, <1>3, <1>4 DEF User

LEMMA PageKeys ==
  ASSUME KInv, Lasting, NEW p \in Peers, Page(p)
  PROVE  SignedFrames' /\ \A q \in Peers : Side(q)'
<1>0. TypeOK /\ Side(p) BY DEF KInv
<1>1. CASE Reload(p)
  <2>1. UNCHANGED <<chat, keyPair, generated, peerPub, convKey, status>>
    BY <1>1 DEF Reload, Unload
  <2>2. /\ banners'[p] = {} /\ jobs'[p] = {}
        /\ \A q \in Others(p) : /\ banners'[q] = banners[q] /\ jobs'[q] = jobs[q]
                                /\ handled'[q] = handled[q]
    BY <1>0, <1>1 DEF Reload, Unload, TypeOK, Others
  <2>3. KeptKey(p)' /\ Paired(p)' BY <1>0, <2>1 DEF Side, KeptKey, Paired
  <2>4. OwnFrames(p)' /\ Guarded(p)' BY <2>2 DEF OwnFrames, Guarded
  <2>5. \A i, j : (AckAt(p, i)' <=> AckAt(p, i)) /\ ~AckJob(p, j)' BY <2>1, <2>2 DEF AckAt, AckJob
  <2>6. Done(p) => Done(p)' BY <2>1, <2>2 DEF Done, Invited, InChat
  <2>7. AckOnce(p)' BY <1>0, <2>5, <2>6 DEF Side, AckOnce
  <2>8. Side(p)' BY <2>3, <2>4, <2>7 DEF Side
  <2> QED BY <2>1, <2>2, <2>8, OnlyOneSide DEF OthersStill
<1>2. CASE Restart(p) BY <1>2 DEF Restart, Fault, Lasting
<1>3. CASE Boot(p) BY <1>3, NothingMoves DEF Boot
<1>4. CASE BannerExpires(p)
  <2>1. UNCHANGED <<chat, session, handled, jobs>> BY <1>4 DEF BannerExpires
  <2>2. banners'[p] \subseteq banners[p] /\ \A q \in Others(p) : banners'[q] = banners[q]
    BY <1>0, <1>4 DEF BannerExpires, TypeOK, Others
  <2>3. KeptKey(p)' /\ Paired(p)' /\ OwnFrames(p)'
    BY <1>0, <2>1 DEF Side, KeptKey, Paired, OwnFrames, session
  <2>4. Guarded(p)' BY <1>0, <2>1, <2>2 DEF Side, Guarded, InChat
  <2>5. \A i, j : (AckAt(p, i)' <=> AckAt(p, i)) /\ (AckJob(p, j)' <=> AckJob(p, j))
    BY <2>1 DEF AckAt, AckJob
  <2>6. Done(p) => Done(p)' BY <2>1, <2>2 DEF Done, Invited, InChat, session
  <2>7. AckOnce(p)' BY <1>0, <2>5, <2>6 DEF Side, AckOnce
  <2>8. Side(p)' BY <2>3, <2>4, <2>7 DEF Side
  <2> QED BY <2>1, <2>2, <2>8, OnlyOneSide DEF OthersStill, session
<1>5. CASE TelegramMutates(p) BY <1>5, NothingMoves DEF TelegramMutates
<1> QED BY <1>1, <1>2, <1>3, <1>4, <1>5 DEF Page

LEMMA ScanKeys ==
  ASSUME KInv, Lasting, NEW p \in Peers, Scan(p)
  PROVE  SignedFrames' /\ \A q \in Peers : Side(q)'
<1>0. TypeOK /\ Side(p) BY DEF KInv
<1>1. CASE BeginDecode(p) BY <1>1, NothingMoves DEF BeginDecode
<1>2. CASE Undecided(p) BY <1>2, NothingMoves DEF Undecided
<1>3. CASE OpenMessage(p) BY <1>3, NothingMoves DEF OpenMessage
<1>4. CASE TagFailure(p) BY <1>4, NothingMoves DEF TagFailure
<1>5. CASE IgnoreFrame(p) BY <1>5, NothingMoves DEF IgnoreFrame
\* the peer has one key pair, so no offer of it is another's
<1>6. CASE PeerRestarted(p)
  <2>1. PICK q \in Others(p) : Current(p).pub = OnlyKey(q)
    BY <1>6, ForeignFrame DEF PeerRestarted, FrameTypes
  <2>2. PICK r \in Others(p) : peerPub[p] = OnlyKey(r)
    BY <1>0, <1>6 DEF PeerRestarted, Side, Paired
  <2>3. q = r BY DEF Lasting, Others
  <2> QED BY <1>6, <2>1, <2>2, <2>3 DEF PeerRestarted, IsPeer
<1>7. CASE Glare(p)
  <2>1. LiveFrame(p, {"OFFER"}) /\ GuardKey(p) \notin handled[p] /\ status[p] = "offered"
    BY <1>7 DEF Glare, FirstSight
  <2>2. Current(p).kind = "OFFER" BY <2>1, CurrentType DEF LiveFrame, KInv
  <2>3. PICK q \in Others(p) : Current(p).pub = OnlyKey(q) /\ InChat("OFFER", OnlyKey(q))
    BY <2>1, <2>2, ForeignFrame DEF FrameTypes
  <2>4. \A pub \in banners[p] : pub = OnlyKey(q)
    BY <1>0 DEF Side, Guarded, Lasting, Others
  <2>5. banners[p] = {} BY <1>0, <2>1, <2>2, <2>3, <2>4 DEF Side, Guarded, GuardKey
  <2>6. ~Done(p) BY <2>1 DEF Done
  <2>7. chat' = chat /\ banners' = banners /\ AcceptOffer(p, OnlyKey(q), "scan")
        /\ \A r \in Others(p) : handled'[r] = handled[r]
    BY <1>0, <1>7, <2>3 DEF Glare, FirstSight, TypeOK, Others
  <2> QED BY <2>3, <2>5, <2>6, <2>7, FirstAccept
<1>8. CASE ShowBanner(p)
  <2>1. LiveFrame(p, {"OFFER"}) /\ status[p] = "none"
    BY <1>8 DEF ShowBanner, FirstSight
  <2>2. Current(p).kind = "OFFER" BY <2>1, CurrentType DEF LiveFrame, KInv
  <2>3. PICK q \in Others(p) : Current(p).pub = OnlyKey(q) /\ InChat("OFFER", OnlyKey(q))
    BY <2>1, <2>2, ForeignFrame DEF FrameTypes
  <2>4. UNCHANGED <<chat, session, jobs>> BY <1>8 DEF ShowBanner
  <2>5. /\ banners' = [banners EXCEPT ![p] = @ \cup {OnlyKey(q)}]
        /\ handled' = [handled EXCEPT ![p] = @ \cup {<<"OFFER", OnlyKey(q)>>}]
    <3>1. GuardKey(p) = <<"OFFER", OnlyKey(q)>> BY <2>2, <2>3 DEF GuardKey
    <3> QED BY <1>8, <2>3, <3>1 DEF ShowBanner, FirstSight
  <2>6. /\ banners'[p] = banners[p] \cup {OnlyKey(q)}
        /\ handled'[p] = handled[p] \cup {<<"OFFER", OnlyKey(q)>>}
        /\ \A r \in Others(p) : banners'[r] = banners[r] /\ handled'[r] = handled[r]
    BY <1>0, <2>5 DEF TypeOK, Others
  <2>7. KeptKey(p)' /\ Paired(p)' /\ OwnFrames(p)'
    BY <1>0, <2>4 DEF Side, KeptKey, Paired, OwnFrames, session
  <2>8. Guarded(p)' BY <1>0, <2>3, <2>4, <2>6 DEF Side, Guarded, InChat
  <2>9. \A i, j : ~AckAt(p, i) /\ ~AckJob(p, j) BY <1>0, <2>1 DEF Side, AckOnce, Done
  <2>10. \A i, j : ~AckAt(p, i)' /\ ~AckJob(p, j)' BY <2>4, <2>9 DEF AckAt, AckJob
  <2>11. Side(p)' BY <2>7, <2>8, <2>10 DEF Side, AckOnce
  <2> QED BY <2>4, <2>6, <2>11, OnlyOneSide DEF OthersStill, session
<1>9. CASE ReceiveAck(p)
  <2>1. LiveFrame(p, {"ACK"}) /\ status[p] # "established"
    BY <1>9 DEF ReceiveAck, FirstSight
  <2>2. PICK q \in Others(p) : Current(p).pub = OnlyKey(q)
    BY <2>1, ForeignFrame DEF FrameTypes
  <2>3. Establish(p, OnlyKey(q)) BY <1>9, <2>2 DEF ReceiveAck
  <2>4. /\ KeptKey(p)' /\ Paired(p)' /\ status'[p] = "established" /\ keyPair'[p] = 1
        /\ \A r \in Others(p) : /\ keyPair'[r] = keyPair[r] /\ generated'[r] = generated[r]
                                /\ peerPub'[r] = peerPub[r] /\ convKey'[r] = convKey[r]
                                /\ status'[r] = status[r]
    BY <2>3, Keyed
  <2>5. UNCHANGED <<chat, jobs, banners>> BY <1>9 DEF ReceiveAck
  <2>6. handled[p] \subseteq handled'[p] /\ \A r \in Others(p) : handled'[r] = handled[r]
    BY <1>0, <1>9 DEF ReceiveAck, FirstSight, TypeOK, Others
  <2>7. OwnFrames(p)' BY <1>0, <2>4, <2>5 DEF Side, OwnFrames
  <2>8. Guarded(p)' BY <1>0, <2>5, <2>6 DEF Side, Guarded, InChat
  <2>9. \A i, j : ~AckAt(p, i) /\ ~AckJob(p, j) BY <1>0, <2>1 DEF Side, AckOnce, Done
  <2>10. \A i, j : ~AckAt(p, i)' /\ ~AckJob(p, j)' BY <2>5, <2>9 DEF AckAt, AckJob
  <2>11. Side(p)' BY <2>4, <2>7, <2>8, <2>10 DEF Side, AckOnce
  <2> QED BY <2>4, <2>5, <2>6, <2>11, OnlyOneSide DEF OthersStill
<1> QED BY <1>1, <1>2, <1>3, <1>4, <1>5, <1>6, <1>7, <1>8, <1>9 DEF Scan

\* One bubble of p is appended: what the other side has is not touched.
LEMMA JobKeys ==
  ASSUME KInv, Lasting, NEW p \in Peers, FinishJob(p)
  PROVE  SignedFrames' /\ \A q \in Peers : Side(q)'
<1>1. PICK j \in jobs[p] : Sent(p, j) /\ jobs' = [jobs EXCEPT ![p] = @ \ {j}] BY DEF FinishJob
<1>2. TypeOK /\ \A q \in Peers : Side(q) BY DEF KInv
<1>3. /\ jobs'[p] = jobs[p] \ {j} /\ \A q \in Others(p) : jobs'[q] = jobs[q]
      /\ UNCHANGED <<session, handled, banners>>
  BY <1>1, <1>2 DEF FinishJob, TypeOK, Others
<1>4. /\ \A i \in 1..Len(chat) : i \in 1..Len(chat') /\ chat'[i] = chat[i]
      /\ \A i \in 1..Len(chat') : i \in 1..Len(chat) \/ (i = Len(chat) + 1 /\ chat'[i] = j.bubble)
  <2>1. Len(chat) \in Nat /\ chat \in Seq(Bubble) /\ j.bubble \in Bubble BY <1>1, <1>2 DEF TypeOK, Jobs
  <2>2. CASE chat' = chat BY <2>1, <2>2
  <2>3. CASE chat' = Append(chat, j.bubble) BY <2>1, <2>3
  <2> QED BY <1>1, <2>2, <2>3 DEF Sent, Append1
<1>5. \A k, pub : InChat(k, pub) => InChat(k, pub)' BY <1>4 DEF InChat
<1>6. SignedFrames'
  <2> SUFFICES ASSUME NEW i \in 1..Len(chat'), chat'[i].kind \in FrameTypes
               PROVE  \E q \in Peers : chat'[i] = Frame(chat'[i].kind, OnlyKey(q)) /\ status'[q] # "none"
    BY DEF SignedFrames
  <2>1. CASE i \in 1..Len(chat) BY <1>3, <1>4, <2>1 DEF KInv, SignedFrames, session
  <2>2. CASE chat'[i] = j.bubble BY <1>1, <1>2, <1>3, <2>2 DEF Side, OwnFrames, session
  <2> QED BY <1>4, <2>1, <2>2
<1>7. SUFFICES ASSUME NEW q \in Peers PROVE Side(q)' BY <1>6
<1>8. KeptKey(q)' /\ Paired(q)' BY <1>2, <1>3 DEF Side, KeptKey, Paired, session
<1>9. jobs'[q] \subseteq jobs[q] BY <1>3 DEF Others
<1>10. OwnFrames(q)' BY <1>2, <1>3, <1>9 DEF Side, OwnFrames, session
<1>11. Guarded(q)' BY <1>2, <1>3, <1>5 DEF Side, Guarded
<1>12. Done(q) => Done(q)' BY <1>3, <1>5 DEF Done, Invited, session
<1>13. \A k : AckJob(q, k)' => AckJob(q, k) BY <1>9 DEF AckJob
<1>14. CASE j.bubble = Frame("ACK", OnlyKey(q))
  <2>1. j.bubble.kind = "ACK" BY <1>14, FrameFields
  <2>2. q = p
    <3>1. j.bubble = Frame("ACK", OnlyKey(p)) BY <1>1, <1>2, <2>1 DEF Side, OwnFrames, FrameTypes
    <3>2. OnlyKey(p) = OnlyKey(q) BY <1>14, <3>1, FrameFields
    <3> QED BY <3>2 DEF OnlyKey
  <2>3. AckJob(p, j) BY <1>1, <2>1 DEF AckJob
  <2>4. Done(p) /\ \A i : ~AckAt(p, i) BY <1>2, <2>3 DEF Side, AckOnce
  <2>5. \A k : ~AckJob(p, k)' BY <1>2, <1>3, <2>3 DEF Side, AckOnce, AckJob
  <2>6. \A i : AckAt(p, i)' => i = Len(chat) + 1 BY <1>4, <2>4 DEF AckAt
  <2>7. AckOnce(p)' BY <1>12, <2>2, <2>4, <2>5, <2>6 DEF AckOnce
  <2> QED BY <1>8, <1>10, <1>11, <2>2, <2>7 DEF Side
<1>15. CASE j.bubble # Frame("ACK", OnlyKey(q))
  <2>1. \A i : AckAt(q, i)' => AckAt(q, i) BY <1>4, <1>15 DEF AckAt
  <2>2. AckOnce(q)' BY <1>2, <1>12, <1>13, <2>1 DEF Side, AckOnce
  <2> QED BY <1>8, <1>10, <1>11, <2>2 DEF Side
<1> QED BY <1>14, <1>15

LEMMA KeysStep ==
  ASSUME Lasting, KInv, [Next]_vars
  PROVE  KInv'
<1>1. CASE UNCHANGED vars
  <2>1. SignedFrames' /\ \A q \in Peers : Side(q)' BY <1>1, NothingMoves DEF vars
  <2> QED BY <1>1, <2>1 DEF vars, session, scan, KInv, TypeOK, DecodeInChat
<1>2. CASE Next
  <2>1. TypeOK' /\ DecodeInChat' BY <1>2, UserType, PageType, ScanType, JobType DEF Next, KInv
  <2>2. SignedFrames' /\ \A q \in Peers : Side(q)'
    BY <1>2, UserKeys, PageKeys, ScanKeys, JobKeys DEF Next
  <2> QED BY <2>1, <2>2 DEF KInv
<1> QED BY <1>1, <1>2

LEMMA KeysInit == Init => KInv
<1> SUFFICES ASSUME Init PROVE KInv OBVIOUS
<1>1. TypeOK /\ DecodeInChat /\ SignedFrames BY InitType DEF Init, SignedFrames
<1>2. ASSUME NEW p \in Peers PROVE Side(p)
  <2>1. chat = <<>> /\ jobs[p] = {} /\ banners[p] = {} /\ keyPair[p] = 0 /\ generated[p] = 0
        /\ status[p] = "none"
    BY DEF Init
  <2>2. \A i, j : ~AckAt(p, i) /\ ~AckJob(p, j) BY <2>1 DEF AckAt, AckJob
  <2> QED BY <2>1, <2>2 DEF Side, KeptKey, OwnFrames, Paired, Guarded, AckOnce
<1> QED BY <1>1, <1>2 DEF KInv

LEMMA KeysAlways == Lasting => (Spec => []KInv)
<1> SUFFICES ASSUME Lasting PROVE Spec => []KInv OBVIOUS
<1>1. KInv /\ [Next]_vars => KInv' BY KeysStep
<1> QED BY <1>1, KeysInit, PTL DEF Spec

\* The same in the scene that is model-checked.
KeysScene == scene = "keys" => KInv

LEMMA KeysSceneStep ==
  ASSUME Lasting, KeysScene, [SceneNext]_<<scene, vars>>
  PROVE  KeysScene'
<1> SUFFICES ASSUME scene' = "keys" PROVE KInv' BY DEF KeysScene
<1>1. scene = "keys" /\ [Next]_vars BY DEF SceneNext
<1> QED BY <1>1, KeysStep DEF KeysScene

LEMMA KeysSceneAlways == Lasting => (SceneSpec => []KeysScene)
<1> SUFFICES ASSUME Lasting PROVE SceneSpec => []KeysScene OBVIOUS
<1>1. SceneInit => KeysScene BY KeysInit DEF SceneInit, KeysScene
<1>2. KeysScene /\ [SceneNext]_<<scene, vars>> => KeysScene' BY KeysSceneStep
<1> QED BY <1>1, <1>2, PTL DEF SceneSpec

LEMMA OneKeyThen ==
  ASSUME Lasting, KInv
  PROVE  OneKey
<1> SUFFICES ASSUME NEW p \in Peers, NEW q \in Peers, p # q,
                    status[p] = "established", status[q] = "established"
             PROVE  convKey[p] = convKey[q]
  BY DEF OneKey
<1>1. PICK r \in Others(p) : convKey[p] = {OnlyKey(p), OnlyKey(r)} BY DEF KInv, Side, Paired
<1>2. PICK s \in Others(q) : convKey[q] = {OnlyKey(q), OnlyKey(s)} BY DEF KInv, Side, Paired
<1>3. r = q /\ s = p BY DEF Lasting, Others
<1> QED BY <1>1, <1>2, <1>3

\* Two sides that both show "connected" hold one conversation key, glare,
\* reloads and failures of the codec included.
THEOREM OneKeyHolds ==
  Lasting => (Spec => []OneKey) /\ (SceneSpec => []OneKeyAtOnce)
<1> SUFFICES ASSUME Lasting PROVE (Spec => []OneKey) /\ (SceneSpec => []OneKeyAtOnce)
  OBVIOUS
<1>1. KInv => OneKey BY OneKeyThen
<1>2. KeysScene => OneKeyAtOnce BY OneKeyThen DEF KeysScene, OneKeyAtOnce
<1> QED BY <1>1, <1>2, KeysAlways, KeysSceneAlways, PTL

LEMMA AckPerOfferThen ==
  ASSUME Lasting, KInv
  PROVE  AckPerOffer
<1> SUFFICES ASSUME NEW mine \in Pub
             PROVE  Cardinality({i \in 1..Len(chat) : chat[i] = Frame("ACK", mine)})
                      <= Cardinality({pub \in Pub : pub[1] # mine[1] /\ InChat("OFFER", pub)})
  BY DEF AckPerOffer
<1> DEFINE acks == {i \in 1..Len(chat) : chat[i] = Frame("ACK", mine)}
           offers == {pub \in Pub : pub[1] # mine[1] /\ InChat("OFFER", pub)}
<1>1. \A k \in FrameTypes : \A pub : InChat(k, pub) => \E q \in Peers : pub = OnlyKey(q)
  <2> SUFFICES ASSUME NEW k \in FrameTypes, NEW pub, NEW i \in 1..Len(chat), chat[i] = Frame(k, pub)
               PROVE  \E q \in Peers : pub = OnlyKey(q)
    BY DEF InChat
  <2>1. PICK q \in Peers : chat[i] = Frame(k, OnlyKey(q)) BY FrameFields DEF KInv, SignedFrames
  <2>2. chat[i].pub = pub BY FrameFields
  <2>3. chat[i].pub = OnlyKey(q) BY <2>1, FrameFields
  <2> QED BY <2>2, <2>3
<1>2. offers = {} \/ \E x : offers = {x}
  <2>1. \A x \in offers : \E q \in Others(mine[1]) : x = OnlyKey(q)
    BY <1>1 DEF FrameTypes, Others, OnlyKey
  <2>2. \A q, r \in Others(mine[1]) : q = r BY DEF Lasting, Others, Pub
  <2>3. \A x, y \in offers : x = y BY <2>1, <2>2
  <2> QED BY <2>3
<1>3. CASE acks = {}
  <2>1. Cardinality(acks) = 0 BY <1>3, FS_EmptySet
  <2>2. Cardinality(offers) \in {0, 1} BY <1>2, FS_EmptySet, FS_Singleton
  <2> QED BY <2>1, <2>2
<1>4. ASSUME NEW i \in acks PROVE Cardinality(acks) <= Cardinality(offers)
  <2>1. PICK p \in Peers : mine = OnlyKey(p) BY <1>1 DEF InChat, FrameTypes
  <2>2. \A k \in acks : AckAt(p, k) BY <2>1 DEF AckAt
  <2>3. AckOnce(p) /\ AckAt(p, i) BY <2>2 DEF KInv, Side
  <2>4. acks = {i} BY <2>2, <2>3 DEF AckOnce
  <2>5. PICK q \in Others(p) : InChat("OFFER", OnlyKey(q)) BY <2>3 DEF AckOnce, Done, Invited
  <2>6. OnlyKey(q) \in offers
    <3>1. 1 \in 1..MaxKeys BY <2>1 DEF Pub, OnlyKey
    <3> QED BY <2>1, <2>5, <3>1 DEF OnlyKey, Others, Pub
  <2>7. Cardinality(acks) = 1 BY <2>4, FS_Singleton
  <2>8. Cardinality(offers) = 1 BY <1>2, <2>6, FS_Singleton
  <2> QED BY <2>7, <2>8
<1> QED BY <1>3, <1>4

\* No OFFER is accepted twice, whatever is reloaded or tapped again.
THEOREM OffersAreAckedOnce ==
  Lasting => (Spec => []AckPerOffer) /\ (SceneSpec => []AckPerOfferAtOnce)
<1> SUFFICES ASSUME Lasting PROVE (Spec => []AckPerOffer) /\ (SceneSpec => []AckPerOfferAtOnce)
  OBVIOUS
<1>1. KInv => AckPerOffer BY AckPerOfferThen
<1>2. KeysScene => AckPerOfferAtOnce BY AckPerOfferThen DEF KeysScene, AckPerOfferAtOnce
<1> QED BY <1>1, <1>2, KeysAlways, KeysSceneAlways, PTL

\* An ACK reaches no side that has not begun a handshake.
LEMMA NoStrayAck ==
  ASSUME Lasting, KInv, NEW p \in Peers, NEW q \in Others(p), InChat("ACK", OnlyKey(q))
  PROVE  status[p] # "none"
<1>1. PICK i : AckAt(q, i) BY DEF InChat, AckAt
<1>2. Done(q) BY <1>1 DEF KInv, Side, AckOnce, Others
<1>3. PICK r \in Others(q) : InChat("OFFER", OnlyKey(r)) BY <1>2 DEF Done, Invited
<1>4. r = p BY DEF Lasting, Others
<1>5. PICK k \in 1..Len(chat) : chat[k] = Frame("OFFER", OnlyKey(p)) BY <1>3, <1>4 DEF InChat
<1>6. chat[k].kind = "OFFER" BY <1>5, FrameFields
<1>7. PICK s \in Peers : chat[k] = Frame("OFFER", OnlyKey(s)) /\ status[s] # "none"
  BY <1>6 DEF KInv, SignedFrames, FrameTypes
<1>8. OnlyKey(s) = OnlyKey(p) BY <1>5, <1>7, FrameFields
<1> QED BY <1>7, <1>8 DEF OnlyKey

LEMMA ConsentStep ==
  ASSUME Lasting, KInv, Next, NEW p \in Peers, status[p] = "none", status'[p] = "established"
  PROVE  peerPub'[p] \in banners[p] /\ banners'[p] = banners[p] \ {peerPub'[p]}
<1>1. PICK q \in Peers : User(q) \/ Page(q) \/ Scan(q) \/ FinishJob(q) BY DEF Next
<1>2. TypeOK BY DEF KInv
<1>3. ASSUME NEW pub, Establish(q, pub) PROVE p = q /\ peerPub'[p] = pub
  BY <1>2, <1>3 DEF Establish, TypeOK
<1>4. CASE TapAccept(q)
  <2>1. PICK pub \in banners[q] : /\ Establish(q, pub)
                                  /\ banners' = [banners EXCEPT ![q] = @ \ {pub}]
    BY <1>4 DEF TapAccept, AcceptOffer
  <2> QED BY <1>2, <1>3, <2>1 DEF TypeOK
<1>5. CASE PeerRestarted(q) \/ Glare(q)
  <2>1. p = q BY <1>3, <1>5 DEF PeerRestarted, Glare, AcceptOffer
  <2> QED BY <1>5, <2>1 DEF PeerRestarted, Glare
<1>6. CASE ReceiveAck(q)
  <2>1. p = q BY <1>3, <1>6 DEF ReceiveAck
  <2>2. LiveFrame(p, {"ACK"}) BY <1>6, <2>1 DEF ReceiveAck, FirstSight
  <2>3. Current(p).kind = "ACK" BY <2>2, CurrentType DEF LiveFrame, KInv
  <2>4. PICK r \in Others(p) : InChat("ACK", OnlyKey(r))
    BY <2>2, <2>3, ForeignFrame DEF FrameTypes
  <2> QED BY <2>4, NoStrayAck
<1>7. CASE Connect(q) BY <1>2, <1>7 DEF Connect, TypeOK
<1>8. CASE Disconnect(q) \/ Restart(q) BY <1>8 DEF Disconnect, Restart, Fault, Lasting
<1>9. CASE SendMessage(q) \/ Reload(q) \/ Boot(q) \/ BannerExpires(q) \/ TelegramMutates(q)
  BY <1>9 DEF SendMessage, Reload, Boot, BannerExpires, TelegramMutates, session
<1>10. CASE \/ BeginDecode(q) \/ Undecided(q) \/ OpenMessage(q) \/ TagFailure(q)
            \/ IgnoreFrame(q) \/ ShowBanner(q) \/ FinishJob(q)
  BY <1>10 DEF BeginDecode, Undecided, OpenMessage, TagFailure, IgnoreFrame, ShowBanner, FinishJob, session
<1> QED BY <1>1, <1>4, <1>5, <1>6, <1>7, <1>8, <1>9, <1>10 DEF User, Page, Scan

\* Nobody is connected without a tap on the banner of the very key, unless it
\* was they who clicked Connect.
THEOREM ConsentComesFirst == Lasting => (SceneSpec => ConsentFirstAtOnce)
<1> SUFFICES ASSUME Lasting PROVE SceneSpec => ConsentFirstAtOnce OBVIOUS
<1>1. KeysScene /\ [SceneNext]_<<scene, vars>> =>
        [scene = "keys" => \A p \in Peers :
           status[p] = "none" /\ status'[p] = "established"
             => /\ peerPub'[p] \in banners[p]
                /\ banners'[p] = banners[p] \ {peerPub'[p]}]_vars
  <2> SUFFICES ASSUME KeysScene, SceneNext, scene = "keys", NEW p \in Peers,
                      status[p] = "none", status'[p] = "established"
               PROVE  peerPub'[p] \in banners[p] /\ banners'[p] = banners[p] \ {peerPub'[p]}
    OBVIOUS
  <2>1. KInv /\ Next BY DEF KeysScene, SceneNext
  <2> QED BY <2>1, ConsentStep
<1> QED BY <1>1, KeysSceneAlways, PTL DEF SceneSpec, ConsentFirstAtOnce

=============================================================================
