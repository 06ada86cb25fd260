--------------------------- MODULE MeteredProofs ---------------------------
(***************************************************************************)
(* The gate behind any number of tabs and profiles: what CodecGateProofs   *)
(* shows of the codec alone holds of the codec as the extension drives it, *)
(* because every step of the browser is a step of the gate or leaves it    *)
(* alone; and a tab receives no cover it did not ask for.                  *)
(***************************************************************************)
EXTENDS MeteredSend, CodecGateProofs

-----------------------------------------------------------------------------

\* The tabs that wait for an answer.
Asking == {c \in Tabs : waiting[c] # NoThread}

MeteredInv ==
  /\ IInv /\ MeteredTypeOK
  /\ posted <= delivered /\ delivered + Cardinality(Asking) <= asks

LEMMA AskingFinite == IsFiniteSet(Asking) /\ Cardinality(Asking) \in Nat
<1>1. Asking \in SUBSET Tabs BY DEF Asking
<1>2. IsFiniteSet(Asking) BY <1>1, MeterAssumption, FS_Subset
<1> QED BY <1>2, FS_CardinalityType

LEMMA MeteredInitially == MeteredInit => MeteredInv
<1> SUFFICES ASSUME MeteredInit PROVE MeteredInv OBVIOUS
<1>1. IInv BY Initially DEF MeteredInit
<1>2. MeteredTypeOK BY <1>1 DEF MeteredInit, MeteredTypeOK, Meter, IInv
<1>3. Asking = {} BY DEF MeteredInit, Asking
<1>4. Cardinality(Asking) = 0 BY <1>3, FS_EmptySet
<1> QED BY <1>1, <1>2, <1>4 DEF MeteredInv, MeteredInit

\* What a tab asks is a request the gate knows.
LEMMA AskIsRequest ==
  ASSUME MeteredTypeOK, NEW c \in Tabs
  PROVE  AskWith(c) \in Request
BY MeterAssumption DEF MeteredTypeOK, AskWith, Request

\* A tab that stops waiting leaves the set of those who wait.
LEMMA DoneCounts ==
  ASSUME MeteredTypeOK, NEW c \in Tabs, waiting[c] # NoThread, Done(c)
  PROVE  /\ waiting' \in [Tabs -> Threads \cup {NoThread}]
         /\ Cardinality(Asking') = Cardinality(Asking) - 1
<1>1. waiting' = [waiting EXCEPT ![c] = NoThread] BY DEF Done
<1>2. waiting \in [Tabs -> Threads \cup {NoThread}] BY DEF MeteredTypeOK
<1>3. Asking' = Asking \ {c} BY <1>1, <1>2 DEF Asking
<1>4. c \in Asking BY DEF Asking
<1>5. Cardinality(Asking \ {c}) = Cardinality(Asking) - 1
  BY <1>4, AskingFinite, FS_RemoveElement
<1> QED BY <1>1, <1>2, <1>3, <1>5

\* Every step of the extension is a step of the gate, or the gate stands still.
LEMMA GateMoves ==
  ASSUME MeteredInv, [MeteredNext]_vars
  PROVE  [Next]_gateVars
<1>1. CASE UNCHANGED vars BY <1>1 DEF vars
<1>2. ASSUME NEW c \in Tabs, Ask(c) PROVE Next
  <2>1. PICK t \in Threads : RefusePaused(t) \/ Encode(t, AskWith(c))
    BY <1>2 DEF Ask
  <2>2. AskWith(c) \in Request BY AskIsRequest DEF MeteredInv
  <2>3. Handle(t) BY <2>1, <2>2 DEF Handle
  <2> QED BY <2>3 DEF Next
<1>3. ASSUME NEW c \in Tabs, Answer1(c) \/ Timeout(c) \/ LoadMeter(c)
      PROVE  UNCHANGED gateVars
  BY <1>3 DEF Answer1, MeetPaywall, AskFailed, ReceiveCover, Timeout, LoadMeter
<1>4. ASSUME NEW f \in Profiles, BridgeReads(f) \/ BridgeWrites(f)
      PROVE  UNCHANGED gateVars
  BY <1>4 DEF BridgeReads, BridgeWrites
<1>5. CASE Server BY <1>5 DEF Server, Next, Handle
<1> QED BY <1>1, <1>2, <1>3, <1>4, <1>5 DEF MeteredNext, Tab

\* What the tabs and the bridge keep stays in its types.
LEMMA TypesKept ==
  ASSUME MeteredInv, [MeteredNext]_vars
  PROVE  MeteredTypeOK'
<1>1. TypeOK'
  <2>1. IInv /\ [Next]_gateVars BY GateMoves DEF MeteredInv
  <2>2. IInv' BY <2>1, EveryStep
  <2> QED BY <2>2 DEF IInv
<1>2. MeteredTypeOK /\ reply \in [Threads -> [status : Statuses, remaining : -1..FreeLimit, member : BOOLEAN]]
  BY DEF MeteredInv, IInv, TypeOK
<1>3. FreeLimit \in Nat BY GateAssumption
<1>4. CASE UNCHANGED vars BY <1>1, <1>2, <1>4 DEF vars, clientVars, MeteredTypeOK
<1>5. ASSUME NEW c \in Tabs, Ask(c) PROVE MeteredTypeOK'
  <2>1. PICK t \in Threads : waiting' = [waiting EXCEPT ![c] = t] BY <1>5 DEF Ask
  <2> QED BY <1>1, <1>2, <1>5, <2>1 DEF Ask, MeteredTypeOK
<1>6. ASSUME NEW c \in Tabs, MeetPaywall(c) PROVE MeteredTypeOK'
  <2>1. [meter[c] EXCEPT !.sends = FreeLimit] \in Meter
    BY <1>2, <1>3 DEF MeteredTypeOK, Meter
  <2>2. waiting' \in [Tabs -> Threads \cup {NoThread}]
    BY <1>2, <1>6, DoneCounts DEF MeetPaywall, Answered
  <2>3. ProfileOf[c] \in Profiles BY MeterAssumption
  <2>4. meter' \in [Tabs -> Meter] /\ stored' \in [Profiles -> Meter]
    BY <1>2, <1>6, <2>1, <2>3 DEF MeetPaywall, Persist, MeteredTypeOK
  <2> QED BY <1>1, <1>2, <1>6, <2>2, <2>4 DEF MeetPaywall, MeteredTypeOK
<1>7. ASSUME NEW c \in Tabs, AskFailed(c) PROVE MeteredTypeOK'
  <2>1. waiting' \in [Tabs -> Threads \cup {NoThread}]
    BY <1>2, <1>7, DoneCounts DEF AskFailed, Answered
  <2> QED BY <1>1, <1>2, <1>7, <2>1 DEF AskFailed, MeteredTypeOK
<1>8. ASSUME NEW c \in Tabs, ReceiveCover(c) PROVE MeteredTypeOK'
  <2> DEFINE r == reply[waiting[c]]
  <2>1. waiting[c] \in Threads
    BY <1>2, <1>8 DEF ReceiveCover, Answered, MeteredTypeOK
  <2>2. r.remaining \in -1..FreeLimit /\ r.member \in BOOLEAN BY <1>2, <2>1
  <2>3. meter[c] \in Meter BY <1>2 DEF MeteredTypeOK
  <2>4. Counted(meter[c], r) \in Meter
    <3>1. CASE r.member BY <2>3, <3>1 DEF Counted, Meter
    <3>2. CASE ~r.member /\ r.remaining >= 0
      <4>1. FreeLimit - r.remaining \in Nat BY <1>3, <2>2, <3>2
      <4> QED BY <2>3, <3>2, <4>1 DEF Counted, Meter
    <3>3. CASE ~r.member /\ ~(r.remaining >= 0)
      BY <2>3, <3>3 DEF Counted, Meter
    <3> QED BY <3>1, <3>2, <3>3
  <2>5. waiting' \in [Tabs -> Threads \cup {NoThread}]
    BY <1>2, <1>8, DoneCounts DEF ReceiveCover, Answered
  <2>6. ProfileOf[c] \in Profiles BY MeterAssumption
  <2>7. meter' \in [Tabs -> Meter] /\ stored' \in [Profiles -> Meter]
    BY <1>2, <1>8, <2>4, <2>6 DEF ReceiveCover, Persist, MeteredTypeOK
  <2>8. posted' \in Nat /\ faults' \in Nat /\ delivered' \in Nat
    BY <1>2, <1>8 DEF ReceiveCover, Fault, MeteredTypeOK
  <2> QED BY <1>1, <1>2, <1>8, <2>5, <2>7, <2>8 DEF ReceiveCover, MeteredTypeOK
<1>9. ASSUME NEW c \in Tabs, Timeout(c) PROVE MeteredTypeOK'
  <2>1. waiting' \in [Tabs -> Threads \cup {NoThread}]
    BY <1>2, <1>9, DoneCounts DEF Timeout
  <2> QED BY <1>1, <1>2, <1>9, <2>1 DEF Timeout, MeteredTypeOK
<1>10. ASSUME NEW c \in Tabs, LoadMeter(c) PROVE MeteredTypeOK'
  <2>1. stored[ProfileOf[c]] \in Meter BY <1>2, MeterAssumption DEF MeteredTypeOK
  <2> QED BY <1>1, <1>2, <1>10, <2>1 DEF LoadMeter, MeteredTypeOK
<1>11. ASSUME NEW f \in Profiles, BridgeReads(f) PROVE MeteredTypeOK'
  <2>1. stored[f].sends \in Nat BY <1>2 DEF MeteredTypeOK, Meter
  <2> QED BY <1>1, <1>2, <1>11, <2>1 DEF BridgeReads, MeteredTypeOK
<1>12. ASSUME NEW f \in Profiles, BridgeWrites(f) PROVE MeteredTypeOK'
  <2>1. bridge[f] \in Nat BY <1>2, <1>12 DEF BridgeWrites, MeteredTypeOK
  <2>2. [sends |-> bridge[f], paid |-> TRUE] \in Meter BY <2>1 DEF Meter
  <2> QED BY <1>1, <1>2, <1>12, <2>2 DEF BridgeWrites, MeteredTypeOK
<1>13. CASE Server
  <2>1. /\ disturbed' = disturbed \/ disturbed' = TRUE
        /\ faults' = faults \/ faults' = faults + 1
        /\ UNCHANGED <<meter, stored, token, bridge, waiting, delivered, posted, asks>>
    BY <1>13, Zenon DEF Server, Fault
  <2>2. disturbed \in BOOLEAN BY <1>2, Zenon DEF MeteredTypeOK
  <2>3. disturbed' \in BOOLEAN BY <2>1, <2>2, Zenon
  <2>4. faults' \in Nat BY <1>2, <2>1 DEF MeteredTypeOK
  <2> QED BY <1>1, <1>2, <2>1, <2>3, <2>4, Zenon DEF MeteredTypeOK
<1> QED BY <1>4, <1>5, <1>6, <1>7, <1>8, <1>9, <1>10, <1>11, <1>12, <1>13
      DEF MeteredNext, Tab, Answer1

\* Each ask makes one tab wait, and each cover ends one wait.
LEMMA AsksCover ==
  ASSUME MeteredInv, [MeteredNext]_vars
  PROVE  posted' <= delivered' /\ delivered' + Cardinality(Asking') <= asks'
<1>1. /\ MeteredTypeOK /\ posted \in Nat /\ delivered \in Nat /\ asks \in Nat
      /\ posted <= delivered /\ delivered + Cardinality(Asking) <= asks
      /\ Cardinality(Asking) \in Nat
  BY AskingFinite DEF MeteredInv, MeteredTypeOK
<1>2. ASSUME UNCHANGED <<waiting, posted, delivered, asks>>
      PROVE  posted' <= delivered' /\ delivered' + Cardinality(Asking') <= asks'
  <2>1. Asking' = Asking BY <1>2 DEF Asking
  <2> QED BY <1>1, <1>2, <2>1
<1>3. CASE UNCHANGED vars BY <1>2, <1>3 DEF vars, clientVars
<1>4. ASSUME NEW c \in Tabs, Ask(c)
      PROVE  posted' <= delivered' /\ delivered' + Cardinality(Asking') <= asks'
  <2>1. PICK t \in Threads : waiting' = [waiting EXCEPT ![c] = t] BY <1>4 DEF Ask
  <2>2. t # NoThread BY MeterAssumption
  <2>3. Asking' = Asking \cup {c}
    BY <1>1, <2>1, <2>2 DEF Asking, MeteredTypeOK
  <2>4. c \notin Asking BY <1>4 DEF Ask, Asking
  <2>5. Cardinality(Asking \cup {c}) = Cardinality(Asking) + 1
    BY <2>4, AskingFinite, FS_AddElement
  <2>6. asks' = asks + 1 /\ posted' = posted /\ delivered' = delivered
    BY <1>4 DEF Ask
  <2> QED BY <1>1, <2>3, <2>5, <2>6
<1>5. ASSUME NEW c \in Tabs, MeetPaywall(c) \/ AskFailed(c) \/ Timeout(c)
      PROVE  posted' <= delivered' /\ delivered' + Cardinality(Asking') <= asks'
  <2>1. waiting[c] # NoThread /\ Done(c) /\ UNCHANGED <<posted, delivered, asks>>
    BY <1>5 DEF MeetPaywall, AskFailed, Timeout, Answered
  <2>2. Cardinality(Asking') = Cardinality(Asking) - 1 BY <1>1, <2>1, DoneCounts
  <2> QED BY <1>1, <2>1, <2>2
<1>6. ASSUME NEW c \in Tabs, ReceiveCover(c)
      PROVE  posted' <= delivered' /\ delivered' + Cardinality(Asking') <= asks'
  <2>1. /\ waiting[c] # NoThread /\ Done(c) /\ UNCHANGED asks
        /\ delivered' = delivered + 1 /\ (posted' = posted + 1 \/ posted' = posted)
    BY <1>6 DEF ReceiveCover, Answered
  <2>2. Cardinality(Asking') = Cardinality(Asking) - 1 BY <1>1, <2>1, DoneCounts
  <2> QED BY <1>1, <2>1, <2>2
<1>7. ASSUME NEW c \in Tabs, LoadMeter(c)
      PROVE  UNCHANGED <<waiting, posted, delivered, asks>>
  BY <1>7 DEF LoadMeter
<1>8. ASSUME NEW f \in Profiles, BridgeReads(f) \/ BridgeWrites(f)
      PROVE  UNCHANGED <<waiting, posted, delivered, asks>>
  BY <1>8 DEF BridgeReads, BridgeWrites
<1>9. CASE Server BY <1>2, <1>9 DEF Server
<1> QED BY <1>2, <1>3, <1>4, <1>5, <1>6, <1>7, <1>8, <1>9
      DEF MeteredNext, Tab, Answer1

LEMMA MeteredStep == MeteredInv /\ [MeteredNext]_vars => MeteredInv'
<1> SUFFICES ASSUME MeteredInv, [MeteredNext]_vars PROVE MeteredInv' OBVIOUS
<1>1. IInv /\ [Next]_gateVars BY GateMoves DEF MeteredInv
<1>2. IInv' BY <1>1, EveryStep
<1> QED BY <1>2, TypesKept, AsksCover DEF MeteredInv

-----------------------------------------------------------------------------

\* The meter, the tokens and what the tabs wait for stay in their types.
THEOREM MeteredTypeCorrect == MeteredSpec => []MeteredTypeOK
<1>1. MeteredInv => MeteredTypeOK BY DEF MeteredInv
<1> QED BY MeteredInitially, MeteredStep, <1>1, PTL DEF MeteredSpec

\* Driven by any number of tabs that time out, ask again and share storage, the
\* codec still counts exactly what it served and what it holds reserved.
THEOREM MeteredCountsAreExact == MeteredSpec => []CountsExact
<1>1. MeteredInv => CountsExact BY DEF MeteredInv, IInv
<1> QED BY MeteredInitially, MeteredStep, <1>1, PTL DEF MeteredSpec

\* No tab receives a cover it did not ask for, and no message is posted twice
\* from one cover.
THEOREM CoversWereAsked == MeteredSpec => []NothingUnasked
<1>1. MeteredInv => NothingUnasked
  <2> SUFFICES ASSUME MeteredInv PROVE NothingUnasked OBVIOUS
  <2>1. /\ delivered \in Nat /\ asks \in Nat /\ Cardinality(Asking) \in Nat
        /\ posted <= delivered /\ delivered + Cardinality(Asking) <= asks
    BY AskingFinite DEF MeteredInv, MeteredTypeOK
  <2> QED BY <2>1 DEF NothingUnasked
<1> QED BY MeteredInitially, MeteredStep, <1>1, PTL DEF MeteredSpec


-----------------------------------------------------------------------------
(***************************************************************************)
(* The mirror.  With one tab, what the meter says follows the server       *)
(* through every step of a request, as long as no membership was delivered *)
(* and nothing was disturbed.  (Two tabs may handle their answers in the   *)
(* other order; then the older one stays in the storage.)                  *)
(***************************************************************************)

Sole(c) == Tabs = {c} /\ Profiles = {ProfileOf[c]}

\* What the meter should say with nothing in flight.
Tally == IF enforce THEN counts[Account] ELSE delivered

\* The encode the tab waits for, and the answer it has not handled.
Encoding(c) ==
  LET w == work[waiting[c]] IN
  /\ w.bucket = Account /\ w.reserved = enforce /\ ~w.member
  /\ enforce => w.remaining = FreeLimit - counts[Account] /\ meter[c].sends = counts[Account] - 1
  /\ ~enforce => w.remaining = -1 /\ meter[c].sends = delivered
Told(c) ==
  LET r == reply[waiting[c]] IN
  /\ r.status = 200 =>
       /\ ~r.member
       /\ enforce => r.remaining = FreeLimit - counts[Account]
       /\ ~enforce => r.remaining = -1 /\ meter[c].sends = delivered
  /\ r.status = 402 => enforce /\ counts[Account] = FreeLimit
  /\ r.status \notin {200, 402} => meter[c].sends = Tally

Follows(c) ==
  /\ stored[ProfileOf[c]] = meter[c]
  /\ waiting[c] = NoThread => meter[c].sends = Tally
  /\ waiting[c] # NoThread /\ work[waiting[c]] # Idle => Encoding(c)
  /\ waiting[c] # NoThread /\ work[waiting[c]] = Idle => Told(c)

\* All the codec is doing is what the tab waits for.
OthersIdle(c) == \A t \in Threads : t # waiting[c] => work[t] = Idle

MirrorInv(c) ==
  ~disturbed => OthersIdle(c) /\ (token[ProfileOf[c]] = NoToken => Follows(c))

LEMMA MirrorInitially ==
  ASSUME NEW c \in Tabs, MeteredInit
  PROVE  MirrorInv(c)
<1>1. ProfileOf[c] \in Profiles /\ Account \in Buckets BY MeterAssumption DEF Buckets
<1>2. /\ waiting[c] = NoThread /\ \A t \in Threads : work[t] = Idle
      /\ meter[c] = [sends |-> 0, paid |-> FALSE] /\ stored[ProfileOf[c]] = meter[c]
      /\ counts[Account] = 0 /\ delivered = 0
  BY <1>1 DEF MeteredInit, Init
<1> QED BY <1>2 DEF MirrorInv, OthersIdle, Follows, Tally

\* What the steps below start from.
LEMMA MirrorTypes ==
  ASSUME MeteredInv, NEW c \in Tabs
  PROVE  /\ FreeLimit \in Nat /\ Account \in Buckets /\ ProfileOf[c] \in Profiles
         /\ counts \in [Buckets -> Nat] /\ counts[Account] \in Nat /\ counts[Account] <= FreeLimit
         /\ enforce \in BOOLEAN /\ delivered \in Nat
         /\ work \in [Threads -> Work \cup {Idle}]
         /\ reply \in [Threads -> [status : Statuses, remaining : -1..FreeLimit, member : BOOLEAN]]
         /\ meter \in [Tabs -> Meter] /\ meter[c].sends \in Nat
         /\ stored \in [Profiles -> Meter]
         /\ waiting \in [Tabs -> Threads \cup {NoThread}] /\ NoThread \notin Threads
         /\ token \in [Profiles -> Token \cup {NoToken}]
<1>1. TypeOK /\ WithinLimit /\ MeteredTypeOK BY DEF MeteredInv, IInv
<1>2. Account \in Buckets /\ ProfileOf[c] \in Profiles /\ NoThread \notin Threads
  BY MeterAssumption DEF Buckets
<1>3. FreeLimit \in Nat BY GateAssumption
<1>4. meter[c] \in Meter BY <1>1 DEF MeteredTypeOK
<1>5. meter[c].sends \in Nat BY <1>4 DEF Meter
<1> QED BY <1>1, <1>2, <1>3, <1>5 DEF TypeOK, WithinLimit, MeteredTypeOK

\* A step that leaves the request, the counts and the meter alone.
LEMMA MirrorStands ==
  ASSUME NEW c \in Tabs, MirrorInv(c),
         UNCHANGED <<work, reply, counts, enforce, waiting, meter, delivered, disturbed>>,
         token'[ProfileOf[c]] = NoToken =>
           token[ProfileOf[c]] = NoToken /\ stored'[ProfileOf[c]] = stored[ProfileOf[c]]
  PROVE  MirrorInv(c)'
<1> SUFFICES ASSUME ~disturbed PROVE MirrorInv(c)' BY DEF MirrorInv
<1>1. OthersIdle(c)' BY DEF MirrorInv, OthersIdle
<1>2. ASSUME token'[ProfileOf[c]] = NoToken PROVE Follows(c)'
  <2>1. Follows(c) /\ stored'[ProfileOf[c]] = stored[ProfileOf[c]] BY <1>2 DEF MirrorInv
  <2> QED BY <2>1 DEF Follows, Tally, Encoding, Told
<1> QED BY <1>1, <1>2 DEF MirrorInv

\* The request that is made carries no membership and is refused or reserved.
LEMMA AskKeepsMirror ==
  ASSUME MeteredInv, NEW c, Sole(c), MirrorInv(c), Ask(c)
  PROVE  MirrorInv(c)'
<1>1. c \in Tabs BY DEF Sole
<1> DEFINE f == ProfileOf[c]
<1> SUFFICES ASSUME ~disturbed PROVE OthersIdle(c)' /\ (token[f] = NoToken => Follows(c)')
  BY DEF MirrorInv, Ask
<1>2. waiting[c] = NoThread /\ OthersIdle(c) BY DEF MirrorInv, Ask
<1>3. \A t \in Threads : work[t] = Idle BY <1>1, <1>2, MirrorTypes DEF OthersIdle
<1>4. PICK t \in Threads : /\ RefusePaused(t) \/ Encode(t, AskWith(c))
                           /\ waiting' = [waiting EXCEPT ![c] = t]
  BY DEF Ask
<1>5. waiting'[c] = t /\ t # NoThread BY <1>1, <1>4, MirrorTypes
<1>6. UNCHANGED <<meter, stored, token, delivered>> BY DEF Ask
<1>7. UNCHANGED enforce
  BY <1>4 DEF RefusePaused, Encode, Refuse, Reserve, EncodeUnmetered, settings
<1>8. \A u \in Threads \ {t} : work'[u] = work[u]
  BY <1>1, <1>4, MirrorTypes DEF RefusePaused, Encode, Refuse, Reserve, EncodeUnmetered, Start
<1>9. OthersIdle(c)' BY <1>3, <1>5, <1>8 DEF OthersIdle
<1>10. ASSUME token[f] = NoToken PROVE Follows(c)'
  <2>1. stored[f] = meter[c] /\ meter[c].sends = Tally
    BY <1>2, <1>10 DEF MirrorInv, Follows
  <2>2. Bucket(AskWith(c)) = Account
    BY MeterAssumption, GateAssumption DEF Bucket, NormHandle, AskWith
  <2>3. ~VerifyMembership(AskWith(c).token) BY <1>10 DEF VerifyMembership, AskWith
  <2>4. Gated(AskWith(c)) <=> enforce BY DEF Gated, AskWith
  <2>5. stored'[f] = meter'[c] BY <1>6, <2>1
  <2>6. CASE RefusePaused(t)
    <3>1. /\ reply'[t].status = 503 /\ work'[t] = Idle /\ counts' = counts
      BY <1>1, <1>3, <2>6, MirrorTypes DEF RefusePaused, Answer, Reply
    <3>2. Told(c)' BY <1>5, <1>6, <1>7, <2>1, <3>1 DEF Told, Tally
    <3> QED BY <1>5, <2>5, <3>1, <3>2 DEF Follows
  <2>7. CASE Refuse(t, AskWith(c))
    <3>1. /\ reply'[t].status = 402 /\ work'[t] = Idle /\ counts' = counts
          /\ counts[Account] >= FreeLimit /\ enforce
      BY <1>1, <1>3, <2>2, <2>4, <2>7, MirrorTypes DEF Refuse, Answer, Reply
    <3>2. counts[Account] = FreeLimit
      <4>1. FreeLimit \in Nat /\ counts[Account] \in Nat /\ counts[Account] <= FreeLimit
        BY <1>1, MirrorTypes
      <4>2. counts[Account] >= FreeLimit BY <3>1
      <4> QED BY <4>1, <4>2
    <3>3. enforce' = TRUE /\ counts'[Account] = FreeLimit
      BY <1>1, <1>7, <3>1, <3>2, MirrorTypes
    <3>4. Told(c)' BY <1>5, <3>1, <3>3 DEF Told
    <3> QED BY <1>5, <2>5, <3>1, <3>4 DEF Follows
  <2>8. CASE Reserve(t, AskWith(c))
    <3> DEFINE w == [bucket |-> Account, reserved |-> TRUE, member |-> FALSE,
                     remaining |-> FreeLimit - (counts[Account] + 1)]
    <3>1. work'[t] = w /\ counts'[Account] = counts[Account] + 1 /\ enforce
      BY <1>1, <2>2, <2>4, <2>8, MirrorTypes DEF Reserve, Start, Claim
    <3>2. w \in Work
      <4>1. counts[Account] < FreeLimit BY <2>2, <2>8 DEF Reserve
      <4>2. FreeLimit - (counts[Account] + 1) \in -1..FreeLimit BY <1>1, <4>1, MirrorTypes
      <4> QED BY <1>1, <4>2, MirrorTypes DEF Work
    <3>3. work'[t] # Idle BY <3>1, <3>2, IdleAssumption
    <3>4. Encoding(c)'
      <4>1. meter'[c].sends = counts'[Account] - 1
        BY <1>1, <1>6, <2>1, <3>1, MirrorTypes DEF Tally
      <4>2. w.remaining = FreeLimit - counts'[Account] BY <1>1, <3>1, MirrorTypes
      <4> QED BY <1>5, <1>7, <3>1, <4>1, <4>2 DEF Encoding
    <3> QED BY <1>5, <2>5, <3>3, <3>4 DEF Follows
  <2>9. CASE EncodeUnmetered(t, AskWith(c))
    <3> DEFINE w == [bucket |-> Account, reserved |-> FALSE, member |-> FALSE, remaining |-> -1]
    <3>1. ~enforce BY <2>3, <2>4, <2>9 DEF EncodeUnmetered
    <3>2. Gated(AskWith(c)) = FALSE BY <3>1 DEF Gated
    <3>3. work'[t] = w BY <1>1, <2>2, <2>9, <3>2, MirrorTypes DEF EncodeUnmetered, Start
    <3>4. w \in Work BY <1>1, MirrorTypes DEF Work
    <3>5. work'[t] # Idle BY <3>3, <3>4, IdleAssumption
    <3>6. enforce' = FALSE /\ ~enforce' /\ meter'[c].sends = delivered'
      BY <1>1, <1>6, <1>7, <2>1, <3>1, MirrorTypes DEF Tally
    <3>7. Encoding(c)'
      <4>1. /\ work'[waiting'[c]].bucket = Account /\ work'[waiting'[c]].reserved = FALSE
            /\ ~work'[waiting'[c]].member /\ work'[waiting'[c]].remaining = -1
        BY <1>5, <3>3
      <4> QED BY <3>6, <4>1 DEF Encoding
    <3> QED BY <1>5, <2>5, <3>5, <3>7 DEF Follows
  <2> QED BY <1>4, <2>6, <2>7, <2>8, <2>9 DEF Encode
<1> QED BY <1>9, <1>10

\* Whatever the answer was, the meter says what the server counted.
LEMMA AnswerKeepsMirror ==
  ASSUME MeteredInv, NEW c, Sole(c), MirrorInv(c), Answer1(c)
  PROVE  MirrorInv(c)'
<1>1. c \in Tabs BY DEF Sole
<1> DEFINE f == ProfileOf[c]
           r == reply[waiting[c]]
<1>2. /\ Answered(c) /\ Done(c)
      /\ UNCHANGED <<gateVars, token, disturbed>>
  BY DEF Answer1, MeetPaywall, AskFailed, ReceiveCover
<1> SUFFICES ASSUME ~disturbed PROVE OthersIdle(c)' /\ (token[f] = NoToken => Follows(c)')
  BY <1>2 DEF MirrorInv
<1>3. waiting'[c] = NoThread BY <1>1, <1>2, MirrorTypes DEF Done
<1>4. work' = work /\ counts' = counts /\ enforce' = enforce BY <1>2 DEF gateVars, settings
<1>5. \A t \in Threads : work[t] = Idle BY <1>2 DEF MirrorInv, OthersIdle, Answered
<1>6. OthersIdle(c)' BY <1>4, <1>5 DEF OthersIdle
<1>7. ASSUME token[f] = NoToken PROVE Follows(c)'
  <2>1. stored[f] = meter[c] /\ Told(c) BY <1>2, <1>7 DEF MirrorInv, Follows, Answered
  <2>2. CASE MeetPaywall(c)
    <3>1. /\ meter'[c] = [meter[c] EXCEPT !.sends = FreeLimit] /\ stored'[f] = meter'[c]
          /\ r.status = 402
      BY <1>1, <2>2, MirrorTypes DEF MeetPaywall, Persist
    <3>2. enforce /\ counts[Account] = FreeLimit BY <2>1, <3>1 DEF Told
    <3>3. meter[c] \in Meter BY <1>1, MirrorTypes
    <3>4. meter'[c].sends = FreeLimit BY <3>1, <3>3 DEF Meter
    <3> QED BY <1>3, <1>4, <3>1, <3>2, <3>4 DEF Follows, Tally
  <2>3. CASE AskFailed(c)
    <3>1. meter' = meter /\ stored' = stored /\ delivered' = delivered /\ r.status \notin {200, 402}
      BY <2>3 DEF AskFailed
    <3>2. meter[c].sends = Tally BY <2>1, <3>1 DEF Told
    <3> QED BY <1>3, <1>4, <2>1, <3>1, <3>2 DEF Follows, Tally
  <2>4. CASE ReceiveCover(c)
    <3>1. /\ meter'[c] = Counted(meter[c], r) /\ stored'[f] = meter'[c]
          /\ r.status = 200 /\ delivered' = delivered + 1
      BY <1>1, <2>4, MirrorTypes DEF ReceiveCover, Persist
    <3>2. meter[c] \in Meter BY <1>1, MirrorTypes
    <3>3. ~r.member BY <2>1, <3>1 DEF Told
    <3>4. CASE enforce
      <4>1. r.remaining = FreeLimit - counts[Account] BY <2>1, <3>1, <3>4 DEF Told
      <4>2. r.remaining >= 0 /\ FreeLimit - r.remaining = counts[Account]
        BY <1>1, <4>1, MirrorTypes
      <4>3. meter'[c] = [meter[c] EXCEPT !.sends = FreeLimit - r.remaining]
        BY <3>1, <3>3, <4>2 DEF Counted
      <4>4. meter'[c].sends = counts[Account] BY <3>2, <4>2, <4>3 DEF Meter
      <4> QED BY <1>3, <1>4, <3>1, <3>4, <4>4 DEF Follows, Tally
    <3>5. CASE ~enforce
      <4>1. r.remaining = -1 /\ meter[c].sends = delivered BY <2>1, <3>1, <3>5 DEF Told
      <4>2. meter'[c] = [meter[c] EXCEPT !.sends = @ + 1]
        BY <3>1, <3>3, <4>1 DEF Counted
      <4>3. meter'[c].sends = delivered' BY <3>1, <3>2, <4>1, <4>2 DEF Meter
      <4> QED BY <1>3, <1>4, <3>1, <3>5, <4>3 DEF Follows, Tally
    <3> QED BY <3>4, <3>5
  <2> QED BY <2>2, <2>3, <2>4 DEF Answer1
<1> QED BY <1>6, <1>7

\* The codec's answer to the one encode it is in.
LEMMA EncodeEndKeepsMirror ==
  ASSUME MeteredInv, NEW c, Sole(c), MirrorInv(c), ~disturbed,
         NEW t \in Threads, EncodeSucceeds(t) \/ EncodeFails(t),
         UNCHANGED <<meter, stored, token, waiting, delivered, disturbed>>
  PROVE  MirrorInv(c)'
<1>1. c \in Tabs BY DEF Sole
<1> DEFINE f == ProfileOf[c]
<1>2. work[t] # Idle /\ work' = [work EXCEPT ![t] = Idle] /\ UNCHANGED enforce
  BY DEF EncodeSucceeds, EncodeFails, settings
<1>3. t = waiting[c] /\ t # NoThread BY <1>1, <1>2, MirrorTypes DEF MirrorInv, OthersIdle
<1>4. work'[t] = Idle /\ \A u \in Threads \ {t} : work'[u] = work[u] BY <1>1, <1>2, MirrorTypes
<1>5. OthersIdle(c)' BY <1>3, <1>4 DEF MirrorInv, OthersIdle
<1>6. ASSUME token[f] = NoToken PROVE Follows(c)'
  <2>1. stored[f] = meter[c] /\ Encoding(c) BY <1>2, <1>3, <1>6 DEF MirrorInv, Follows
  <2>2. work[t] \in Work BY <1>1, <1>2, MirrorTypes
  <2>3. CASE EncodeSucceeds(t)
    <3>1. /\ reply'[t] = [status |-> 200, remaining |-> work[t].remaining, member |-> work[t].member]
          /\ counts' = counts
      BY <1>1, <2>3, MirrorTypes DEF EncodeSucceeds, Answer, Reply
    <3>2. Told(c)' BY <1>2, <1>3, <2>1, <3>1 DEF Told, Encoding
    <3> QED BY <1>3, <1>4, <2>1, <3>2 DEF Follows
  <2>4. CASE EncodeFails(t)
    <3>1. PICK status \in {400, 500} : Answer(t, status, -1, FALSE) BY <2>4 DEF EncodeFails
    <3>2. reply'[t].status \notin {200, 402}
      BY <1>1, <3>1, MirrorTypes DEF Answer, Reply
    <3>3. meter[c].sends = Tally'
      <4>1. CASE enforce
        <5>1. work[t].reserved /\ work[t].bucket = Account /\ meter[c].sends = counts[Account] - 1
          BY <1>3, <2>1, <4>1 DEF Encoding
        <5>2. counts[Account] # 0 BY <1>1, <5>1, MirrorTypes
        <5>3. Refund(Account) BY <2>4, <5>1 DEF EncodeFails
        <5>4. counts'[Account] = counts[Account] - 1
          BY <1>1, <5>2, <5>3, MirrorTypes DEF Refund
        <5> QED BY <1>2, <4>1, <5>1, <5>4 DEF Tally
      <4>2. CASE ~enforce BY <1>2, <2>1, <4>2 DEF Tally, Encoding
      <4> QED BY <4>1, <4>2
    <3>4. Told(c)' BY <1>3, <3>2, <3>3 DEF Told
    <3> QED BY <1>3, <1>4, <2>1, <3>4 DEF Follows
  <2> QED BY <2>3, <2>4
<1> QED BY <1>5, <1>6 DEF MirrorInv

LEMMA MirrorStep ==
  ASSUME MeteredInv, NEW c, Sole(c), MirrorInv(c), [MeteredNext]_vars
  PROVE  MirrorInv(c)'
<1> DEFINE f == ProfileOf[c]
<1>1. c \in Tabs /\ Tabs = {c} /\ Profiles = {f} BY DEF Sole
<1>2. CASE UNCHANGED vars
  BY <1>1, <1>2, MirrorStands DEF vars, gateVars, clientVars, settings
<1>3. CASE Ask(c) BY <1>3, AskKeepsMirror
<1>4. CASE Answer1(c) BY <1>4, AnswerKeepsMirror
<1>5. CASE Timeout(c) BY <1>5 DEF Timeout, MirrorInv
<1>6. CASE LoadMeter(c)
  <2> SUFFICES ASSUME ~disturbed PROVE MirrorInv(c)' BY <1>6 DEF LoadMeter, MirrorInv
  <2>1. token[f] # NoToken BY <1>6 DEF LoadMeter, MirrorInv, Follows
  <2>2. token' = token /\ work' = work /\ waiting' = waiting
    BY <1>6 DEF LoadMeter, gateVars
  <2> QED BY <2>1, <2>2 DEF MirrorInv, OthersIdle
<1>7. CASE BridgeReads(f)
  BY <1>1, <1>7, MirrorStands DEF BridgeReads, gateVars, settings
<1>8. CASE BridgeWrites(f)
  <2>1. PICK k \in Token : token' = [token EXCEPT ![f] = k] BY <1>8 DEF BridgeWrites
  <2>2. token'[f] # NoToken BY <1>1, <2>1, MirrorTypes, IdleAssumption
  <2> QED BY <1>1, <1>8, <2>2, MirrorStands DEF BridgeWrites, gateVars, settings
<1>9. CASE Server
  <2>1. UNCHANGED <<meter, stored, token, waiting, delivered>> BY <1>9 DEF Server
  <2>2. ASSUME NEW t \in Threads, EncodeSucceeds(t) \/ EncodeFails(t), UNCHANGED disturbed
        PROVE  MirrorInv(c)'
    <3>1. CASE disturbed BY <2>2, <3>1 DEF MirrorInv
    <3>2. CASE ~disturbed BY <2>1, <2>2, <3>2, EncodeEndKeepsMirror
    <3> QED BY <3>1, <3>2
  <2>3. CASE Tick /\ UNCHANGED disturbed
    BY <1>1, <2>1, <2>3, MirrorStands DEF Tick, settings
  <2>4. CASE disturbed' = TRUE BY <2>4 DEF MirrorInv
  <2> QED BY <1>9, <2>2, <2>3, <2>4 DEF Server
<1> QED BY <1>1, <1>2, <1>3, <1>4, <1>5, <1>6, <1>7, <1>8, <1>9 DEF MeteredNext, Tab

LEMMA MirrorMeans ==
  ASSUME NEW c, Sole(c), MeteredInv, MirrorInv(c), Settled
  PROVE  /\ \A f \in Profiles : token[f] = NoToken => stored[f].sends = Tally
         /\ \A d \in Tabs : LocalRefusal(d) => Tally >= FreeLimit
<1>1. c \in Tabs /\ Tabs = {c} /\ Profiles = {ProfileOf[c]} BY DEF Sole
<1>2. token[ProfileOf[c]] = NoToken => stored[ProfileOf[c]] = meter[c] /\ meter[c].sends = Tally
  BY <1>1 DEF Settled, MirrorInv, Follows
<1> QED BY <1>1, <1>2, MirrorTypes DEF LocalRefusal, Blocked

LEMMA MirrorInitialStep ==
  ASSUME NEW c, Sole(c)
  PROVE  /\ MeteredInit => MeteredInv /\ MirrorInv(c)
         /\ MeteredInv /\ MirrorInv(c) /\ [MeteredNext]_vars => (MeteredInv /\ MirrorInv(c))'
<1>1. MeteredInit => MeteredInv /\ MirrorInv(c) BY MeteredInitially, MirrorInitially DEF Sole
<1>2. MeteredInv /\ MirrorInv(c) /\ [MeteredNext]_vars => (MeteredInv /\ MirrorInv(c))'
  BY MeteredStep, MirrorStep
<1> QED BY <1>1, <1>2

\* With one tab on the profile the mirror is exact: for any limit, any faults and
\* however the app delivers memberships meanwhile, the stored count is the
\* server's once nothing is in flight.
THEOREM MirrorIsExact ==
  ASSUME NEW c, Sole(c)
  PROVE  MeteredSpec => []MirrorsServer
<1>1. MeteredInv /\ MirrorInv(c) => MirrorsServer
  BY MirrorMeans DEF MirrorsServer, Tally
<1> QED BY MirrorInitialStep, <1>1, PTL DEF MeteredSpec

\* A tab that refuses on its own spares a request that was lost anyway.
THEOREM RefusalIsDoomed ==
  ASSUME NEW c, Sole(c)
  PROVE  MeteredSpec => []LocalRefusalIsDoomed
<1>1. MeteredInv /\ MirrorInv(c) => LocalRefusalIsDoomed
  BY MirrorMeans DEF LocalRefusalIsDoomed, Tally
<1> QED BY MirrorInitialStep, <1>1, PTL DEF MeteredSpec

\* Against a codec that does not meter, the tab counts the covers it received.
THEOREM DeliveriesAreCounted ==
  ASSUME NEW c, Sole(c)
  PROVE  MeteredSpec => []CountsDeliveries
<1>1. MeteredInv /\ MirrorInv(c) => CountsDeliveries
  BY MirrorMeans DEF CountsDeliveries, Tally
<1> QED BY MirrorInitialStep, <1>1, PTL DEF MeteredSpec

=============================================================================
