------------------------- MODULE CodecServiceProofs -------------------------
(***************************************************************************)
(* For every number of requests, payments, buckets and faults: a settled   *)
(* payment buys at most one token, and nothing else buys one, first of the *)
(* shop alone and then of the service it is part of; and the gate of that  *)
(* service, shown the tokens the shop sells, still keeps the quota.        *)
(***************************************************************************)
EXTENDS CodecService, TLAPS

GP == INSTANCE CodecGateProofs WITH Threads <- Encoders

\* A thread that is about to mint serves a settled payment, alone, and no token
\* has been minted for it yet.
MintsOnce ==
  \A t \in Threads : stage[t] = "mint" =>
    /\ paying[t] \in spent
    /\ \A k \in tokens : k.payment # paying[t]
    /\ \A u \in Threads : stage[u] = "mint" /\ paying[u] = paying[t] => u = t

IInv == TypeOK /\ OneTokenPerPayment /\ MintsOnce

-----------------------------------------------------------------------------

LEMMA Initially == Init => IInv
BY PaywallAssumption DEF Init, IInv, TypeOK, OneTokenPerPayment, MintsOnce, Stages

\* A thread that serves a payment serves one of Payments.
LEMMA Serving ==
  ASSUME TypeOK, NEW t \in Threads, stage[t] # "idle"
  PROVE  paying[t] \in Payments
BY DEF TypeOK

LEMMA FaultsTyped ==
  ASSUME TypeOK, faults' = faults \/ \E k \in FaultKinds : Fault(k)
  PROVE  faults' \in 0..MaxFaults
BY PaywallAssumption DEF TypeOK, Fault

\* Returning leaves the thread idle and the other threads as they were.
LEMMA Returned ==
  ASSUME TypeOK, NEW t \in Threads, NEW s \in {0, 200, 402}, Return(t, s)
  PROVE  /\ stage' \in [Threads -> Stages] /\ stage'[t] = "idle"
         /\ paying' \in [Threads -> Payments \cup {NoPayment}]
         /\ paying'[t] = NoPayment
         /\ answer' \in [Threads -> {0, 200, 402}]
         /\ \A u \in Threads \ {t} : stage'[u] = stage[u] /\ paying'[u] = paying[u]
BY DEF TypeOK, Return, Stages

\* A thread that gives up mints nothing, and leaves the payments alone or adds
\* the one it served.
LEMMA GivingUp ==
  ASSUME IInv, NEW t \in Threads,
         Unpaid(t) \/ NotVerified(t) \/ NotSettled(t)
  PROVE  IInv'
<1>1. Return(t, 402) /\ UNCHANGED <<payer, tokens, now>>
  BY DEF Unpaid, NotVerified, NotSettled
<1>2. /\ stage' \in [Threads -> Stages] /\ stage'[t] = "idle"
      /\ paying' \in [Threads -> Payments \cup {NoPayment}]
      /\ paying'[t] = NoPayment
      /\ answer' \in [Threads -> {0, 200, 402}]
      /\ \A u \in Threads \ {t} : stage'[u] = stage[u] /\ paying'[u] = paying[u]
  BY <1>1, Returned DEF IInv
<1>3. spent \subseteq spent' /\ spent' \in SUBSET Payments
  BY Serving DEF Unpaid, NotVerified, NotSettled, IInv, TypeOK
<1>4. faults' \in 0..MaxFaults
  BY FaultsTyped DEF Unpaid, NotVerified, NotSettled, FaultKinds, IInv
<1>5. TypeOK' BY <1>1, <1>2, <1>3, <1>4 DEF IInv, TypeOK
<1>6. OneTokenPerPayment' BY <1>1, <1>3 DEF IInv, OneTokenPerPayment
<1>7. MintsOnce' BY <1>1, <1>2, <1>3 DEF IInv, MintsOnce
<1> QED BY <1>5, <1>6, <1>7 DEF IInv

\* The payment is presented and verified: nobody mints yet.
LEMMA GoingOn ==
  ASSUME IInv, NEW t \in Threads,
         Verified(t) \/ \E p \in Payments : Present(t, p)
  PROVE  IInv'
<1>1. UNCHANGED <<answer, spent, tokens, now, faults>>
  BY DEF Verified, Present
<1>2. /\ stage' \in [Threads -> Stages] /\ stage'[t] \in {"verify", "settle"}
      /\ paying' \in [Threads -> Payments \cup {NoPayment}]
      /\ payer' \in [Threads -> BOOLEAN] /\ paying'[t] # NoPayment
      /\ \A u \in Threads \ {t} : stage'[u] = stage[u] /\ paying'[u] = paying[u]
  <2>0. /\ stage \in [Threads -> Stages] /\ payer \in [Threads -> BOOLEAN]
        /\ paying \in [Threads -> Payments \cup {NoPayment}]
    BY DEF IInv, TypeOK
  <2>1. CASE Verified(t)
    <3>1. /\ stage[t] = "verify" /\ stage' = [stage EXCEPT ![t] = "settle"]
          /\ UNCHANGED <<paying, payer>>
      BY <2>1 DEF Verified, Move
    <3>2. paying[t] # NoPayment BY <3>1, Serving, PaywallAssumption DEF IInv
    <3> QED BY <2>0, <3>1, <3>2 DEF Stages
  <2>2. ASSUME NEW p \in Payments, Present(t, p)
        PROVE  /\ stage' = [stage EXCEPT ![t] = "verify"]
               /\ paying' = [paying EXCEPT ![t] = p]
               /\ payer' = [payer EXCEPT ![t] = FALSE]
               /\ p # NoPayment
    BY <2>2, PaywallAssumption DEF Present, Move
  <2> QED BY <2>0, <2>1, <2>2 DEF Stages
<1>3. TypeOK' BY <1>1, <1>2 DEF IInv, TypeOK
<1>4. OneTokenPerPayment' BY <1>1 DEF IInv, OneTokenPerPayment
<1>5. MintsOnce' BY <1>1, <1>2 DEF IInv, MintsOnce
<1> QED BY <1>3, <1>4, <1>5 DEF IInv

\* The settlement: the payment was not spent before, so no token and no other
\* thread about to mint has it.
LEMMA Settling ==
  ASSUME IInv, NEW t \in Threads, Settled(t)
  PROVE  IInv'
<1>1. /\ UNCHANGED <<paying, answer, tokens, now>> /\ paying[t] \notin spent
      /\ spent' = spent \cup {paying[t]}
  BY DEF Settled
<1>2. paying[t] \in Payments BY Serving DEF Settled, IInv
<1>3. /\ stage' \in [Threads -> Stages] /\ stage'[t] = "mint"
      /\ payer' \in [Threads -> BOOLEAN]
      /\ \A u \in Threads \ {t} : stage'[u] = stage[u]
  <2>1. /\ stage \in [Threads -> Stages] /\ payer \in [Threads -> BOOLEAN]
    BY DEF IInv, TypeOK
  <2>2. stage' = [stage EXCEPT ![t] = "mint"] BY DEF Settled, Move
  <2>3. payer' = payer \/ payer' = [payer EXCEPT ![t] = TRUE] BY DEF Settled
  <2> QED BY <2>1, <2>2, <2>3 DEF Stages
<1>4. faults' \in 0..MaxFaults
  BY FaultsTyped DEF Settled, FaultKinds, IInv
<1>5. TypeOK' BY <1>1, <1>2, <1>3, <1>4, PaywallAssumption DEF IInv, TypeOK
<1>6. OneTokenPerPayment' BY <1>1 DEF IInv, OneTokenPerPayment
<1>7. ASSUME NEW u \in Threads, stage'[u] = "mint"
      PROVE  /\ paying[u] \in spent'
             /\ \A k \in tokens : k.payment # paying[u]
             /\ \A v \in Threads : stage'[v] = "mint" /\ paying[v] = paying[u] => v = u
  BY <1>1, <1>3, <1>7 DEF IInv, MintsOnce, OneTokenPerPayment
<1>8. MintsOnce' BY <1>1, <1>7 DEF MintsOnce
<1> QED BY <1>5, <1>6, <1>8 DEF IInv

\* The token is minted, and the thread is done with its payment.
LEMMA Minting ==
  ASSUME IInv, NEW t \in Threads, Mint(t)
  PROVE  IInv'
<1>1. stage[t] = "mint" /\ UNCHANGED <<payer, spent, now, faults>> BY DEF Mint
<1>2. paying[t] \in Payments /\ paying[t] \in spent
  BY <1>1, Serving DEF IInv, MintsOnce
<1>3. /\ stage' \in [Threads -> Stages] /\ stage'[t] = "idle"
      /\ paying' \in [Threads -> Payments \cup {NoPayment}]
      /\ paying'[t] = NoPayment
      /\ answer' \in [Threads -> {0, 200, 402}]
      /\ \A u \in Threads \ {t} : stage'[u] = stage[u] /\ paying'[u] = paying[u]
  BY Returned DEF Mint, IInv
<1> DEFINE new == [payment |-> paying[t], thread |-> t, nul |-> payer[t],
                   exp |-> now + Ttl]
<1>4. new \in Token
  <2>1. now + Ttl \in Nat BY PaywallAssumption DEF IInv, TypeOK
  <2>2. payer[t] \in BOOLEAN BY DEF IInv, TypeOK
  <2> QED BY <1>2, <2>1, <2>2 DEF Token
<1>5. tokens' = tokens \/ tokens' = tokens \cup {new} BY DEF Mint
<1>6. TypeOK'
  <2>1. tokens' \in SUBSET Token BY <1>4, <1>5 DEF IInv, TypeOK
  <2> QED BY <1>1, <1>3, <2>1 DEF IInv, TypeOK
<1>7. \A k \in tokens : k.payment # paying[t] BY <1>1 DEF IInv, MintsOnce
<1>8. new.payment = paying[t] OBVIOUS
<1>9. OneTokenPerPayment'
  BY <1>1, <1>2, <1>5, <1>7, <1>8 DEF IInv, OneTokenPerPayment
<1>10. MintsOnce'
  <2> SUFFICES ASSUME NEW u \in Threads, stage'[u] = "mint"
               PROVE  /\ paying'[u] \in spent'
                      /\ \A k \in tokens' : k.payment # paying'[u]
                      /\ \A v \in Threads :
                           stage'[v] = "mint" /\ paying'[v] = paying'[u] => v = u
    BY DEF MintsOnce
  <2>1. u # t /\ stage[u] = "mint" /\ paying'[u] = paying[u] BY <1>3
  <2>2. paying[u] # paying[t] BY <1>1, <2>1 DEF IInv, MintsOnce
  <2>3. \A v \in Threads : stage'[v] = "mint"
          => v # t /\ stage[v] = "mint" /\ paying'[v] = paying[v]
    BY <1>3
  <2> QED BY <1>1, <1>5, <1>8, <2>1, <2>2, <2>3 DEF IInv, MintsOnce
<1> QED BY <1>6, <1>9, <1>10 DEF IInv

LEMMA EveryStep == IInv /\ [Next]_vars => IInv'
<1> SUFFICES ASSUME IInv, [Next]_vars PROVE IInv' OBVIOUS
<1>1. CASE UNCHANGED vars
  BY <1>1 DEF vars, IInv, TypeOK, OneTokenPerPayment, MintsOnce
<1>2. CASE Tick
  BY <1>2, PaywallAssumption DEF Tick, IInv, TypeOK, OneTokenPerPayment, MintsOnce
<1>3. ASSUME NEW t \in Threads, Handle(t) PROVE IInv'
  BY <1>3, GivingUp, GoingOn, Settling, Minting DEF Handle
<1> QED BY <1>1, <1>2, <1>3 DEF Next

\* However often and however concurrently payments are presented: one settled
\* payment, at most one token, and no token without a settled payment.
THEOREM PaymentsBuyOnce == Spec => []OneTokenPerPayment
<1>1. IInv => OneTokenPerPayment BY DEF IInv
<1> QED BY Initially, EveryStep, <1>1, PTL DEF Spec

-----------------------------------------------------------------------------
(***************************************************************************)
(* The service.  The shop's steps leave the gate alone and the gate's the  *)
(* shop; they share the clock and the restart.                             *)
(***************************************************************************)

ServiceInv == IInv /\ GP!IInv

\* What CodecGate assumes of its constants holds of the ones it is given.
LEMMA EncodersGiven ==
  /\ GP!IsFiniteSet(Encoders) /\ FreeLimit \in Nat /\ MaxTime \in Nat
  /\ HasSecret \in BOOLEAN /\ NoHandle \notin Names
  /\ Idle \notin GP!Work /\ NoToken \notin GP!Token
<1>1. GP!IsFiniteSet(Encoders) BY ServiceAssumption DEF GP!IsFiniteSet, IsFiniteSet
<1>2. Idle \notin GP!Work /\ NoToken \notin GP!Token
  BY ServiceAssumption DEF GP!Work, Gate!Work, GP!Token, Gate!Token, GP!Buckets, Gate!Buckets
<1> QED BY <1>1, <1>2, ServiceAssumption, PaywallAssumption

\* The two names of one gate: the service's, and the one the proofs are about.
LEMMA SameEncode ==
  ASSUME NEW t, NEW r, Gate!Encode(t, r)
  PROVE  GP!Encode(t, r)
BY DEF Gate!Encode, Gate!Refuse, Gate!Reserve, Gate!EncodeUnmetered, Gate!Gated,
       Gate!VerifyMembership, Gate!Bucket, Gate!NormHandle, Gate!Claim, Gate!Start, Gate!Answer,
       Gate!Reply, Gate!settings,
       GP!Encode, GP!Refuse, GP!Reserve, GP!EncodeUnmetered, GP!Gated,
       GP!VerifyMembership, GP!Bucket, GP!NormHandle, GP!Claim, GP!Start, GP!Answer,
       GP!Reply, GP!settings

LEMMA SameAnswers ==
  ASSUME NEW t,
         \/ Gate!RefusePaused(t) \/ Gate!BadRequest(t)
         \/ Gate!EncodeSucceeds(t) \/ Gate!EncodeFails(t)
  PROVE  \/ GP!RefusePaused(t) \/ GP!BadRequest(t)
         \/ GP!EncodeSucceeds(t) \/ GP!EncodeFails(t)
<1>1. CASE Gate!RefusePaused(t) \/ Gate!BadRequest(t)
  BY <1>1 DEF Gate!RefusePaused, Gate!BadRequest, Gate!Answer, Gate!Reply, Gate!settings,
       GP!RefusePaused, GP!BadRequest, GP!Answer, GP!Reply, GP!settings
<1>2. CASE Gate!EncodeSucceeds(t)
  BY <1>2 DEF Gate!EncodeSucceeds, Gate!Answer, Gate!Reply, Gate!settings,
       GP!EncodeSucceeds, GP!Answer, GP!Reply, GP!settings
<1>3. CASE Gate!EncodeFails(t)
  BY <1>3 DEF Gate!EncodeFails, Gate!Refund, Gate!Answer, Gate!Reply, Gate!settings,
       GP!EncodeFails, GP!Refund, GP!Answer, GP!Reply, GP!settings
<1> QED BY <1>1, <1>2, <1>3

LEMMA SameQuota ==
  /\ GP!Quota!Next = Gate!Quota!Next /\ GP!Quota!Fresh = Gate!Quota!Fresh
  /\ GP!Quota!Init = Gate!Quota!Init
BY DEF GP!Quota!Next, Gate!Quota!Next, GP!Quota!Forget, Gate!Quota!Forget, GP!Quota!Serve,
       Gate!Quota!Serve, GP!Quota!Fresh, Gate!Quota!Fresh, GP!Quota!Init, Gate!Quota!Init,
       GP!Buckets, Gate!Buckets

\* A step of an encoding thread is a step of CodecGate, for any token presented,
\* and leaves the shop and the clock alone.
LEMMA EncoderKeeps ==
  ASSUME ServiceInv, NEW t \in Encoders, EncodeRequest(t) \/ OtherAnswer(t)
  PROVE  ServiceInv' /\ (Gate!Quota!Next \/ served' = served)
<1>1. UNCHANGED vars
  BY DEF EncodeRequest, OtherAnswer, Gate!Encode, Gate!Refuse, Gate!Reserve, Gate!EncodeUnmetered,
         Gate!RefusePaused, Gate!BadRequest, Gate!EncodeSucceeds, Gate!EncodeFails, shopOnly, vars
<1>2. IInv' BY <1>1, EveryStep DEF ServiceInv
<1>3. CASE EncodeRequest(t)
  <2>1. PICK r \in [handle : Names \cup {NoHandle}, fast : BOOLEAN, token : Presentable] :
          Gate!Encode(t, r)
    BY <1>3 DEF EncodeRequest
  <2>2. r.handle \in Names \cup {NoHandle} /\ GP!Encode(t, r) BY <2>1, SameEncode
  <2>3. GP!IInv' /\ (GP!Quota!Next \/ served' = served)
    BY <2>2, EncodersGiven, GP!ThreadKeeps DEF ServiceInv
  <2> QED BY <1>2, <2>3, SameQuota DEF ServiceInv
<1>4. CASE OtherAnswer(t)
  <2> DEFINE r == [handle |-> NoHandle]
  <2>1. r.handle \in Names \cup {NoHandle} OBVIOUS
  <2>2. \/ GP!RefusePaused(t) \/ GP!BadRequest(t)
        \/ GP!EncodeSucceeds(t) \/ GP!EncodeFails(t)
    BY <1>4, SameAnswers DEF OtherAnswer
  <2>3. GP!IInv' /\ (GP!Quota!Next \/ served' = served)
    BY <2>1, <2>2, EncodersGiven, GP!ThreadKeeps DEF ServiceInv
  <2> QED BY <1>2, <2>3, SameQuota DEF ServiceInv
<1> QED BY <1>3, <1>4

\* A step of the shop, which the gate does not see.
LEMMA SaleKeeps ==
  ASSUME ServiceInv, UNCHANGED serviceVars \/ \E t \in Threads : Sell(t)
  PROVE  ServiceInv' /\ served' = served
<1>1. UNCHANGED gateOnly /\ now' = now
  BY DEF serviceVars, vars, Sell, Handle, Unpaid, Present, Verified, NotVerified, Settled,
         NotSettled, Mint
<1>2. UNCHANGED GP!gateVars BY <1>1 DEF gateOnly, GP!gateVars, GP!settings
<1>3. GP!IInv' BY <1>2, EncodersGiven, GP!EveryStep DEF ServiceInv
<1>4. [Next]_vars BY DEF serviceVars, Sell, Next
<1>5. IInv' BY <1>4, EveryStep DEF ServiceInv
<1> QED BY <1>1, <1>3, <1>5 DEF ServiceInv, gateOnly

\* The clock both of them read.
LEMMA ClockKeeps ==
  ASSUME ServiceInv, Tick, UNCHANGED gateOnly
  PROVE  ServiceInv' /\ served' = served
<1>1. GP!Tick BY DEF Tick, gateOnly, GP!Tick, GP!settings
<1>2. GP!IInv' BY <1>1, EncodersGiven, GP!ProcessKeeps DEF ServiceInv
<1>3. [Next]_vars BY DEF Next
<1>4. IInv' BY <1>3, EveryStep DEF ServiceInv
<1> QED BY <1>2, <1>4 DEF ServiceInv, gateOnly

\* A restart drops every request of both; payments stay settled, tokens signed.
LEMMA RestartKeeps ==
  ASSUME ServiceInv, ServiceRestart
  PROVE  ServiceInv' /\ (Gate!Quota!Next \/ served' = served)
<1>1. GP!Restart
  BY DEF ServiceRestart, Gate!Restart, Gate!Buckets, Gate!NoReply, Gate!Reply,
         GP!Restart, GP!Buckets, GP!NoReply, GP!Reply
<1>2. GP!IInv' BY <1>1, EncodersGiven, GP!ProcessKeeps DEF ServiceInv
<1>3. Gate!Quota!Next
  BY DEF ServiceRestart, Gate!Restart, Gate!Quota!Next, Gate!Quota!Forget, Gate!Quota!Fresh
<1>4. /\ UNCHANGED <<spent, tokens, now>> /\ faults' \in 0..MaxFaults
  BY PaywallAssumption DEF ServiceRestart, Gate!Restart, ServiceInv, IInv, TypeOK
<1>5. TypeOK' BY <1>4 DEF ServiceRestart, ServiceInv, IInv, TypeOK, Stages
<1>6. OneTokenPerPayment' /\ MintsOnce'
  BY <1>4 DEF ServiceRestart, ServiceInv, IInv, OneTokenPerPayment, MintsOnce
<1> QED BY <1>2, <1>3, <1>5, <1>6 DEF ServiceInv, IInv

LEMMA ServiceStep ==
  ASSUME ServiceInv, [ServiceNext]_serviceVars
  PROVE  ServiceInv' /\ (Gate!Quota!Next \/ served' = served)
BY EncoderKeeps, SaleKeeps, ClockKeeps, RestartKeeps DEF ServiceNext

LEMMA ServiceInitially == ServiceInit => ServiceInv /\ Gate!Quota!Init
<1> SUFFICES ASSUME ServiceInit PROVE ServiceInv /\ Gate!Quota!Init OBVIOUS
<1>1. IInv BY Initially DEF ServiceInit
<1>2. GP!Init
  BY DEF ServiceInit, Gate!Init, Gate!Buckets, Gate!NoReply, Gate!Reply,
         GP!Init, GP!Buckets, GP!NoReply, GP!Reply
<1>3. GP!IInv BY <1>2, EncodersGiven, GP!Initially
<1>4. Gate!Quota!Init BY DEF ServiceInit, Gate!Init, Gate!Quota!Init, Gate!Quota!Fresh
<1> QED BY <1>1, <1>3, <1>4 DEF ServiceInv

\* In the whole service, with encodes beside the purchases and restarts between
\* any two of their steps, a settled payment still buys one token.
THEOREM ServiceSellsOnce == ServiceSpec => []OneTokenPerPayment
<1>1. ServiceInv /\ [ServiceNext]_serviceVars => ServiceInv' BY ServiceStep
<1>2. ServiceInv => OneTokenPerPayment BY DEF ServiceInv, IInv
<1> QED BY ServiceInitially, <1>1, <1>2, PTL DEF ServiceSpec

\* The gate that honours the tokens the shop has sold hands out no more free
\* covers than FreeQuota allows, whatever is bought meanwhile.
THEOREM ServiceImplementsQuota == ServiceSpec => ImplementsQuota
<1>1. ServiceInv /\ [ServiceNext]_serviceVars => ServiceInv' /\ [Gate!Quota!Next]_served
  BY ServiceStep
<1> QED BY ServiceInitially, <1>1, PTL
      DEF ServiceSpec, ImplementsQuota, Gate!ImplementsQuota, Gate!Quota!Spec

=============================================================================
