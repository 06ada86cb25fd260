------------------------------ MODULE Paywall ------------------------------
(***************************************************************************)
(* The x402 resource /membership of the codec: an unpaid request learns    *)
(* what to pay, a paid one is verified and then settled at a facilitator,  *)
(* and a settled payment buys a signed membership token (codec/server.py   *)
(* _membership, codec/auth.py verify_payment and sign_token).              *)
(*                                                                         *)
(* The facilitator is external: it settles a payment authorisation at most *)
(* once, and its answers may be lost or may not name the payer.            *)
(***************************************************************************)
EXTENDS Integers, FiniteSets

CONSTANTS
  Threads,     \* handler threads
  Payments,    \* signed payment authorisations (X-PAYMENT headers)
  NoPayment,   \* a thread that serves no payment
  HasSecret,   \* CODEC_SECRET is set
  Ttl,         \* MEMBERSHIP_TTL
  Faults,      \* what may go wrong here, see FaultKinds
  MaxTime,     \* bound: the clock
  MaxFaults    \* bound: faults

FaultKinds == {"invalid", "outage", "lost", "anonymous"}

ASSUME PaywallAssumption ==
  /\ HasSecret \in BOOLEAN /\ Faults \subseteq FaultKinds
  /\ Ttl \in Nat /\ MaxTime \in Nat /\ MaxFaults \in Nat
  /\ NoPayment \notin Payments

VARIABLES
  stage,    \* stage[t]: where thread t is with its payment
  paying,   \* paying[t]: the payment thread t serves
  payer,    \* payer[t]: the receipt names who paid
  answer,   \* answer[t]: status of the last answer, 0 for a dropped connection
  spent,    \* external: payments the facilitator has settled
  tokens,   \* tokens minted: what paid for them, by which thread, until when
  now,
  faults

vars == <<stage, paying, payer, answer, spent, tokens, now, faults>>

Stages == {"idle", "verify", "settle", "mint"}
Token == [payment : Payments, thread : Threads, nul : BOOLEAN, exp : Nat]

Fault(k) == k \in Faults /\ faults < MaxFaults /\ faults' = faults + 1

Move(t, s) == stage' = [stage EXCEPT ![t] = s]

\* The handler returns: it answers and forgets the payment.
Return(t, status) ==
  /\ stage' = [stage EXCEPT ![t] = "idle"]
  /\ paying' = [paying EXCEPT ![t] = NoPayment]
  /\ answer' = [answer EXCEPT ![t] = status]

-----------------------------------------------------------------------------

\* No X-PAYMENT, or one that does not parse: 402 with the requirements.
Unpaid(t) ==
  /\ stage[t] = "idle"
  /\ Return(t, 402)
  /\ UNCHANGED <<payer, spent, tokens, now, faults>>

\* A payment is presented, possibly for the second time.
Present(t, p) ==
  /\ stage[t] = "idle"
  /\ Move(t, "verify")
  /\ paying' = [paying EXCEPT ![t] = p]
  /\ payer' = [payer EXCEPT ![t] = FALSE]
  /\ UNCHANGED <<answer, spent, tokens, now, faults>>

\* Mutant: a verified payment is taken for a settled one.
VerifiedIsEnough(t) ==
  /\ stage[t] = "verify" /\ paying[t] \notin spent
  /\ Move(t, "mint")
  /\ payer' = [payer EXCEPT ![t] = TRUE]
  /\ UNCHANGED <<paying, answer, spent, tokens, now, faults>>

\* /verify says the payment is good: nothing is settled yet.
Verified(t) ==
  /\ stage[t] = "verify" /\ paying[t] \notin spent
  /\ Move(t, "settle")
  /\ UNCHANGED <<paying, payer, answer, spent, tokens, now, faults>>

\* /verify refuses: the payment is used up, was never good, or nobody answers.
NotVerified(t) ==
  /\ stage[t] = "verify"
  /\ \/ paying[t] \in spent /\ UNCHANGED faults
     \/ Fault("invalid") \/ Fault("outage")
  /\ Return(t, 402)
  /\ UNCHANGED <<payer, spent, tokens, now>>

\* /settle succeeds and its receipt arrives, usually naming the payer.
Settled(t) ==
  /\ stage[t] = "settle" /\ paying[t] \notin spent
  /\ spent' = spent \cup {paying[t]}
  /\ \/ payer' = [payer EXCEPT ![t] = TRUE] /\ UNCHANGED faults
     \/ Fault("anonymous") /\ UNCHANGED payer
  /\ Move(t, "mint")
  /\ UNCHANGED <<paying, answer, tokens, now>>

\* No receipt: the payment was settled by another request meanwhile, /settle was
\* never reached, or it succeeded and the answer timed out.  All three look alike.
NotSettled(t) ==
  /\ stage[t] = "settle"
  /\ \/ paying[t] \in spent /\ UNCHANGED <<spent, faults>>
     \/ Fault("outage") /\ UNCHANGED spent
     \/ Fault("lost") /\ spent' = spent \cup {paying[t]}
  /\ Return(t, 402)
  /\ UNCHANGED <<payer, tokens, now>>

\* sign_token: raises without a secret, and the connection is dropped.
Mint(t) ==
  /\ stage[t] = "mint"
  /\ IF HasSecret
       THEN /\ tokens' = tokens \cup
                 {[payment |-> paying[t], thread |-> t, nul |-> payer[t],
                   exp |-> now + Ttl]}
            /\ Return(t, 200)
       ELSE Return(t, 0) /\ UNCHANGED tokens
  /\ UNCHANGED <<payer, spent, now, faults>>

Tick ==
  /\ now < MaxTime /\ now' = now + 1
  /\ UNCHANGED <<stage, paying, payer, answer, spent, tokens, faults>>

-----------------------------------------------------------------------------

Init ==
  /\ stage = [t \in Threads |-> "idle"]
  /\ paying = [t \in Threads |-> NoPayment]
  /\ payer = [t \in Threads |-> FALSE]
  /\ answer = [t \in Threads |-> 0]
  /\ spent = {} /\ tokens = {} /\ now = 0 /\ faults = 0

Handle(t) ==
  \/ Unpaid(t) \/ \E p \in Payments : Present(t, p)
  \/ Verified(t) \/ NotVerified(t) \/ Settled(t) \/ NotSettled(t) \/ Mint(t)

Next == Tick \/ \E t \in Threads : Handle(t)

Spec == Init /\ [][Next]_vars

-----------------------------------------------------------------------------

TypeOK ==
  /\ stage \in [Threads -> Stages]
  /\ paying \in [Threads -> Payments \cup {NoPayment}]
  /\ payer \in [Threads -> BOOLEAN] /\ answer \in [Threads -> {0, 200, 402}]
  /\ spent \in SUBSET Payments /\ tokens \in SUBSET Token
  /\ now \in 0..MaxTime /\ faults \in 0..MaxFaults
  /\ \A t \in Threads : stage[t] = "idle" <=> paying[t] = NoPayment

\* A settled payment buys one token and no other payment buys any, however often
\* and however concurrently it is presented.
OneTokenPerPayment ==
  /\ \A k \in tokens : k.payment \in spent
  /\ \A j, k \in tokens : j.payment = k.payment => j = k

=============================================================================
