---------------------------- MODULE CodecService ----------------------------
(***************************************************************************)
(* The codec as one process (codec/server.py): /encode behind its gate     *)
(* (CodecGate) and /membership, which sells the tokens the gate honours    *)
(* (Paywall).  They share the clock and the secret; a restart ends the     *)
(* requests of both, while tokens, which are signed and not stored, and    *)
(* settled payments survive it.                                            *)
(***************************************************************************)
EXTENDS Paywall, TLC

CONSTANTS
  Encoders,    \* handler threads that may serve /encode at once
  Names, NoHandle, Anon, NoToken, Idle, FreeLimit

VARIABLES counts, work, reply, enforce, paused, served

gateOnly == <<counts, work, reply, enforce, paused, served>>
shopOnly == <<stage, paying, payer, answer, spent, tokens, faults>>

Gate == INSTANCE CodecGate WITH Threads <- Encoders

\* CodecGate's assumptions of the constants it is given here.
ASSUME ServiceAssumption ==
  /\ IsFiniteSet(Encoders) /\ FreeLimit \in Nat /\ NoHandle \notin Names
  /\ Idle \notin Gate!Work /\ NoToken \notin Gate!Token

-----------------------------------------------------------------------------

\* What a client can present: nothing, or a token the shop has sold.
Presentable ==
  {NoToken} \cup {[exp |-> k.exp, nul |-> k.nul] : k \in tokens}

EncodeRequest(t) ==
  \E r \in [handle : Names \cup {NoHandle}, fast : BOOLEAN,
            token : Presentable] :
    Gate!Encode(t, r) /\ UNCHANGED shopOnly

OtherAnswer(t) ==
  /\ \/ Gate!RefusePaused(t) \/ Gate!BadRequest(t)
     \/ Gate!EncodeSucceeds(t) \/ Gate!EncodeFails(t)
  /\ UNCHANGED shopOnly

Sell(t) == Handle(t) /\ UNCHANGED gateOnly

\* Every request in progress dies with the process; nobody's payment is undone.
ServiceRestart ==
  /\ faults < MaxFaults /\ faults' = faults + 1
  /\ Gate!Restart
  /\ stage' = [t \in Threads |-> "idle"]
  /\ paying' = [t \in Threads |-> NoPayment]
  /\ payer' = [t \in Threads |-> FALSE]
  /\ answer' = [t \in Threads |-> 0]
  /\ UNCHANGED <<spent, tokens>>

ServiceInit == Init /\ Gate!Init

serviceVars == <<vars, gateOnly>>

ServiceNext ==
  \/ \E t \in Encoders : EncodeRequest(t) \/ OtherAnswer(t)
  \/ \E t \in Threads : Sell(t)
  \/ Tick /\ UNCHANGED gateOnly
  \/ ServiceRestart

ServiceSpec == ServiceInit /\ [][ServiceNext]_serviceVars

-----------------------------------------------------------------------------

ServiceTypeOK == TypeOK /\ Gate!TypeOK

\* What leaves the codec unpaid is what FreeQuota allows.
ImplementsQuota == Gate!ImplementsQuota

\* For TLC: no thread is told from another of its kind.
ServiceSymmetry == Permutations(Encoders) \cup Permutations(Threads)

=============================================================================
