----------------------------- MODULE Membership -----------------------------
(***************************************************************************)
(* Becoming a member in the app: bring money to 0G through a bridge, pay   *)
(* the fee, and find out that it arrived, over a network whose receipts    *)
(* are late and whose answers fail, in a tab that may be closed at any     *)
(* step.  Step names are those of Membership.tsx.                          *)
(***************************************************************************)
EXTENDS Integers, Sequences, FiniteSets

CONSTANTS
  Prices,      \* what the fee may be
  Gas,         \* what a transaction on 0G costs
  StartFunds,  \* what the wallet may hold on 0G at first
  SourceFunds, \* and on the chain it bridges from
  Probe,       \* the nominal amount that is quoted first
  Slip,        \* of 100: what a bridge may deliver of its quote, at least
  MaxPays, MaxBridges, MaxPrices \* bounds: payments and bridges sent, changes of the fee

ASSUME MemberAssumption ==
  /\ Prices \subseteq Nat \ {0} /\ StartFunds \subseteq Nat /\ SourceFunds \subseteq Nat
  /\ {Gas, Probe, MaxPays, MaxBridges, MaxPrices} \subseteq Nat /\ Slip \in 0..100

VARIABLES
  price, joined, \* the contract
  funds, abroad, \* the wallet's money on 0G and where it bridges from
  chain,         \* the network the wallet is on
  pays,          \* payments sent: [value, state]
  bridges,       \* bridges sent: [amount, state]
  paid,          \* fees the treasury received
  repriced,      \* changes of the fee
  tab            \* the open tab
memberVars == <<price, joined, funds, abroad, chain, pays, bridges, paid, repriced, tab>>
world == <<price, joined, funds, abroad, pays, bridges, paid, repriced>>

\* step is what is shown, at the await the tab is in, balance and cost as it
\* has read them, mine the payment or bridge it waits for, err what it told;
\* ready is TRUE after a bridge that completed, until money or fee move again.
NoTab == [step |-> "closed", at |-> "rest", balance |-> 0, cost |-> 0, mine |-> 0, err |-> "none",
          bridged |-> FALSE, ready |-> FALSE]
\* Each step has its button once nothing is under way.
Offers(step) == tab.step = step /\ tab.at = "rest"
Rests(step, err) == [tab EXCEPT !.step = step, !.at = "rest", !.err = err]

-----------------------------------------------------------------------------
(* App and refresh. *)

\* The app asks the contract for a member; when that fails nobody is locked out.
OpenApp ==
  /\ tab.step \in {"closed", "claim"}
  /\ tab' = [NoTab EXCEPT !.step = IF joined THEN "claim" ELSE "check", !.at = IF joined THEN "rest" ELSE "reads"]
  /\ UNCHANGED <<world, chain>>
OpenAppUnread ==
  /\ tab.step = "closed" /\ tab' = [NoTab EXCEPT !.step = "claim"] /\ UNCHANGED <<world, chain>>
Close == tab.step # "closed" /\ tab' = NoTab /\ UNCHANGED <<world, chain>>

\* Once refresh is over: bridge() goes on to "pay" whatever refresh found.
AfterRefresh(t, step) == IF t.bridged THEN [t EXCEPT !.step = "pay", !.at = "rest", !.bridged = FALSE]
                  ELSE [t EXCEPT !.step = step, !.at = "rest"]
ReadsBalance ==
  /\ tab.at = "reads"
  /\ \/ tab' = [tab EXCEPT !.at = "looks", !.balance = funds, !.cost = price]
     \/ tab' = AfterRefresh([tab EXCEPT !.err = "read"], tab.step)
  /\ UNCHANGED <<world, chain>>
\* Who has paid is let through; a read that fails counts as "no".
LooksMember ==
  /\ tab.at = "looks"
  /\ \/ joined /\ tab' = Rests("done", "none")
     \/ tab' = AfterRefresh(tab, IF tab.balance >= tab.cost THEN "pay" ELSE "bridge")
  /\ UNCHANGED <<world, chain>>

-----------------------------------------------------------------------------
(* bridge. *)
\* fundedSources: whether any chain that can be bridged from holds more than dust.
Funded == abroad > 0
\* A wallet that signing in has left on Sepolia is moved; one on 0G is not.
PressBridge ==
  /\ Offers("bridge")
  /\ IF chain = "0g" THEN tab' = Rests("bridge", "on 0G") /\ UNCHANGED chain
     ELSE IF chain = "sepolia" /\ ~Funded THEN tab' = Rests("bridge", "no ETH") /\ UNCHANGED chain
     ELSE tab' = [tab EXCEPT !.step = "bridging", !.at = "quotes", !.err = "none"] /\ chain' = "source"
  /\ UNCHANGED world

\* Mutant: just what is missing.
BareTarget(t) == t.cost - t.balance
\* The membership and headroom for two transactions.
Target(t) == ((t.cost - t.balance) * 145) \div 100
\* What to send for it, by the probe's rate of one to one, and 12 % more.
EthNeeded(want) == LET needed == (want * 112) \div 100 IN
                   IF needed > Probe \div 4 THEN needed ELSE Probe \div 4

\* What a route delivers of what is sent: as quoted, or less by the slippage.
Delivers(amount) == {amount, (amount * Slip) \div 100}

\* Quote and confirmation in the wallet, or no route, or a refusal.
SendsBridge ==
  /\ tab.at = "quotes"
  /\ LET amount == EthNeeded(Target(tab)) IN
     \/ /\ amount <= abroad /\ Len(bridges) < MaxBridges
        /\ abroad' = abroad - amount
        /\ bridges' = Append(bridges, [amount |-> amount, state |-> "pending"])
        /\ tab' = [tab EXCEPT !.at = "waits", !.mine = Len(bridges) + 1]
     \/ tab' = Rests("bridge", "refused") /\ UNCHANGED <<abroad, bridges>>
  /\ UNCHANGED <<price, joined, funds, chain, pays, paid, repriced>>

\* waitForBridge: five minutes without an end count as an end too.
WaitsBridge ==
  /\ tab.at = "waits"
  /\ \/ /\ bridges[tab.mine].state = "failed" /\ tab' = Rests("bridge", "bridge failed")
     \/ /\ bridges[tab.mine].state \in {"done", "pending"}
        /\ tab' = [tab EXCEPT !.at = "reads", !.err = "none", !.bridged = TRUE,
                              !.ready = bridges[tab.mine].state = "done" /\ price = tab.cost /\ pays = <<>>]
  /\ UNCHANGED <<world, chain>>

-----------------------------------------------------------------------------
(* pay: join and confirmJoin. *)
SwitchTo0G == chain' = "0g"
PressPay ==
  /\ Offers("pay")
  /\ \/ tab' = [tab EXCEPT !.step = "paying", !.at = "joins", !.err = "none"] /\ SwitchTo0G
     \/ tab' = Rests("pay", "refused") /\ UNCHANGED chain
  /\ UNCHANGED world

\* Never charge twice; a read that fails ends the attempt.
JoinLooks ==
  /\ tab.at = "joins"
  /\ tab' \in {IF joined THEN Rests("done", "none") ELSE [tab EXCEPT !.at = "prices"], Rests("pay", "read")}
  /\ UNCHANGED <<world, chain>>

\* Fee and balance are read anew; then the wallet signs or does not.
JoinSends ==
  /\ tab.at = "prices"
  /\ \/ /\ funds >= price + Gas /\ Len(pays) < MaxPays
        /\ pays' = Append(pays, [value |-> price, state |-> "pending"])
        /\ tab' = [tab EXCEPT !.at = "confirms", !.mine = Len(pays) + 1, !.ready = FALSE]
     \/ tab' = Rests("pay", IF funds < price THEN "not enough" ELSE "refused") /\ UNCHANGED pays
  /\ UNCHANGED <<price, joined, funds, abroad, chain, bridges, paid, repriced>>

\* Mutant: a receipt that is missing is an error.
ConfirmsByReceipt ==
  /\ tab.at = "confirms"
  /\ tab' = IF joined THEN Rests("done", "none") ELSE Rests("pay", "reverted")
  /\ UNCHANGED <<world, chain>>
\* Mutant: after five minutes the payment counts as made.
ConfirmsInTime ==
  /\ tab.at = "confirms"
  /\ tab' = Rests("done", "none")
  /\ UNCHANGED <<world, chain>>
\* The contract's set decides; a revert that is seen ends the wait, unless an
\* earlier payment has arrived; and so does the time limit.
Confirms ==
  /\ tab.at = "confirms"
  /\ \/ joined /\ tab' = Rests("done", "none")
     \/ pays[tab.mine].state = "reverted" /\ ~joined /\ tab' = Rests("pay", "reverted")
     \/ tab' = Rests("pay", "unconfirmed")
  /\ UNCHANGED <<world, chain>>

-----------------------------------------------------------------------------
(* The networks and the contract. *)

\* join: Underpaid, AlreadyJoined.
Joins(n) == pays[n].value >= price /\ ~joined
Mine(n) ==
  /\ pays[n].state = "pending" /\ funds >= pays[n].value + Gas
  /\ pays' = [pays EXCEPT ![n].state = IF Joins(n) THEN "mined" ELSE "reverted"]
  /\ joined' = (joined \/ Joins(n))
  /\ funds' = funds - Gas - (IF Joins(n) THEN pays[n].value ELSE 0)
  /\ paid' = paid + (IF Joins(n) THEN pays[n].value ELSE 0)
  /\ UNCHANGED <<price, abroad, chain, bridges, repriced, tab>>
Drop(n) ==
  /\ pays[n].state = "pending" /\ pays' = [pays EXCEPT ![n].state = "dropped"]
  /\ UNCHANGED <<price, joined, funds, abroad, chain, bridges, paid, repriced, tab>>

Credit(n) ==
  /\ bridges[n].state = "pending"
  /\ \E got \in Delivers(bridges[n].amount) :
       funds' = funds + got
  /\ bridges' = [bridges EXCEPT ![n].state = "done"]
  /\ UNCHANGED <<price, joined, abroad, chain, pays, paid, repriced, tab>>
Refund(n) ==
  /\ bridges[n].state = "pending" /\ bridges' = [bridges EXCEPT ![n].state = "failed"]
  /\ abroad' = abroad + bridges[n].amount
  /\ UNCHANGED <<price, joined, funds, chain, pays, paid, repriced, tab>>

SetPrice(p) ==
  /\ p # price /\ repriced < MaxPrices /\ price' = p /\ repriced' = repriced + 1
  /\ tab' = [tab EXCEPT !.ready = FALSE]
  /\ UNCHANGED <<joined, funds, abroad, chain, pays, bridges, paid>>
SwitchChain ==
  /\ chain # "source" /\ chain' = "source" /\ tab.at = "rest" /\ UNCHANGED <<world, tab>>

MemberNext ==
  \/ OpenApp \/ OpenAppUnread \/ Close \/ ReadsBalance \/ LooksMember
  \/ PressBridge \/ SendsBridge \/ WaitsBridge
  \/ PressPay \/ JoinLooks \/ JoinSends \/ Confirms
  \/ \E n \in DOMAIN pays : Mine(n) \/ Drop(n)
  \/ \E n \in DOMAIN bridges : Credit(n) \/ Refund(n)
  \/ \E p \in Prices : SetPrice(p)
  \/ SwitchChain

MemberInit ==
  /\ price \in Prices /\ funds \in StartFunds /\ abroad \in SourceFunds
  /\ joined = FALSE /\ chain = "sepolia" /\ pays = <<>> /\ bridges = <<>>
  /\ paid = 0 /\ repriced = 0 /\ tab = NoTab

MemberSpec == MemberInit /\ [][MemberNext]_memberVars

-----------------------------------------------------------------------------
\* One fee at most leaves the wallet, and exactly when it makes a member, however
\* often the person pays, reloads or is told that nothing has arrived.
OneFee == paid \in Prices \cup {0} /\ (joined <=> paid # 0)

\* The app says "you are a member" only of a member, and "reverted" only of a
\* payment that was: not of one that is late.
DoneIsMember == tab.step = "done" => joined
RevertIsReal == tab.err = "reverted" => pays[tab.mine].state = "reverted"

\* A bridge that completed brought enough for the fee it was asked for and the
\* gas, for whatever the wallet held and what the bridge lost on the way.
BridgedIsEnough == tab.step = "pay" /\ tab.at = "rest" /\ tab.ready => funds >= price + Gas
=============================================================================
