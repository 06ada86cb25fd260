----------------------------- MODULE SpaceSale -----------------------------
(***************************************************************************)
(* Buying a space: the extension generates and saves an owner key, the      *)
(* buyer's wallet pays LortnocSpaces on Ethereum (background/buy.ts,        *)
(* LortnocSpaces.sol), the extension polls the relayer, and the relayer     *)
(* turns the purchase into an ENS name on Sepolia (relayer/space.mjs,       *)
(* SpaceRegistrar.sol).                                                     *)
(*                                                                          *)
(* An attempt is one call of buySpace.  Each generates a fresh owner key,   *)
(* so a key, a purchase transaction and an owner are named by the attempt.  *)
(* Ethereum may reorganise the blocks that are not final; a block is known  *)
(* by its height and by the fork it was mined in.  Only mainnet purchases   *)
(* are modelled: the extension sells nothing else (buy.ts:101).             *)
(***************************************************************************)
EXTENDS Integers, FiniteSets

CONSTANTS
  Attempts,       \* calls of buySpace
  Buyers, BuyerOf,  \* extension profiles, and whose call it is
  Labels, LabelOf,  \* space names, and what the call buys
  None,           \* no attempt
  EarlyCount,     \* spaces sold at the early-bird price
  Confirmations,  \* CONFIRMATIONS[MAINNET]
  Faults,         \* which of the faults below may happen
  MaxHead, MaxReorgs, MaxPolls, MaxFaults  \* bounds

ASSUME SpaceSaleAssumption ==
  /\ BuyerOf \in [Attempts -> Buyers] /\ LabelOf \in [Attempts -> Labels]
  /\ None \notin Attempts
  /\ EarlyCount \in Nat /\ Confirmations \in Nat \ {0}
  /\ Faults \subseteq {"ens", "answer", "worker", "rpc", "crash"}
  /\ MaxHead \in Nat /\ MaxReorgs \in Nat /\ MaxPolls \in Nat /\ MaxFaults \in Nat

VARIABLES
  \* the extension
  stage,     \* stage[a]: how far the call is
  seen,      \* seen[a]: the key map read by saveEnsKey
  saved,     \* saved[b][l]: the stored owner key of l in profile b
  early,     \* early[a]: the value sent is the early-bird price
  polls,     \* polls[a]: requests to the relayer
  \* Ethereum
  tx,        \* tx[a]: the purchase transaction
  height,    \* height[a]: its block, 0 when it is in none
  fork,      \* fork[a]: the fork that block belongs to
  head, forks,
  \* the relayer
  inFlight,  \* labels being issued
  job,       \* job[l]: the handler that holds l
  \* Sepolia
  claims,    \* claimSpaceFor transactions not mined yet
  holder,    \* holder[l]: owner of l in the SpaceRegistry
  faults

extension == <<stage, seen, saved, early, polls>>
ethereum == <<tx, height, fork, head, forks>>
relayer == <<inFlight, job>>
sepolia == <<claims, holder>>
vars == <<extension, ethereum, relayer, sepolia, faults>>

\* "dead" is a call whose service worker was stopped; "signing" one that was
\* stopped while the wallet's dialog is still open in the page.
Stages == {"idle", "reading", "keyed", "wallet", "polling", "asked",
           "done", "failed", "signing", "dead"}
NoJob == [stage |-> "idle", attempt |-> None, height |-> 0, fork |-> 0]
Job == [stage : {"idle", "receipt", "confirm", "reread", "holder", "claim",
                 "sent", "mined", "reverted"},
        attempt : Attempts \cup {None}, height : 0 .. MaxHead, fork : 0 .. MaxReorgs]
Keys == [Labels -> Attempts \cup {None}]
NoKeys == [l \in Labels |-> None]

Fault(f) == f \in Faults /\ faults < MaxFaults /\ faults' = faults + 1

At(a, s) == stage[a] = s
GoTo(a, s) == stage' = [stage EXCEPT ![a] = s]

-----------------------------------------------------------------------------
(***************************************************************************)
(* LortnocSpaces on Ethereum.                                              *)
(***************************************************************************)

Sold == {a \in Attempts : tx[a] = "success"}
Taken(l) == \E a \in Sold : LabelOf[a] = l
EarlyBird == Cardinality(Sold) < EarlyCount

\* Blocks that may still be reorganised are less than Confirmations deep.
Final(a) == a \in Sold /\ head - height[a] + 1 >= Confirmations

\* Mutant: a label is sold to everyone who pays for it.
SellAgain(a) ==
  /\ tx[a] = "pool" /\ head < MaxHead
  /\ tx' = [tx EXCEPT ![a] = IF early[a] /\ ~EarlyBird THEN "reverted" ELSE "success"]
  /\ head' = head + 1
  /\ height' = [height EXCEPT ![a] = head + 1]
  /\ fork' = [fork EXCEPT ![a] = forks]
  /\ UNCHANGED <<extension, forks, relayer, sepolia, faults>>

\* buySpace: a taken label and a value below the current price revert.
MineBuy(a) ==
  /\ tx[a] = "pool" /\ head < MaxHead
  /\ tx' = [tx EXCEPT ![a] =
              IF Taken(LabelOf[a]) \/ (early[a] /\ ~EarlyBird) THEN "reverted" ELSE "success"]
  /\ head' = head + 1
  /\ height' = [height EXCEPT ![a] = head + 1]
  /\ fork' = [fork EXCEPT ![a] = forks]
  /\ UNCHANGED <<extension, forks, relayer, sepolia, faults>>

MineBlock ==
  /\ head < MaxHead /\ head' = head + 1
  /\ UNCHANGED <<extension, tx, height, fork, forks, relayer, sepolia, faults>>

\* The last k blocks are replaced by as many others.  A purchase in them is
\* in the new block of that height, or back in the mempool.
Reorg(k) ==
  LET out == {a \in Attempts : height[a] > head - k} IN
  /\ forks < MaxReorgs /\ k <= head
  /\ forks' = forks + 1
  /\ \E stay \in SUBSET (out \cap Sold) :
       /\ tx' = [a \in Attempts |-> IF a \in out \ stay THEN "pool" ELSE tx[a]]
       /\ height' = [a \in Attempts |-> IF a \in out \ stay THEN 0 ELSE height[a]]
       /\ fork' = [a \in Attempts |-> IF a \in stay THEN forks + 1 ELSE fork[a]]
  /\ UNCHANGED <<extension, head, relayer, sepolia, faults>>

-----------------------------------------------------------------------------
(***************************************************************************)
(* buySpace in the extension.                                              *)
(***************************************************************************)

\* The name is looked up in ENS before any money moves; a lookup that fails
\* counts as free.  Then saveEnsKey reads the stored keys.
CheckName(a) ==
  /\ At(a, "idle")
  /\ \/ holder[LabelOf[a]] = None /\ UNCHANGED faults
     \/ Fault("ens")
  /\ GoTo(a, "reading")
  /\ seen' = [seen EXCEPT ![a] = saved[BuyerOf[a]]]
  /\ UNCHANGED <<saved, early, polls, ethereum, relayer, sepolia>>

NameIsTaken(a) ==
  /\ At(a, "idle") /\ holder[LabelOf[a]] # None
  /\ GoTo(a, "failed")
  /\ UNCHANGED <<seen, saved, early, polls, ethereum, relayer, sepolia, faults>>

\* saveEnsKey writes the map it read, with the new key in it.
SaveKey(a) ==
  /\ At(a, "reading") /\ GoTo(a, "keyed")
  /\ saved' = [saved EXCEPT ![BuyerOf[a]] = [seen[a] EXCEPT ![LabelOf[a]] = a]]
  /\ seen' = [seen EXCEPT ![a] = NoKeys]
  /\ UNCHANGED <<early, polls, ethereum, relayer, sepolia, faults>>

\* spacePrice, or the recorded full price when it cannot be read.
Quote(a) ==
  /\ At(a, "keyed") /\ GoTo(a, "wallet")
  /\ \/ early' = [early EXCEPT ![a] = EarlyBird] /\ UNCHANGED faults
     \/ early' = [early EXCEPT ![a] = FALSE] /\ Fault("rpc")
  /\ UNCHANGED <<seen, saved, polls, ethereum, relayer, sepolia>>

\* The wallet sends the transaction; a stopped worker does not learn its hash.
WalletPays(a) ==
  /\ At(a, "wallet") \/ At(a, "signing")
  /\ GoTo(a, IF At(a, "wallet") THEN "polling" ELSE "dead")
  /\ tx' = [tx EXCEPT ![a] = "pool"]
  /\ UNCHANGED <<seen, saved, early, polls, height, fork, head, forks, relayer, sepolia, faults>>

WalletDeclines(a) ==
  /\ At(a, "wallet") /\ GoTo(a, "failed")
  /\ UNCHANGED <<seen, saved, early, polls, ethereum, relayer, sepolia, faults>>

\* POST /space.  A label that is in flight is refused at once, with an error
\* the extension does not retry.
Post(a) ==
  LET l == LabelOf[a] IN
  /\ At(a, "polling") /\ polls[a] < MaxPolls
  /\ polls' = [polls EXCEPT ![a] = @ + 1]
  /\ IF l \in inFlight
       THEN GoTo(a, "failed") /\ UNCHANGED relayer
       ELSE /\ GoTo(a, "asked")
            /\ inFlight' = inFlight \cup {l}
            /\ job' = [job EXCEPT ![l] = [NoJob EXCEPT !.stage = "receipt", !.attempt = a]]
  /\ UNCHANGED <<seen, saved, early, ethereum, sepolia, faults>>

\* Mutant: the loop never ends.
PollForever(a) ==
  /\ At(a, "polling") /\ polls[a] = MaxPolls
  /\ polls' = [polls EXCEPT ![a] = 0]
  /\ UNCHANGED <<stage, seen, saved, early, ethereum, relayer, sepolia, faults>>

GiveUp(a) ==
  /\ At(a, "polling") /\ polls[a] = MaxPolls
  /\ GoTo(a, "failed")
  /\ UNCHANGED <<seen, saved, early, polls, ethereum, relayer, sepolia, faults>>

\* The connection drops while the handler goes on: the extension asks again.
LoseAnswer(a) ==
  /\ At(a, "asked") /\ Fault("answer")
  /\ GoTo(a, "polling")
  /\ UNCHANGED <<seen, saved, early, polls, ethereum, relayer, sepolia>>

\* The browser stops the service worker, and every call in it.
StopWorker(b) ==
  /\ Fault("worker")
  /\ stage' = [a \in Attempts |->
       IF BuyerOf[a] # b \/ stage[a] \in {"idle", "done", "failed", "dead", "signing"}
         THEN stage[a]
         ELSE IF stage[a] = "wallet" THEN "signing" ELSE "dead"]
  /\ UNCHANGED <<seen, saved, early, polls, ethereum, relayer, sepolia>>

-----------------------------------------------------------------------------
(***************************************************************************)
(* handleSpace in the relayer: one handler per label, between its awaits.   *)
(***************************************************************************)

JobAt(l, s) == job[l].stage = s
Advance(l, s) == job' = [job EXCEPT ![l].stage = s] /\ UNCHANGED inFlight

\* The handler answers and its finally releases the label; a caller that
\* still waits goes to s.
Answer(l, s) ==
  LET a == job[l].attempt IN
  /\ job' = [job EXCEPT ![l] = NoJob]
  /\ inFlight' = inFlight \ {l}
  /\ stage' = IF At(a, "asked") THEN [stage EXCEPT ![a] = s] ELSE stage
  /\ UNCHANGED <<seen, saved, early, polls>>

ReadReceipt(l) ==
  LET a == job[l].attempt IN
  /\ JobAt(l, "receipt")
  /\ \/ /\ tx[a] = "success"
        /\ job' = [job EXCEPT ![l] = [@ EXCEPT !.stage = "confirm",
                     !.height = height[a], !.fork = fork[a]]]
        /\ UNCHANGED <<inFlight, extension>>
     \/ tx[a] = "reverted" /\ Answer(l, "failed")
     \/ tx[a] = "pool" /\ Answer(l, "polling")
  /\ UNCHANGED <<ethereum, sepolia, faults>>

\* Enough blocks on top of the one the receipt was in.
AwaitConfirmations(l) ==
  /\ JobAt(l, "confirm")
  /\ head - job[l].height + 1 >= Confirmations
  /\ Advance(l, "reread")
  /\ UNCHANGED <<extension, ethereum, sepolia, faults>>

\* confirmTimeoutMs: 425, which the extension retries.
ConfirmTimeout(l) ==
  /\ JobAt(l, "confirm")
  /\ head - job[l].height + 1 < Confirmations
  /\ Answer(l, "polling")
  /\ UNCHANGED <<ethereum, sepolia, faults>>

\* Mutant: the second receipt is not read.
TrustFirst(l) ==
  /\ JobAt(l, "reread") /\ Advance(l, "holder")
  /\ UNCHANGED <<extension, ethereum, sepolia, faults>>

\* The receipt is read again: it must be in the same block still.
Reread(l) ==
  LET a == job[l].attempt IN
  /\ JobAt(l, "reread")
  /\ IF tx[a] = "success" /\ height[a] = job[l].height /\ fork[a] = job[l].fork
       THEN Advance(l, "holder") /\ UNCHANGED extension
       ELSE Answer(l, "failed")
  /\ UNCHANGED <<ethereum, sepolia, faults>>

\* Already the buyer's: success.  Someone else's: refused.
ReadHolder(l) ==
  /\ JobAt(l, "holder")
  /\ CASE holder[l] = job[l].attempt -> Answer(l, "done")
       [] holder[l] = None -> Advance(l, "claim") /\ UNCHANGED extension
       [] OTHER -> Answer(l, "failed")
  /\ UNCHANGED <<ethereum, sepolia, faults>>

\* Mutant: the handler answers without waiting for the claim's receipt.
AnswerEarly(l) ==
  /\ JobAt(l, "claim") /\ Answer(l, "done")
  /\ claims' = claims \cup {[label |-> l, owner |-> job[l].attempt, awaited |-> FALSE]}
  /\ UNCHANGED <<ethereum, holder, faults>>

\* claimSpaceFor is simulated, then sent.
SendClaim(l) ==
  /\ JobAt(l, "claim")
  /\ IF holder[l] = None
       THEN /\ Advance(l, "sent") /\ UNCHANGED extension
            /\ claims' = claims \cup {[label |-> l, owner |-> job[l].attempt, awaited |-> TRUE]}
       ELSE Answer(l, "failed") /\ UNCHANGED claims
  /\ UNCHANGED <<ethereum, holder, faults>>

\* claimSpaceFor in the SpaceRegistrar reverts for a label that is owned.
MineClaim(c) ==
  LET won == holder[c.label] = None IN
  /\ c \in claims /\ claims' = claims \ {c}
  /\ holder' = IF won THEN [holder EXCEPT ![c.label] = c.owner] ELSE holder
  /\ IF c.awaited THEN Advance(c.label, IF won THEN "mined" ELSE "reverted")
                  ELSE UNCHANGED relayer
  /\ UNCHANGED <<extension, ethereum, faults>>

ClaimReceipt(l) ==
  /\ \/ JobAt(l, "mined") /\ Answer(l, "done")
     \/ JobAt(l, "reverted") /\ Answer(l, "failed")
  /\ UNCHANGED <<ethereum, sepolia, faults>>

\* The handler stops waiting for a claim that stays in the mempool.
Leave(ls) == {IF c.label \in ls THEN [c EXCEPT !.awaited = FALSE] ELSE c : c \in claims}

\* The wait for the claim's receipt times out: the error says "confirmed", so
\* the extension retries.
ClaimTimeout(l) ==
  /\ JobAt(l, "sent") /\ Fault("rpc")
  /\ Answer(l, "polling") /\ claims' = Leave({l})
  /\ UNCHANGED <<ethereum, holder>>

\* A chain call throws.  The purchase's receipt counts as not found, any
\* other call answers 500, which the extension does not retry; the second
\* receipt counts as reorganised.
CallFails(l) ==
  /\ job[l].stage \in {"receipt", "confirm", "reread", "holder", "claim"}
  /\ Fault("rpc")
  /\ Answer(l, IF JobAt(l, "receipt") THEN "polling" ELSE "failed")
  /\ UNCHANGED <<ethereum, sepolia>>

\* The relayer restarts: handlers and locks are gone, callers see an error
\* and ask again, transactions that were sent remain.
Crash ==
  /\ Fault("crash")
  /\ job' = [l \in Labels |-> NoJob] /\ inFlight' = {}
  /\ claims' = Leave(Labels)
  /\ stage' = [a \in Attempts |-> IF At(a, "asked") THEN "polling" ELSE stage[a]]
  /\ UNCHANGED <<seen, saved, early, polls, ethereum, holder>>

-----------------------------------------------------------------------------

Init ==
  /\ stage = [a \in Attempts |-> "idle"]
  /\ saved = [b \in Buyers |-> NoKeys]
  /\ seen = [a \in Attempts |-> NoKeys]
  /\ early = [a \in Attempts |-> FALSE]
  /\ polls = [a \in Attempts |-> 0]
  /\ tx = [a \in Attempts |-> "none"]
  /\ height = [a \in Attempts |-> 0] /\ fork = [a \in Attempts |-> 0]
  /\ head = 0 /\ forks = 0
  /\ inFlight = {} /\ job = [l \in Labels |-> NoJob]
  /\ claims = {} /\ holder = NoKeys
  /\ faults = 0

Buying(a) ==
  \/ CheckName(a) \/ NameIsTaken(a) \/ SaveKey(a) \/ Quote(a)
  \/ WalletPays(a) \/ WalletDeclines(a)
  \/ Post(a) \/ GiveUp(a) \/ LoseAnswer(a)

Handler(l) ==
  \/ ReadReceipt(l) \/ AwaitConfirmations(l) \/ ConfirmTimeout(l) \/ Reread(l)
  \/ ReadHolder(l) \/ SendClaim(l) \/ ClaimReceipt(l)
  \/ ClaimTimeout(l) \/ CallFails(l)

Next ==
  \/ \E a \in Attempts : Buying(a) \/ MineBuy(a)
  \/ MineBlock \/ \E k \in 1 .. Confirmations - 1 : Reorg(k)
  \/ \E b \in Buyers : StopWorker(b)
  \/ \E l \in Labels : Handler(l)
  \/ \E c \in claims : MineClaim(c)
  \/ Crash

Spec == Init /\ [][Next]_vars

\* The loop of buySpace, the handlers and the Sepolia blocks go on.
Fairness ==
  /\ \A a \in Attempts : WF_vars(Post(a) \/ GiveUp(a))
  /\ \A l \in Labels : WF_vars(Handler(l))
  /\ WF_vars(\E c \in claims : MineClaim(c))

FairSpec == Spec /\ Fairness

-----------------------------------------------------------------------------
(***************************************************************************)
(* Properties.                                                             *)
(***************************************************************************)

SpaceTypeOK ==
  /\ stage \in [Attempts -> Stages]
  /\ seen \in [Attempts -> Keys] /\ saved \in [Buyers -> Keys]
  /\ early \in [Attempts -> BOOLEAN] /\ polls \in [Attempts -> 0 .. MaxPolls]
  /\ tx \in [Attempts -> {"none", "pool", "success", "reverted"}]
  /\ height \in [Attempts -> 0 .. MaxHead] /\ fork \in [Attempts -> 0 .. MaxReorgs]
  /\ head \in 0 .. MaxHead /\ forks \in 0 .. MaxReorgs
  /\ inFlight \in SUBSET Labels /\ job \in [Labels -> Job]
  /\ claims \subseteq [label : Labels, owner : Attempts, awaited : BOOLEAN]
  /\ holder \in [Labels -> Attempts \cup {None}]
  /\ faults \in 0 .. MaxFaults

\* A space is owned only by the key that a purchase names that no
\* reorganisation can undo any more ("a purchase reorged out while we waited
\* is no purchase", space.mjs:129), so nobody else can still buy the name.
IssuedIsBought ==
  \A l \in Labels : holder[l] # None => Final(holder[l]) /\ LabelOf[holder[l]] = l

\* Whoever paid for a space for good is never refused it in favour of another
\* buyer ("First purchase wins; a label is never sold twice",
\* LortnocSpaces.sol:26; the 409 of space.mjs:170).
BuyerIsServed ==
  \A a \in Attempts : Final(a) => holder[LabelOf[a]] \in {None, a}

\* "x is yours" (home.ts:295) is shown to the buyer who owns the space.
DoneIsOwned == \A a \in Attempts : stage[a] = "done" => holder[LabelOf[a]] = a

\* Every paid call ends: the buyer is told that the space is theirs or that it
\* failed, unless the browser stops the worker (the 40 polls of buy.ts:155).
CallerIsTold ==
  \A a \in Attempts : stage[a] = "polling" ~> stage[a] \in {"done", "failed", "dead"}

\* The key a paid purchase names as owner is still stored: "generate the
\* space's EVM OWNER key and SAVE IT FIRST - if anything later fails, the key
\* that the purchase names as owner is not lost with the money" (buy.ts:3-5).
KeyIsKept == \A a \in Attempts : Final(a) => saved[BuyerOf[a]][LabelOf[a]] = a
=============================================================================
