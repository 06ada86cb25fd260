------------------------------ MODULE DemoPass ------------------------------
(***************************************************************************)
(* Demo passes: the relayer mints test passes for visitors at its own      *)
(* expense, within limits it keeps in memory, while the mints of a request *)
(* run one after another; the pass is an ERC-721 that anyone may mint,     *)
(* approve and transfer.                                                   *)
(***************************************************************************)
EXTENDS Integers, Sequences, FiniteSets, SequencesExt

CONSTANTS
  Visitors,    \* addresses that requests come from
  Holders,     \* accounts
  Zero,        \* address(0)
  PerRequest, PerIpHour, PerDay, \* the limits of demo.mjs
  Hour, Day,   \* their windows
  MaxRequests, \* bound: requests taken, over a behaviour
  MaxTick,     \* bound: time
  MaxPasses    \* bound: passes that people mint

ASSUME DemoAssumption == {PerRequest, PerIpHour, PerDay, Hour, Day, MaxTick} \subseteq Nat

\* A charge is one pass of a request: [ip, at, request, to].
VARIABLES
  perIp,   \* [visitor -> the charges in its list]
  day,     \* the passes charged since a start
  unsent,    \* the charges that requests at work still mint
  requests, \* taken so far
  mints,   \* the charges whose mint was sent since the last start of the relayer
  tick,
  owners, approvals, \* per token; token ids count from 1
  balances,
  operators, \* <<owner, operator>>
  vouched    \* per token, who owned it when the approval was given
minterVars == <<perIp, day, unsent, requests, mints, tick>>
passVars == <<owners, approvals, balances, operators, vouched>>
demoVars == <<minterVars, passVars>>

-----------------------------------------------------------------------------
(* The contract. *)
Tokens721 == DOMAIN owners

\* _mint, for whoever asks.
Minted(to) ==
  /\ to # Zero
  /\ owners' = Append(owners, to)
  /\ approvals' = Append(approvals, Zero) /\ vouched' = Append(vouched, Zero)
  /\ balances' = [balances EXCEPT ![to] = @ + 1]
  /\ UNCHANGED operators

Approve(by, to, id) ==
  /\ by = owners[id] \/ <<owners[id], by>> \in operators
  /\ approvals' = [approvals EXCEPT ![id] = to]
  /\ vouched' = [vouched EXCEPT ![id] = owners[id]]
  /\ UNCHANGED <<owners, balances, operators>>

SetApprovalForAll(by, operator, yes) ==
  /\ operators' = IF yes THEN operators \cup {<<by, operator>>} ELSE operators \ {<<by, operator>>}
  /\ UNCHANGED <<owners, balances, approvals, vouched>>

\* Mutant: the approval outlives the transfer.
MovesOnly(from, to, id) ==
  /\ owners' = [owners EXCEPT ![id] = to]
  /\ balances' = [[balances EXCEPT ![from] = @ - 1] EXCEPT ![to] = @ + 1]
  /\ UNCHANGED <<approvals, vouched, operators>>
Moves(from, to, id) ==
  /\ owners' = [owners EXCEPT ![id] = to]
  /\ balances' = [[balances EXCEPT ![from] = @ - 1] EXCEPT ![to] = @ + 1]
  /\ approvals' = [approvals EXCEPT ![id] = Zero]
  /\ vouched' = [vouched EXCEPT ![id] = Zero]
  /\ UNCHANGED operators

\* transferFrom; safeTransferFrom does the same, or reverts when the receiver
\* does not take the token.
TransferFrom(by, from, to, id) ==
  /\ owners[id] = from /\ to # Zero
  /\ by = from \/ <<from, by>> \in operators \/ approvals[id] = by
  /\ Moves(from, to, id)

PassNext ==
  /\ UNCHANGED minterVars
  /\ \/ \E a \in Holders : Len(owners) < MaxPasses /\ Minted(a)
     \/ \E a, b \in Holders, yes \in BOOLEAN : SetApprovalForAll(a, b, yes)
     \/ \E id \in Tokens721, a \in Holders :
          \/ \E b \in Holders \cup {Zero} : Approve(a, b, id)
          \/ \E b, c \in Holders : TransferFrom(a, b, c, id)

-----------------------------------------------------------------------------
(* The relayer. *)
HitsOf(ip) == {c \in perIp[ip] : tick - c.at < Hour}
Today == IF tick - day.start > Day THEN [start |-> tick, n |-> 0] ELSE day
Charges(ip, to) == {[ip |-> ip, at |-> tick, request |-> requests, to |-> a] : a \in to}

\* Mutant: the hits of this request replace the earlier ones.
ChargeAnew(ip, to) ==
  /\ perIp' = [perIp EXCEPT ![ip] = Charges(ip, to)]
  /\ day' = [Today EXCEPT !.n = @ + Cardinality(to)]
Charge(ip, to) ==
  /\ perIp' = [perIp EXCEPT ![ip] = HitsOf(ip) \cup Charges(ip, to)]
  /\ day' = [Today EXCEPT !.n = @ + Cardinality(to)]

\* A request: the list may name an account twice, and is measured before that
\* is noticed.  What is over a limit is refused, yet a new day has begun.
Request(ip, list) ==
  LET to == ToSet(list) IN
  /\ requests < MaxRequests /\ list # <<>> /\ Len(list) <= PerRequest
  /\ IF Cardinality(HitsOf(ip)) + Cardinality(to) > PerIpHour \/ Today.n + Cardinality(to) > PerDay
     THEN day' = Today /\ UNCHANGED <<perIp, unsent, requests>>
     ELSE Charge(ip, to) /\ requests' = requests + 1 /\ unsent' = unsent \cup Charges(ip, to)
  /\ UNCHANGED <<mints, tick, passVars>>

\* The next mint of a request, in the order its list happens to have: it is
\* sent, or fails (the node refuses it, or two requests have picked one nonce);
\* its answer may be lost although it was sent.
MintOne(c) ==
  /\ unsent' = unsent \ {c}
  /\ \/ Minted(c.to) /\ mints' = mints \cup {c}
     \/ UNCHANGED <<mints, passVars>>
  /\ UNCHANGED <<perIp, day, requests, tick>>

\* The relayer starts anew: what it counted was in memory.
RelayerRestarts ==
  /\ perIp' = [ip \in Visitors |-> {}] /\ day' = [start |-> tick, n |-> 0]
  /\ unsent' = {} /\ mints' = {}
  /\ UNCHANGED <<requests, tick, passVars>>

TickPasses == tick < MaxTick /\ tick' = tick + 1 /\ UNCHANGED <<perIp, day, unsent, requests, mints, passVars>>

MinterNext ==
  \/ \E ip \in Visitors, list \in BoundedSeq(Holders, PerRequest + 1) : Request(ip, list)
  \/ \E c \in unsent : MintOne(c)
  \/ RelayerRestarts \/ TickPasses

DemoInit ==
  /\ perIp = [ip \in Visitors |-> {}] /\ day = [start |-> 0, n |-> 0] /\ unsent = {} /\ requests = 0
  /\ mints = {} /\ tick = 0
  /\ owners = <<>> /\ approvals = <<>> /\ vouched = <<>> /\ operators = {}
  /\ balances = [a \in Holders |-> 0]

-----------------------------------------------------------------------------
\* Between two restarts no visitor gets more mints charged to an hour than the
\* limit, in whichever hour one looks, and no day in the relayer's count gets
\* more than its limit: with several requests at work, mints that fail and lists
\* with repetitions.
HourHolds ==
  \A ip \in Visitors, t \in 0..MaxTick :
    Cardinality({c \in mints : c.ip = ip /\ c.at \in t..(t + Hour - 1)}) <= PerIpHour
DayHolds == Cardinality({c \in mints : c.at >= day.start}) <= PerDay

\* A balance is the number of tokens owned, which is what a holders-only space
\* reads, and an approval was given by (or for) the one who owns the token now.
BalanceIsCount == \A a \in Holders : balances[a] = Cardinality({id \in Tokens721 : owners[id] = a})
ApprovalIsOwners == \A id \in Tokens721 : approvals[id] # Zero => vouched[id] = owners[id]
=============================================================================
